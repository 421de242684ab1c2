--------------------------- MODULE MC_SequenceNode ---------------------------
(* Small instances of SequenceNode for TLC. *)
EXTENDS SequenceNode

CONSTANTS a, b, f1, f2

\* A sequence may run the same program again, one right after the other: twice,
\* or so often that a number is used again at once.
TwiceB == <<a, b, b>>
ThriceB == <<a, b, b, b>>
=============================================================================
