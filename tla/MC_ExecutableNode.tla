-------------------------- MODULE MC_ExecutableNode --------------------------
(* Small instances of ExecutableNode for TLC. *)
EXTENDS ExecutableNode

CONSTANTS n1, n2

TwoNodes == {n1, n2}
OneEarly == {n2}
ThreePids == 1 .. 3
FourPids == 1 .. 4
NoPids == {}
==============================================================================
