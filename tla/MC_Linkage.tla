----------------------------- MODULE MC_Linkage -----------------------------
(* Two documents for TLC. *)
EXTENDS Linkage, TLC

Link(f, ffd, t, tfd) == [from |-> f, from_fd |-> ffd, to |-> t, to_fd |-> tfd]
External(x, n, fd) == [external |-> x, node |-> n, internal |-> fd]

(***************************************************************************)
(* 1 is the pipeline 3 | 2, where 2 is a launch node in turn, the pipeline *)
(* 4 | 5; the input of the whole is that of 3, the output that of 5.       *)
(* 10 is a socket node: its connection is the input of 11 and the output   *)
(* of 12, and 11 writes to 12 on the descriptor 6 of both.                 *)
(***************************************************************************)
TwoRoots == {1, 10}
AllLaunches == {1, 2, 10}
AllLeaves == {3, 4, 5, 11, 12}
DocDepth == [n \in AllLaunches \cup AllLeaves |->
              IF n \in TwoRoots THEN 0 ELSE IF n \in {4, 5} THEN 2 ELSE 1]
DocKids == 1 :> {2, 3} @@ 2 :> {4, 5} @@ 10 :> {11, 12}
DocLinks == 1 :> <<Link(3, 1, 2, 0)>> @@ 2 :> <<Link(4, 1, 5, 0)>> @@ 10 :> <<Link(11, 6, 12, 6)>>
DocExternals == 1 :> <<External(0, 3, 0), External(1, 2, 1)>>
             @@ 2 :> <<External(0, 4, 0), External(1, 5, 1)>>
             @@ 10 :> <<>>
DocSockets == 1 :> <<>> @@ 2 :> <<>> @@ 10 :> <<[node |-> 11, fd |-> 0], [node |-> 12, fd |-> 1]>>

InOut == {0, 1}
StdioTwo == {0, 1}

\* Neither document names a descriptor of a node twice, as WiredRight assumes.
ASSUME NamedOnce == OneSource
=============================================================================
