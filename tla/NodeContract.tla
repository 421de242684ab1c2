---------------------------- MODULE NodeContract ----------------------------
(***************************************************************************)
(* What the public interface of Node (include/Node.hxx) promises about     *)
(* instances, whatever the kind of node: an instance runs from startup()   *)
(* until it completes, it completes only when nothing of it executes any   *)
(* more, and waitForInstance() / waitFor() return only when what they wait *)
(* for has completed.  The modules of the node types are shown to          *)
(* implement this specification.                                           *)
(***************************************************************************)
EXTENDS Integers

CONSTANTS
  Nodes,    \* the nodes whose instances are observed
  Inst,     \* the instance numbers
  NoNode    \* nobody is waiting

AllInst == -2   \* waitFor(): every instance of the node

VARIABLES
  running,  \* running[n]: the instances of n that have not completed
  live,     \* live[n]: the instances of n of which something still executes
  waiting   \* the wait call in progress: [node, inst]

vars == <<running, live, waiting>>

NotWaiting == [node |-> NoNode, inst |-> AllInst]

Init ==
  /\ running = [n \in Nodes |-> {}]
  /\ live = [n \in Nodes |-> {}]
  /\ waiting = NotWaiting

\* startup(): an unused instance number, whose process now executes.
Start(n, i) ==
  /\ i \notin running[n]
  /\ running' = [running EXCEPT ![n] = @ \cup {i}]
  /\ live' = [live EXCEPT ![n] = @ \cup {i}]
  /\ UNCHANGED waiting

\* The last of the instance's processes exits.
Exit(n, i) ==
  /\ i \in live[n]
  /\ live' = [live EXCEPT ![n] = @ \ {i}]
  /\ UNCHANGED <<running, waiting>>

\* The instance is declared complete: only once nothing of it executes.
Complete(n, i) ==
  /\ i \in running[n] \ live[n]
  /\ running' = [running EXCEPT ![n] = @ \ {i}]
  /\ UNCHANGED <<live, waiting>>

BeginWait(n, i) ==
  /\ waiting = NotWaiting
  /\ waiting' = [node |-> n, inst |-> i]
  /\ UNCHANGED <<running, live>>

\* A wait returns only when what it waits for has completed.
EndWait ==
  /\ waiting # NotWaiting
  /\ IF waiting.inst = AllInst THEN running[waiting.node] = {}
                               ELSE waiting.inst \notin running[waiting.node]
  /\ waiting' = NotWaiting
  /\ UNCHANGED <<running, live>>

Next ==
  \/ \E n \in Nodes, i \in Inst :
       \/ Start(n, i)
       \/ Exit(n, i)
       \/ Complete(n, i)
       \/ BeginWait(n, i)
  \/ \E n \in Nodes : BeginWait(n, AllInst)
  \/ EndWait

Spec == Init /\ [][Next]_vars
=============================================================================
