-------------------------- MODULE SocketNode_proofs --------------------------
(***************************************************************************)
(* Proofs about SocketNode, for any sockets and any bound on instances:    *)
(* types, whose instance is whose, where the accepting thread may block,   *)
(* and the promise of Node.                                                *)
(***************************************************************************)
EXTENDS SocketNode, FiniteSetTheorems, TLAPS

USE SocketAssumption

\* The instance of the thread exists as long as the thread, and the one that
\* the thread is about to launch is nobody's yet.
ThreadOwns ==
  /\ acc.op # "none" => acc.inst = accInst /\ accInst \in instances
  /\ acc.op = "launch" => acc.new \in instances \ launched /\ acc.new # accInst

\* Unless select() was interrupted, the sockets still to be looked at that are
\* in its set have a connection.
SetRead ==
  acc.numAccSock >= 0 =>
    /\ acc.op \in {"for", "accept", "start", "launch"} => acc.todo \cap acc.readSet \subseteq pending
    /\ acc.op = "accept" => acc.sock \in pending /\ acc.sock \notin acc.todo
    /\ acc.op = "while" => acc.readSet \subseteq pending

\* What the main thread knows at the points of its waits.
CallKnown ==
  /\ call.op \in {"waitFor", "first"} => call.all
  /\ call.op = "join" => call.inst = accInst

Inv == TypeOK /\ InstancesOwned /\ ThreadOwns /\ SetRead /\ CallKnown

-----------------------------------------------------------------------------
(* The invariant *)

LEMMA ZeroInst == 0 \in Inst
  BY DEF Inst

\* select() counts the sockets that are ready.
LEMMA PendingCount == ASSUME TypeOK PROVE Cardinality(pending) \in Nat
  BY FS_Subset, FS_CardinalityType DEF TypeOK

\* The records of a thread that does not exist and of no wait have their types.
LEMMA IdleTypes ==
  /\ NoThread \in [op : AccOps, inst : Inst \cup {NoInst}, numAccSock : Int, readSet : SUBSET Socks,
                   todo : SUBSET Socks, sock : Socks \cup {NoSock}, new : Inst \cup {NoInst}]
  /\ IdleCall \in [op : Waits \cup {"idle"}, inst : Inst \cup {NoInst}, all : BOOLEAN]
  BY DEF NoThread, IdleCall, AccOps, Waits

\* Changing the fields that select() sets keeps the type of the thread.
LEMMA SelectTypes ==
  ASSUME NEW R \in SUBSET Socks, NEW n \in Int, TypeOK
  PROVE  [acc EXCEPT !.op = "while", !.readSet = R, !.numAccSock = n]
           \in [op : AccOps, inst : Inst \cup {NoInst}, numAccSock : Int, readSet : SUBSET Socks,
                todo : SUBSET Socks, sock : Socks \cup {NoSock}, new : Inst \cup {NoInst}]
  BY DEF TypeOK, AccOps

LEMMA InvInit == Init => Inv
<1> SUFFICES ASSUME Init PROVE Inv
  OBVIOUS
<1>1. TypeOK
  BY IdleTypes DEF Init, TypeOK
<1>2. InstancesOwned /\ ThreadOwns /\ SetRead /\ CallKnown
  BY DEF Init, InstancesOwned, ThreadOwns, SetRead, CallKnown, NoThread, IdleCall
<1> QED
  BY <1>1, <1>2 DEF Inv

\* A client, or the exit or the end of a connection's instance.
LEMMA ConnectionKeeps ==
  ASSUME Inv,
         \/ \E s \in Socks : Connect(s)
         \/ \E i \in live : ConnectionExits(i)
         \/ \E i \in Inst : ConnectionEnds(i)
  PROVE  Inv'
<1> USE DEF Inv
<1>1. CASE \E s \in Socks : Connect(s)
  BY <1>1 DEF Connect, maps, TypeOK, InstancesOwned, ThreadOwns, SetRead, CallKnown
<1>2. CASE \E i \in live : ConnectionExits(i)
  BY <1>2 DEF ConnectionExits, sockets, TypeOK, InstancesOwned, ThreadOwns, SetRead, CallKnown
<1>3. CASE \E i \in Inst : ConnectionEnds(i)
  BY <1>3 DEF ConnectionEnds, sockets, TypeOK, InstancesOwned, ThreadOwns, SetRead, CallKnown
<1> QED
  BY <1>1, <1>2, <1>3

\* The accepting thread between two starts: the loop over the sockets.
LEMMA LoopKeeps ==
  ASSUME Inv, For \/ Accept \/ AcceptThrows \/ Select \/ SelectInterrupted \/ While
  PROVE  Inv'
<1> USE DEF Inv, AccAt, maps, sockets
<1>1. CASE For
  <2>1. CASE acc' = [acc EXCEPT !.op = "select", !.readSet = Socks]
    <3>1. TypeOK'
      BY <1>1, <2>1 DEF For, TypeOK, AccOps
    <3>2. InstancesOwned' /\ ThreadOwns' /\ SetRead' /\ CallKnown'
      BY <1>1, <2>1 DEF For, TypeOK, InstancesOwned, ThreadOwns, SetRead, CallKnown
    <3> QED
      BY <3>1, <3>2
  <2>2. ASSUME NEW s \in Socks, NEW later \in SUBSET Socks, NEW n \in Int,
               s \in acc.todo \cap acc.readSet, s \notin later, later \subseteq acc.todo,
               n = acc.numAccSock - 1,
               acc' = [acc EXCEPT !.op = "accept", !.sock = s, !.numAccSock = n, !.todo = later]
        PROVE  Inv'
    <3>1. TypeOK'
      BY <1>1, <2>2 DEF For, TypeOK, AccOps
    <3>2. InstancesOwned' /\ ThreadOwns' /\ CallKnown'
      BY <1>1, <2>2 DEF For, TypeOK, InstancesOwned, ThreadOwns, CallKnown
    <3>3. n >= 0 => acc.numAccSock >= 0
      BY <2>2 DEF TypeOK
    <3>4. SetRead'
      BY <1>1, <2>2, <3>3 DEF For, TypeOK, SetRead
    <3> QED
      BY <3>1, <3>2, <3>4
  <2>3. acc.todo \in SUBSET Socks /\ acc.numAccSock \in Int
    BY DEF TypeOK
  <2>4. CASE \E s \in Socks :
               /\ IsFirst(s, acc.todo \cap acc.readSet)
               /\ acc' = [acc EXCEPT !.op = "accept", !.sock = s, !.numAccSock = @ - 1,
                                     !.todo = {t \in acc.todo : t > s}]
    <3>1. PICK s \in Socks :
            /\ s \in acc.todo \cap acc.readSet
            /\ acc' = [acc EXCEPT !.op = "accept", !.sock = s, !.numAccSock = acc.numAccSock - 1,
                                  !.todo = {t \in acc.todo : t > s}]
      BY <2>4 DEF IsFirst
    <3>2. s \notin {t \in acc.todo : t > s} /\ {t \in acc.todo : t > s} \subseteq acc.todo
      BY <2>3
    <3>3. acc.numAccSock - 1 \in Int /\ {t \in acc.todo : t > s} \in SUBSET Socks
      BY <2>3
    <3> QED
      BY <2>2, <3>1, <3>2, <3>3
  <2> QED
    BY <1>1, <2>1, <2>4 DEF For
<1>2. CASE Accept
  BY <1>2 DEF Accept, TypeOK, AccOps, InstancesOwned, ThreadOwns, SetRead, CallKnown
<1>3. CASE AcceptThrows
  BY <1>3 DEF AcceptThrows, TypeOK, InstancesOwned, ThreadOwns, SetRead, CallKnown
<1>4. CASE Select
  <2>1. PICK n \in Nat : acc' = [acc EXCEPT !.op = "while", !.readSet = pending, !.numAccSock = n]
    BY <1>4, PendingCount DEF Select
  <2>2. TypeOK'
    <3>1. pending \in SUBSET Socks /\ n \in Int
      BY DEF TypeOK
    <3>2. [acc EXCEPT !.op = "while", !.readSet = pending, !.numAccSock = n]
            \in [op : AccOps, inst : Inst \cup {NoInst}, numAccSock : Int, readSet : SUBSET Socks,
                 todo : SUBSET Socks, sock : Socks \cup {NoSock}, new : Inst \cup {NoInst}]
      BY <3>1, SelectTypes
    <3> QED
      BY <1>4, <2>1, <3>2 DEF Select, TypeOK
  <2>3. InstancesOwned' /\ ThreadOwns' /\ SetRead' /\ CallKnown'
    BY <1>4, <2>1 DEF Select, TypeOK, InstancesOwned, ThreadOwns, SetRead, CallKnown
  <2> QED
    BY <2>2, <2>3
<1>5. CASE SelectInterrupted
  <2>1. TypeOK'
    <3>1. acc' = [acc EXCEPT !.op = "while", !.readSet = acc.readSet, !.numAccSock = -1]
      BY <1>5 DEF SelectInterrupted, TypeOK
    <3>2. acc.readSet \in SUBSET Socks /\ -1 \in Int
      BY DEF TypeOK
    <3>3. [acc EXCEPT !.op = "while", !.readSet = acc.readSet, !.numAccSock = -1]
            \in [op : AccOps, inst : Inst \cup {NoInst}, numAccSock : Int, readSet : SUBSET Socks,
                 todo : SUBSET Socks, sock : Socks \cup {NoSock}, new : Inst \cup {NoInst}]
      BY <3>2, SelectTypes
    <3> QED
      BY <1>5, <3>1, <3>3 DEF SelectInterrupted, TypeOK
  <2>2. InstancesOwned' /\ ThreadOwns' /\ SetRead' /\ CallKnown'
    BY <1>5 DEF SelectInterrupted, TypeOK, InstancesOwned, ThreadOwns, SetRead, CallKnown
  <2> QED
    BY <2>1, <2>2
<1>6. CASE While
  <2>1. PICK op \in {"for", "finish"}, todo \in SUBSET Socks :
          acc.op = "while" /\ acc' = [acc EXCEPT !.op = op, !.todo = todo]
    <3>1. acc.op = "while" /\ acc' = IF keep THEN Round(acc) ELSE [acc EXCEPT !.op = "finish"]
      BY <1>6 DEF While
    <3>2. CASE keep
      BY <3>1, <3>2 DEF Round
    <3>3. CASE ~keep
      <4>1. acc' = [acc EXCEPT !.op = "finish", !.todo = acc.todo] /\ acc.todo \in SUBSET Socks
        BY <3>1, <3>3 DEF TypeOK
      <4> QED
        BY <3>1, <4>1
    <3> QED
      BY <3>2, <3>3
  <2>2. /\ acc' \in [op : AccOps, inst : Inst \cup {NoInst}, numAccSock : Int, readSet : SUBSET Socks,
                     todo : SUBSET Socks, sock : Socks \cup {NoSock}, new : Inst \cup {NoInst}]
        /\ acc'.op = op /\ acc'.inst = acc.inst
        /\ acc'.readSet = acc.readSet /\ acc'.numAccSock = acc.numAccSock
    BY <2>1 DEF TypeOK, AccOps
  <2>3. UNCHANGED <<instances, accInst, launched, live, listening, pending, keep, call, crashed>>
    BY <1>6 DEF While
  <2>4. TypeOK'
    BY <2>2, <2>3 DEF TypeOK
  <2>5. InstancesOwned' /\ ThreadOwns' /\ CallKnown'
    BY <2>1, <2>2, <2>3 DEF InstancesOwned, ThreadOwns, CallKnown
  <2>6. SetRead'
    BY <2>1, <2>2, <2>3 DEF SetRead
  <2> QED
    BY <2>4, <2>5, <2>6
<1> QED
  BY <1>1, <1>2, <1>3, <1>4, <1>5, <1>6

\* The instances that the accepting thread makes, and the end of its own.
LEMMA ThreadKeeps ==
  ASSUME Inv, StartConnection \/ LaunchConnection \/ Finish
  PROVE  Inv'
<1> USE DEF Inv, AccAt, sockets
<1>1. CASE StartConnection
  <2>1. PICK i \in Inst : /\ i \notin instances
                          /\ instances' = instances \cup {i}
                          /\ acc' = [acc EXCEPT !.op = "launch", !.new = i]
    BY <1>1 DEF StartConnection, IsNextInst
  <2> QED
    BY <1>1, <2>1 DEF StartConnection, TypeOK, AccOps, InstancesOwned, ThreadOwns, SetRead, CallKnown
<1>2. CASE LaunchConnection
  BY <1>2 DEF LaunchConnection, TypeOK, AccOps, InstancesOwned, ThreadOwns, SetRead, CallKnown
<1>3. CASE Finish
  BY <1>3 DEF Finish, NoThread, TypeOK, AccOps, InstancesOwned, ThreadOwns, SetRead, CallKnown,
    NoInst, NoSock
<1> QED
  BY <1>1, <1>2, <1>3

\* startup() and the waits of the main thread.
LEMMA MainKeeps ==
  ASSUME Inv, Startup \/ CallWait \/ WaitFor \/ WaitForInstance \/ Join \/ ConnectionReturns
                \/ ConnectionFindsNone
  PROVE  Inv'
<1> USE DEF Inv, CallAt, maps, sockets
<1>1. CASE Startup
  <2>1. acc' = [NoThread EXCEPT !.inst = 0, !.op = "for", !.todo = Socks]
    BY <1>1 DEF Startup, Round, NoThread
  <2>2. TypeOK'
    BY <1>1, <2>1, ZeroInst, IdleTypes DEF Startup, PrepareAccept, TypeOK, AccOps
  <2>3. InstancesOwned' /\ ThreadOwns' /\ SetRead' /\ CallKnown'
    BY <1>1, <2>1 DEF Startup, NoThread, TypeOK, InstancesOwned, ThreadOwns, SetRead, CallKnown
  <2> QED
    BY <2>2, <2>3
<1>2. CASE CallWait
  <2>1. TypeOK'
    BY <1>2, IdleTypes DEF CallWait, TypeOK, Waits
  <2>2. InstancesOwned' /\ ThreadOwns' /\ SetRead' /\ CallKnown'
    BY <1>2 DEF CallWait, IdleCall, InstancesOwned, ThreadOwns, SetRead, CallKnown
  <2> QED
    BY <2>1, <2>2
<1>3. CASE WaitFor
  <2>1. TypeOK'
    <3>1. \/ call' = IdleCall
          \/ call' = [call EXCEPT !.op = "first"]
          \/ \E i \in Inst : call' = [call EXCEPT !.op = "wait", !.inst = i]
      BY <1>3 DEF WaitFor
    <3>2. call' \in [op : Waits \cup {"idle"}, inst : Inst \cup {NoInst}, all : BOOLEAN]
      BY <3>1, IdleTypes DEF TypeOK, Waits
    <3> QED
      BY <1>3, <3>2 DEF WaitFor, TypeOK
  <2>2. InstancesOwned' /\ ThreadOwns' /\ SetRead'
    BY <1>3 DEF WaitFor, InstancesOwned, ThreadOwns, SetRead
  <2>3. CASE CallAt("waitFor") /\ call' = IF instances = {} THEN IdleCall ELSE [call EXCEPT !.op = "first"]
    <3>1. call'.op \in {"idle", "first"} /\ (call'.op = "first" => call'.all)
      BY <2>3 DEF IdleCall, TypeOK, CallKnown
    <3> QED
      BY <2>1, <2>2, <3>1 DEF CallKnown
  <2>4. CASE CallAt("first") /\ \E i \in Inst : call' = [call EXCEPT !.op = "wait", !.inst = i]
    <3>1. call'.op = "wait"
      BY <2>4 DEF TypeOK
    <3> QED
      BY <2>1, <2>2, <3>1 DEF CallKnown
  <2> QED
    BY <1>3, <2>3, <2>4 DEF WaitFor
<1>4. CASE WaitForInstance
  BY <1>4 DEF WaitForInstance, TypeOK, Waits, InstancesOwned, ThreadOwns, SetRead, CallKnown
<1>5. CASE Join \/ ConnectionReturns
  <2>1. call' = IdleCall \/ call' = [IdleCall EXCEPT !.op = "waitFor", !.all = TRUE]
    BY <1>5 DEF Join, ConnectionReturns, Returned
  <2>2. TypeOK'
    BY <1>5, <2>1, IdleTypes DEF Join, ConnectionReturns, TypeOK, Waits
  <2>3. InstancesOwned' /\ ThreadOwns' /\ SetRead'
    BY <1>5 DEF Join, ConnectionReturns, InstancesOwned, ThreadOwns, SetRead
  <2>4. CASE call' = IdleCall
    <3>1. call'.op = "idle"
      BY <2>4 DEF IdleCall
    <3> QED
      BY <2>2, <2>3, <3>1 DEF CallKnown
  <2>5. CASE call' = [IdleCall EXCEPT !.op = "waitFor", !.all = TRUE]
    <3>1. call'.op = "waitFor" /\ call'.all = TRUE
      BY <2>5 DEF IdleCall
    <3> QED
      BY <2>2, <2>3, <3>1 DEF CallKnown
  <2> QED
    BY <2>1, <2>4, <2>5
<1>6. CASE ConnectionFindsNone
  BY <1>6 DEF ConnectionFindsNone, TypeOK, InstancesOwned, ThreadOwns, SetRead, CallKnown
<1> QED
  BY <1>1, <1>2, <1>3, <1>4, <1>5, <1>6

LEMMA InvStep == Inv /\ [Next]_vars => Inv'
<1> SUFFICES ASSUME Inv, [Next]_vars PROVE Inv'
  OBVIOUS
<1>1. CASE \/ \E s \in Socks : Connect(s)
           \/ \E i \in live : ConnectionExits(i)
           \/ \E i \in launched : ConnectionEnds(i)
  BY <1>1, ConnectionKeeps DEF Inv, TypeOK
<1>2. CASE Acceptor
  BY <1>2, LoopKeeps, ThreadKeeps DEF Acceptor
<1>3. CASE Startup \/ CallWait \/ Main
  <2>1. call.inst \in Inst \cup {NoInst} /\ launched \subseteq Inst
    BY DEF Inv, TypeOK
  <2>2. ConnectionReaped => \E i \in Inst : ConnectionEnds(i)
    BY <2>1 DEF ConnectionReaped, ConnectionEnds
  <2> QED
    BY <1>3, <2>2, MainKeeps, ConnectionKeeps DEF Main
<1>4. CASE Stopped \/ UNCHANGED vars
  <2>1. UNCHANGED <<instances, launched, live, listening, pending, keep, accInst, acc, call, crashed>>
    BY <1>4 DEF Stopped, vars, maps, sockets
  <2>2. TypeOK'
    BY <2>1 DEF Inv, TypeOK
  <2>3. InstancesOwned' /\ ThreadOwns'
    BY <2>1 DEF Inv, InstancesOwned, ThreadOwns
  <2>4. SetRead' /\ CallKnown'
    BY <2>1 DEF Inv, SetRead, CallKnown
  <2> QED
    BY <2>2, <2>3, <2>4 DEF Inv
<1> QED
  BY <1>1, <1>2, <1>3, <1>4 DEF Next

LEMMA Invariant == Spec => []Inv
  BY InvInit, InvStep, PTL DEF Spec

\* The maps, the sockets, the accepting thread and the wait keep their types
\* (SocketNode.hxx:14-31).
THEOREM TypeCorrect == Spec => []TypeOK
  BY Invariant, PTL DEF Inv

\* accInst always names the accepting thread's instance and never a connection's
\* (SocketNode.cxx:107, 121).
THEOREM Owned == Spec => []InstancesOwned
  BY Invariant, PTL DEF Inv

\* Only after an interrupted select() does the accepting thread block in
\* accept4() (SocketNode.cxx:77-83, 100).
THEOREM AcceptsReady == Spec => []BlocksOnlyInterrupted
<1>1. Inv => BlocksOnlyInterrupted
  BY DEF Inv, SetRead, TypeOK, BlocksOnlyInterrupted, Blocked
<1> QED
  BY <1>1, Invariant, PTL

-----------------------------------------------------------------------------
(* The promise of Node *)

\* Steps between which no instance starts, ends or stops executing.
LEMMA LoopRefines ==
  ASSUME Inv, For \/ Accept \/ AcceptThrows \/ Select \/ SelectInterrupted \/ LaunchConnection
                \/ (While /\ keep)
  PROVE  UNCHANGED Contract!vars
<1>1. UNCHANGED <<instances, call>>
  BY DEF For, Accept, AcceptThrows, Select, SelectInterrupted, LaunchConnection, While, maps
<1>2. acc \in [op : AccOps, inst : Inst \cup {NoInst}, numAccSock : Int, readSet : SUBSET Socks,
               todo : SUBSET Socks, sock : Socks \cup {NoSock}, new : Inst \cup {NoInst}]
  BY DEF Inv, TypeOK
<1>3. Live' = Live
  BY <1>2 DEF For, Accept, AcceptThrows, Select, SelectInterrupted, LaunchConnection, While, Round,
    AccAt, maps, Live
<1> QED
  BY <1>1, <1>3 DEF Contract!vars, Waiting

\* A start of an instance of the socket node is a start in its contract.
LEMMA StartRefines ==
  ASSUME NEW i \in Inst, i \notin instances, instances' = instances \cup {i},
         Live' = Live \cup {i}, UNCHANGED Waiting
  PROVE  Contract!Start(Self, i)
<1>1. [n \in {Self} |-> instances]' = [[n \in {Self} |-> instances] EXCEPT ![Self] = @ \cup {i}]
  OBVIOUS
<1>2. [n \in {Self} |-> Live]' = [[n \in {Self} |-> Live] EXCEPT ![Self] = @ \cup {i}]
  <2> HIDE DEF Live
  <2> QED
    OBVIOUS
<1>3. i \notin [n \in {Self} |-> instances][Self]
  OBVIOUS
<1> QED
  BY <1>1, <1>2, <1>3 DEF Contract!Start

\* The instance of a connection starts, stops executing, and ends.
LEMMA ConnectionRefines ==
  ASSUME Inv,
         \/ StartConnection
         \/ \E i \in live : ConnectionExits(i)
         \/ \E i \in Inst : ConnectionEnds(i)
  PROVE  Contract!Next
<1> USE DEF Inv, TypeOK, Live, Waiting
<1>1. CASE StartConnection
  <2>1. PICK i \in Inst : /\ i \notin instances
                          /\ instances' = instances \cup {i}
                          /\ acc' = [acc EXCEPT !.op = "launch", !.new = i]
                          /\ acc.op = "start" /\ live' = live /\ call' = call
    BY <1>1 DEF StartConnection, IsNextInst, AccAt
  <2>2. Live' = Live \cup {i}
    BY <2>1
  <2>3. Contract!Start(Self, i)
    BY <2>1, <2>2, StartRefines
  <2> QED
    BY <2>3 DEF Contract!Next
<1>2. CASE \E i \in live : ConnectionExits(i)
  <2>1. PICK i \in live : ConnectionExits(i)
    BY <1>2
  <2>2. i \in Inst /\ ~(acc.op # "none" /\ i = acc.inst) /\ ~(acc.op = "launch" /\ i = acc.new)
    BY DEF ThreadOwns, InstancesOwned
  <2>3. Live' = Live \ {i}
    BY <2>1, <2>2 DEF ConnectionExits
  <2>4. Contract!Exit(Self, i)
    BY <2>1, <2>3 DEF ConnectionExits, Contract!Exit
  <2> QED
    BY <2>2, <2>4 DEF Contract!Next
<1>3. CASE \E i \in Inst : ConnectionEnds(i)
  <2>1. PICK i \in Inst : ConnectionEnds(i)
    BY <1>3
  <2>2. i \notin Live
    BY <2>1 DEF ConnectionEnds, ThreadOwns, InstancesOwned
  <2>3. Live' = Live
    BY <2>1 DEF ConnectionEnds
  <2>4. Contract!Complete(Self, i)
    BY <2>1, <2>2, <2>3 DEF ConnectionEnds, Contract!Complete
  <2> QED
    BY <2>4 DEF Contract!Next
<1> QED
  BY <1>1, <1>2, <1>3

\* The accepting instance starts, stops executing when its loop ends, and ends.
LEMMA AcceptingRefines ==
  ASSUME Inv, Startup \/ (While /\ ~keep) \/ Finish
  PROVE  Contract!Next
<1> USE DEF Inv, TypeOK, Live, Waiting, ThreadOwns, InstancesOwned
<1>1. CASE Startup
  <2>1. acc.op = "none" /\ live = {}
    BY <1>1 DEF Startup
  <2>2. Live = {} /\ Live' = Live \cup {0}
    BY <1>1, <2>1 DEF Startup, Round, NoThread, maps
  <2>3. UNCHANGED Waiting
    BY <1>1 DEF Startup
  <2>4. 0 \notin instances /\ instances' = instances \cup {0}
    BY <1>1 DEF Startup
  <2>5. Contract!Start(Self, 0)
    BY <2>2, <2>3, <2>4, ZeroInst, StartRefines
  <2> QED
    BY <2>5, ZeroInst DEF Contract!Next
<1>2. CASE While /\ ~keep
  <2>1. acc.op = "while" /\ acc' = [acc EXCEPT !.op = "finish"] /\ acc.inst \in Inst
    BY <1>2 DEF While, AccAt
  <2>2. acc.inst \in Live /\ Live' = Live \ {acc.inst}
    BY <1>2, <2>1 DEF While, maps
  <2>3. Contract!Exit(Self, acc.inst)
    BY <1>2, <2>2 DEF While, maps, Contract!Exit
  <2> QED
    BY <2>1, <2>3 DEF Contract!Next
<1>3. CASE Finish
  <2>1. acc.inst \in instances /\ acc.inst \notin Live /\ Live' = Live
    BY <1>3 DEF Finish, AccAt, NoThread
  <2>2. Contract!Complete(Self, acc.inst)
    BY <1>3, <2>1 DEF Finish, Contract!Complete
  <2> QED
    BY <2>1, <2>2 DEF Contract!Next
<1> QED
  BY <1>1, <1>2, <1>3

\* A wait begins, goes on, or returns.
LEMMA WaitRefines ==
  ASSUME Inv, CallWait \/ WaitFor \/ WaitForInstance \/ Join \/ ConnectionReturns \/ ConnectionFindsNone
  PROVE  Contract!Next \/ UNCHANGED Contract!vars
<1>1. UNCHANGED <<instances, acc, live>>
  BY DEF CallWait, WaitFor, WaitForInstance, Join, ConnectionReturns, ConnectionFindsNone, maps
<1>2. Live' = Live
  BY <1>1 DEF Live
<1>3. call \in [op : Waits \cup {"idle"}, inst : Inst \cup {NoInst}, all : BOOLEAN]
  BY DEF Inv, TypeOK
<1>4. CASE CallWait
  <2>1. Waiting = Contract!NotWaiting
    BY <1>4 DEF CallWait, CallAt, Waiting, Waits, Contract!NotWaiting, Contract!AllInst
  <2>2. \/ Waiting' = [node |-> Self, inst |-> -2]
        \/ \E i \in Inst : Waiting' = [node |-> Self, inst |-> i]
    BY <1>4 DEF CallWait, IdleCall, Waiting, Waits
  <2> QED
    BY <1>1, <1>2, <2>1, <2>2 DEF Contract!Next, Contract!BeginWait, Contract!AllInst
<1>5. CASE (WaitFor /\ ~(call.op = "waitFor" /\ instances = {})) \/ WaitForInstance \/ ConnectionFindsNone
  <2>1. Waiting' = Waiting
    BY <1>3, <1>5 DEF WaitFor, WaitForInstance, ConnectionFindsNone, CallAt, Waiting, Waits, Inv, CallKnown
  <2> QED
    BY <1>1, <1>2, <2>1 DEF Contract!vars
<1>6. CASE (Join \/ ConnectionReturns) /\ call.all
  <2>1. Waiting' = Waiting
    BY <1>3, <1>6 DEF Join, ConnectionReturns, Returned, IdleCall, CallAt, Waiting, Waits
  <2> QED
    BY <1>1, <1>2, <2>1 DEF Contract!vars
<1>7. CASE \/ WaitFor /\ call.op = "waitFor" /\ instances = {}
           \/ (Join \/ ConnectionReturns) /\ ~call.all
  <2>1. call' = IdleCall
    BY <1>7 DEF WaitFor, CallAt, Join, ConnectionReturns, Returned
  <2>2. Waiting' = Contract!NotWaiting
    BY <2>1 DEF IdleCall, Waiting, Waits, Contract!NotWaiting, Contract!AllInst
  <2>3. Waiting = [node |-> Self, inst |-> IF call.all THEN -2 ELSE call.inst]
    BY <1>7 DEF WaitFor, CallAt, Join, ConnectionReturns, Waiting, Waits
  <2>4. IF call.all THEN instances = {} ELSE call.inst \notin instances
    BY <1>7 DEF WaitFor, CallAt, Join, ConnectionReturns, Inv, CallKnown, InstancesOwned
  <2>5. call.inst # -2
    BY <1>3 DEF Inst, NoInst
  <2> QED
    BY <1>1, <1>2, <2>2, <2>3, <2>4, <2>5
    DEF Contract!Next, Contract!EndWait, Contract!NotWaiting, Contract!AllInst
<1> QED
  BY <1>4, <1>5, <1>6, <1>7

\* A socket node implements the contract of Node (Node.hxx:124, 131).
THEOREM KeepsContract == Spec => ImplementsContract
<1>1. Init => Contract!Init
  BY DEF Init, IdleCall, NoThread, Live, Waiting, Waits, Contract!Init, Contract!NotWaiting, Contract!AllInst
<1>2. ASSUME Inv, [Next]_vars PROVE [Contract!Next]_(Contract!vars)
  <2>1. CASE \E s \in Socks : Connect(s)
    BY <2>1 DEF Connect, maps, Live, Waiting, Contract!vars
  <2>2. CASE \/ \E i \in live : ConnectionExits(i)
             \/ \E i \in launched : ConnectionEnds(i)
    BY <1>2, <2>2, ConnectionRefines DEF Inv, TypeOK
  <2>3. CASE Acceptor
    BY <1>2, <2>3, LoopRefines, ConnectionRefines, AcceptingRefines DEF Acceptor
  <2>4. CASE Startup \/ CallWait \/ Main
    <3>1. ConnectionReaped => \E i \in Inst : ConnectionEnds(i)
      BY <1>2 DEF ConnectionReaped, ConnectionEnds, Inv, TypeOK
    <3> QED
      BY <1>2, <2>4, <3>1, ConnectionRefines, AcceptingRefines, WaitRefines DEF Main
  <2>5. CASE Stopped \/ UNCHANGED vars
    BY <2>5 DEF Stopped, vars, maps, Live, Waiting, Contract!vars
  <2> QED
    BY <1>2, <2>1, <2>2, <2>3, <2>4, <2>5 DEF Next
<1> QED
  BY <1>1, <1>2, Invariant, PTL DEF Spec, ImplementsContract, Contract!Spec
=============================================================================
