----------------------------- MODULE SocketNode -----------------------------
(***************************************************************************)
(* SocketNode: a LaunchNode whose first instance is a thread that accepts  *)
(* connections and starts one more instance for each.  A wait for the      *)
(* accepting instance is what tells the thread to stop.  The instances of  *)
(* connections are those of LaunchNode, taken at what Node promises: one   *)
(* executes from its startInstance() until its processes have exited, and  *)
(* is then completed by the SIGCHLD handler or by the wait for it.         *)
(*                                                                         *)
(* Node has no locks: this is the node used as its test does, startup() is *)
(* called while nothing runs, and the operations on its maps are atomic.   *)
(***************************************************************************)
EXTENDS Integers, FiniteSets

CONSTANTS
  Self,    \* the socket node
  NoNode,  \* no node
  Socks,   \* the addresses listened on, in the order of `fds'
  MaxInst  \* bound: instances of the node, connections that queue included

Inst == 0 .. MaxInst - 1
NoInst == -1
NoSock == -1

ASSUME SocketAssumption ==
  /\ Socks \subseteq Nat /\ Socks # {} /\ IsFiniteSet(Socks)
  /\ MaxInst \in Nat \ {0}
  /\ NoNode # Self

VARIABLES
  instances, \* the keys of Node::instances
  launched,  \* the keys of LaunchNode::instances
  live,      \* the instances of connections whose processes execute
  listening, \* have the sockets been created?
  pending,   \* the sockets with a connection in their backlog (bound: one each)
  keep, accInst,
  acc,       \* the accepting thread
  call,      \* the wait of the main thread
  crashed    \* an exception has left the thread, or nothing was dereferenced

maps == <<instances, launched, live>>
sockets == <<listening, pending>>
vars == <<maps, sockets, keep, accInst, acc, call, crashed>>

NoThread == [op |-> "none", inst |-> NoInst, numAccSock |-> 0, readSet |-> {},
             todo |-> {}, sock |-> NoSock, new |-> NoInst]
IdleCall == [op |-> "idle", inst |-> NoInst, all |-> FALSE]

\* The constructor sets neither keep nor accInst.
Init ==
  /\ instances = {} /\ launched = {} /\ live = {}
  /\ listening = FALSE /\ pending = {}
  /\ keep \in BOOLEAN /\ accInst \in Inst \cup {NoInst}
  /\ acc = NoThread /\ call = IdleCall
  /\ crashed = FALSE

-----------------------------------------------------------------------------
(* Helpers *)

AccAt(op) == acc.op = op /\ ~crashed
CallAt(op) == call.op = op /\ ~crashed

IsNextInst(i) == i \notin instances /\ \A j \in 0 .. (i - 1) : j \in instances
IsFirst(s, S) == s \in S /\ \A t \in S : s <= t

\* Room for one more connection, within the bound.
Room ==
  Cardinality(instances) + Cardinality(pending) + (IF acc.op \in {"none", "start"} THEN 1 ELSE 0)
    < MaxInst

\* while(keep): one more round over the sockets.
Round(a) == [a EXCEPT !.op = "for", !.todo = Socks]

-----------------------------------------------------------------------------
(* The clients and the processes *)

Connect(s) ==
  /\ listening /\ s \notin pending /\ Room
  /\ pending' = pending \cup {s}
  /\ UNCHANGED <<maps, listening, keep, accInst, acc, call, crashed>>

ConnectionExits(i) ==
  /\ live' = live \ {i}
  /\ UNCHANGED <<instances, launched, sockets, keep, accInst, acc, call, crashed>>

\* Mutant: LaunchNode keeps the record.
ConnectionEnds_KeepsRecord(i) ==
  /\ ~crashed
  /\ i \in launched \ live
  /\ instances' = instances \ {i}
  /\ UNCHANGED <<launched, live, sockets, keep, accInst, acc, call, crashed>>

\* In the handler, or in the wait of the main thread.
ConnectionEnds(i) ==
  /\ ~crashed
  /\ i \in launched \ live
  /\ instances' = instances \ {i}
  /\ launched' = launched \ {i}
  /\ UNCHANGED <<live, sockets, keep, accInst, acc, call, crashed>>

-----------------------------------------------------------------------------
(* The accepting thread *)

\* Mutant: does not look whether the socket is in the set.
For_AllReady ==
  /\ AccAt("for")
  /\ \/ /\ acc.numAccSock # 0
        /\ \E s \in acc.todo :
             /\ IsFirst(s, acc.todo)
             /\ acc' = [acc EXCEPT !.op = "accept", !.sock = s, !.numAccSock = @ - 1,
                                   !.todo = {t \in acc.todo : t > s}]
     \/ /\ acc.numAccSock = 0 \/ acc.todo = {}
        /\ acc' = [acc EXCEPT !.op = "select", !.readSet = Socks]
  /\ UNCHANGED <<maps, sockets, keep, accInst, call, crashed>>

\* The next socket that is ready, then select() on all of them.
For ==
  /\ AccAt("for")
  /\ \/ /\ acc.numAccSock # 0
        /\ \E s \in Socks :
             /\ IsFirst(s, acc.todo \cap acc.readSet)
             /\ acc' = [acc EXCEPT !.op = "accept", !.sock = s, !.numAccSock = @ - 1,
                                   !.todo = {t \in acc.todo : t > s}]
     \/ /\ acc.numAccSock = 0 \/ acc.todo \cap acc.readSet = {}
        /\ acc' = [acc EXCEPT !.op = "select", !.readSet = Socks]
  /\ UNCHANGED <<maps, sockets, keep, accInst, call, crashed>>

\* accept4() blocks until there is a connection; its descriptor is linked.
Accept ==
  /\ AccAt("accept")
  /\ acc.sock \in pending
  /\ pending' = pending \ {acc.sock}
  /\ acc' = [acc EXCEPT !.op = "start"]
  /\ UNCHANGED <<maps, listening, keep, accInst, call, crashed>>

\* accept4() or linkFd() fails, or startup() of the connection's instance throws:
\* the exception leaves the thread.
AcceptThrows ==
  /\ (AccAt("accept") /\ acc.sock \in pending) \/ AccAt("launch")
  /\ crashed' = TRUE
  /\ UNCHANGED <<maps, sockets, keep, accInst, acc, call>>

\* startup() of the connection's instance ...
StartConnection ==
  /\ AccAt("start")
  /\ \E i \in Inst :
       /\ IsNextInst(i)
       /\ instances' = instances \cup {i}
       /\ acc' = [acc EXCEPT !.op = "launch", !.new = i]
  /\ UNCHANGED <<launched, live, sockets, keep, accInst, call, crashed>>

\* ... and LaunchNode::startInstance(), as this is not the only instance.
LaunchConnection ==
  /\ AccAt("launch")
  /\ Cardinality(instances) > 1
  /\ launched' = launched \cup {acc.new}
  /\ live' = live \cup {acc.new}
  /\ acc' = [acc EXCEPT !.op = "for", !.new = NoInst, !.sock = NoSock]
  /\ UNCHANGED <<instances, sockets, keep, accInst, call, crashed>>

\* Mutant: the set is not filled again, and holds what was ready last.
Select_OldSet ==
  /\ AccAt("select")
  /\ acc' = [acc EXCEPT !.op = "while", !.readSet = {}, !.numAccSock = 0]
  /\ UNCHANGED <<maps, sockets, keep, accInst, call, crashed>>

\* select() finds the sockets that are ready, none of them after five seconds.
Select ==
  /\ AccAt("select")
  /\ acc' = [acc EXCEPT !.op = "while", !.readSet = pending, !.numAccSock = Cardinality(pending)]
  /\ UNCHANGED <<maps, sockets, keep, accInst, call, crashed>>

\* SIGCHLD, of a connection's process or of any other child of the launcher, is
\* delivered to this thread: -1, and the set stays as it was.
SelectInterrupted ==
  /\ AccAt("select")
  /\ acc' = [acc EXCEPT !.op = "while", !.numAccSock = -1]
  /\ UNCHANGED <<maps, sockets, keep, accInst, call, crashed>>

While ==
  /\ AccAt("while")
  /\ acc' = IF keep THEN Round(acc) ELSE [acc EXCEPT !.op = "finish"]
  /\ UNCHANGED <<maps, sockets, keep, accInst, call, crashed>>

\* Mutant: the thread ends and leaves its instance.
Finish_Forgets ==
  /\ AccAt("finish")
  /\ acc' = NoThread
  /\ UNCHANGED <<maps, sockets, keep, accInst, call, crashed>>

\* finishInstance() of the accepting instance, and the thread ends.
Finish ==
  /\ AccAt("finish")
  /\ instances' = instances \ {acc.inst}
  /\ acc' = NoThread
  /\ UNCHANGED <<launched, live, sockets, keep, accInst, call, crashed>>

-----------------------------------------------------------------------------
(* The main thread *)

\* A later startup() appends to `fds' once more, sockets for the same addresses.
\* As the first ones hold them, bind() fails and no client finds the new ones;
\* they come last in each round, and stay out of the model.
PrepareAccept == listening' = TRUE /\ keep' = TRUE

\* startup() while nothing runs: the sockets, keep, the thread.
Startup ==
  /\ CallAt("idle")
  /\ instances = {}
  /\ instances' = {0}
  /\ PrepareAccept
  /\ accInst' = 0
  /\ acc' = Round([NoThread EXCEPT !.inst = 0])
  /\ UNCHANGED <<launched, live, pending, call, crashed>>

CallWait ==
  /\ CallAt("idle")
  /\ \/ call' = [IdleCall EXCEPT !.op = "waitFor", !.all = TRUE]
     \/ \E i \in Inst : call' = [IdleCall EXCEPT !.op = "wait", !.inst = i]
  /\ UNCHANGED <<maps, sockets, keep, accInst, acc, crashed>>

\* A waitForInstance() returns to waitFor(), or to its caller.
Returned == IF call.all THEN [IdleCall EXCEPT !.op = "waitFor", !.all = TRUE] ELSE IdleCall

WaitFor ==
  /\ \/ CallAt("waitFor") /\ call' = IF instances = {} THEN IdleCall ELSE [call EXCEPT !.op = "first"]
     \/ /\ CallAt("first")
        /\ \E i \in Inst :
             /\ instances # {} => IsFirst(i, instances)
             /\ call' = [call EXCEPT !.op = "wait", !.inst = i]
  /\ UNCHANGED <<maps, sockets, keep, accInst, acc, crashed>>

\* Mutant: joins a thread that was not told to stop.
WaitForInstance_Keeps ==
  /\ CallAt("wait")
  /\ call' = [call EXCEPT !.op = IF call.inst = accInst THEN "join" ELSE "connection"]
  /\ UNCHANGED <<maps, sockets, keep, accInst, acc, crashed>>

WaitForInstance ==
  /\ CallAt("wait")
  /\ keep' = (keep /\ call.inst # accInst)
  /\ call' = [call EXCEPT !.op = IF call.inst = accInst THEN "join" ELSE "connection"]
  /\ UNCHANGED <<maps, sockets, accInst, acc, crashed>>

\* Mutant: does not wait for the thread.
Join_AtOnce ==
  /\ CallAt("join")
  /\ call' = Returned
  /\ UNCHANGED <<maps, sockets, keep, accInst, acc, crashed>>

\* Nothing to join if the thread was never started, or has been joined.
Join ==
  /\ CallAt("join")
  /\ acc.op = "none"
  /\ call' = Returned
  /\ UNCHANGED <<maps, sockets, keep, accInst, acc, crashed>>

\* LaunchNode::waitForInstance()
ConnectionReturns ==
  /\ CallAt("connection")
  /\ call.inst \notin instances
  /\ call' = Returned
  /\ UNCHANGED <<maps, sockets, keep, accInst, acc, crashed>>

ConnectionReaped == CallAt("connection") /\ ConnectionEnds(call.inst)

\* The accepting thread has entered the instance and not made its record yet:
\* begin() of an empty map is dereferenced.
ConnectionFindsNone ==
  /\ CallAt("connection")
  /\ call.inst \in instances \ launched
  /\ crashed' = TRUE
  /\ UNCHANGED <<maps, sockets, keep, accInst, acc, call>>

-----------------------------------------------------------------------------
Acceptor ==
  \/ For \/ Accept \/ AcceptThrows \/ StartConnection \/ LaunchConnection
  \/ Select \/ SelectInterrupted \/ While \/ Finish

Main ==
  \/ WaitFor \/ WaitForInstance \/ Join
  \/ ConnectionReturns \/ ConnectionReaped \/ ConnectionFindsNone

Stopped == crashed /\ UNCHANGED vars

Next ==
  \/ \E s \in Socks : Connect(s)
  \/ \E i \in live : ConnectionExits(i)
  \/ \E i \in launched : ConnectionEnds(i)
  \/ Acceptor
  \/ Startup \/ CallWait \/ Main
  \/ Stopped

\* Both threads run on and the processes exit.  No client need ever connect, and
\* no zombie need be found by the handler.
Fairness ==
  /\ WF_vars(Acceptor) /\ WF_vars(Main)
  /\ \A i \in Inst : WF_vars(i \in live /\ ConnectionExits(i))

Spec == Init /\ [][Next]_vars
FairSpec == Spec /\ Fairness

-----------------------------------------------------------------------------
(* Properties *)

AccOps == {"none", "for", "accept", "start", "launch", "select", "while", "finish"}
Waits == {"waitFor", "first", "wait", "join", "connection"}

\* The maps, the sockets and the two threads have their types.
TypeOK ==
  /\ instances \subseteq Inst /\ launched \subseteq instances /\ live \subseteq launched
  /\ listening \in BOOLEAN /\ pending \subseteq Socks
  /\ keep \in BOOLEAN /\ accInst \in Inst \cup {NoInst}
  /\ acc \in [op : AccOps, inst : Inst \cup {NoInst}, numAccSock : Int, readSet : SUBSET Socks,
              todo : SUBSET Socks, sock : Socks \cup {NoSock}, new : Inst \cup {NoInst}]
  /\ call \in [op : Waits \cup {"idle"}, inst : Inst \cup {NoInst}, all : BOOLEAN]
  /\ crashed \in BOOLEAN

\* Whose instance is whose: a running instance is the accepting thread's, which
\* is the one that accInst names, or a connection's, and no connection's number
\* is accInst, so that waitForInstance() never takes the one for the other
\* (SocketNode.cxx:107, 121).
InstancesOwned ==
  \A i \in instances :
    \/ i = accInst /\ acc.op # "none" /\ acc.inst = i /\ i \notin launched
    \/ i # accInst /\ (i \in launched \/ (acc.op = "launch" /\ acc.new = i))

\* The thread blocks in accept4() on a socket without a connection only when its
\* select() was interrupted (SocketNode.cxx:77-83, 100).
Blocked == acc.op = "accept" /\ acc.sock \notin pending
BlocksOnlyInterrupted == Blocked => acc.numAccSock < 0

\* The promise of Node, the accepting instance included: it executes until its
\* loop ends (Node.hxx:124, 131).
Live == live \cup (IF acc.op \notin {"none", "finish"} THEN {acc.inst} ELSE {})
             \cup (IF acc.op = "launch" THEN {acc.new} ELSE {})
Waiting == IF call.op \in Waits
           THEN [node |-> Self, inst |-> IF call.all THEN -2 ELSE call.inst]
           ELSE [node |-> NoNode, inst |-> -2]

Contract == INSTANCE NodeContract WITH
              Nodes <- {Self}, running <- [n \in {Self} |-> instances],
              live <- [n \in {Self} |-> Live], waiting <- Waiting

\* A socket node keeps the promise of Node: no instance completes while its
\* thread or its processes execute, and a wait returns only after that.
ImplementsContract == Contract!Spec

\* "cause the server to stop" (test/socket.cxx:33): waitFor(), or the wait for
\* the accepting instance, ends once the processes of the connections have,
\* whether or not a client ever connects again, unless an interrupted select()
\* has left the thread in accept4().
WaitEnds ==
  call.op \in Waits /\ (call.all \/ call.inst = accInst) ~>
    call.op = "idle" \/ crashed \/ Blocked

\* A client that has connected is accepted as long as the node is not told to
\* stop, whatever the other sockets do, with the same exception.
Served ==
  \A s \in Socks :
    s \in pending /\ acc.op # "none" ~>
      (acc.op = "start" /\ acc.sock = s) \/ ~keep \/ crashed \/ Blocked
=============================================================================
