----------------------------- MODULE LaunchNode -----------------------------
(***************************************************************************)
(* LaunchNode on top of Node: an instance starts one instance of each of   *)
(* its sub-nodes and ends when they all have.  The sub-nodes are known by  *)
(* what Node promises of them: their steps are steps of NodeContract.      *)
(*                                                                         *)
(* A sub-node completes inside the SIGCHLD handler, between any two steps  *)
(* of the thread and as one action, or inside the waitForInstance() of the *)
(* thread itself, where a handler may come in between.                     *)
(***************************************************************************)
EXTENDS Integers

CONSTANTS
  Self,      \* the launch node
  Subs,      \* its sub-nodes, numbered in the order of their names
  NoNode,    \* no node
  MaxInst,   \* bound: at most MaxInst instances of a node run at once
  Early      \* the sub-nodes whose processes may exit before startup() has returned

Inst == 0 .. MaxInst - 1
NoInst == -1

ASSUME LaunchAssumption ==
  /\ Subs \subseteq Nat /\ NoNode \notin Subs \cup {Self}
  /\ MaxInst \in Nat \ {0}
  /\ Early \subseteq Subs

VARIABLES
  instances,     \* the keys of Node::instances
  records,       \* the keys of LaunchNode::instances
  nodeInstances, \* the nodeInstances of each record, or of what was one
  subRunning,    \* the instances of each sub-node
  subLive,       \* those whose process executes
  launchInst,    \* the data of onSubNodeDeath of each: whose record it is
  call,          \* where the thread is in startup() or a wait
  crashed,       \* an access to freed or missing memory has ended the program
  early          \* history: a process has exited before startup() returned

launch == <<instances, records, nodeInstances>>
subs == <<subRunning, subLive, launchInst>>
vars == <<launch, subs, call, crashed, early>>

IdleCall == [op |-> "idle", inst |-> NoInst, sub |-> NoNode, subInst |-> NoInst,
             todo |-> {}, all |-> FALSE]
Empty == [s \in Subs |-> NoInst]
InSubWait == {"waitSub", "died"}
SubWaiting == IF call.op \in InSubWait THEN [node |-> call.sub, inst |-> call.subInst]
                                       ELSE [node |-> NoNode, inst |-> -2]

Sub == INSTANCE NodeContract WITH
         Nodes <- Subs, running <- subRunning, live <- subLive, waiting <- SubWaiting

Init ==
  /\ instances = {} /\ records = {}
  /\ nodeInstances = [i \in Inst |-> Empty]
  /\ launchInst = [s \in Subs |-> [j \in Inst |-> NoInst]]
  /\ call = IdleCall
  /\ Sub!Init
  /\ crashed = FALSE
  /\ early = FALSE

-----------------------------------------------------------------------------
(* Helpers *)

AtOp(op) == call.op = op /\ ~crashed

IsNextInst(used, i) == i \notin used /\ \A j \in 0 .. (i - 1) : j \in used

\* An access to the record of an instance, or to its entry of a sub-node, that
\* the handler has freed: the program crashes, or finds the memory as it was.
Crash == crashed' = TRUE /\ UNCHANGED <<launch, subs, call, early>>

\* onSubNodeDeath, first half: the entry goes.
EraseEntry(s, i) == nodeInstances' = [nodeInstances EXCEPT ![i][s] = NoInst]

\* Mutant: the first death ends the instance.
EndIfEmpty_Any(entries, i) == instances' = instances \ {i} /\ records' = records \ {i}

\* onSubNodeDeath, second half: the last entry's end is the instance's.
EndIfEmpty(entries, i) ==
  IF entries = Empty THEN instances' = instances \ {i} /\ records' = records \ {i}
                     ELSE UNCHANGED <<instances, records>>

-----------------------------------------------------------------------------
(* The sub-nodes *)

Starting == {"starting", "started", "empty"}

SubExits(s, j) ==
  /\ LET tooEarly == call.op \in Starting /\ launchInst[s][j] = call.inst
     IN  /\ tooEarly => s \in Early
         /\ early' = (early \/ tooEarly)
  /\ UNCHANGED <<launch, launchInst, call, crashed>>
  /\ Sub!Exit(s, j)

\* Mutant: looks whether the map is empty before the entry goes.
SubDies_LooksFirst(s, j) ==
  /\ ~crashed /\ call.op # "threw"
  /\ ~(call.op = "died" /\ call.sub = s /\ call.subInst = j)
  /\ j \in subRunning[s] \ subLive[s]
  /\ EndIfEmpty(nodeInstances[launchInst[s][j]], launchInst[s][j])
  /\ EraseEntry(s, launchInst[s][j])
  /\ launchInst' = [launchInst EXCEPT ![s][j] = NoInst]
  /\ UNCHANGED <<call, crashed, early>>
  /\ Sub!Complete(s, j)

\* finishInstance of a sub-node in the handler, unless the thread is in the
\* middle of it.
SubDies(s, j) ==
  /\ ~crashed /\ call.op # "threw"
  /\ ~(call.op = "died" /\ call.sub = s /\ call.subInst = j)
  /\ j \in subRunning[s] \ subLive[s]
  /\ EraseEntry(s, launchInst[s][j])
  /\ EndIfEmpty(nodeInstances'[launchInst[s][j]], launchInst[s][j])
  /\ launchInst' = [launchInst EXCEPT ![s][j] = NoInst]
  /\ UNCHANGED <<call, crashed, early>>
  /\ Sub!Complete(s, j)

SubDiesStale(s, j) ==
  /\ ~crashed /\ call.op # "threw"
  /\ j \in subRunning[s] \ subLive[s]
  /\ launchInst[s][j] \notin records
  /\ Crash

-----------------------------------------------------------------------------
(* startup() and startInstance() *)

\* The record is emplaced after the links were made.
Startup ==
  /\ AtOp("idle")
  /\ \E i \in Inst :
       /\ IsNextInst(instances, i)
       /\ instances' = instances \cup {i}
       /\ records' = records \cup {i}
       /\ nodeInstances' = [nodeInstances EXCEPT ![i] = IF i \in records THEN @ ELSE Empty]
       /\ call' = [IdleCall EXCEPT !.op = "starting", !.inst = i, !.todo = Subs]
  /\ UNCHANGED <<subs, crashed, early>>

\* linkFd() throws: the instance stays in the map and the program ends.
StartupThrows ==
  /\ AtOp("idle")
  /\ \E i \in Inst :
       /\ IsNextInst(instances, i)
       /\ instances' = instances \cup {i}
       /\ call' = [IdleCall EXCEPT !.op = "threw", !.inst = i]
  /\ UNCHANGED <<records, nodeInstances, subs, crashed, early>>

\* Mutant: adds the handler after startup(), so that it is the next one's.
StartSub_LateHandler ==
  /\ AtOp("starting")
  /\ \E s \in call.todo, j \in Inst :
       /\ \A t \in call.todo : s <= t
       /\ IsNextInst(subRunning[s], j)
       /\ nodeInstances' = [nodeInstances EXCEPT ![call.inst][s] = 0]
       /\ call' = [call EXCEPT !.op = "started", !.sub = s, !.subInst = j, !.todo = @ \ {s}]
       /\ Sub!Start(s, j)
  /\ UNCHANGED <<instances, records, launchInst, crashed, early>>

\* nodeInstances[it->second] makes the entry first (the build evaluates it
\* before the right hand side), then it->second->startup() runs.
StartSub ==
  /\ AtOp("starting")
  /\ \E s \in call.todo, j \in Inst :
       /\ \A t \in call.todo : s <= t
       /\ IsNextInst(subRunning[s], j)
       /\ nodeInstances' = [nodeInstances EXCEPT ![call.inst][s] = 0]
       /\ launchInst' = [launchInst EXCEPT ![s][j] = call.inst]
       /\ call' = [call EXCEPT !.op = "started", !.sub = s, !.subInst = j, !.todo = @ \ {s}]
       /\ Sub!Start(s, j)
  /\ UNCHANGED <<instances, records, crashed, early>>

\* A sub-node's startup() throws; the others go on.
StartSubThrows ==
  /\ AtOp("starting")
  /\ call.todo # {}
  /\ call' = [call EXCEPT !.op = "threw"]
  /\ UNCHANGED <<launch, subs, crashed, early>>

\* Mutant: forgets the number.
RecordSub_Zero ==
  /\ AtOp("started")
  /\ nodeInstances[call.inst][call.sub] # NoInst
  /\ call' = [call EXCEPT !.op = "starting", !.sub = NoNode, !.subInst = NoInst]
  /\ UNCHANGED <<launch, subs, crashed, early>>

\* The number is written into the entry.
RecordSub ==
  /\ AtOp("started")
  /\ nodeInstances[call.inst][call.sub] # NoInst
  /\ nodeInstances' = [nodeInstances EXCEPT ![call.inst][call.sub] = call.subInst]
  /\ call' = [call EXCEPT !.op = "starting", !.sub = NoNode, !.subInst = NoInst]
  /\ UNCHANGED <<instances, records, subs, crashed, early>>

\* The entry is gone; the write goes nowhere.
RecordSubStale ==
  /\ AtOp("started")
  /\ nodeInstances[call.inst][call.sub] = NoInst
  /\ call' = [call EXCEPT !.op = "starting", !.sub = NoNode, !.subInst = NoInst]
  /\ UNCHANGED <<launch, subs, crashed, early>>

StartCrashes ==
  /\ \/ AtOp("starting") /\ call.inst \notin records
     \/ AtOp("started") /\ nodeInstances[call.inst][call.sub] = NoInst
  /\ Crash

StartupReturns ==
  /\ AtOp("starting")
  /\ call.todo = {}
  /\ call' = IF nodeInstances[call.inst] = Empty THEN [call EXCEPT !.op = "empty"] ELSE IdleCall
  /\ UNCHANGED <<launch, subs, crashed, early>>

\* There were no sub-nodes, or they have all died: the instance ends at once.
EndEmpty ==
  /\ AtOp("empty")
  /\ EndIfEmpty(Empty, call.inst)
  /\ call' = IdleCall
  /\ UNCHANGED <<nodeInstances, subs, crashed, early>>

-----------------------------------------------------------------------------
(* waitFor() and waitForInstance() *)

CallWait ==
  /\ AtOp("idle")
  /\ \/ call' = [IdleCall EXCEPT !.op = "waitFor", !.all = TRUE]
     \/ \E i \in Inst : call' = [IdleCall EXCEPT !.op = "wait", !.inst = i]
  /\ UNCHANGED <<launch, subs, crashed, early>>

\* instances.begin()->first; an emptied map yields whatever number.
WaitForFirst ==
  /\ AtOp("first")
  /\ \E i \in Inst :
       /\ instances # {} => i \in instances /\ \A j \in instances : i <= j
       /\ call' = [call EXCEPT !.op = "wait", !.inst = i]
  /\ UNCHANGED <<launch, subs, crashed, early>>

\* The heads of the loops of waitFor and waitForInstance.
WaitLooks ==
  /\ \/ /\ AtOp("waitFor")
        /\ call' = IF instances = {} THEN IdleCall ELSE [call EXCEPT !.op = "first"]
     \/ /\ AtOp("wait")
        /\ call' = CASE call.inst \in instances -> [call EXCEPT !.op = "begin"]
                     [] call.inst \notin instances /\ call.all
                          -> [call EXCEPT !.op = "waitFor", !.inst = NoInst]
                     [] OTHER -> IdleCall
  /\ UNCHANGED <<launch, subs, crashed, early>>

\* Mutant: waits for the sub-node's instance of its own number.
WaitPicks_OwnNumber ==
  /\ AtOp("begin")
  /\ \E s \in Subs :
       /\ nodeInstances[call.inst][s] # NoInst
       /\ call' = [call EXCEPT !.op = "deref", !.sub = s, !.subInst = call.inst]
  /\ UNCHANGED <<launch, subs, crashed, early>>

\* nodeInstances.begin(): the sub-nodes are ordered by their addresses.
WaitPicks ==
  /\ AtOp("begin")
  /\ \E s \in Subs :
       /\ nodeInstances[call.inst][s] # NoInst
       /\ call' = [call EXCEPT !.op = "deref", !.sub = s, !.subInst = nodeInstances[call.inst][s]]
  /\ UNCHANGED <<launch, subs, crashed, early>>

\* The handler has ended the instance since the loop looked: operator[] makes
\* an empty record, and its begin() is dereferenced.
WaitPicksNothing ==
  /\ AtOp("begin")
  /\ nodeInstances[call.inst] = Empty
  /\ Crash

\* subInst->first->waitForInstance(subInst->second)
WaitSub ==
  /\ AtOp("deref")
  /\ call' = [call EXCEPT !.op = "waitSub"]
  /\ Sub!BeginWait(call.sub, call.subInst)
  /\ UNCHANGED <<launch, launchInst, crashed, early>>

WaitSubStale ==
  /\ AtOp("deref")
  /\ nodeInstances[call.inst][call.sub] = NoInst
  /\ Crash

\* The sub-node's wait reaps the process itself: finishInstance runs on the
\* thread, and the handler may come in before it looks whether the map is empty.
ThreadErases ==
  /\ AtOp("waitSub")
  /\ call.subInst \in subRunning[call.sub] \ subLive[call.sub]
  /\ EraseEntry(call.sub, launchInst[call.sub][call.subInst])
  /\ call' = [call EXCEPT !.op = "died"]
  /\ UNCHANGED <<instances, records, subs, crashed, early>>

ThreadEnds ==
  LET i == launchInst[call.sub][call.subInst]
  IN  /\ AtOp("died")
      /\ EndIfEmpty(nodeInstances[i], i)
      /\ launchInst' = [launchInst EXCEPT ![call.sub][call.subInst] = NoInst]
      /\ call' = [call EXCEPT !.op = "waitSub"]
      /\ Sub!Complete(call.sub, call.subInst)
      /\ UNCHANGED <<nodeInstances, crashed, early>>

\* The handler ended the instance: `self' is freed.
ThreadEndsStale ==
  /\ AtOp("died")
  /\ launchInst[call.sub][call.subInst] \notin records
  /\ Crash

WaitSubReturns ==
  /\ AtOp("waitSub")
  /\ call' = [call EXCEPT !.op = "wait", !.sub = NoNode, !.subInst = NoInst]
  /\ Sub!EndWait
  /\ UNCHANGED <<launch, launchInst, crashed, early>>

-----------------------------------------------------------------------------
Thread ==
  \/ StartSub \/ RecordSub \/ RecordSubStale \/ StartCrashes \/ StartupReturns \/ EndEmpty
  \/ WaitForFirst \/ WaitLooks \/ WaitPicks \/ WaitPicksNothing \/ WaitSub \/ WaitSubStale
  \/ ThreadErases \/ ThreadEnds \/ ThreadEndsStale \/ WaitSubReturns

Stopped == (crashed \/ call.op = "threw") /\ UNCHANGED vars

Next ==
  \/ \E s \in Subs, j \in Inst : SubExits(s, j) \/ SubDies(s, j) \/ SubDiesStale(s, j)
  \/ Startup \/ StartupThrows \/ StartSubThrows \/ CallWait
  \/ Thread
  \/ Stopped

\* The thread runs on and the processes exit.  Nothing is assumed of the
\* handler: signals merge, and a zombie may stay until somebody waits for it.
Fairness ==
  /\ WF_vars(Thread)
  /\ \A s \in Subs, j \in Inst : WF_vars(SubExits(s, j))

Spec == Init /\ [][Next]_vars
FairSpec == Spec /\ Fairness

-----------------------------------------------------------------------------
(* Properties *)

Ops == Starting \cup {"idle", "waitFor", "first", "wait", "begin", "deref", "threw"} \cup InSubWait

\* The maps, the sub-nodes' instances and the call have their types.
TypeOK ==
  /\ instances \subseteq Inst /\ records \subseteq Inst
  /\ nodeInstances \in [Inst -> [Subs -> Inst \cup {NoInst}]]
  /\ subRunning \in [Subs -> SUBSET Inst]
  /\ subLive \in [Subs -> SUBSET Inst]
  /\ launchInst \in [Subs -> [Inst -> Inst \cup {NoInst}]]
  /\ call \in [op : Ops, inst : Inst \cup {NoInst}, sub : Subs \cup {NoNode},
               subInst : Inst \cup {NoInst}, todo : SUBSET Subs, all : BOOLEAN]
  /\ crashed \in BOOLEAN /\ early \in BOOLEAN
  /\ \A s \in Subs : \A j \in Inst : (launchInst[s][j] # NoInst) = (j \in subRunning[s])

\* An entry of a record is an instance that will report its end to it.
EntriesTrue ==
  \A i \in Inst, s \in Subs :
    \/ nodeInstances[i][s] = NoInst
    \/ call.op = "started" /\ call.inst = i /\ call.sub = s
    \/ launchInst[s][nodeInstances[i][s]] = i

\* Every instance of a sub-node that has not ended is an entry of a running
\* instance of the launch node, unless the thread is between the two updates.
NoOrphans ==
  \A s \in Subs : \A j \in subRunning[s] :
    LET i == launchInst[s][j]
    IN  \/ call.op = "died" /\ call.sub = s /\ call.subInst = j
        \/ /\ i \in instances \cap records
           /\ \/ nodeInstances[i][s] = j
              \/ call.op = "started" /\ call.inst = i /\ call.sub = s /\ nodeInstances[i][s] = 0

\* A running instance has an entry whose end will end it, or the thread is about
\* to look: whatever the order of deaths, no instance is left that nothing will
\* end (LaunchNode.cxx:12, 54).
InstancesBacked ==
  \A i \in instances :
    \/ call.op \in Starting \cup {"threw"} /\ call.inst = i
    \/ i \in records /\ nodeInstances[i] # Empty
    \/ i \in records /\ call.op = "died" /\ launchInst[call.sub][call.subInst] = i

\* A wait for an instance is in a sub-node of that instance, not of an earlier
\* one of the same number.
WaitsOnItsOwn ==
  call.op \in {"deref", "waitSub", "died"} /\ call.subInst \in subRunning[call.sub] =>
    launchInst[call.sub][call.subInst] = call.inst

\* Until a process exits too early, the records, the sub-nodes' instances and the
\* thread's locals agree at every point at which a sub-node can die
\* (LaunchNode.cxx:11-16, 47-52, 74-78).
Bookkeeping == early \/ (EntriesTrue /\ NoOrphans /\ WaitsOnItsOwn)

\* The promise of Node: the instance of a launch node executes while there are
\* sub-nodes left to start and while a process of one does.
Waits == {"waitFor", "first", "wait", "begin", "deref"} \cup InSubWait
Running == {i \in instances : call.op = "threw" /\ call.inst = i => i \in records}
Live == {i \in Inst :
           \/ /\ call.op \in {"starting", "started"} /\ call.inst = i
              /\ call.todo # {} \/ Subs = {}
           \/ \E s \in Subs : \E j \in subLive[s] : launchInst[s][j] = i}
Waiting == IF call.op \in Waits
           THEN [node |-> Self, inst |-> IF call.all THEN -2 ELSE call.inst]
           ELSE [node |-> NoNode, inst |-> -2]

Contract == INSTANCE NodeContract WITH
              Nodes <- {Self}, running <- [n \in {Self} |-> Running],
              live <- [n \in {Self} |-> Live], waiting <- Waiting

\* A launch node keeps the promise that its sub-nodes keep: it completes only
\* after every one of them has, and a wait for it returns only then
\* (Node.hxx:124, 131).
ImplementsContract == Contract!Spec

\* It does keep the promise until a process exits before startup() has returned
\* (Node.hxx:124, 131).
KeepsContract == Contract!Init /\ [][~early' => [Contract!Next]_(Contract!vars)]_vars

\* A wait for a launch node comes to an end when the processes do, if not always
\* to a good one (LaunchNode.cxx:74-78).
WaitEnds == call.op \in Waits ~> call.op = "idle" \/ crashed
=============================================================================
