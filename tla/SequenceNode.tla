---------------------------- MODULE SequenceNode ----------------------------
(***************************************************************************)
(* SequenceNode: an instance runs its stages one after the other.  The end *)
(* of a stage starts the next one, from within finishInstance() of the     *)
(* node that ended: in the SIGCHLD handler, on top of whatever the thread  *)
(* is doing, or in the thread's own wait.  So the startup() of a stage can *)
(* be interrupted by another one's, and is written out here step by step.  *)
(*                                                                         *)
(* The descriptors linked to the sequence node go to the RunningSequence,  *)
(* which keeps them and hands duplicates to every stage.  Their numbers    *)
(* are in FdMap; here a map of links is the set of the files it leads to.  *)
(***************************************************************************)
EXTENDS Integers, Sequences

CONSTANTS
  Self,      \* the sequence node
  Subs,      \* its sub-nodes
  NoNode,    \* no node
  Order,     \* the sub-nodes of the stages; a name may occur twice
  Files,     \* what a client may link to the sequence node
  Pids,      \* the process numbers the kernel hands out
  MaxInst,   \* bound: at most MaxInst sequences run at once
  MaxNum,    \* bound: at most MaxNum instances of a sub-node run at once
  EarlyExit  \* may a stage exit before startInstance() or proceed() has its number?

Inst == 0 .. MaxInst - 1
Nums == 0 .. MaxNum - 1
NoInst == -1
NoPid == 0

ASSUME SequenceAssumption ==
  /\ Order \in Seq(Subs) /\ NoNode \notin Subs \cup {Self} /\ Self \notin Subs
  /\ MaxInst \in Nat \ {0} /\ MaxNum \in Nat \ {0}
  /\ Pids \subseteq Nat \ {NoPid}
  /\ EarlyExit \in BOOLEAN

VARIABLES
  instances,       \* the keys of Node::instances
  sequences,       \* the keys of SequenceNode::sequences
  seq,             \* its RunningSequences, and what is left of freed ones
  procs,           \* the processes that have not been reaped
  pidInstance,     \* ExecutableNode::pidInstance of each sub-node; never erased
  subInstances,    \* Node::instances of each sub-node: the handlers' data
  onInstanceDeath, \* Node::onInstanceDeath of each sub-node
  fdMap,           \* Node::fdMap of the sequence node and of each sub-node
  held,            \* Node::fdMap of each RunningSequence
  given,           \* history: what was linked for each running sequence
  frame,           \* finishInstance and proceed: of the thread, of the handler
  call,            \* where the thread is in a wait
  crashed          \* freed or missing memory or an exception has ended the program

node == <<instances, sequences, seq>>
links == <<fdMap, held, given>>
vars == <<node, procs, pidInstance, subInstances, onInstanceDeath, links, frame, call, crashed>>

Contexts == {"thread", "handler"}
NoHandlers == <<NoInst>>   \* not in the map
IdleFrame == [op |-> "idle", node |-> NoNode, num |-> NoInst, ret |-> 0, todo |-> <<>>,
              seq |-> NoInst, next |-> NoNode, new |-> NoInst]
IdleCall == [op |-> "idle", inst |-> NoInst, node |-> NoNode, num |-> NoInst, pid |-> NoPid,
             all |-> FALSE]
NewSeq == [stage |-> -1, node |-> NoNode, num |-> NoInst]

Init ==
  /\ instances = {} /\ sequences = {}
  /\ seq = [i \in Inst |-> NewSeq]
  /\ procs = {}
  /\ pidInstance = [s \in Subs |-> [id \in Pids |-> NoInst]]
  /\ subInstances = [s \in Subs |-> [k \in Nums |-> NoHandlers]]
  /\ onInstanceDeath = [s \in Subs |-> <<>>]
  /\ fdMap = [n \in Subs \cup {Self} |-> {}] /\ held = [i \in Inst |-> {}]
  /\ given = [i \in Inst |-> {}]
  /\ frame = [c \in Contexts |-> IdleFrame]
  /\ call = IdleCall
  /\ crashed = FALSE

-----------------------------------------------------------------------------
(* Helpers *)

\* The handler runs on top of the thread.
Runs(c) == ~crashed /\ (c = "thread" => frame["handler"].op = "idle")
At(c, op) == Runs(c) /\ frame[c].op = op
AtCall(op) == Runs("thread") /\ frame["thread"].op = "idle" /\ call.op = op

SubRuns(s, k) == subInstances[s][k] # NoHandlers
IsNextNum(s, k) == ~SubRuns(s, k) /\ \A j \in 0 .. (k - 1) : SubRuns(s, j)

\* WEXITSTATUS() of the status: a process killed by a signal counts as 0.
RetVal(p) == IF p.st = "fail" THEN 1 ELSE 0

\* pidInstance[id] of s: an entry that is not there is made, for the instance 0.
Entry(s, id) == IF pidInstance[s][id] = NoInst THEN 0 ELSE pidInstance[s][id]

\* finishInstance(k) of the sub-node s: nothing for a number not running.
Finishing(s, k, ret) ==
  [IdleFrame EXCEPT !.op = IF SubRuns(s, k) THEN "callbacks" ELSE "idle",
     !.node = s, !.num = k, !.ret = ret, !.todo = IF SubRuns(s, k) THEN subInstances[s][k] ELSE <<>>]

-----------------------------------------------------------------------------
(* The processes and the handler *)

Exit(p) ==
  /\ p.st = "alive"
  /\ EarlyExit \/ \A c \in Contexts : ~(frame[c].op \in {"close", "assign"} /\ frame[c].seq = p.seq)
  /\ \E st \in {"ok", "fail", "killed"} : procs' = (procs \ {p}) \cup {[p EXCEPT !.st = st]}
  /\ UNCHANGED <<node, pidInstance, subInstances, onInstanceDeath, links, frame, call, crashed>>

\* reapProcess() on s: p has left the kernel's table, and the instance in
\* pidInstance is finished.
ReapProcess(c, s, p) ==
  /\ procs' = procs \ {p}
  /\ pidInstance' = [pidInstance EXCEPT ![s][p.pid] = Entry(s, p.pid)]
  /\ frame' = [frame EXCEPT ![c] = Finishing(s, Entry(s, p.pid), RetVal(p))]
  /\ UNCHANGED <<node, subInstances, onInstanceDeath, links, call, crashed>>

\* wait(), and running_nodes names the node.
HandlerReaps(p) ==
  /\ At("handler", "idle")
  /\ p.st # "alive"
  /\ ReapProcess("handler", p.node, p)

\* waitpid() in the wait of the sub-node.  It fails at once, and the loop goes
\* round, when the pid it has is no child's any more.
ThreadReaps(p) ==
  /\ AtCall("waitSub")
  /\ SubRuns(call.node, call.num)
  /\ p.st # "alive" /\ p.pid = call.pid
  /\ ReapProcess("thread", call.node, p)

-----------------------------------------------------------------------------
(* finishInstance() of a sub-node, proceed(), startup() of the next stage *)

Callback(c) ==
  /\ At(c, "callbacks")
  /\ frame[c].todo # <<>>
  /\ frame' = [frame EXCEPT ![c].op = "proceed", ![c].seq = Head(frame[c].todo),
                                ![c].todo = Tail(@)]
  /\ UNCHANGED <<node, procs, pidInstance, subInstances, onInstanceDeath, links, call, crashed>>

\* After the callbacks the instance goes; startInstance() has none to erase, and
\* startup() of the sequence node closes its links behind it.
CallbacksDone(c) ==
  LET f == frame[c]
  IN  /\ At(c, "callbacks")
      /\ f.todo = <<>>
      /\ subInstances' = IF f.node = NoNode THEN subInstances
                         ELSE [subInstances EXCEPT ![f.node][f.num] = NoHandlers]
      /\ fdMap' = IF f.node = NoNode THEN [fdMap EXCEPT ![Self] = {}] ELSE fdMap
      /\ frame' = [frame EXCEPT ![c] = IdleFrame]
      /\ UNCHANGED <<node, procs, pidInstance, onInstanceDeath, held, given, call, crashed>>

\* Mutant: the exit code is not looked at.
Ends_Ignores(i, ret) == seq[i].stage + 1 >= Len(Order)

\* Is this the end of the sequence?
Ends(i, ret) == ret # 0 \/ seq[i].stage + 1 >= Len(Order)

\* The RunningSequence is destroyed, which closes what it holds.
ProceedEnds(c) ==
  LET i == frame[c].seq
  IN  /\ At(c, "proceed")
      /\ Ends(i, frame[c].ret)
      /\ seq' = [seq EXCEPT ![i].stage = -1]
      /\ sequences' = sequences \ {i}
      /\ held' = [held EXCEPT ![i] = {}]
      /\ frame' = [frame EXCEPT ![c].op = "end"]
      /\ UNCHANGED <<instances, procs, pidInstance, subInstances, onInstanceDeath, fdMap, given,
                     call, crashed>>

\* seq->finishInstance(self->instNum, retval): self has been freed.
FinishSequence(c) ==
  /\ At(c, "end")
  /\ instances' = instances \ {frame[c].seq}
  /\ frame' = [frame EXCEPT ![c].op = "callbacks", ![c].seq = NoInst]
  /\ UNCHANGED <<sequences, seq, procs, pidInstance, subInstances, onInstanceDeath, links, call,
                 crashed>>

\* Mutant: nobody is told of the end of the stage.
ProceedNext_NoHandler(c) ==
  LET i == frame[c].seq
      s == Order[seq[i].stage + 2]
  IN  /\ At(c, "proceed")
      /\ ~Ends(i, frame[c].ret)
      /\ seq' = [seq EXCEPT ![i].stage = @ + 1, ![i].node = s]
      /\ frame' = [frame EXCEPT ![c].op = "pass", ![c].next = s]
      /\ UNCHANGED <<instances, sequences, procs, pidInstance, subInstances, onInstanceDeath, links,
                     call, crashed>>

ProceedNext(c) ==
  LET i == frame[c].seq
      s == Order[seq[i].stage + 2]
  IN  /\ At(c, "proceed")
      /\ ~Ends(i, frame[c].ret)
      /\ seq' = [seq EXCEPT ![i].stage = @ + 1, ![i].node = s]
      /\ onInstanceDeath' = [onInstanceDeath EXCEPT ![s] = Append(@, i)]
      /\ frame' = [frame EXCEPT ![c].op = "pass", ![c].next = s]
      /\ UNCHANGED <<instances, sequences, procs, pidInstance, subInstances, links, call, crashed>>

\* passFds(): the RunningSequence keeps its own.
PassFds(c) ==
  LET f == frame[c]
  IN  /\ At(c, "pass")
      /\ fdMap' = [fdMap EXCEPT ![f.next] = @ \cup held[f.seq]]
      /\ frame' = [frame EXCEPT ![c].op = "number"]
      /\ UNCHANGED <<node, procs, pidInstance, subInstances, onInstanceDeath, held, given, call,
                     crashed>>

\* startup() of the stage's node, statement by statement.
StageNumber(c) ==
  /\ At(c, "number")
  /\ \E k \in Nums :
       /\ IsNextNum(frame[c].next, k)
       /\ frame' = [frame EXCEPT ![c].op = "enter", ![c].new = k]
  /\ UNCHANGED <<node, procs, pidInstance, subInstances, onInstanceDeath, links, call, crashed>>

StageEnter(c) ==
  LET f == frame[c]
  IN  /\ At(c, "enter")
      /\ subInstances' = [subInstances EXCEPT ![f.next][f.new] = onInstanceDeath[f.next]]
      /\ frame' = [frame EXCEPT ![c].op = "clear"]
      /\ UNCHANGED <<node, procs, pidInstance, onInstanceDeath, links, call, crashed>>

\* Mutant: the handlers stay for the next instance too.
StageClear_Keeps(c) ==
  /\ At(c, "clear")
  /\ frame' = [frame EXCEPT ![c].op = "fork"]
  /\ UNCHANGED <<node, procs, pidInstance, subInstances, onInstanceDeath, links, call, crashed>>

StageClear(c) ==
  /\ At(c, "clear")
  /\ onInstanceDeath' = [onInstanceDeath EXCEPT ![frame[c].next] = <<>>]
  /\ frame' = [frame EXCEPT ![c].op = "fork"]
  /\ UNCHANGED <<node, procs, pidInstance, subInstances, links, call, crashed>>

\* A number is not given out again while a wait still has it.
StageFork(c) ==
  LET f == frame[c]
  IN  /\ At(c, "fork")
      /\ \E id \in Pids :
           /\ id # call.pid /\ \A p \in procs : id # p.pid
           /\ procs' = procs \cup {[node |-> f.next, num |-> f.new, pid |-> id, seq |-> f.seq,
                                      fds |-> fdMap[f.next], st |-> "alive"]}
           /\ pidInstance' = [pidInstance EXCEPT ![f.next][id] = f.new]
      /\ frame' = [frame EXCEPT ![c].op = "close"]
      /\ UNCHANGED <<node, subInstances, onInstanceDeath, links, call, crashed>>

\* Mutant: the links stay for the next instance of the sub-node.
CloseFds_Forgets(c) ==
  /\ At(c, "close")
  /\ frame' = [frame EXCEPT ![c].op = "assign"]
  /\ UNCHANGED <<node, procs, pidInstance, subInstances, onInstanceDeath, links, call, crashed>>

\* closeFds() of the sub-node.
CloseFds(c) ==
  /\ At(c, "close")
  /\ fdMap' = [fdMap EXCEPT ![frame[c].next] = {}]
  /\ frame' = [frame EXCEPT ![c].op = "assign"]
  /\ UNCHANGED <<node, procs, pidInstance, subInstances, onInstanceDeath, held, given, call,
                 crashed>>

\* Mutant: the number of the sequence instead of the stage's.
StageAssign_OwnNumber(c) ==
  LET f == frame[c]
  IN  /\ At(c, "assign")
      /\ seq' = [seq EXCEPT ![f.seq].num = f.seq]
      /\ frame' = [frame EXCEPT ![c].op = "callbacks", ![c].seq = NoInst,
                                ![c].next = NoNode, ![c].new = NoInst]
      /\ UNCHANGED <<instances, sequences, procs, pidInstance, subInstances, onInstanceDeath,
                     links, call, crashed>>

\* currentStageInstNum = startup(): the handler may have been at the next stage
\* in between.
StageAssign(c) ==
  LET f == frame[c]
  IN  /\ At(c, "assign")
      /\ seq' = [seq EXCEPT ![f.seq].num = f.new]
      /\ frame' = [frame EXCEPT ![c].op = "callbacks", ![c].seq = NoInst,
                                ![c].next = NoNode, ![c].new = NoInst]
      /\ UNCHANGED <<instances, sequences, procs, pidInstance, subInstances, onInstanceDeath,
                     links, call, crashed>>

\* A RunningSequence that has been freed is still found as it was, or is not.
TouchesFreed(c) ==
  /\ Runs(c)
  /\ frame[c].op \in {"proceed", "end", "pass", "assign"}
  /\ frame[c].seq \notin sequences
  /\ crashed' = TRUE
  /\ UNCHANGED <<node, procs, pidInstance, subInstances, onInstanceDeath, links, frame, call>>

\* linkFd() or fork() fails: an exception, from the handler or through startup()
\* or a wait, that main() only ends for.
StageThrows(c) ==
  /\ At(c, "pass") \/ At(c, "fork")
  /\ crashed' = TRUE
  /\ UNCHANGED <<node, procs, pidInstance, subInstances, onInstanceDeath, links, frame, call>>

-----------------------------------------------------------------------------
(* The thread: startup(), waitFor(), waitForInstance() of the sequence node *)

IsNextInst(i) == i \notin instances /\ \A j \in 0 .. (i - 1) : j \in instances

\* The client has linked some files to the node before.
Startup(files) ==
  /\ AtCall("idle")
  /\ \E i \in Inst :
       /\ IsNextInst(i) /\ i \notin sequences
       /\ instances' = instances \cup {i}
       /\ sequences' = sequences \cup {i}
       /\ seq' = [seq EXCEPT ![i] = NewSeq]
       /\ frame' = [frame EXCEPT !["thread"] = [IdleFrame EXCEPT !.op = "proceed", !.seq = i]]
       /\ fdMap' = [fdMap EXCEPT ![Self] = @ \cup files]
       /\ held' = [held EXCEPT ![i] = @ \cup fdMap[Self] \cup files]
       /\ given' = [given EXCEPT ![i] = files]
  /\ UNCHANGED <<procs, pidInstance, subInstances, onInstanceDeath, call, crashed>>

\* emplace() finds an entry that a wait has left, and proceed() no owner in it.
StartupFindsEntry ==
  /\ AtCall("idle")
  /\ \E i \in sequences : IsNextInst(i)
  /\ crashed' = TRUE
  /\ UNCHANGED <<node, procs, pidInstance, subInstances, onInstanceDeath, links, frame, call>>

CallWait ==
  /\ AtCall("idle")
  /\ \/ call' = [IdleCall EXCEPT !.op = "waitFor", !.all = TRUE]
     \/ \E i \in Inst : call' = [IdleCall EXCEPT !.op = "wait", !.inst = i]
  /\ UNCHANGED <<node, procs, pidInstance, subInstances, onInstanceDeath, links, frame, crashed>>

\* The last entry of pidInstance with the number k.
IsLastPid(s, k, id) ==
  pidInstance[s][id] = k /\ \A q \in Pids : pidInstance[s][q] = k => q <= id

\* The loops of waitFor and waitForInstance.  An emptied map yields whatever
\* number; currentNode is read before currentStageInstNum.  The wait of the
\* sub-node looks for the pid first, which without an entry is any number.
WaitSteps ==
  \/ /\ AtCall("waitFor")
     /\ call' = IF instances = {} THEN IdleCall ELSE [call EXCEPT !.op = "first"]
  \/ /\ AtCall("first")
     /\ \E i \in Inst :
          /\ instances # {} => i \in instances /\ \A j \in instances : i <= j
          /\ call' = [call EXCEPT !.op = "wait", !.inst = i]
  \/ /\ AtCall("wait")
     /\ call' = CASE call.inst \in instances -> [call EXCEPT !.op = "node"]
                  [] call.inst \notin instances /\ call.all
                       -> [call EXCEPT !.op = "waitFor", !.inst = NoInst]
                  [] OTHER -> IdleCall
  \/ /\ AtCall("node")
     /\ call.inst \in sequences
     /\ call' = [call EXCEPT !.op = "num", !.node = seq[call.inst].node]
  \/ /\ AtCall("num")
     /\ call.inst \in sequences
     /\ call' = [call EXCEPT !.op = "pid", !.num = seq[call.inst].num]
  \/ /\ AtCall("pid")
     /\ \E id \in Pids \cup {NoPid} :
          /\ (\E q \in Pids : pidInstance[call.node][q] = call.num) =>
               id \in Pids /\ IsLastPid(call.node, call.num, id)
          /\ call' = [call EXCEPT !.op = "waitSub", !.pid = id]
  \/ /\ AtCall("waitSub")
     /\ ~SubRuns(call.node, call.num)
     /\ call' = [call EXCEPT !.op = "wait", !.node = NoNode, !.num = NoInst, !.pid = NoPid]

Wait ==
  /\ WaitSteps
  /\ UNCHANGED <<node, procs, pidInstance, subInstances, onInstanceDeath, links, frame, crashed>>

\* sequences[instNum] makes a RunningSequence without an owner, whose node and
\* number are what the memory holds: the handler has ended the sequence since
\* the loop looked.
WaitFindsNone ==
  /\ AtCall("node") \/ AtCall("num")
  /\ call.inst \in Inst \ sequences
  /\ sequences' = sequences \cup {call.inst}
  /\ \E s \in Subs, k \in Nums :
       seq' = [seq EXCEPT ![call.inst] = [stage |-> -1, node |-> s, num |-> k]]
  /\ UNCHANGED <<instances, procs, pidInstance, subInstances, onInstanceDeath, links, frame, call,
                 crashed>>

\* ... or is no pointer to a node.
WaitFindsNoNode ==
  /\ AtCall("node")
  /\ call.inst \notin sequences
  /\ crashed' = TRUE
  /\ UNCHANGED <<node, procs, pidInstance, subInstances, onInstanceDeath, links, frame, call>>

-----------------------------------------------------------------------------
Frame(c) ==
  \/ Callback(c) \/ CallbacksDone(c) \/ ProceedEnds(c) \/ FinishSequence(c) \/ ProceedNext(c)
  \/ PassFds(c) \/ StageNumber(c) \/ StageEnter(c) \/ StageClear(c) \/ StageFork(c) \/ CloseFds(c)
  \/ StageAssign(c) \/ TouchesFreed(c) \/ StageThrows(c)

Thread == Wait \/ WaitFindsNone \/ WaitFindsNoNode \/ \E p \in procs : ThreadReaps(p)

Stopped == crashed /\ UNCHANGED vars

Next ==
  \/ \E p \in procs : Exit(p) \/ HandlerReaps(p)
  \/ \E c \in Contexts : Frame(c)
  \/ \E files \in SUBSET Files : Startup(files)
  \/ StartupFindsEntry
  \/ CallWait
  \/ Thread
  \/ Stopped

\* The processes exit, the handler is entered for each and runs on, and so does
\* the thread.  The programs are the launcher's only children: of one sequence
\* there is one at a time, so that no signal merges with another's.
Fairness ==
  /\ WF_vars(\E p \in procs : Exit(p))
  /\ WF_vars(\E p \in procs : HandlerReaps(p))
  /\ WF_vars(Frame("handler"))
  /\ SF_vars(Frame("thread") \/ Thread)

Spec == Init /\ [][Next]_vars
FairSpec == Spec /\ Fairness

-----------------------------------------------------------------------------
(* Properties *)

FrameOps == {"idle", "callbacks", "proceed", "end", "pass", "number", "enter", "clear", "fork",
             "close", "assign"}
Waits == {"waitFor", "first", "wait", "node", "num", "pid", "waitSub"}
Handlers == UNION {[1 .. n -> Inst] : n \in 0 .. MaxInst}

\* The maps, the processes, the frames and the wait have their types.
TypeOK ==
  /\ instances \subseteq Inst /\ sequences \subseteq Inst
  /\ seq \in [Inst -> [stage : -1 .. Len(Order), node : Subs \cup {NoNode}, num : Nums \cup {NoInst}]]
  /\ procs \subseteq [node : Subs, num : Nums, pid : Pids, seq : Inst, fds : SUBSET Files,
                       st : {"alive", "ok", "fail", "killed"}]
  /\ pidInstance \in [Subs -> [Pids -> Nums \cup {NoInst}]]
  /\ subInstances \in [Subs -> [Nums -> Handlers \cup {NoHandlers}]]
  /\ onInstanceDeath \in [Subs -> Handlers]
  /\ fdMap \in [Subs \cup {Self} -> SUBSET Files]
  /\ held \in [Inst -> SUBSET Files] /\ given \in [Inst -> SUBSET Files]
  /\ frame \in [Contexts -> [op : FrameOps, node : Subs \cup {NoNode}, num : Nums \cup {NoInst},
                            ret : {0, 1}, todo : Handlers, seq : Inst \cup {NoInst},
                            next : Subs \cup {NoNode}, new : Nums \cup {NoInst}]]
  /\ call \in [op : Waits \cup {"idle"}, inst : Inst \cup {NoInst}, node : Subs \cup {NoNode},
               num : Nums \cup {NoInst}, pid : Pids \cup {NoPid}, all : BOOLEAN]
  /\ crashed \in BOOLEAN

\* The programs of a sequence run one after the other, each in its turn
\* (SequenceNode.hxx:7): no two of them are there at once, even as zombies, and
\* the one that is there is the program of the stage that the sequence is at.
OneAfterTheOther ==
  \A p \in procs :
    /\ seq[p.seq].stage >= 0 /\ p.node = Order[seq[p.seq].stage + 1]
    /\ \A q \in procs : q.seq = p.seq => q = p

\* The frame c will still start or end a stage of i.
Handles(c, i) == frame[c].seq = i \/ \E j \in DOMAIN frame[c].todo : frame[c].todo[j] = i

\* Every sequence that has not ended is carried on: it is in the hands of the
\* thread or of the handler, or there is a process whose end will continue it,
\* and it alone, and by which a wait can find it (SequenceNode.cxx:50-52, 87).
CarriedOn ==
  \A i \in instances :
    \/ \E c \in Contexts : Handles(c, i)
    \/ /\ i \in sequences
       /\ \E p \in procs : /\ p.seq = i
                           /\ subInstances[p.node][p.num] = <<i>>
                           /\ seq[i].node = p.node /\ seq[i].num = p.num

\* All programs of a sequence are started with what was linked for it, and with
\* nothing that was linked for another one or by itself (SequenceNode.hxx:8, "using
\* the same file handles for each of the programs"); what is linked is closed when
\* the sequence has ended or the sub-node has been started.
SameHandles ==
  /\ \A p \in procs : p.fds = given[p.seq]
  /\ \A i \in Inst \ sequences : held[i] = {}
  /\ (\A c \in Contexts : frame[c].op = "idle") => \A n \in Subs \cup {Self} : fdMap[n] = {}

\* The promise of Node.  An instance executes while a program of it does, and
\* between two of them.
MoreToRun(i, ret) == ret = 0 /\ seq[i].stage + 1 < Len(Order)
WillStart(c, i) ==
  \/ frame[c].seq = i /\ frame[c].op \in {"pass", "number", "enter", "clear", "fork"}
  \/ Handles(c, i) /\ frame[c].op \in {"proceed", "callbacks"} /\ MoreToRun(i, frame[c].ret)
Live == {i \in instances :
           \/ \E c \in Contexts : WillStart(c, i)
           \/ \E p \in procs : p.seq = i /\ (p.st = "alive" \/ MoreToRun(i, RetVal(p)))}
Waiting == IF call.op \in Waits
           THEN [node |-> Self, inst |-> IF call.all THEN -2 ELSE call.inst]
           ELSE [node |-> NoNode, inst |-> -2]

Contract == INSTANCE NodeContract WITH
              Nodes <- {Self}, running <- [n \in {Self} |-> instances],
              live <- [n \in {Self} |-> Live], waiting <- Waiting

\* A sequence node keeps the promise of Node: an instance completes only after
\* its last program, or after one that has failed, which no other follows, and a
\* wait for it returns only then (SequenceNode.hxx:10, Node.hxx:124, 131).
ImplementsContract == Contract!Spec

\* A wait for a sequence node comes to an end when its programs do, if not
\* always to a good one (SequenceNode.cxx:84-90).
WaitEnds == call.op \in Waits ~> call.op = "idle" \/ crashed
=============================================================================
