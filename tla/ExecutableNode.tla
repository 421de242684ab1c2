--------------------------- MODULE ExecutableNode ---------------------------
(***************************************************************************)
(* ExecutableNode on top of Node: instances backed by forked processes,    *)
(* the SIGCHLD handler `reaper' and waitForInstance()'s own waitpid(),     *)
(* which compete for the exit statuses of the same children.               *)
(*                                                                         *)
(* One thread runs the program.  The signal handler runs on that thread:   *)
(* it starts between any two of its steps, as soon as a child exits, or    *)
(* while it blocks in waitpid; the thread stops until it returns.  The     *)
(* handler body after its blocking wait() is one action, for nothing else  *)
(* of this process can run then.  The processes run in parallel.           *)
(***************************************************************************)
EXTENDS Integers, FiniteSets

CONSTANTS
  Nodes,     \* the ExecutableNode objects
  NoNode,    \* no node
  Pids,      \* the process numbers the kernel hands out
  MaxInst,   \* bound: at most MaxInst instances of a node run at once
  Early,     \* the nodes whose processes may exit before they are registered
  PidReuse,  \* does the kernel's process counter wrap around?
  Mortal     \* the process numbers whose processes exit by themselves

Inst == 0 .. MaxInst - 1
NoInst == -1
NoPid == 0
NoOwner == <<NoNode, NoInst>>

ASSUME ConstantsAssumption ==
  /\ NoNode \notin Nodes
  /\ Pids \subseteq Nat \ {NoPid}
  /\ MaxInst \in Nat \ {0}
  /\ Early \subseteq Nodes
  /\ PidReuse \in BOOLEAN
  /\ Mortal \subseteq Pids

VARIABLES
  proc,          \* the kernel: what became of each process number
  owner,         \* history: the instance a process was forked for
  sigchld,       \* SIGCHLD is pending; pending signals of one kind merge
  handling,      \* the thread is inside reaper(), at its wait()
  running_nodes, \* ExecutableNode::running_nodes
  pidInstance,   \* ExecutableNode::pidInstance of each node
  instances,     \* the keys of Node::instances of each node
  call           \* where the thread is in startup() or a wait

kernel == <<proc, owner, sigchld, handling>>
maps == <<running_nodes, pidInstance, instances>>
vars == <<proc, owner, sigchld, handling, running_nodes, pidInstance, instances, call>>

IdleCall == [op |-> "idle", node |-> NoNode, inst |-> NoInst, pid |-> NoPid, all |-> FALSE]

\* "forked", "mapped": in startInstance, before each of its two map writes.
\* "waitFor": at the head of waitFor's loop; "first": it has seen that there are
\* instances and reads the first; "wait": at the head of waitForInstance's loop.
\* "waitpid": about to call it or blocked in it; "reaped": it returned the
\* child, reapProcess is next.  "threw": startInstance threw ForkError.
Ops == {"idle", "forked", "mapped", "waitFor", "first", "wait", "waitpid", "reaped", "threw"}

Calls == [op : Ops, node : Nodes \cup {NoNode}, inst : Inst \cup {NoInst},
          pid : Pids \cup {NoPid}, all : BOOLEAN]

\* The kernel's table, the maps and the locals of the calls have their types.
TypeOK ==
  /\ proc \in [Pids -> {"free", "alive", "zombie", "gone"}]
  /\ owner \in [Pids -> (Nodes \X Inst) \cup {NoOwner}]
  /\ sigchld \in BOOLEAN
  /\ handling \in BOOLEAN
  /\ running_nodes \in [Pids -> Nodes \cup {NoNode}]
  /\ pidInstance \in [Nodes -> [Pids -> Inst \cup {NoInst}]]
  /\ instances \in [Nodes -> SUBSET Inst]
  /\ call \in Calls
  /\ call.op # "idle" => call.node \in Nodes
  /\ call.op \in {"forked", "mapped", "wait", "waitpid", "reaped"} =>
       call.inst \in Inst /\ call.pid \in Pids
  /\ call.op \in {"waitFor", "first"} => call.all

Init ==
  /\ proc = [p \in Pids |-> "free"]
  /\ owner = [p \in Pids |-> NoOwner]
  /\ sigchld = FALSE
  /\ handling = FALSE
  /\ running_nodes = [p \in Pids |-> NoNode]
  /\ pidInstance = [n \in Nodes |-> [p \in Pids |-> NoInst]]
  /\ instances = [n \in Nodes |-> {}]
  /\ call = IdleCall

-----------------------------------------------------------------------------
(* Helpers *)

\* The thread runs program code: no handler is on top of it and none is due
\* (Linux delivers a pending signal before the thread executes further, and
\* restarts a fork() that finds one).
AtOp(op) == call.op = op /\ ~handling /\ ~sigchld

\* In waitpid(), which looks at the children before it looks at signals.
InWaitpid == call.op = "waitpid" /\ ~handling

\* Mutant: numbers by the count of the instances.
IsNextInst_Count(n, i) == i = Cardinality(instances[n])

\* startup() takes the smallest number that is not in use.
IsNextInst(n, i) == i \notin instances[n] /\ \A j \in 0 .. (i - 1) : j \in instances[n]

\* fork() takes the next number; after a wrap-around any number without a
\* process may be the next.
IsNextPid(p) ==
  IF PidReuse THEN proc[p] \in {"free", "gone"}
              ELSE /\ proc[p] = "free"
                   /\ \A q \in Pids : proc[q] = "free" => p <= q

\* Mutant: the search stops at its first match.
IsWaitPid_First(n, i, p) ==
  \/ /\ pidInstance[n][p] = i
     /\ \A q \in Pids : pidInstance[n][q] = i => p <= q
  \/ \A q \in Pids : pidInstance[n][q] # i

\* The search of waitForInstance: the last entry, in the order of the numbers,
\* that maps to the instance; `pid' stays uninitialized when there is none.
IsWaitPid(n, i, p) ==
  \/ /\ pidInstance[n][p] = i
     /\ \A q \in Pids : pidInstance[n][q] = i => q <= p
  \/ \A q \in Pids : pidInstance[n][q] # i

\* finishInstance(i) on n: a no-op for an instance that is not running.
FinishInstance(n, i) == instances' = [instances EXCEPT ![n] = @ \ {i}]

\* Mutant: finishes the first instance, whichever the process belongs to.
ReapProcess_First(n, p) ==
  /\ running_nodes' = [running_nodes EXCEPT ![p] = NoNode]
  /\ FinishInstance(n, 0)
  /\ UNCHANGED pidInstance

\* reapProcess(p) on n.  Reading pidInstance[p] creates an entry with instance
\* 0 where there is none.
ReapProcess(n, p) ==
  LET i == IF pidInstance[n][p] = NoInst THEN 0 ELSE pidInstance[n][p]
  IN  /\ running_nodes' = [running_nodes EXCEPT ![p] = NoNode]
      /\ pidInstance' = [pidInstance EXCEPT ![n][p] = i]
      /\ FinishInstance(n, i)

-----------------------------------------------------------------------------
(* The processes *)

Exit(p) ==
  /\ proc[p] = "alive"
  /\ owner[p][1] \in Early \/ ~(call.op \in {"forked", "mapped"} /\ call.pid = p)
  /\ proc' = [proc EXCEPT ![p] = "zombie"]
  /\ sigchld' = TRUE
  /\ UNCHANGED <<owner, handling, call, maps>>

-----------------------------------------------------------------------------
(* startup() and startInstance() *)

Startup(n) ==
  /\ AtOp("idle")
  /\ \E i \in Inst, p \in Pids :
       /\ IsNextInst(n, i)
       /\ IsNextPid(p)
       /\ instances' = [instances EXCEPT ![n] = @ \cup {i}]
       /\ proc' = [proc EXCEPT ![p] = "alive"]
       /\ owner' = [owner EXCEPT ![p] = <<n, i>>]
       /\ call' = [IdleCall EXCEPT !.op = "forked", !.node = n, !.inst = i, !.pid = p]
  /\ UNCHANGED <<sigchld, handling, running_nodes, pidInstance>>

\* fork() fails: ForkError leaves the instance in the map and ends the program.
StartupThrows(n) ==
  /\ AtOp("idle")
  /\ \E i \in Inst :
       /\ IsNextInst(n, i)
       /\ instances' = [instances EXCEPT ![n] = @ \cup {i}]
       /\ call' = [IdleCall EXCEPT !.op = "threw", !.node = n, !.inst = i]
  /\ UNCHANGED <<kernel, running_nodes, pidInstance>>

RegisterNode ==
  /\ AtOp("forked")
  /\ running_nodes' = [running_nodes EXCEPT ![call.pid] = call.node]
  /\ call' = [call EXCEPT !.op = "mapped"]
  /\ UNCHANGED <<kernel, pidInstance, instances>>

\* Mutant: pidInstance[instNum] = pid.
RegisterInstance_Swapped ==
  /\ AtOp("mapped")
  /\ pidInstance' = [pidInstance EXCEPT ![call.node][call.inst] = call.pid]
  /\ call' = IdleCall
  /\ UNCHANGED <<kernel, running_nodes, instances>>

RegisterInstance ==
  /\ AtOp("mapped")
  /\ pidInstance' = [pidInstance EXCEPT ![call.node][call.pid] = call.inst]
  /\ call' = IdleCall
  /\ UNCHANGED <<kernel, running_nodes, instances>>

-----------------------------------------------------------------------------
(* waitFor() and waitForInstance() *)

CallWaitFor(n) ==
  /\ AtOp("idle")
  /\ call' = [IdleCall EXCEPT !.op = "waitFor", !.node = n, !.all = TRUE]
  /\ UNCHANGED <<kernel, maps>>

CallWaitForInstance(n, i) ==
  /\ AtOp("idle")
  /\ \E p \in Pids :
       /\ IsWaitPid(n, i, p)
       /\ call' = [IdleCall EXCEPT !.op = "wait", !.node = n, !.inst = i, !.pid = p]
  /\ UNCHANGED <<kernel, maps>>

WaitForNext ==
  /\ AtOp("waitFor")
  /\ instances[call.node] # {}
  /\ call' = [call EXCEPT !.op = "first"]
  /\ UNCHANGED <<kernel, maps>>

\* instances.begin()->first.  The handler may have emptied the map since the
\* loop looked: the end iterator then yields whatever number.
WaitForFirst ==
  /\ AtOp("first")
  /\ \E i \in Inst, p \in Pids :
       /\ \/ i \in instances[call.node] /\ \A j \in instances[call.node] : i <= j
          \/ instances[call.node] = {}
       /\ IsWaitPid(call.node, i, p)
       /\ call' = [call EXCEPT !.op = "wait", !.inst = i, !.pid = p]
  /\ UNCHANGED <<kernel, maps>>

WaitForReturns ==
  /\ AtOp("waitFor")
  /\ instances[call.node] = {}
  /\ call' = IdleCall
  /\ UNCHANGED <<kernel, maps>>

\* instanceIsRunning() is false: waitForInstance returns, to waitFor's loop
\* when that called it.
WaitReturns ==
  /\ AtOp("wait")
  /\ call.inst \notin instances[call.node]
  /\ call' = IF call.all
             THEN [call EXCEPT !.op = "waitFor", !.inst = NoInst, !.pid = NoPid]
             ELSE IdleCall
  /\ UNCHANGED <<kernel, maps>>

WaitBlocks ==
  /\ AtOp("wait")
  /\ call.inst \in instances[call.node]
  /\ call' = [call EXCEPT !.op = "waitpid"]
  /\ UNCHANGED <<kernel, maps>>

WaitpidReaps ==
  /\ InWaitpid
  /\ proc[call.pid] = "zombie"
  /\ proc' = [proc EXCEPT ![call.pid] = "gone"]
  /\ call' = [call EXCEPT !.op = "reaped"]
  /\ UNCHANGED <<owner, sigchld, handling, maps>>

\* ECHILD: no such child (any more); the loop looks at the instance again.
WaitpidFails ==
  /\ InWaitpid
  /\ proc[call.pid] \in {"free", "gone"}
  /\ call' = [call EXCEPT !.op = "wait"]
  /\ UNCHANGED <<kernel, maps>>

WaitReaps ==
  /\ AtOp("reaped")
  /\ ReapProcess(call.node, call.pid)
  /\ call' = [call EXCEPT !.op = "wait"]
  /\ UNCHANGED kernel

-----------------------------------------------------------------------------
(* The SIGCHLD handler *)

HandlerEnters ==
  /\ sigchld
  /\ ~handling
  /\ call.op # "threw"
  /\ sigchld' = FALSE
  /\ handling' = TRUE
  /\ UNCHANGED <<proc, owner, call, maps>>

\* wait() returns a child nobody has registered yet: its status is dropped.
HandlerDrops(p) ==
  /\ handling
  /\ proc[p] = "zombie"
  /\ running_nodes[p] = NoNode
  /\ proc' = [proc EXCEPT ![p] = "gone"]
  /\ handling' = FALSE
  /\ UNCHANGED <<owner, sigchld, call, maps>>

\* wait() returns a registered child.
HandlerReaps(p) ==
  /\ handling
  /\ proc[p] = "zombie"
  /\ running_nodes[p] # NoNode
  /\ ReapProcess(running_nodes[p], p)
  /\ proc' = [proc EXCEPT ![p] = "gone"]
  /\ handling' = FALSE
  /\ UNCHANGED <<owner, sigchld, call>>

\* wait() fails with ECHILD.
HandlerFindsNone ==
  /\ handling
  /\ \A p \in Pids : proc[p] \in {"free", "gone"}
  /\ handling' = FALSE
  /\ UNCHANGED <<proc, owner, sigchld, call, maps>>

-----------------------------------------------------------------------------
Stopped == call.op = "threw" /\ UNCHANGED vars

Thread ==
  \/ RegisterNode \/ RegisterInstance
  \/ WaitForNext \/ WaitForFirst \/ WaitForReturns
  \/ WaitReturns \/ WaitBlocks
  \/ WaitpidReaps \/ WaitpidFails \/ WaitReaps

Handler ==
  \/ HandlerEnters
  \/ \E p \in Pids : HandlerDrops(p) \/ HandlerReaps(p)
  \/ HandlerFindsNone

Client ==
  \/ \E n \in Nodes : Startup(n) \/ StartupThrows(n) \/ CallWaitFor(n)
  \/ \E n \in Nodes, i \in Inst : CallWaitForInstance(n, i)

Next ==
  \/ \E p \in Pids : Exit(p)
  \/ Client
  \/ Thread
  \/ Handler
  \/ Stopped

(***************************************************************************)
(* The scheduler runs the thread, the kernel delivers a pending signal,    *)
(* and the mortal processes exit.  Nothing makes the client call anything. *)
(***************************************************************************)
Fairness ==
  /\ WF_vars(Thread)
  /\ WF_vars(Handler)
  /\ \A p \in Mortal : WF_vars(Exit(p))

Spec == Init /\ [][Next]_vars
FairSpec == Spec /\ Fairness

-----------------------------------------------------------------------------
(* Properties *)

\* Instance <<n, i>> ends in ForkError: it is in the map and has no process.
Threw(n, i) == call.op = "threw" /\ call.node = n /\ call.inst = i

Unreaped(p) == proc[p] \in {"alive", "zombie"}
InHand(p) == call.op = "reaped" /\ call.pid = p       \* of waitForInstance
Held(p) == Unreaped(p) \/ InHand(p)
Registering(p) == call.op \in {"forked", "mapped"} /\ call.pid = p

\* Process numbers grow, and nothing is known of a number before its fork().
PidsInOrder ==
  \A p \in Pids : proc[p] = "free" =>
    /\ owner[p] = NoOwner
    /\ \A q \in Pids : proc[q] # "free" => q < p

\* The rest is said of the nodes that are not in E.

\* A map entry tells the truth: pidInstance forever, running_nodes while the
\* process has not been reaped through it.
EntriesTrue(E) ==
  /\ \A n \in Nodes \ E, p \in Pids :
       pidInstance[n][p] # NoInst => owner[p] = <<n, pidInstance[n][p]>>
  /\ \A p \in Pids : running_nodes[p] \notin E \cup {NoNode} =>
       /\ Held(p)
       /\ owner[p][1] = running_nodes[p]

\* A process whose status is still to be collected can be attributed to its
\* instance, which is running, and no other process is (or was later) its.
ProcessesKnown(E) ==
  \A p \in Pids : Held(p) /\ owner[p][1] \notin E =>
    /\ owner[p] # NoOwner
    /\ owner[p][2] \in instances[owner[p][1]]
    /\ \A q \in Pids : owner[q] = owner[p] => q <= p /\ (q = p \/ ~Held(q))
    /\ ~Registering(p) => /\ running_nodes[p] = owner[p][1]
                         /\ pidInstance[owner[p][1]][p] = owner[p][2]

\* An instance that counts as running has a process whose status will say when
\* it ends: no completion is lost.
InstancesBacked(E) ==
  \A n \in Nodes \ E : \A i \in instances[n] :
    Threw(n, i) \/ \E p \in Pids : Held(p) /\ owner[p] = <<n, i>>

\* What startInstance and waitForInstance hold in their locals is still true.
CallTrue(E) ==
  /\ call.op \in {"forked", "mapped"} /\ call.node \notin E =>
       /\ proc[call.pid] = "alive"
       /\ owner[call.pid] = <<call.node, call.inst>>
       /\ call.op = "mapped" => running_nodes[call.pid] = call.node
  /\ call.op = "reaped" => proc[call.pid] = "gone" /\ owner[call.pid] = <<call.node, call.inst>>
  /\ call.op = "threw" /\ call.node \notin E =>
       /\ call.inst \in instances[call.node]
       /\ \A p \in Pids : Held(p) => owner[p] # <<call.node, call.inst>>

\* waitForInstance searched the process of the instance once, before its loop:
\* whenever it goes to waitpid, that is still the process of this instance, not
\* an older one's and not another node's (ExecutableNode.cxx:113-119).
WaitsOnItsOwn ==
  \/ call.op = "waitpid"
  \/ call.op = "wait" /\ call.inst \in instances[call.node]
  => owner[call.pid] = <<call.node, call.inst>>

Bookkept(E) ==
  /\ PidsInOrder
  /\ EntriesTrue(E)
  /\ ProcessesKnown(E)
  /\ InstancesBacked(E)
  /\ CallTrue(E)
  /\ WaitsOnItsOwn

\* The three maps, the kernel's processes and the thread's locals agree at
\* every point at which SIGCHLD can be delivered: no exit status is lost and
\* none is booked on the wrong instance, of the nodes whose processes exit too
\* late for that; the others do not disturb them (ExecutableNode.cxx:30-41,
\* 102-103).
Bookkeeping == Bookkept(Early)

\* The promise of Node: instances that run, execute, and are waited for.
Waits == {"waitFor", "first", "wait", "waitpid", "reaped"}
Running == [n \in Nodes |-> {i \in instances[n] : ~Threw(n, i)}]
Live == [n \in Nodes |-> {i \in Inst : \E p \in Pids : proc[p] = "alive" /\ owner[p] = <<n, i>>}]
Waiting == IF call.op \in Waits
           THEN [node |-> call.node, inst |-> IF call.all THEN -2 ELSE call.inst]
           ELSE [node |-> NoNode, inst |-> -2]

Steady == Nodes \ Early

Contract == INSTANCE NodeContract WITH
              Nodes <- Steady,
              running <- [n \in Steady |-> Running[n]],
              live <- [n \in Steady |-> Live[n]],
              waiting <- IF call.node \in Early THEN [node |-> NoNode, inst |-> -2] ELSE Waiting

\* ExecutableNode keeps the promise: an instance completes only after its
\* process has exited, a number is taken only when it is not in use, and a wait
\* returns only when what it waits for has completed, of each node whose
\* processes do not exit too early (Node.hxx:122-131).
ImplementsContract == Contract!Spec

\* A wait returns when the processes it waits for exit, whoever of the thread
\* and the handler collects each status (Node.hxx:124, 131).
WaitTerminates == call.op \in Waits ~> call.op = "idle"

\* Such a wait does return for a node whose processes exit after they are
\* registered, whatever the handler drops of the others (Node.hxx:124, 131).
SteadyWaitTerminates ==
  \A n \in Steady : call.op \in Waits /\ call.node = n ~> call.op = "idle"
=============================================================================
