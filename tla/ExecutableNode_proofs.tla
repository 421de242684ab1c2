------------------------ MODULE ExecutableNode_proofs ------------------------
(***************************************************************************)
(* Proofs about ExecutableNode, for any nodes, process numbers and bound   *)
(* on the instances.  Quiet names what the safety theorems assume of the   *)
(* environment; type correctness needs none of it.                         *)
(***************************************************************************)
EXTENDS ExecutableNode, TLAPS

\* No process exits before fork()'s caller has registered it, and the kernel's
\* process counter does not wrap around.
Quiet == Early = {} /\ ~PidReuse

USE ConstantsAssumption

-----------------------------------------------------------------------------
(* Type correctness *)

\* The instance number that pidInstance's operator[] makes up is a possible one.
LEMMA ZeroInst == 0 \in Inst
  BY DEF Inst

\* reapProcess of a node and a process leaves the three maps in their types.
LEMMA ReapTypes ==
  ASSUME TypeOK, NEW n \in Nodes, NEW p \in Pids, ReapProcess(n, p)
  PROVE  /\ running_nodes' \in [Pids -> Nodes \cup {NoNode}]
         /\ pidInstance' \in [Nodes -> [Pids -> Inst \cup {NoInst}]]
         /\ instances' \in [Nodes -> SUBSET Inst]
<1> USE DEF TypeOK, ReapProcess
<1>1. running_nodes' \in [Pids -> Nodes \cup {NoNode}]
  OBVIOUS
<1>2. pidInstance' \in [Nodes -> [Pids -> Inst \cup {NoInst}]]
  BY ZeroInst
<1>3. instances' \in [Nodes -> SUBSET Inst]
  BY DEF FinishInstance
<1> QED
  BY <1>1, <1>2, <1>3

\* Every step of the thread, the handler and the processes keeps each map, each
\* process and the locals of startInstance and waitForInstance in their types.
LEMMA TypeStep == TypeOK /\ [Next]_vars => TypeOK'
<1> SUFFICES ASSUME TypeOK, [Next]_vars PROVE TypeOK'
  OBVIOUS
<1> USE DEF TypeOK, Calls, Ops, IdleCall, kernel, maps
<1>1. ASSUME NEW p \in Pids, Exit(p) PROVE TypeOK'
  BY <1>1 DEF Exit
<1>2. ASSUME NEW n \in Nodes, Startup(n) PROVE TypeOK'
  <2>1. PICK i \in Inst, p \in Pids :
          /\ instances' = [instances EXCEPT ![n] = @ \cup {i}]
          /\ proc' = [proc EXCEPT ![p] = "alive"]
          /\ owner' = [owner EXCEPT ![p] = <<n, i>>]
          /\ call' = [IdleCall EXCEPT !.op = "forked", !.node = n, !.inst = i, !.pid = p]
    BY <1>2 DEF Startup
  <2>2. proc' \in [Pids -> {"free", "alive", "zombie", "gone"}]
    BY <2>1
  <2>3. owner' \in [Pids -> (Nodes \X Inst) \cup {NoOwner}]
    BY <2>1
  <2>4. instances' \in [Nodes -> SUBSET Inst]
    BY <2>1
  <2>5. call' \in Calls
    BY <2>1 DEF Calls, Ops
  <2> QED
    BY <1>2, <2>2, <2>3, <2>4, <2>5 DEF Startup
<1>3. ASSUME NEW n \in Nodes, StartupThrows(n) PROVE TypeOK'
  <2>1. instances' \in [Nodes -> SUBSET Inst]
    BY <1>3 DEF StartupThrows
  <2>2. PICK i \in Inst : call' = [IdleCall EXCEPT !.op = "threw", !.node = n, !.inst = i]
    BY <1>3 DEF StartupThrows
  <2>3. call' = [op |-> "threw", node |-> n, inst |-> i, pid |-> NoPid, all |-> FALSE]
    BY <2>2
  <2>4. call' \in Calls /\ call'.op = "threw" /\ call'.node = n
    BY <2>3
  <2> QED
    BY <1>3, <2>1, <2>4 DEF StartupThrows
<1>4. ASSUME NEW n \in Nodes, CallWaitFor(n) PROVE TypeOK'
  BY <1>4 DEF CallWaitFor, AtOp
<1>5. ASSUME NEW n \in Nodes, NEW i \in Inst, CallWaitForInstance(n, i) PROVE TypeOK'
  <2>1. PICK p \in Pids :
          call' = [IdleCall EXCEPT !.op = "wait", !.node = n, !.inst = i, !.pid = p]
    BY <1>5 DEF CallWaitForInstance
  <2>2. call' = [op |-> "wait", node |-> n, inst |-> i, pid |-> p, all |-> FALSE]
    BY <2>1
  <2>3. /\ call' \in Calls
        /\ call'.op = "wait" /\ call'.node = n /\ call'.inst = i /\ call'.pid = p
    BY <2>2
  <2> QED
    BY <1>5, <2>3 DEF CallWaitForInstance
<1>6. CASE RegisterNode
  BY <1>6 DEF RegisterNode, AtOp
<1>7. CASE RegisterInstance
  BY <1>7 DEF RegisterInstance, AtOp
<1>8. CASE WaitForNext
  <2>1. call' \in Calls
    BY <1>8 DEF WaitForNext, AtOp, InWaitpid
  <2> QED
    BY <1>8, <2>1 DEF WaitForNext, AtOp, InWaitpid
<1>9. CASE WaitForReturns
  <2>1. call' \in Calls
    BY <1>9 DEF WaitForReturns, AtOp, InWaitpid
  <2> QED
    BY <1>9, <2>1 DEF WaitForReturns, AtOp, InWaitpid
<1>10. CASE WaitForFirst
  <2>1. PICK i \in Inst, p \in Pids :
          call.op = "first" /\ call' = [call EXCEPT !.op = "wait", !.inst = i, !.pid = p]
    BY <1>10 DEF WaitForFirst, AtOp
  <2>2. call \in Calls /\ call.node \in Nodes
    BY <2>1
  <2>3. /\ call' \in Calls
        /\ call'.op = "wait" /\ call'.node = call.node /\ call'.inst = i /\ call'.pid = p
    BY <2>1, <2>2
  <2> QED
    BY <1>10, <2>2, <2>3 DEF WaitForFirst
<1>11. CASE WaitReturns
  <2>1. call' \in Calls
    BY <1>11 DEF WaitReturns, AtOp, InWaitpid
  <2> QED
    BY <1>11, <2>1 DEF WaitReturns, AtOp, InWaitpid
<1>12. CASE WaitBlocks
  <2>1. call' \in Calls
    BY <1>12 DEF WaitBlocks, AtOp, InWaitpid
  <2> QED
    BY <1>12, <2>1 DEF WaitBlocks, AtOp, InWaitpid
<1>13. CASE WaitpidReaps \/ WaitpidFails
  <2>1. PICK op \in {"reaped", "wait"} : call.op = "waitpid" /\ call' = [call EXCEPT !.op = op]
    BY <1>13 DEF WaitpidReaps, WaitpidFails, InWaitpid
  <2>2. call \in Calls /\ call.node \in Nodes /\ call.inst \in Inst /\ call.pid \in Pids
    BY <2>1
  <2>3. call' \in Calls
    BY <2>1, <2>2
  <2>4. call'.op = op /\ call'.node = call.node /\ call'.inst = call.inst /\ call'.pid = call.pid
    BY <2>1, <2>2
  <2>5. proc' \in [Pids -> {"free", "alive", "zombie", "gone"}]
    BY <1>13 DEF WaitpidReaps, WaitpidFails
  <2> QED
    BY <1>13, <2>2, <2>3, <2>4, <2>5 DEF WaitpidReaps, WaitpidFails
<1>14. CASE WaitReaps
  <2>1. call.node \in Nodes /\ call.pid \in Pids /\ ReapProcess(call.node, call.pid)
    BY <1>14 DEF WaitReaps, AtOp
  <2>2. call' \in Calls
    BY <1>14 DEF WaitReaps, AtOp
  <2> QED
    BY <1>14, <2>1, <2>2, ReapTypes DEF WaitReaps, AtOp
<1>15. CASE HandlerEnters \/ HandlerFindsNone
  BY <1>15 DEF HandlerEnters, HandlerFindsNone
<1>16. ASSUME NEW p \in Pids, HandlerDrops(p) PROVE TypeOK'
  BY <1>16 DEF HandlerDrops
<1>17. ASSUME NEW p \in Pids, HandlerReaps(p) PROVE TypeOK'
  <2>1. running_nodes[p] \in Nodes /\ ReapProcess(running_nodes[p], p)
    BY <1>17 DEF HandlerReaps
  <2> QED
    BY <1>17, <2>1, ReapTypes DEF HandlerReaps
<1>18. CASE Stopped \/ UNCHANGED vars
  BY <1>18 DEF Stopped, vars
<1> QED
  BY <1>1, <1>2, <1>3, <1>4, <1>5, <1>6, <1>7, <1>8, <1>9, <1>10, <1>11, <1>12,
     <1>13, <1>14, <1>15, <1>16, <1>17, <1>18 DEF Next, Client, Thread, Handler

\* Nothing is running, and every map is empty, at the start.
LEMMA TypeInit == Init => TypeOK
<1> SUFFICES ASSUME Init PROVE TypeOK
  OBVIOUS
<1> USE DEF Init
<1>1. proc \in [Pids -> {"free", "alive", "zombie", "gone"}]
  OBVIOUS
<1>2. owner \in [Pids -> (Nodes \X Inst) \cup {NoOwner}]
  OBVIOUS
<1>3. running_nodes \in [Pids -> Nodes \cup {NoNode}]
  OBVIOUS
<1>4. pidInstance \in [Nodes -> [Pids -> Inst \cup {NoInst}]]
  OBVIOUS
<1>5. instances \in [Nodes -> SUBSET Inst]
  OBVIOUS
<1>6. call \in Calls
  BY DEF IdleCall, Calls, Ops
<1> QED
  BY <1>1, <1>2, <1>3, <1>4, <1>5, <1>6 DEF TypeOK, IdleCall

\* The maps, the processes and the locals always have their types, even when
\* exit statuses are lost and process numbers come round again.
THEOREM TypeCorrect == Spec => []TypeOK
  BY TypeInit, TypeStep, PTL DEF Spec

-----------------------------------------------------------------------------
(* Bookkeeping: what the maps say of the processes, of all nodes *)

Parts == TypeOK /\ Bookkept({})

\* As long as the same processes are held and registered, and the maps stay, the
\* parts that do not speak of the call stay true.
LEMMA HeldFrame ==
  ASSUME Parts, UNCHANGED <<owner, maps>>,
         \A q \in Pids : proc'[q] = "free" <=> proc[q] = "free",
         \A q \in Pids : Held(q)' <=> Held(q),
         \A q \in Pids : Registering(q) => Registering(q)',
         \A m \in Nodes, k \in Inst : Threw(m, k) => Threw(m, k)'
  PROVE  PidsInOrder' /\ EntriesTrue({})' /\ ProcessesKnown({})' /\ InstancesBacked({})'
<1> USE DEF Parts, Bookkept, maps
<1>1. PidsInOrder'
  BY DEF PidsInOrder
<1>2. EntriesTrue({})'
  BY DEF EntriesTrue
<1>3. ProcessesKnown({})'
  BY DEF ProcessesKnown
<1>4. InstancesBacked({})'
  BY DEF InstancesBacked, TypeOK
<1> QED
  BY <1>1, <1>2, <1>3, <1>4

\* An action that leaves the processes and the maps alone, and moves the call
\* between points where it holds neither a fresh nor a reaped process, disturbs
\* only what the call claims of its process.
LEMMA CallFrame ==
  ASSUME Parts, UNCHANGED <<proc, owner, maps>>,
         {call.op, call'.op} \cap {"forked", "mapped", "reaped", "threw"} = {}, WaitsOnItsOwn'
  PROVE  Bookkept({})'
<1>1. /\ \A q \in Pids : Held(q)' <=> Held(q)
      /\ \A q \in Pids : Registering(q) => Registering(q)'
      /\ \A m \in Nodes, k \in Inst : Threw(m, k) => Threw(m, k)'
  BY DEF Held, Unreaped, InHand, Registering, Threw
<1>2. PidsInOrder' /\ EntriesTrue({})' /\ ProcessesKnown({})' /\ InstancesBacked({})'
  BY <1>1, HeldFrame
<1>3. CallTrue({})'
  BY DEF CallTrue
<1> QED
  BY <1>2, <1>3 DEF Bookkept

\* At the start no process exists and every map is empty.
LEMMA BookkeepingInit == Init => Bookkept({})
<1> SUFFICES ASSUME Init PROVE Bookkept({})
  OBVIOUS
<1> USE DEF Init, IdleCall, Held, Unreaped, InHand
<1>1. PidsInOrder
  BY DEF PidsInOrder
<1>2. EntriesTrue({})
  BY DEF EntriesTrue
<1>3. ProcessesKnown({})
  BY DEF ProcessesKnown
<1>4. InstancesBacked({})
  BY DEF InstancesBacked
<1>5. CallTrue({}) /\ WaitsOnItsOwn
  BY DEF CallTrue, WaitsOnItsOwn
<1> QED
  BY <1>1, <1>2, <1>3, <1>4, <1>5 DEF Bookkept

\* startup(): the new process is the only one of its instance, and newer than
\* every process the maps know.
LEMMA StartupKeeps ==
  ASSUME Quiet, Parts, NEW n \in Nodes, Startup(n)
  PROVE  Bookkept({})'
<1>1. PICK i \in Inst, p \in Pids :
        /\ IsNextInst(n, i) /\ IsNextPid(p)
        /\ instances' = [instances EXCEPT ![n] = @ \cup {i}]
        /\ proc' = [proc EXCEPT ![p] = "alive"]
        /\ owner' = [owner EXCEPT ![p] = <<n, i>>]
        /\ call' = [IdleCall EXCEPT !.op = "forked", !.node = n, !.inst = i, !.pid = p]
  BY DEF Startup
<1>2. i \notin instances[n]
  BY <1>1 DEF IsNextInst
<1>3. proc[p] = "free" /\ \A q \in Pids : proc[q] = "free" => p <= q
  BY <1>1 DEF IsNextPid, Quiet
<1>4. owner[p] = NoOwner
  BY <1>3 DEF Parts, Bookkept, PidsInOrder
<1>5. call.op = "idle" /\ UNCHANGED <<running_nodes, pidInstance>>
  BY DEF Startup, AtOp
<1>6. \A q \in Pids : proc'[q] = IF q = p THEN "alive" ELSE proc[q]
  <2>1. proc' = [proc EXCEPT ![p] = "alive"]
    BY <1>1
  <2> QED
    BY <2>1 DEF Parts, TypeOK
<1>7. \A q \in Pids : owner'[q] = IF q = p THEN <<n, i>> ELSE owner[q]
  <2>1. owner' = [owner EXCEPT ![p] = <<n, i>>]
    BY <1>1
  <2> QED
    BY <2>1 DEF Parts, TypeOK
<1>8. \A m \in Nodes : instances'[m] = IF m = n THEN instances[m] \cup {i} ELSE instances[m]
  <2>1. instances' = [instances EXCEPT ![n] = @ \cup {i}]
    BY <1>1
  <2> QED
    BY <2>1 DEF Parts, TypeOK
<1>9. /\ call'.op = "forked" /\ call'.node = n /\ call'.inst = i /\ call'.pid = p
  BY <1>1 DEF IdleCall
<1>10. \A q \in Pids : Held(q)' <=> q = p \/ Held(q)
  BY <1>5, <1>6, <1>9 DEF Held, Unreaped, InHand
<1>11. ~Held(p)
  BY <1>3, <1>5 DEF Held, Unreaped, InHand
<1>12. <<n, i>> # NoOwner
  BY ConstantsAssumption DEF NoOwner
<1>13. \A q \in Pids : owner[q] = <<n, i>> => q < p /\ ~Held(q)
  <2> SUFFICES ASSUME NEW q \in Pids, owner[q] = <<n, i>> PROVE q < p /\ ~Held(q)
    OBVIOUS
  <2>1. proc[q] # "free"
    BY <1>12 DEF Parts, Bookkept, PidsInOrder
  <2>2. q < p
    BY <2>1, <1>3 DEF Parts, Bookkept, PidsInOrder
  <2>3. ~Held(q)
    BY <1>2 DEF Parts, Bookkept, ProcessesKnown
  <2> QED
    BY <2>2, <2>3
<1>14. PidsInOrder'
  <2> SUFFICES ASSUME NEW q \in Pids, proc'[q] = "free"
               PROVE  owner'[q] = NoOwner /\ \A r \in Pids : proc'[r] # "free" => r < q
    BY DEF PidsInOrder
  <2>1. proc[q] = "free" /\ q # p
    BY <1>6
  <2>2. p < q
    BY <2>1, <1>3, ConstantsAssumption
  <2>3. owner[q] = NoOwner /\ \A r \in Pids : proc[r] # "free" => r < q
    BY <2>1 DEF Parts, Bookkept, PidsInOrder
  <2> QED
    BY <2>1, <2>2, <2>3, <1>6, <1>7
<1>15. EntriesTrue({})'
  <2>1. ASSUME NEW m \in Nodes, NEW q \in Pids, pidInstance[m][q] # NoInst
        PROVE  owner'[q] = <<m, pidInstance[m][q]>>
    <3>1. owner[q] = <<m, pidInstance[m][q]>>
      BY <2>1 DEF Parts, Bookkept, EntriesTrue
    <3>2. q # p
      BY <3>1, <1>4, ConstantsAssumption DEF NoOwner
    <3> QED
      BY <3>1, <3>2, <1>7
  <2>2. ASSUME NEW q \in Pids, running_nodes[q] # NoNode
        PROVE  Held(q)' /\ owner'[q][1] = running_nodes[q]
    <3>1. Held(q) /\ owner[q][1] = running_nodes[q]
      BY <2>2 DEF Parts, Bookkept, EntriesTrue
    <3> QED
      BY <3>1, <1>7, <1>10, <1>11
  <2> QED
    BY <2>1, <2>2, <1>5 DEF EntriesTrue
<1>16. ProcessesKnown({})'
  <2> SUFFICES ASSUME NEW q \in Pids, Held(q)'
               PROVE  /\ owner'[q] # NoOwner
                      /\ owner'[q][2] \in instances'[owner'[q][1]]
                      /\ \A r \in Pids : owner'[r] = owner'[q] => r <= q /\ (r = q \/ ~Held(r)')
                      /\ ~Registering(q)' => /\ running_nodes'[q] = owner'[q][1]
                                            /\ pidInstance'[owner'[q][1]][q] = owner'[q][2]
    BY DEF ProcessesKnown
  <2>1. CASE q = p
    <3>1. \A r \in Pids : owner'[r] = <<n, i>> => r <= p /\ (r = p \/ ~Held(r)')
      BY <1>7, <1>10, <1>13, ConstantsAssumption
    <3>2. Registering(p)'
      BY <1>9 DEF Registering
    <3>3. owner'[p] = <<n, i>> /\ i \in instances'[n]
      BY <1>7, <1>8
    <3> QED
      BY <2>1, <3>1, <3>2, <3>3, <1>12
  <2>2. CASE q # p
    <3>1. Held(q)
      BY <2>2, <1>10
    <3>2. ~Registering(q) /\ owner'[q] = owner[q]
      BY <2>2, <1>5, <1>7 DEF Registering
    <3>3. /\ owner[q] # NoOwner
          /\ owner[q][2] \in instances[owner[q][1]]
          /\ \A r \in Pids : owner[r] = owner[q] => r <= q /\ (r = q \/ ~Held(r))
          /\ running_nodes[q] = owner[q][1]
          /\ pidInstance[owner[q][1]][q] = owner[q][2]
      BY <3>1, <3>2 DEF Parts, Bookkept, ProcessesKnown
    <3>4. owner[q] # <<n, i>> /\ owner[q][1] \in Nodes
      BY <3>1, <3>3, <1>13 DEF Parts, TypeOK
    <3>5. \A r \in Pids : owner'[r] = owner[q] => r <= q /\ (r = q \/ ~Held(r)')
      <4> SUFFICES ASSUME NEW r \in Pids, owner'[r] = owner[q]
                   PROVE  r <= q /\ (r = q \/ ~Held(r)')
        OBVIOUS
      <4>1. r # p /\ owner[r] = owner[q]
        BY <3>4, <1>7
      <4> QED
        BY <4>1, <3>3, <1>10
    <3>6. owner[q][2] \in instances'[owner[q][1]]
      BY <3>3, <3>4, <1>8
    <3> QED
      BY <3>2, <3>3, <3>5, <3>6, <1>5
  <2> QED
    BY <2>1, <2>2
<1>17. InstancesBacked({})'
  <2> SUFFICES ASSUME NEW m \in Nodes, NEW j \in instances'[m]
               PROVE  \E q \in Pids : Held(q)' /\ owner'[q] = <<m, j>>
    BY DEF InstancesBacked
  <2>1. CASE m = n /\ j = i
    BY <2>1, <1>7, <1>10
  <2>2. CASE ~(m = n /\ j = i)
    <3>1. j \in instances[m] /\ ~Threw(m, j)
      BY <2>2, <1>5, <1>8 DEF Threw
    <3>2. PICK q \in Pids : Held(q) /\ owner[q] = <<m, j>>
      BY <3>1 DEF Parts, Bookkept, InstancesBacked
    <3> QED
      BY <3>2, <1>7, <1>10, <1>11
  <2> QED
    BY <2>1, <2>2
<1>18. CallTrue({})'
  BY <1>6, <1>7, <1>9 DEF CallTrue
<1>19. WaitsOnItsOwn'
  BY <1>9 DEF WaitsOnItsOwn
<1> QED
  BY <1>14, <1>15, <1>16, <1>17, <1>18, <1>19 DEF Bookkept

\* fork() fails: the instance that has no process is the one that threw.
LEMMA ThrowKeeps ==
  ASSUME Parts, NEW n \in Nodes, StartupThrows(n)
  PROVE  Bookkept({})'
<1>1. PICK i \in Inst :
        /\ IsNextInst(n, i)
        /\ instances' = [instances EXCEPT ![n] = @ \cup {i}]
        /\ call' = [IdleCall EXCEPT !.op = "threw", !.node = n, !.inst = i]
  BY DEF StartupThrows
<1>2. i \notin instances[n]
  BY <1>1 DEF IsNextInst
<1>3. call.op = "idle" /\ UNCHANGED <<proc, owner, running_nodes, pidInstance>>
  BY DEF StartupThrows, AtOp, kernel
<1>4. \A m \in Nodes : instances'[m] = IF m = n THEN instances[m] \cup {i} ELSE instances[m]
  <2>1. instances' = [instances EXCEPT ![n] = @ \cup {i}]
    BY <1>1
  <2> QED
    BY <2>1 DEF Parts, TypeOK
<1>5. /\ call'.op = "threw" /\ call'.node = n /\ call'.inst = i
  BY <1>1 DEF IdleCall
<1>6. \A q \in Pids : /\ Held(q)' <=> Held(q)
                     /\ ~Registering(q) /\ ~Registering(q)'
  BY <1>3, <1>5 DEF Held, Unreaped, InHand, Registering
<1>7. PidsInOrder'
  BY <1>3 DEF Parts, Bookkept, PidsInOrder
<1>8. EntriesTrue({})'
  BY <1>3, <1>6 DEF Parts, Bookkept, EntriesTrue
<1>9. ProcessesKnown({})'
  <2> SUFFICES ASSUME NEW q \in Pids, Held(q)'
               PROVE  /\ owner'[q] # NoOwner
                      /\ owner'[q][2] \in instances'[owner'[q][1]]
                      /\ \A r \in Pids : owner'[r] = owner'[q] => r <= q /\ (r = q \/ ~Held(r)')
                      /\ running_nodes'[q] = owner'[q][1]
                      /\ pidInstance'[owner'[q][1]][q] = owner'[q][2]
    BY DEF ProcessesKnown
  <2>1. /\ owner[q] # NoOwner
        /\ owner[q][2] \in instances[owner[q][1]]
        /\ \A r \in Pids : owner[r] = owner[q] => r <= q /\ (r = q \/ ~Held(r))
        /\ running_nodes[q] = owner[q][1]
        /\ pidInstance[owner[q][1]][q] = owner[q][2]
    BY <1>6 DEF Parts, Bookkept, ProcessesKnown
  <2>2. owner[q][1] \in Nodes
    BY <2>1 DEF Parts, TypeOK
  <2>3. owner[q][2] \in instances'[owner[q][1]]
    BY <2>1, <2>2, <1>4
  <2> QED
    BY <2>1, <2>3, <1>3, <1>6
<1>10. InstancesBacked({})'
  <2> SUFFICES ASSUME NEW m \in Nodes, NEW j \in instances'[m], ~(m = n /\ j = i)
               PROVE  \E q \in Pids : Held(q)' /\ owner'[q] = <<m, j>>
    BY <1>5 DEF InstancesBacked, Threw
  <2>1. j \in instances[m] /\ ~Threw(m, j)
    BY <1>3, <1>4 DEF Threw
  <2>2. PICK q \in Pids : Held(q) /\ owner[q] = <<m, j>>
    BY <2>1 DEF Parts, Bookkept, InstancesBacked
  <2> QED
    BY <2>2, <1>3, <1>6
<1>11. CallTrue({})'
  <2>1. i \in instances'[n]
    BY <1>4
  <2>2. ASSUME NEW q \in Pids, Held(q)' PROVE owner'[q] # <<n, i>>
    BY <2>2, <1>2, <1>3, <1>6 DEF Parts, Bookkept, ProcessesKnown
  <2> QED
    BY <2>1, <2>2, <1>5 DEF CallTrue
<1>12. WaitsOnItsOwn'
  BY <1>5 DEF WaitsOnItsOwn
<1> QED
  BY <1>7, <1>8, <1>9, <1>10, <1>11, <1>12 DEF Bookkept

\* Whoever has collected the status of a process, reapProcess ends its instance
\* and no other, and afterwards no map entry or instance depends on it.
LEMMA ReapKeeps ==
  ASSUME Parts, NEW p \in Pids, Held(p), ~Registering(p),
         ReapProcess(owner[p][1], p), UNCHANGED owner,
         \A q \in Pids : proc'[q] = IF q = p THEN "gone" ELSE proc[q],
         \A q \in Pids : InHand(q)' <=> q # p /\ InHand(q),
         \A q \in Pids : Registering(q)' <=> Registering(q),
         \A m \in Nodes, j \in Inst : Threw(m, j)' <=> Threw(m, j)
  PROVE  /\ \A m \in Nodes, j \in Inst :
              j \in instances'[m] <=> j \in instances[m] /\ owner[p] # <<m, j>>
         /\ PidsInOrder' /\ EntriesTrue({})' /\ ProcessesKnown({})' /\ InstancesBacked({})'
<1> DEFINE n == owner[p][1]
           i == owner[p][2]
<1>1. /\ n \in Nodes /\ i \in Inst /\ owner[p] = <<n, i>>
      /\ owner[p] # NoOwner /\ pidInstance[n][p] = i /\ running_nodes[p] = n
  <2>1. owner[p] # NoOwner /\ pidInstance[n][p] = i /\ running_nodes[p] = n
    BY DEF Parts, Bookkept, ProcessesKnown
  <2>2. owner[p] \in Nodes \X Inst
    BY <2>1 DEF Parts, TypeOK
  <2> QED
    BY <2>1, <2>2
<1>2. /\ \A r \in Pids : owner[r] = owner[p] => r <= p /\ (r = p \/ ~Held(r))
  BY DEF Parts, Bookkept, ProcessesKnown
<1>3. i # NoInst
  BY <1>1 DEF Inst, NoInst
<1> HIDE DEF n, i
<1>4. ReapProcess(n, p)
  BY DEF n
<1>5. \A q \in Pids : running_nodes'[q] = IF q = p THEN NoNode ELSE running_nodes[q]
  BY <1>4 DEF ReapProcess, Parts, TypeOK
<1>6. pidInstance' = [pidInstance EXCEPT ![n][p] = i]
  BY <1>1, <1>3, <1>4 DEF ReapProcess
<1>7. pidInstance' = pidInstance
  BY <1>1, <1>6 DEF Parts, TypeOK
<1>8. \A m \in Nodes : instances'[m] = IF m = n THEN instances[m] \ {i} ELSE instances[m]
  <2>1. instances' = [instances EXCEPT ![n] = @ \ {i}]
    BY <1>1, <1>3, <1>4 DEF ReapProcess, FinishInstance
  <2> QED
    BY <2>1, <1>1 DEF Parts, TypeOK
<1>9. \A m \in Nodes, j \in Inst :
        j \in instances'[m] <=> j \in instances[m] /\ owner[p] # <<m, j>>
  <2> SUFFICES ASSUME NEW m \in Nodes, NEW j \in Inst
               PROVE  j \in instances'[m] <=> j \in instances[m] /\ ~(m = n /\ j = i)
    BY <1>1
  <2> QED
    BY <1>8
<1>10. \A q \in Pids : Held(q)' <=> q # p /\ Held(q)
  BY DEF Held, Unreaped
<1>11. PidsInOrder'
  <2>1. proc[p] # "free"
    BY <1>1 DEF Parts, Bookkept, PidsInOrder
  <2> QED
    BY <2>1 DEF Parts, Bookkept, PidsInOrder
<1>12. EntriesTrue({})'
  <2>1. ASSUME NEW q \in Pids, running_nodes'[q] # NoNode
        PROVE  Held(q)' /\ owner[q][1] = running_nodes'[q]
    <3>1. q # p /\ running_nodes'[q] = running_nodes[q]
      BY <2>1, <1>5
    <3> QED
      BY <2>1, <3>1, <1>10 DEF Parts, Bookkept, EntriesTrue
  <2>2. ASSUME NEW m \in Nodes, NEW q \in Pids, pidInstance[m][q] # NoInst
        PROVE  owner[q] = <<m, pidInstance[m][q]>>
    BY <2>2 DEF Parts, Bookkept, EntriesTrue
  <2> QED
    BY <2>1, <2>2, <1>7 DEF EntriesTrue
<1>13. ProcessesKnown({})'
  <2> SUFFICES ASSUME NEW q \in Pids, Held(q)'
               PROVE  /\ owner[q] # NoOwner
                      /\ owner[q][2] \in instances'[owner[q][1]]
                      /\ \A r \in Pids : owner[r] = owner[q] => r <= q /\ (r = q \/ ~Held(r)')
                      /\ ~Registering(q)' => /\ running_nodes'[q] = owner[q][1]
                                            /\ pidInstance[owner[q][1]][q] = owner[q][2]
    BY <1>7 DEF ProcessesKnown
  <2>1. q # p /\ Held(q)
    BY <1>10
  <2>2. /\ owner[q] # NoOwner
        /\ owner[q][2] \in instances[owner[q][1]]
        /\ \A r \in Pids : owner[r] = owner[q] => r <= q /\ (r = q \/ ~Held(r))
        /\ ~Registering(q) => /\ running_nodes[q] = owner[q][1]
                             /\ pidInstance[owner[q][1]][q] = owner[q][2]
    BY <2>1 DEF Parts, Bookkept, ProcessesKnown
  <2>3. owner[q] \in Nodes \X Inst /\ owner[q] # owner[p]
    BY <2>1, <2>2, <1>2 DEF Parts, TypeOK
  <2>4. owner[q][2] \in instances'[owner[q][1]]
    <3>1. owner[q] = <<owner[q][1], owner[q][2]>> /\ owner[q][1] \in Nodes /\ owner[q][2] \in Inst
      BY <2>3
    <3> QED
      BY <2>2, <2>3, <3>1, <1>9
  <2>5. \A r \in Pids : owner[r] = owner[q] => r <= q /\ (r = q \/ ~Held(r)')
    BY <2>2, <1>10
  <2> QED
    BY <2>1, <2>2, <2>4, <2>5, <1>5
<1>14. InstancesBacked({})'
  <2> SUFFICES ASSUME NEW m \in Nodes, NEW j \in instances'[m], ~Threw(m, j)'
               PROVE  \E q \in Pids : Held(q)' /\ owner[q] = <<m, j>>
    BY DEF InstancesBacked
  <2>1. j \in instances[m] /\ j \in Inst
    BY <1>8 DEF Parts, TypeOK
  <2>2. owner[p] # <<m, j>> /\ ~Threw(m, j)
    BY <2>1, <1>9
  <2>3. PICK q \in Pids : Held(q) /\ owner[q] = <<m, j>>
    BY <2>1, <2>2 DEF Parts, Bookkept, InstancesBacked
  <2> QED
    BY <2>2, <2>3, <1>10
<1> QED
  BY <1>9, <1>11, <1>12, <1>13, <1>14

\* waitForInstance collects the status itself: the process it waits on is its
\* instance's own, so its reapProcess ends the instance it waits for.
LEMMA WaitReapsKeeps == ASSUME Parts, WaitReaps PROVE Bookkept({})'
<1>1. /\ call.op = "reaped" /\ call.pid \in Pids /\ call.node \in Nodes /\ call.inst \in Inst
      /\ proc[call.pid] = "gone" /\ owner[call.pid] = <<call.node, call.inst>>
  BY DEF WaitReaps, AtOp, Parts, TypeOK, Bookkept, CallTrue
<1>2. call' = [call EXCEPT !.op = "wait"]
  BY DEF WaitReaps
<1>3. call'.op = "wait" /\ call'.node = call.node /\ call'.inst = call.inst /\ call'.pid = call.pid
  BY <1>2 DEF Parts, TypeOK, Calls
<1>4. Held(call.pid) /\ ~Registering(call.pid)
  BY <1>1 DEF Held, InHand, Registering
<1>5. ReapProcess(owner[call.pid][1], call.pid) /\ UNCHANGED <<proc, owner>>
  BY <1>1 DEF WaitReaps, kernel
<1>6. /\ \A q \in Pids : proc'[q] = IF q = call.pid THEN "gone" ELSE proc[q]
      /\ \A q \in Pids : InHand(q)' <=> q # call.pid /\ InHand(q)
      /\ \A q \in Pids : Registering(q)' <=> Registering(q)
      /\ \A m \in Nodes, j \in Inst : Threw(m, j)' <=> Threw(m, j)
  BY <1>1, <1>3, <1>5 DEF InHand, Registering, Threw
<1>7. /\ call.inst \notin instances'[call.node]
      /\ PidsInOrder' /\ EntriesTrue({})' /\ ProcessesKnown({})' /\ InstancesBacked({})'
  BY <1>1, <1>4, <1>5, <1>6, ReapKeeps
<1> QED
  BY <1>3, <1>7 DEF Bookkept, CallTrue, WaitsOnItsOwn

\* The handler collects a status: by then the process is registered, and the
\* call it interrupted still holds its own.
LEMMA HandlerReapsKeeps ==
  ASSUME Parts, NEW p \in Pids, HandlerReaps(p)
  PROVE  Bookkept({})'
<1>1. proc[p] = "zombie" /\ UNCHANGED <<owner, call>> /\ ReapProcess(running_nodes[p], p)
  BY DEF HandlerReaps
<1>2. Held(p) /\ ~InHand(p) /\ ~Registering(p)
  BY <1>1 DEF Held, Unreaped, InHand, Registering, Parts, Bookkept, CallTrue
<1>3. owner[p] # NoOwner /\ ReapProcess(owner[p][1], p)
  BY <1>1, <1>2 DEF Parts, Bookkept, ProcessesKnown
<1>4. \A q \in Pids : proc'[q] = IF q = p THEN "gone" ELSE proc[q]
  BY DEF HandlerReaps, Parts, TypeOK
<1>5. /\ \A q \in Pids : InHand(q)' <=> q # p /\ InHand(q)
      /\ \A q \in Pids : Registering(q)' <=> Registering(q)
      /\ \A m \in Nodes, j \in Inst : Threw(m, j)' <=> Threw(m, j)
  BY <1>1, <1>2 DEF InHand, Registering, Threw
<1>6. /\ \A m \in Nodes, j \in Inst :
           j \in instances'[m] <=> j \in instances[m] /\ owner[p] # <<m, j>>
      /\ PidsInOrder' /\ EntriesTrue({})' /\ ProcessesKnown({})' /\ InstancesBacked({})'
  BY <1>1, <1>2, <1>3, <1>4, <1>5, ReapKeeps
<1>7. \A q \in Pids : Held(q)' => Held(q)
  BY <1>4, <1>5 DEF Held, Unreaped
<1>8. CallTrue({})'
  <2>1. call.op \in {"forked", "mapped"} =>
          /\ call.pid \in Pids /\ call.pid # p
          /\ proc[call.pid] = "alive"
          /\ owner[call.pid] = <<call.node, call.inst>>
          /\ call.op = "mapped" => running_nodes[call.pid] = call.node
    BY <1>1 DEF Parts, TypeOK, Bookkept, CallTrue
  <2>2. call.op = "reaped" => call.pid \in Pids /\ proc[call.pid] = "gone"
                              /\ owner[call.pid] = <<call.node, call.inst>>
    BY DEF Parts, TypeOK, Bookkept, CallTrue
  <2>3. call.op = "threw" =>
          /\ call.node \in Nodes /\ call.inst \in instances[call.node] /\ call.inst \in Inst
          /\ \A q \in Pids : Held(q) => owner[q] # <<call.node, call.inst>>
    BY DEF Parts, TypeOK, Bookkept, CallTrue
  <2>4. call.op = "threw" => call.inst \in instances'[call.node]
    BY <2>3, <1>2, <1>6
  <2>5. \A q \in Pids : q # p => running_nodes'[q] = running_nodes[q]
    BY <1>1 DEF ReapProcess, Parts, TypeOK
  <2> QED
    BY <2>1, <2>2, <2>3, <2>4, <2>5, <1>1, <1>4, <1>7 DEF CallTrue
<1>9. WaitsOnItsOwn'
  <2>1. call.op = "wait" /\ call.inst \in instances'[call.node] =>
          call.inst \in instances[call.node]
    BY <1>6 DEF Parts, TypeOK
  <2> QED
    BY <2>1, <1>1 DEF Parts, Bookkept, WaitsOnItsOwn
<1> QED
  BY <1>6, <1>8, <1>9 DEF Bookkept

\* The processes that exit, and the steps that register and collect them.
LEMMA ProcessSteps ==
  ASSUME Quiet, Parts,
         (\E p \in Pids : Exit(p)) \/ RegisterNode \/ RegisterInstance \/ WaitpidReaps
  PROVE  Bookkept({})'
<1>1. ASSUME NEW p \in Pids, Exit(p) PROVE Bookkept({})'
  <2>1. proc[p] = "alive" /\ ~Registering(p)
    BY <1>1 DEF Exit, Quiet, Registering
  <2>2. UNCHANGED <<owner, call, maps>>
    BY <1>1 DEF Exit
  <2>3. \A q \in Pids : proc'[q] = IF q = p THEN "zombie" ELSE proc[q]
    BY <1>1 DEF Exit, Parts, TypeOK
  <2>4. /\ \A q \in Pids : Held(q)' <=> Held(q)
        /\ \A q \in Pids : Registering(q) => Registering(q)'
        /\ \A m \in Nodes, k \in Inst : Threw(m, k) => Threw(m, k)'
    BY <2>1, <2>2, <2>3 DEF Held, Unreaped, InHand, Registering, Threw
  <2>5. \A q \in Pids : proc'[q] = "free" <=> proc[q] = "free"
    BY <2>1, <2>3
  <2>6. PidsInOrder' /\ EntriesTrue({})' /\ ProcessesKnown({})' /\ InstancesBacked({})'
    BY <2>2, <2>4, <2>5, HeldFrame
  <2>7. CallTrue({})'
    <3>1. call.op \in {"forked", "mapped"} =>
            /\ call.pid \in Pids /\ call.pid # p
            /\ proc[call.pid] = "alive"
            /\ owner[call.pid] = <<call.node, call.inst>>
            /\ call.op = "mapped" => running_nodes[call.pid] = call.node
      BY <2>1 DEF Parts, TypeOK, Bookkept, CallTrue, Registering
    <3>2. call.op = "reaped" =>
            /\ call.pid \in Pids /\ proc[call.pid] = "gone"
            /\ owner[call.pid] = <<call.node, call.inst>>
      BY DEF Parts, TypeOK, Bookkept, CallTrue
    <3>3. call.op = "threw" =>
            /\ call.inst \in instances[call.node]
            /\ \A q \in Pids : Held(q) => owner[q] # <<call.node, call.inst>>
      BY DEF Parts, Bookkept, CallTrue
    <3> QED
      BY <3>1, <3>2, <3>3, <2>1, <2>2, <2>3, <2>4 DEF CallTrue, maps
  <2>8. WaitsOnItsOwn'
    BY <2>2 DEF WaitsOnItsOwn, Parts, Bookkept, maps
  <2> QED
    BY <2>6, <2>7, <2>8 DEF Bookkept
<1>2. CASE RegisterNode
  <2> DEFINE p == call.pid
  <2>1. /\ call.op = "forked" /\ p \in Pids /\ call.node \in Nodes
        /\ proc[p] = "alive" /\ owner[p] = <<call.node, call.inst>>
    BY <1>2 DEF RegisterNode, AtOp, Parts, TypeOK, Bookkept, CallTrue
  <2>2. UNCHANGED <<proc, owner, pidInstance, instances>>
    BY <1>2 DEF RegisterNode, kernel
  <2>3. call' = [call EXCEPT !.op = "mapped"]
    BY <1>2 DEF RegisterNode
  <2>4. call'.op = "mapped" /\ call'.node = call.node /\ call'.inst = call.inst /\ call'.pid = p
    BY <2>3 DEF Parts, TypeOK, Calls
  <2>5. \A q \in Pids : running_nodes'[q] = IF q = p THEN call.node ELSE running_nodes[q]
    BY <1>2 DEF RegisterNode, Parts, TypeOK
  <2>6. \A q \in Pids : Held(q)' <=> Held(q)
    BY <2>1, <2>2, <2>4 DEF Held, Unreaped, InHand
  <2>7. /\ \A q \in Pids : Registering(q) <=> q = p
        /\ \A q \in Pids : Registering(q)' <=> q = p
    BY <2>1, <2>4 DEF Registering
  <2>8. Held(p)
    BY <2>1 DEF Held, Unreaped
  <2> HIDE DEF p
  <2>9. PidsInOrder'
    BY <2>2 DEF PidsInOrder, Parts, Bookkept
  <2>10. EntriesTrue({})'
    <3>1. ASSUME NEW q \in Pids, running_nodes'[q] # NoNode
          PROVE  Held(q) /\ owner[q][1] = running_nodes'[q]
      BY <3>1, <2>1, <2>5, <2>8 DEF EntriesTrue, Parts, Bookkept
    <3> QED
      BY <3>1, <2>2, <2>6 DEF EntriesTrue, Parts, Bookkept
  <2>11. ProcessesKnown({})'
    <3> SUFFICES ASSUME NEW q \in Pids, Held(q)
                 PROVE  /\ owner[q] # NoOwner
                        /\ owner[q][2] \in instances[owner[q][1]]
                        /\ \A r \in Pids : owner[r] = owner[q] => r <= q /\ (r = q \/ ~Held(r))
                        /\ q # p => /\ running_nodes'[q] = owner[q][1]
                                    /\ pidInstance[owner[q][1]][q] = owner[q][2]
      BY <2>2, <2>6, <2>7 DEF ProcessesKnown
    <3> QED
      BY <2>5, <2>7 DEF ProcessesKnown, Parts, Bookkept
  <2>12. InstancesBacked({})'
    <3>1. \A m \in Nodes, k \in Inst : ~Threw(m, k)
      BY <2>1 DEF Threw
    <3>2. \A m \in Nodes : \A k \in instances[m] :
            \E q \in Pids : Held(q) /\ owner[q] = <<m, k>>
      BY <3>1 DEF InstancesBacked, Parts, Bookkept, TypeOK
    <3> QED
      BY <3>2, <2>2, <2>6 DEF InstancesBacked
  <2>13. CallTrue({})'
    BY <2>1, <2>2, <2>4, <2>5 DEF CallTrue
  <2>14. WaitsOnItsOwn'
    BY <2>4 DEF WaitsOnItsOwn
  <2> QED
    BY <2>9, <2>10, <2>11, <2>12, <2>13, <2>14 DEF Bookkept
<1>3. CASE RegisterInstance
  <2> DEFINE p == call.pid
             n == call.node
             i == call.inst
  <2>1. /\ call.op = "mapped" /\ p \in Pids /\ n \in Nodes /\ i \in Inst
        /\ proc[p] = "alive" /\ owner[p] = <<n, i>> /\ running_nodes[p] = n
    BY <1>3 DEF RegisterInstance, AtOp, Parts, TypeOK, Bookkept, CallTrue
  <2>2. UNCHANGED <<proc, owner, running_nodes, instances>>
    BY <1>3 DEF RegisterInstance, kernel
  <2>3. call'.op = "idle"
    BY <1>3 DEF RegisterInstance, IdleCall
  <2>4. pidInstance' = [pidInstance EXCEPT ![n][p] = i]
    BY <1>3 DEF RegisterInstance
  <2>5. \A m \in Nodes, q \in Pids :
          pidInstance'[m][q] = IF m = n /\ q = p THEN i ELSE pidInstance[m][q]
    BY <2>1, <2>4 DEF Parts, TypeOK
  <2>6. \A q \in Pids : Held(q)' <=> Held(q)
    BY <2>1, <2>2, <2>3 DEF Held, Unreaped, InHand
  <2>7. /\ \A q \in Pids : Registering(q) <=> q = p
        /\ \A q \in Pids : ~Registering(q)'
    BY <2>1, <2>3 DEF Registering
  <2> HIDE DEF p, n, i
  <2>8. PidsInOrder'
    BY <2>2 DEF PidsInOrder, Parts, Bookkept
  <2>9. EntriesTrue({})'
    <3>1. ASSUME NEW m \in Nodes, NEW q \in Pids, pidInstance'[m][q] # NoInst
          PROVE  owner[q] = <<m, pidInstance'[m][q]>>
      BY <3>1, <2>1, <2>5 DEF EntriesTrue, Parts, Bookkept
    <3>2. \A q \in Pids : running_nodes[q] # NoNode => Held(q) /\ owner[q][1] = running_nodes[q]
      BY DEF EntriesTrue, Parts, Bookkept
    <3> QED
      BY <3>1, <3>2, <2>2, <2>6 DEF EntriesTrue
  <2>10. ProcessesKnown({})'
    <3> SUFFICES ASSUME NEW q \in Pids, Held(q)
                 PROVE  /\ owner[q] # NoOwner
                        /\ owner[q][2] \in instances[owner[q][1]]
                        /\ \A r \in Pids : owner[r] = owner[q] => r <= q /\ (r = q \/ ~Held(r))
                        /\ running_nodes[q] = owner[q][1]
                        /\ pidInstance'[owner[q][1]][q] = owner[q][2]
      BY <2>2, <2>6 DEF ProcessesKnown
    <3>1. /\ owner[q] # NoOwner
          /\ owner[q][2] \in instances[owner[q][1]]
          /\ \A r \in Pids : owner[r] = owner[q] => r <= q /\ (r = q \/ ~Held(r))
      BY DEF ProcessesKnown, Parts, Bookkept
    <3>2. q # p => /\ running_nodes[q] = owner[q][1]
                   /\ pidInstance[owner[q][1]][q] = owner[q][2]
      BY <2>7 DEF ProcessesKnown, Parts, Bookkept
    <3>3. owner[q][1] \in Nodes
      BY <3>1 DEF Parts, TypeOK
    <3>4. CASE q = p
      BY <3>1, <3>4, <2>1, <2>5
    <3>5. CASE q # p
      BY <3>1, <3>2, <3>3, <3>5, <2>5
    <3> QED
      BY <3>4, <3>5
  <2>11. InstancesBacked({})'
    <3>1. \A m \in Nodes, k \in Inst : ~Threw(m, k)
      BY <2>1 DEF Threw
    <3>2. \A m \in Nodes : \A k \in instances[m] :
            \E q \in Pids : Held(q) /\ owner[q] = <<m, k>>
      BY <3>1 DEF InstancesBacked, Parts, Bookkept, TypeOK
    <3> QED
      BY <3>2, <2>2, <2>6 DEF InstancesBacked
  <2>12. CallTrue({})' /\ WaitsOnItsOwn'
    BY <2>3 DEF CallTrue, WaitsOnItsOwn
  <2> QED
    BY <2>8, <2>9, <2>10, <2>11, <2>12 DEF Bookkept
<1>4. CASE WaitpidReaps
  <2> DEFINE p == call.pid
  <2>1. /\ call.op = "waitpid" /\ p \in Pids /\ proc[p] = "zombie"
        /\ owner[p] = <<call.node, call.inst>>
    BY <1>4 DEF WaitpidReaps, InWaitpid, Parts, TypeOK, Bookkept, WaitsOnItsOwn
  <2>2. UNCHANGED <<owner, maps>>
    BY <1>4 DEF WaitpidReaps
  <2>3. call' = [call EXCEPT !.op = "reaped"]
    BY <1>4 DEF WaitpidReaps
  <2>4. call'.op = "reaped" /\ call'.node = call.node /\ call'.inst = call.inst /\ call'.pid = p
    BY <2>3 DEF Parts, TypeOK, Calls
  <2>5. \A q \in Pids : proc'[q] = IF q = p THEN "gone" ELSE proc[q]
    BY <1>4 DEF WaitpidReaps, Parts, TypeOK
  <2>6. /\ \A q \in Pids : Held(q)' <=> Held(q)
        /\ \A q \in Pids : Registering(q) => Registering(q)'
        /\ \A m \in Nodes, k \in Inst : Threw(m, k) => Threw(m, k)'
    BY <2>1, <2>4, <2>5 DEF Held, Unreaped, InHand, Registering, Threw
  <2>7. \A q \in Pids : proc'[q] = "free" <=> proc[q] = "free"
    BY <2>1, <2>5
  <2>8. PidsInOrder' /\ EntriesTrue({})' /\ ProcessesKnown({})' /\ InstancesBacked({})'
    BY <2>2, <2>6, <2>7, HeldFrame
  <2>9. CallTrue({})'
    BY <2>1, <2>2, <2>4, <2>5 DEF CallTrue
  <2>10. WaitsOnItsOwn'
    BY <2>4 DEF WaitsOnItsOwn
  <2> QED
    BY <2>8, <2>9, <2>10 DEF Bookkept
<1> QED
  BY <1>1, <1>2, <1>3, <1>4

\* The search of waitForInstance: when the instance is running and nothing is
\* being registered or reaped, it finds the process of that instance, however
\* many older entries pidInstance holds.
LEMMA SearchFindsOwn ==
  ASSUME Parts, call.op \in {"idle", "first"}, NEW n \in Nodes, NEW i \in instances[n],
         NEW p \in Pids, IsWaitPid(n, i, p)
  PROVE  owner[p] = <<n, i>>
<1>1. ~Threw(n, i)
  BY DEF Threw
<1>2. PICK q \in Pids : Held(q) /\ owner[q] = <<n, i>>
  BY <1>1 DEF Parts, Bookkept, InstancesBacked
<1>3. ~Registering(q)
  BY DEF Registering
<1>4. pidInstance[n][q] = i
  BY <1>2, <1>3 DEF Parts, Bookkept, ProcessesKnown
<1>5. pidInstance[n][p] = i
  BY <1>4 DEF IsWaitPid
<1>6. i # NoInst
  BY DEF Parts, TypeOK, Inst, NoInst
<1> QED
  BY <1>5, <1>6 DEF Parts, Bookkept, EntriesTrue

\* The steps of waitFor and waitForInstance that only move the call.
LEMMA CallSteps ==
  ASSUME Parts,
         \/ \E n \in Nodes : CallWaitFor(n) \/ \E i \in Inst : CallWaitForInstance(n, i)
         \/ WaitForNext \/ WaitForFirst \/ WaitForReturns
         \/ WaitReturns \/ WaitBlocks \/ WaitpidFails
  PROVE  Bookkept({})'
<1>1. ASSUME NEW n \in Nodes, CallWaitFor(n) PROVE Bookkept({})'
  <2>1. call.op = "idle" /\ call'.op = "waitFor" /\ UNCHANGED <<proc, owner, maps>>
    BY <1>1 DEF CallWaitFor, AtOp, IdleCall, kernel
  <2> QED
    BY <2>1, CallFrame DEF WaitsOnItsOwn
<1>2. ASSUME NEW n \in Nodes, NEW i \in Inst, CallWaitForInstance(n, i) PROVE Bookkept({})'
  <2>1. PICK p \in Pids :
          /\ IsWaitPid(n, i, p)
          /\ call' = [IdleCall EXCEPT !.op = "wait", !.node = n, !.inst = i, !.pid = p]
    BY <1>2 DEF CallWaitForInstance
  <2>2. call'.op = "wait" /\ call'.node = n /\ call'.inst = i /\ call'.pid = p
    BY <2>1 DEF IdleCall
  <2>3. call.op = "idle" /\ UNCHANGED <<proc, owner, maps>>
    BY <1>2 DEF CallWaitForInstance, AtOp, kernel
  <2>4. i \in instances[n] => owner[p] = <<n, i>>
    BY <2>1, <2>3, SearchFindsOwn
  <2>5. WaitsOnItsOwn'
    BY <2>2, <2>3, <2>4 DEF WaitsOnItsOwn, maps
  <2> QED
    BY <2>2, <2>3, <2>5, CallFrame
<1>3. CASE WaitForNext
  <2>1. call.op = "waitFor" /\ call' = [call EXCEPT !.op = "first"] /\ UNCHANGED <<proc, owner, maps>>
    BY <1>3 DEF WaitForNext, AtOp, kernel
  <2>2. call'.op = "first"
    BY <2>1 DEF Parts, TypeOK, Calls
  <2> QED
    BY <2>1, <2>2, CallFrame DEF WaitsOnItsOwn
<1>4. CASE WaitForFirst
  <2>1. PICK i \in Inst, p \in Pids :
          /\ IsWaitPid(call.node, i, p)
          /\ call' = [call EXCEPT !.op = "wait", !.inst = i, !.pid = p]
    BY <1>4 DEF WaitForFirst
  <2>2. call'.op = "wait" /\ call'.node = call.node /\ call'.inst = i /\ call'.pid = p
    BY <2>1 DEF Parts, TypeOK, Calls
  <2>3. call.op = "first" /\ UNCHANGED <<proc, owner, maps>>
    BY <1>4 DEF WaitForFirst, AtOp, kernel
  <2>4. i \in instances[call.node] => owner[p] = <<call.node, i>>
    BY <2>1, <2>3, SearchFindsOwn DEF Parts, TypeOK
  <2>5. WaitsOnItsOwn'
    BY <2>2, <2>3, <2>4 DEF WaitsOnItsOwn, maps
  <2> QED
    BY <2>2, <2>3, <2>5, CallFrame
<1>5. CASE WaitForReturns
  <2>1. call.op = "waitFor" /\ call'.op = "idle" /\ UNCHANGED <<proc, owner, maps>>
    BY <1>5 DEF WaitForReturns, AtOp, IdleCall, kernel
  <2> QED
    BY <2>1, CallFrame DEF WaitsOnItsOwn
<1>6. CASE WaitReturns
  <2>1. call.op = "wait" /\ UNCHANGED <<proc, owner, maps>>
    BY <1>6 DEF WaitReturns, AtOp, kernel
  <2>2. call'.op \in {"waitFor", "idle"}
    BY <1>6 DEF WaitReturns, IdleCall, Parts, TypeOK, Calls
  <2> QED
    BY <2>1, <2>2, CallFrame DEF WaitsOnItsOwn
<1>7. CASE WaitBlocks
  <2>1. call.op = "wait" /\ call.inst \in instances[call.node] /\ UNCHANGED <<proc, owner, maps>>
    BY <1>7 DEF WaitBlocks, AtOp, kernel
  <2>2. call' = [call EXCEPT !.op = "waitpid"]
    BY <1>7 DEF WaitBlocks
  <2>3. /\ call'.op = "waitpid" /\ call'.node = call.node
        /\ call'.inst = call.inst /\ call'.pid = call.pid
    BY <2>2 DEF Parts, TypeOK, Calls
  <2>4. WaitsOnItsOwn'
    BY <2>1, <2>3 DEF Parts, Bookkept, WaitsOnItsOwn
  <2> QED
    BY <2>1, <2>3, <2>4, CallFrame
<1>8. CASE WaitpidFails
  <2>1. call.op = "waitpid" /\ UNCHANGED <<proc, owner, maps>>
    BY <1>8 DEF WaitpidFails, InWaitpid, kernel
  <2>2. call' = [call EXCEPT !.op = "wait"]
    BY <1>8 DEF WaitpidFails
  <2>3. /\ call'.op = "wait" /\ call'.node = call.node
        /\ call'.inst = call.inst /\ call'.pid = call.pid
    BY <2>2 DEF Parts, TypeOK, Calls
  <2>4. WaitsOnItsOwn'
    BY <2>1, <2>3 DEF Parts, Bookkept, WaitsOnItsOwn
  <2> QED
    BY <2>1, <2>3, <2>4, CallFrame
<1> QED
  BY <1>1, <1>2, <1>3, <1>4, <1>5, <1>6, <1>7, <1>8

\* The handler never meets a child it cannot attribute.
LEMMA NothingDropped ==
  ASSUME Parts, NEW p \in Pids, HandlerDrops(p)
  PROVE  FALSE
<1>1. proc[p] = "zombie" /\ running_nodes[p] = NoNode
  BY DEF HandlerDrops
<1>2. Held(p) /\ ~Registering(p)
  BY <1>1 DEF Held, Unreaped, Registering, Parts, Bookkept, CallTrue
<1>3. owner[p] # NoOwner /\ running_nodes[p] = owner[p][1]
  BY <1>2 DEF Parts, Bookkept, ProcessesKnown
<1>4. owner[p][1] \in Nodes
  BY <1>3 DEF Parts, TypeOK
<1> QED
  BY <1>1, <1>3, <1>4, ConstantsAssumption

\* The books only speak of the processes, their owners, the call and the maps.
LEMMA BooksUnchanged ==
  ASSUME Bookkept({}), UNCHANGED <<proc, owner, call, maps>>
  PROVE  Bookkept({})'
<1>1. UNCHANGED <<proc, owner, call, running_nodes, pidInstance, instances>>
  BY DEF maps
<1>2. /\ \A p \in Pids : Registering(p)' = Registering(p)
      /\ \A p \in Pids : Held(p)' = Held(p)
      /\ \A p \in Pids : Unreaped(p)' = Unreaped(p)
  BY <1>1 DEF Registering, Held, Unreaped, InHand
<1>3. PidsInOrder'
  BY <1>1 DEF Bookkept, PidsInOrder
<1>4. EntriesTrue({})'
  BY <1>1, <1>2 DEF Bookkept, EntriesTrue
<1>5. ProcessesKnown({})'
  BY <1>1, <1>2 DEF Bookkept, ProcessesKnown
<1>6. InstancesBacked({})'
  <2> SUFFICES ASSUME NEW n \in Nodes \ {}, NEW i \in instances[n], ~Threw(n, i)
               PROVE  \E p \in Pids : Held(p)' /\ owner[p] = <<n, i>>
    BY <1>1 DEF InstancesBacked, Threw
  <2>1. PICK p \in Pids : Held(p) /\ owner[p] = <<n, i>>
    BY DEF Bookkept, InstancesBacked
  <2> QED
    BY <1>2, <2>1
<1>7. CallTrue({})'
  BY <1>1, <1>2 DEF Bookkept, CallTrue
<1>8. WaitsOnItsOwn'
  BY <1>1 DEF Bookkept, WaitsOnItsOwn
<1> QED
  BY <1>3, <1>4, <1>5, <1>6, <1>7, <1>8 DEF Bookkept

\* Every step keeps the books.
LEMMA BookkeepingStep ==
  ASSUME Quiet, Parts, [Next]_vars
  PROVE  Bookkept({})'
<1>1. ASSUME NEW p \in Pids, Exit(p) PROVE Bookkept({})'
  BY <1>1, ProcessSteps
<1>2. CASE Client
  BY <1>2, StartupKeeps, ThrowKeeps, CallSteps DEF Client
<1>3. CASE Thread
  BY <1>3, ProcessSteps, CallSteps, WaitReapsKeeps DEF Thread
<1>4. CASE Handler
  <2>1. CASE HandlerEnters \/ HandlerFindsNone
    <3>1. UNCHANGED <<proc, owner, call, maps>>
      BY <2>1 DEF HandlerEnters, HandlerFindsNone
    <3> QED
      BY <3>1, BooksUnchanged DEF Parts
  <2> QED
    BY <1>4, <2>1, NothingDropped, HandlerReapsKeeps DEF Handler
<1>5. CASE Stopped \/ UNCHANGED vars
  <2>1. UNCHANGED <<proc, owner, call, maps>>
    BY <1>5 DEF Stopped, vars, maps
  <2> QED
    BY <2>1, BooksUnchanged DEF Parts
<1> QED
  BY <1>1, <1>2, <1>3, <1>4, <1>5 DEF Next

\* When no process exits before it is registered and no process number comes
\* round again, the three maps, the processes and the locals of waitForInstance
\* agree whenever SIGCHLD can be delivered: no exit status is lost, and none ends
\* another instance than its own.
THEOREM BooksKept == Quiet => (Spec => []Bookkeeping)
<1>1. Init => Parts
  BY TypeInit, BookkeepingInit DEF Parts
<1>2. Quiet /\ Parts /\ [Next]_vars => Parts'
  BY TypeStep, BookkeepingStep DEF Parts
<1>3. Quiet /\ Parts => Bookkeeping
  BY DEF Parts, Quiet, Bookkeeping
<1>4. Quiet => Quiet'
  BY DEF Quiet
<1> QED
  BY <1>1, <1>2, <1>3, <1>4, PTL DEF Spec

-----------------------------------------------------------------------------
(* Refinement: ExecutableNode implements NodeContract *)

All == INSTANCE NodeContract WITH running <- Running, live <- Live, waiting <- Waiting

\* What the thread does to its call, seen from outside: nothing but the wait.
LEMMA WaitingSame ==
  ASSUME TypeOK, call'.node = call.node, call'.all = call.all,
         call.op \in Waits <=> call'.op \in Waits,
         call.op \in Waits => call.all \/ call'.inst = call.inst
  PROVE  Waiting' = Waiting
  BY DEF Waiting

\* With the processes' liveness and owners unchanged the same instances execute.
LEMMA LiveSame ==
  ASSUME UNCHANGED owner, \A p \in Pids : proc'[p] = "alive" <=> proc[p] = "alive"
  PROVE  Live' = Live
  BY DEF Live

\* With the maps unchanged and nothing thrown the same instances run.
LEMMA RunningSame ==
  ASSUME UNCHANGED instances, call.op # "threw", call'.op # "threw"
  PROVE  Running' = Running
  BY DEF Running, Threw

\* startup() is the contract's Start, with the instance and process it took.
LEMMA StartupRefines ==
  ASSUME Quiet, Parts, NEW n \in Nodes, Startup(n)
  PROVE  \E i \in Inst : All!Start(n, i)
<1>1. PICK i \in Inst, p \in Pids :
        /\ IsNextInst(n, i) /\ IsNextPid(p)
        /\ instances' = [instances EXCEPT ![n] = @ \cup {i}]
        /\ proc' = [proc EXCEPT ![p] = "alive"]
        /\ owner' = [owner EXCEPT ![p] = <<n, i>>]
        /\ call' = [IdleCall EXCEPT !.op = "forked", !.node = n, !.inst = i, !.pid = p]
  BY DEF Startup
<1>2. i \notin instances[n]
  BY <1>1 DEF IsNextInst
<1>3. proc[p] = "free"
  BY <1>1 DEF IsNextPid, Quiet
<1>4. call.op = "idle" /\ call'.op = "forked"
  BY <1>1 DEF Startup, AtOp, IdleCall
<1>5. \A q \in Pids : proc'[q] = IF q = p THEN "alive" ELSE proc[q]
  <2>1. proc' = [proc EXCEPT ![p] = "alive"]
    BY <1>1
  <2> QED
    BY <2>1 DEF Parts, TypeOK
<1>6. \A q \in Pids : owner'[q] = IF q = p THEN <<n, i>> ELSE owner[q]
  <2>1. owner' = [owner EXCEPT ![p] = <<n, i>>]
    BY <1>1
  <2> QED
    BY <2>1 DEF Parts, TypeOK
<1>7. \A m \in Nodes : instances'[m] = IF m = n THEN instances[m] \cup {i} ELSE instances[m]
  <2>1. instances' = [instances EXCEPT ![n] = @ \cup {i}]
    BY <1>1
  <2> QED
    BY <2>1 DEF Parts, TypeOK
<1>8. Running = instances /\ Running' = instances'
  <2>1. instances = [m \in Nodes |-> instances[m]] /\ instances' = [m \in Nodes |-> instances'[m]]
    BY <1>1 DEF Parts, TypeOK
  <2>2. Running = [m \in Nodes |-> instances[m]]
    BY <1>4 DEF Running, Threw
  <2>3. Running' = [m \in Nodes |-> instances'[m]]
    BY <1>4 DEF Running, Threw
  <2> QED
    BY <2>1, <2>2, <2>3
<1>9. Live' = [Live EXCEPT ![n] = @ \cup {i}]
  <2>1. ASSUME NEW m \in Nodes
        PROVE  Live'[m] = IF m = n THEN Live[m] \cup {i} ELSE Live[m]
    <3>1. ASSUME NEW k \in Inst
          PROVE  (\E q \in Pids : proc'[q] = "alive" /\ owner'[q] = <<m, k>>) <=>
                   \/ m = n /\ k = i
                   \/ \E q \in Pids : proc[q] = "alive" /\ owner[q] = <<m, k>>
      BY <1>3, <1>5, <1>6
    <3> QED
      BY <3>1 DEF Live
  <2> QED
    BY <2>1 DEF Live
<1>10. UNCHANGED Waiting
  BY <1>4 DEF Waiting, Waits
<1> QED
  BY <1>1, <1>2, <1>8, <1>9, <1>10 DEF All!Start

\* A process's exit is the contract's Exit of its instance.
LEMMA ExitRefines ==
  ASSUME Quiet, Parts, NEW p \in Pids, Exit(p)
  PROVE  \E n \in Nodes, i \in Inst : All!Exit(n, i)
<1>1. proc[p] = "alive" /\ UNCHANGED <<owner, call, maps>>
  BY DEF Exit
<1>2. \A q \in Pids : proc'[q] = IF q = p THEN "zombie" ELSE proc[q]
  BY DEF Exit, Parts, TypeOK
<1>3. Held(p)
  BY <1>1 DEF Held, Unreaped
<1>4. owner[p] # NoOwner /\ \A q \in Pids : owner[q] = owner[p] => q = p \/ ~Held(q)
  BY <1>3 DEF Parts, Bookkept, ProcessesKnown
<1>5. PICK n \in Nodes, i \in Inst : owner[p] = <<n, i>>
  BY <1>4 DEF Parts, TypeOK
<1>6. Live' = [Live EXCEPT ![n] = @ \ {i}]
  <2>1. ASSUME NEW m \in Nodes
        PROVE  Live'[m] = IF m = n THEN Live[m] \ {i} ELSE Live[m]
    <3>1. ASSUME NEW k \in Inst
          PROVE  (\E q \in Pids : proc'[q] = "alive" /\ owner[q] = <<m, k>>) <=>
                   /\ ~(m = n /\ k = i)
                   /\ \E q \in Pids : proc[q] = "alive" /\ owner[q] = <<m, k>>
      BY <1>1, <1>2, <1>4, <1>5 DEF Held, Unreaped
    <3> QED
      BY <3>1, <1>1 DEF Live
  <2> QED
    BY <2>1 DEF Live
<1>7. i \in Live[n]
  BY <1>1, <1>5 DEF Live
<1>8. UNCHANGED <<Running, Waiting>>
  BY <1>1 DEF Running, Waiting, Threw, maps
<1> QED
  BY <1>6, <1>7, <1>8 DEF All!Exit

\* Collecting a status and finishing the instance is the contract's Complete:
\* the instance runs, and nothing of it executes any more.
LEMMA ReapRefines ==
  ASSUME Parts, WaitReaps \/ \E p \in Pids : HandlerReaps(p)
  PROVE  \E n \in Nodes, i \in Inst : All!Complete(n, i)
<1>1. PICK p \in Pids :
        /\ Held(p) /\ proc[p] # "alive" /\ ~Registering(p)
        /\ ReapProcess(owner[p][1], p)
        /\ UNCHANGED owner
        /\ \A q \in Pids : proc'[q] = IF q = p THEN "gone" ELSE proc[q]
        /\ \A q \in Pids : InHand(q)' <=> q # p /\ InHand(q)
        /\ \A q \in Pids : Registering(q)' <=> Registering(q)
        /\ \A m \in Nodes, j \in Inst : Threw(m, j)' <=> Threw(m, j)
        /\ UNCHANGED Waiting
  <2>1. CASE WaitReaps
    <3>1. /\ call.op = "reaped" /\ call.pid \in Pids
          /\ proc[call.pid] = "gone" /\ owner[call.pid] = <<call.node, call.inst>>
      BY <2>1 DEF WaitReaps, AtOp, Parts, TypeOK, Bookkept, CallTrue
    <3>2. call' = [call EXCEPT !.op = "wait"]
      BY <2>1 DEF WaitReaps
    <3>3. /\ call'.op = "wait" /\ call'.node = call.node /\ call'.inst = call.inst
          /\ call'.pid = call.pid /\ call'.all = call.all
      BY <3>2 DEF Parts, TypeOK, Calls
    <3>4. UNCHANGED Waiting
      BY <3>1, <3>3, WaitingSame DEF Waits, Parts
    <3>5. ReapProcess(owner[call.pid][1], call.pid) /\ UNCHANGED <<proc, owner>>
      BY <2>1, <3>1 DEF WaitReaps, kernel
    <3>6. /\ Held(call.pid) /\ ~Registering(call.pid)
          /\ \A q \in Pids : InHand(q)' <=> q # call.pid /\ InHand(q)
          /\ \A q \in Pids : Registering(q)' <=> Registering(q)
          /\ \A m \in Nodes, j \in Inst : Threw(m, j)' <=> Threw(m, j)
      BY <3>1, <3>3 DEF Held, InHand, Registering, Threw
    <3>7. \A q \in Pids : proc'[q] = IF q = call.pid THEN "gone" ELSE proc[q]
      BY <3>1, <3>5
    <3> QED
      BY <3>1, <3>4, <3>5, <3>6, <3>7
  <2>2. ASSUME NEW p \in Pids, HandlerReaps(p)
        PROVE  /\ Held(p) /\ proc[p] # "alive" /\ ~Registering(p)
               /\ ReapProcess(owner[p][1], p)
               /\ UNCHANGED owner
               /\ \A q \in Pids : proc'[q] = IF q = p THEN "gone" ELSE proc[q]
               /\ \A q \in Pids : InHand(q)' <=> q # p /\ InHand(q)
               /\ \A q \in Pids : Registering(q)' <=> Registering(q)
               /\ \A m \in Nodes, j \in Inst : Threw(m, j)' <=> Threw(m, j)
               /\ UNCHANGED Waiting
    <3>1. proc[p] = "zombie" /\ UNCHANGED <<owner, call>> /\ ReapProcess(running_nodes[p], p)
      BY <2>2 DEF HandlerReaps
    <3>2. Held(p) /\ ~InHand(p) /\ ~Registering(p)
      BY <3>1 DEF Held, Unreaped, InHand, Registering, Parts, Bookkept, CallTrue
    <3>3. ReapProcess(owner[p][1], p)
      BY <3>1, <3>2 DEF Parts, Bookkept, ProcessesKnown
    <3>4. \A q \in Pids : proc'[q] = IF q = p THEN "gone" ELSE proc[q]
      BY <2>2 DEF HandlerReaps, Parts, TypeOK
    <3>5. UNCHANGED Waiting
      BY <3>1 DEF Waiting
    <3>6. /\ \A q \in Pids : InHand(q)' <=> q # p /\ InHand(q)
          /\ \A q \in Pids : Registering(q)' <=> Registering(q)
          /\ \A m \in Nodes, j \in Inst : Threw(m, j)' <=> Threw(m, j)
      BY <3>1, <3>2 DEF InHand, Registering, Threw
    <3> QED
      BY <3>1, <3>2, <3>3, <3>4, <3>5, <3>6
  <2> QED
    BY <2>1, <2>2
<1>2. /\ owner[p] # NoOwner /\ owner[p][2] \in instances[owner[p][1]]
      /\ \A q \in Pids : owner[q] = owner[p] => q = p \/ ~Held(q)
  BY <1>1 DEF Parts, Bookkept, ProcessesKnown
<1>3. PICK n \in Nodes, i \in Inst : owner[p] = <<n, i>>
  BY <1>2 DEF Parts, TypeOK
<1>4. /\ \A m \in Nodes, j \in Inst :
           j \in instances'[m] <=> j \in instances[m] /\ ~(m = n /\ j = i)
  BY <1>1, <1>3, ReapKeeps
<1>5. ~Threw(n, i) /\ i \in instances[n]
  BY <1>1, <1>2, <1>3 DEF Threw, Parts, Bookkept, CallTrue
<1>6. Running' = [Running EXCEPT ![n] = @ \ {i}]
  <2>1. ASSUME NEW m \in Nodes
        PROVE  Running'[m] = IF m = n THEN Running[m] \ {i} ELSE Running[m]
    <3>1. instances[m] \subseteq Inst /\ instances'[m] \subseteq Inst
      BY <1>1, <1>3 DEF ReapProcess, FinishInstance, Parts, TypeOK
    <3>3. Running[m] \subseteq Inst /\ Running'[m] \subseteq Inst
      BY <3>1 DEF Running
    <3>4. \A j \in Inst : j \in Running'[m] <=> j \in Running[m] /\ ~(m = n /\ j = i)
      <4> SUFFICES ASSUME NEW j \in Inst
                   PROVE  j \in Running'[m] <=> j \in Running[m] /\ ~(m = n /\ j = i)
        OBVIOUS
      <4>1. j \in Running'[m] <=> j \in instances'[m] /\ ~Threw(m, j)'
        BY DEF Running
      <4>2. j \in Running[m] <=> j \in instances[m] /\ ~Threw(m, j)
        BY DEF Running
      <4>3. Threw(m, j)' <=> Threw(m, j)
        BY <1>1
      <4> QED
        BY <4>1, <4>2, <4>3, <1>4
    <3> QED
      BY <3>3, <3>4
  <2> QED
    BY <2>1 DEF Running
<1>7. Live' = Live
  BY <1>1, LiveSame
<1>8. i \in Running[n] /\ i \notin Live[n]
  <2>1. i \in Running[n]
    BY <1>5 DEF Running
  <2>2. i \notin Live[n]
    BY <1>1, <1>2, <1>3 DEF Live, Held, Unreaped
  <2> QED
    BY <2>1, <2>2
<1> QED
  BY <1>1, <1>6, <1>7, <1>8 DEF All!Complete

\* The steps that neither start, end nor collect anything are the contract's
\* BeginWait and EndWait, or invisible to it.
LEMMA CallRefines ==
  ASSUME Parts,
         \/ \E n \in Nodes : CallWaitFor(n) \/ \E i \in Inst : CallWaitForInstance(n, i)
         \/ WaitForNext \/ WaitForFirst \/ WaitForReturns
         \/ WaitReturns \/ WaitBlocks \/ WaitpidFails
         \/ RegisterNode \/ RegisterInstance \/ WaitpidReaps
         \/ HandlerEnters \/ HandlerFindsNone
  PROVE  \/ \E n \in Nodes, i \in Inst : All!BeginWait(n, i)
         \/ \E n \in Nodes : All!BeginWait(n, All!AllInst)
         \/ All!EndWait
         \/ UNCHANGED <<Running, Live, Waiting>>
<1>1. \/ HandlerEnters \/ HandlerFindsNone
      \/ call.op # "threw" /\ call'.op # "threw" /\ UNCHANGED <<owner, instances>>
  <2>1. \/ HandlerEnters \/ HandlerFindsNone
        \/ UNCHANGED <<owner, instances>> /\ call.op # "threw"
    BY DEF CallWaitFor, CallWaitForInstance, WaitForNext, WaitForFirst, WaitForReturns,
      WaitReturns, WaitBlocks, WaitpidFails, RegisterNode, RegisterInstance, WaitpidReaps,
      AtOp, InWaitpid, kernel, maps
  <2>2. ASSUME NEW n \in Nodes, CallWaitFor(n) \/ \E i \in Inst : CallWaitForInstance(n, i)
        PROVE  call'.op # "threw"
    BY <2>2 DEF CallWaitFor, CallWaitForInstance, IdleCall
  <2>3. ASSUME WaitForNext PROVE call'.op # "threw"
    BY <2>3 DEF WaitForNext, Parts, TypeOK, Calls
  <2>4. ASSUME WaitForFirst PROVE call'.op # "threw"
    BY <2>4 DEF WaitForFirst, Parts, TypeOK, Calls
  <2>5. ASSUME WaitForReturns PROVE call'.op # "threw"
    BY <2>5 DEF WaitForReturns, IdleCall, Parts, TypeOK, Calls
  <2>6. ASSUME WaitReturns PROVE call'.op # "threw"
    BY <2>6 DEF WaitReturns, IdleCall, Parts, TypeOK, Calls
  <2>7. ASSUME WaitBlocks PROVE call'.op # "threw"
    BY <2>7 DEF WaitBlocks, Parts, TypeOK, Calls
  <2>8. ASSUME WaitpidFails PROVE call'.op # "threw"
    BY <2>8 DEF WaitpidFails, Parts, TypeOK, Calls
  <2>9. ASSUME WaitpidReaps PROVE call'.op # "threw"
    BY <2>9 DEF WaitpidReaps, Parts, TypeOK, Calls
  <2>10. ASSUME RegisterNode PROVE call'.op # "threw"
    BY <2>10 DEF RegisterNode, Parts, TypeOK, Calls
  <2>11. ASSUME RegisterInstance PROVE call'.op # "threw"
    BY <2>11 DEF RegisterInstance, IdleCall, Parts, TypeOK, Calls
  <2> QED
    BY <2>1, <2>2, <2>3, <2>4, <2>5, <2>6, <2>7, <2>8, <2>9, <2>10, <2>11
<1>2. \A p \in Pids : proc'[p] = "alive" <=> proc[p] = "alive"
  <2>1. CASE WaitpidReaps
    BY <2>1 DEF WaitpidReaps, Parts, TypeOK
  <2>2. CASE ~WaitpidReaps
    <3>1. UNCHANGED proc
      BY <2>2 DEF CallWaitFor, CallWaitForInstance, WaitForNext, WaitForFirst, WaitForReturns,
        WaitReturns, WaitBlocks, WaitpidFails, RegisterNode, RegisterInstance, HandlerEnters,
        HandlerFindsNone, kernel
    <3> QED
      BY <3>1
  <2> QED
    BY <2>1, <2>2
<1>3. CASE HandlerEnters \/ HandlerFindsNone
  BY <1>3 DEF HandlerEnters, HandlerFindsNone, maps, Running, Live, Waiting, Threw
<1> SUFFICES ASSUME ~(HandlerEnters \/ HandlerFindsNone)
             PROVE  \/ \E n \in Nodes, i \in Inst : All!BeginWait(n, i)
                    \/ \E n \in Nodes : All!BeginWait(n, All!AllInst)
                    \/ All!EndWait
                    \/ UNCHANGED Waiting
  BY <1>1, <1>2, <1>3, RunningSame, LiveSame
<1>4. UNCHANGED <<Running, Live>>
  BY <1>1, <1>2, RunningSame, LiveSame
<1>5. ASSUME NEW n \in Nodes, CallWaitFor(n) PROVE All!BeginWait(n, All!AllInst)
  <2>1. call.op = "idle" /\ call'.op = "waitFor" /\ call'.node = n /\ call'.all = TRUE
    BY <1>5 DEF CallWaitFor, AtOp, IdleCall
  <2> QED
    BY <2>1, <1>4 DEF All!BeginWait, All!NotWaiting, All!AllInst, Waiting, Waits
<1>6. ASSUME NEW n \in Nodes, NEW i \in Inst, CallWaitForInstance(n, i)
      PROVE  All!BeginWait(n, i)
  <2>1. call.op = "idle" /\ call'.op = "wait" /\ call'.node = n /\ call'.inst = i /\ call'.all = FALSE
    BY <1>6 DEF CallWaitForInstance, AtOp, IdleCall
  <2> QED
    BY <2>1, <1>4 DEF All!BeginWait, All!NotWaiting, All!AllInst, Waiting, Waits
<1>7. CASE WaitForReturns
  <2>1. /\ call.op = "waitFor" /\ call.all /\ call.node \in Nodes
        /\ instances[call.node] = {} /\ call'.op = "idle"
    BY <1>7 DEF WaitForReturns, AtOp, IdleCall, Parts, TypeOK
  <2>2. Waiting = [node |-> call.node, inst |-> -2] /\ Waiting' = All!NotWaiting
    BY <2>1 DEF Waiting, Waits, All!NotWaiting, All!AllInst
  <2>3. Running[call.node] = {}
    BY <2>1 DEF Running
  <2> QED
    BY <2>1, <2>2, <2>3, <1>4, ConstantsAssumption DEF All!EndWait, All!NotWaiting,
      All!AllInst
<1>8. CASE WaitReturns
  <2>1. /\ call.op = "wait" /\ call.node \in Nodes /\ call.inst \in Inst
        /\ call.inst \notin instances[call.node]
    BY <1>8 DEF WaitReturns, AtOp, Parts, TypeOK
  <2>2. CASE call.all
    <3>1. call'.op = "waitFor" /\ call'.node = call.node /\ call'.all = call.all
      BY <1>8, <2>2 DEF WaitReturns, Parts, TypeOK, Calls
    <3> QED
      BY <2>1, <2>2, <3>1, WaitingSame DEF Waits, Parts
  <2>3. CASE ~call.all
    <3>1. call'.op = "idle"
      BY <1>8, <2>3 DEF WaitReturns, IdleCall
    <3>2. /\ Waiting = [node |-> call.node, inst |-> call.inst]
          /\ Waiting' = All!NotWaiting
      BY <2>1, <2>3, <3>1 DEF Waiting, Waits, All!NotWaiting, All!AllInst
    <3>3. call.inst \notin Running[call.node]
      BY <2>1 DEF Running
    <3>4. call.inst # -2
      BY <2>1 DEF Inst
    <3> QED
      BY <2>1, <3>2, <3>3, <3>4, <1>4, ConstantsAssumption DEF All!EndWait,
        All!NotWaiting, All!AllInst
  <2> QED
    BY <2>2, <2>3
<1>9. CASE WaitForNext \/ WaitForFirst
  <2>1. /\ call.op \in {"waitFor", "first"} /\ call'.op \in {"first", "wait"}
        /\ call'.node = call.node /\ call'.all = call.all /\ call.all
    BY <1>9 DEF WaitForNext, WaitForFirst, AtOp, Parts, TypeOK, Calls
  <2> QED
    BY <2>1, WaitingSame DEF Waits, Parts
<1>10. CASE WaitBlocks \/ WaitpidFails \/ WaitpidReaps
  <2>1. /\ call.op \in Waits /\ call'.op \in Waits
        /\ call'.node = call.node /\ call'.all = call.all /\ call'.inst = call.inst
    BY <1>10 DEF WaitBlocks, WaitpidFails, WaitpidReaps, AtOp, InWaitpid, Parts, TypeOK, Calls, Waits
  <2> QED
    BY <2>1, WaitingSame DEF Parts
<1>11. CASE RegisterNode \/ RegisterInstance
  <2>1. call.op \notin Waits /\ call'.op \notin Waits
    BY <1>11 DEF RegisterNode, RegisterInstance, AtOp, IdleCall, Parts, TypeOK, Calls, Waits
  <2> QED
    BY <2>1 DEF Waiting
<1> QED
  BY <1>5, <1>6, <1>7, <1>8, <1>9, <1>10, <1>11

\* ForkError: the instance that is left in the map never ran.
LEMMA ThrowRefines ==
  ASSUME Parts, NEW n \in Nodes, StartupThrows(n)
  PROVE  UNCHANGED <<Running, Live, Waiting>>
<1>1. PICK i \in Inst :
        /\ IsNextInst(n, i)
        /\ instances' = [instances EXCEPT ![n] = @ \cup {i}]
        /\ call' = [IdleCall EXCEPT !.op = "threw", !.node = n, !.inst = i]
  BY DEF StartupThrows
<1>2. i \notin instances[n]
  BY <1>1 DEF IsNextInst
<1>3. call.op = "idle" /\ UNCHANGED <<proc, owner>>
  BY DEF StartupThrows, AtOp, kernel
<1>4. call'.op = "threw" /\ call'.node = n /\ call'.inst = i
  BY <1>1 DEF IdleCall
<1>5. \A m \in Nodes : instances'[m] = IF m = n THEN instances[m] \cup {i} ELSE instances[m]
  <2>1. instances' = [instances EXCEPT ![n] = @ \cup {i}]
    BY <1>1
  <2> QED
    BY <2>1 DEF Parts, TypeOK
<1>6. Running' = Running
  <2>1. ASSUME NEW m \in Nodes
        PROVE  {j \in instances'[m] : ~Threw(m, j)'} = {j \in instances[m] : ~Threw(m, j)}
    BY <1>2, <1>3, <1>4, <1>5 DEF Threw
  <2> QED
    BY <2>1 DEF Running
<1> QED
  BY <1>3, <1>4, <1>6, LiveSame DEF Waiting, Waits

\* Without early exits every node is observed, as it is.
LEMMA AllSteady ==
  ASSUME Quiet
  PROVE  /\ Steady = Nodes
         /\ [n \in Steady |-> Running[n]] = Running
         /\ [n \in Steady |-> Live[n]] = Live
         /\ (IF call.node \in Early THEN [node |-> NoNode, inst |-> -2] ELSE Waiting) = Waiting
<1>1. Steady = Nodes /\ call.node \notin Early
  BY DEF Steady, Quiet
<1>2. [n \in Nodes |-> Running[n]] = Running
  BY DEF Running
<1>3. [n \in Nodes |-> Live[n]] = Live
  BY DEF Live
<1> QED
  BY <1>1, <1>2, <1>3

\* When no process exits before it is registered and no process number comes
\* round again, ExecutableNode keeps what Node promises: an instance completes
\* only after its process has exited, and waitFor and waitForInstance return only
\* when what they wait for has completed.
THEOREM KeepsContract == Quiet => (Spec => ImplementsContract)
<1>1. ASSUME Quiet, Init PROVE Contract!Init
  <2>1. All!Init
    BY <1>1 DEF Init, IdleCall, All!Init, All!NotWaiting, All!AllInst, Running, Live,
      Waiting, Waits, Threw
  <2> QED
    BY <1>1, <2>1, AllSteady DEF All!Init, Contract!Init, All!NotWaiting,
      Contract!NotWaiting, All!AllInst, Contract!AllInst
<1>2. ASSUME Quiet, Parts, [Next]_vars PROVE [All!Next]_(All!vars)
  <2>1. CASE \E p \in Pids : Exit(p)
    BY <1>2, <2>1, ExitRefines DEF All!Next
  <2>2. CASE Client
    BY <1>2, <2>2, StartupRefines, ThrowRefines, CallRefines DEF Client, All!Next, All!vars
  <2>3. CASE Thread
    BY <1>2, <2>3, ReapRefines, CallRefines DEF Thread, All!Next, All!vars
  <2>4. CASE Handler
    BY <1>2, <2>4, NothingDropped, ReapRefines, CallRefines DEF Handler, All!Next, All!vars
  <2>5. CASE Stopped \/ UNCHANGED vars
    BY <2>5 DEF Stopped, vars, Running, Live, Waiting, Threw, All!vars
  <2> QED
    BY <1>2, <2>1, <2>2, <2>3, <2>4, <2>5 DEF Next
<1>3. ASSUME Quiet, Parts, [Next]_vars PROVE [Contract!Next]_(Contract!vars)
  <2>1. /\ Steady = Nodes
        /\ [n \in Steady |-> Running[n]] = Running
        /\ [n \in Steady |-> Live[n]] = Live
        /\ (IF call.node \in Early THEN [node |-> NoNode, inst |-> -2] ELSE Waiting) = Waiting
    BY <1>3, AllSteady
  <2>2. /\ [n \in Steady |-> Running[n]]' = Running'
        /\ [n \in Steady |-> Live[n]]' = Live'
        /\ (IF call.node \in Early THEN [node |-> NoNode, inst |-> -2] ELSE Waiting)' = Waiting'
    <3>1. [n \in Nodes |-> Running'[n]] = Running'
      BY DEF Running
    <3>2. [n \in Nodes |-> Live'[n]] = Live'
      BY DEF Live
    <3> QED
      BY <1>3, <3>1, <3>2, <2>1 DEF Quiet
  <2>3. [All!Next]_(All!vars)
    BY <1>2, <1>3
  <2> QED
    BY <2>1, <2>2, <2>3 DEF All!Next, All!vars, All!Start, All!Exit, All!Complete, All!BeginWait,
      All!EndWait, All!NotWaiting, All!AllInst, Contract!Next, Contract!vars, Contract!Start,
      Contract!Exit, Contract!Complete, Contract!BeginWait, Contract!EndWait,
      Contract!NotWaiting, Contract!AllInst
<1>4. Quiet => (Spec => []Parts)
  <2>1. Init => Parts
    BY TypeInit, BookkeepingInit DEF Parts
  <2>2. Quiet /\ Parts /\ [Next]_vars => Parts'
    BY TypeStep, BookkeepingStep DEF Parts
  <2>3. Quiet => Quiet'
    BY DEF Quiet
  <2> QED
    BY <2>1, <2>2, <2>3, PTL DEF Spec
<1>5. Quiet => Quiet'
  BY DEF Quiet
<1> QED
  BY <1>1, <1>3, <1>4, <1>5, PTL DEF Spec, ImplementsContract, Contract!Spec
==============================================================================
