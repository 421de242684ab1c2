-------------------------- MODULE LaunchNode_proofs --------------------------
(***************************************************************************)
(* Proofs about LaunchNode, for any sub-nodes and any bound on instances:  *)
(* types, that no instance is left that nothing will end, and, until a     *)
(* process exits before startup() has returned, the bookkeeping and the    *)
(* promise of Node.                                                        *)
(***************************************************************************)
EXTENDS LaunchNode, TLAPS

USE LaunchAssumption

\* What the fields of the call hold at each point of it.
CallKnown ==
  /\ call.op \notin {"idle", "waitFor", "first"} => call.inst \in Inst
  /\ call.op \in {"started", "deref"} \cup InSubWait => call.sub \in Subs /\ call.subInst \in Inst
  /\ call.op \in {"waitFor", "first"} => call.all

\* What executes has not completed.  The instance of a sub-node whose end the
\* thread is reporting has exited, and its entry is gone.
SubsKnown ==
  /\ \A s \in Subs : subLive[s] \subseteq subRunning[s]
  /\ call.op = "died" =>
       /\ call.subInst \in subRunning[call.sub] \ subLive[call.sub]
       /\ nodeInstances[launchInst[call.sub][call.subInst]][call.sub] = NoInst

\* The two maps of the node have the same keys.
SameKeys == call.op # "threw" => records = instances

TInv == TypeOK /\ CallKnown /\ SubsKnown /\ SameKeys

\* Nothing of the instance that is being started has exited; it has an entry for
\* each sub-node that has been started.
StartKnown ==
  call.op \in Starting =>
    /\ call.inst \in instances
    /\ \A s \in Subs : \A j \in subRunning[s] : launchInst[s][j] = call.inst => j \in subLive[s]
    /\ \A s \in Subs : (nodeInstances[call.inst][s] = NoInst) = (s \in call.todo)
    /\ call.op = "started" =>
         /\ call.subInst \in subRunning[call.sub]
         /\ launchInst[call.sub][call.subInst] = call.inst
         /\ nodeInstances[call.inst][call.sub] = 0
         /\ \A j \in subRunning[call.sub] : launchInst[call.sub][j] = call.inst => j = call.subInst
    /\ call.op = "empty" => Subs = {}

Quiet == EntriesTrue /\ NoOrphans /\ WaitsOnItsOwn /\ StartKnown
Books == early \/ Quiet

IInv == TInv /\ InstancesBacked /\ Books

CallType == [op : Ops, inst : Inst \cup {NoInst}, sub : Subs \cup {NoNode},
             subInst : Inst \cup {NoInst}, todo : SUBSET Subs, all : BOOLEAN]

-----------------------------------------------------------------------------
(* The invariant *)

\* Numbers, and the constants that stand for none.
LEMMA Numbers == 0 \in Inst /\ NoInst \notin Inst /\ IdleCall \in CallType /\ IdleCall.op = "idle"
  BY DEF Inst, NoInst, IdleCall, CallType, Ops

\* Nothing has been started at first.
LEMMA InitInv == Init => IInv
<1> SUFFICES ASSUME Init PROVE IInv
  OBVIOUS
<1>1. TypeOK
  <2>1. /\ instances = {} /\ records = {} /\ crashed = FALSE /\ early = FALSE
        /\ call \in CallType
        /\ nodeInstances = [i \in Inst |-> [s \in Subs |-> NoInst]]
        /\ launchInst = [s \in Subs |-> [j \in Inst |-> NoInst]]
        /\ subRunning = [s \in Subs |-> {}] /\ subLive = [s \in Subs |-> {}]
    BY Numbers DEF Init, Empty, Sub!Init
  <2>2. nodeInstances \in [Inst -> [Subs -> Inst \cup {NoInst}]]
    BY <2>1
  <2>3. launchInst \in [Subs -> [Inst -> Inst \cup {NoInst}]]
    BY <2>1
  <2>4. \A s \in Subs : \A j \in Inst : launchInst[s][j] = NoInst /\ j \notin subRunning[s]
    BY <2>1
  <2>5. subRunning \in [Subs -> SUBSET Inst] /\ subLive \in [Subs -> SUBSET Inst]
    BY <2>1
  <2>6. \A s \in Subs : \A j \in Inst : (launchInst[s][j] # NoInst) = (j \in subRunning[s])
    BY <2>4
  <2> QED
    BY <2>1, <2>2, <2>3, <2>5, <2>6, Zenon DEF TypeOK, CallType
<1>2. CallKnown /\ SubsKnown /\ SameKeys
  BY DEF Init, Sub!Init, IdleCall, CallKnown, SubsKnown, SameKeys, InSubWait
<1>3. InstancesBacked
  BY DEF Init, InstancesBacked
<1>4. Books
  BY DEF Init, Sub!Init, IdleCall, Empty, Books, Quiet, EntriesTrue, NoOrphans, WaitsOnItsOwn,
    StartKnown, Starting
<1> QED
  BY <1>1, <1>2, <1>3, <1>4 DEF IInv, TInv

\* A crash changes nothing else.
Crashes ==
  \/ \E s \in Subs, j \in Inst : SubDiesStale(s, j)
  \/ StartCrashes \/ WaitPicksNothing \/ WaitSubStale \/ ThreadEndsStale

LEMMA CrashStep == ASSUME Crashes PROVE Crash
  BY DEF Crashes, SubDiesStale, StartCrashes, WaitPicksNothing, WaitSubStale, ThreadEndsStale

LEMMA CrashInv == ASSUME IInv, Crash \/ UNCHANGED vars PROVE IInv'
<1>1. UNCHANGED <<instances, records, nodeInstances, subRunning, subLive, launchInst, call, early>>
      /\ crashed' \in BOOLEAN
  BY DEF Crash, launch, subs, vars, IInv, TInv, TypeOK
<1>2. TInv'
  BY <1>1 DEF IInv, TInv, TypeOK, CallKnown, SubsKnown, SameKeys
<1>3. InstancesBacked'
  BY <1>1 DEF IInv, InstancesBacked
<1>4. Quiet => Quiet'
  <2> SUFFICES ASSUME Quiet PROVE Quiet'
    OBVIOUS
  <2>1. EntriesTrue' /\ NoOrphans'
    BY <1>1 DEF Quiet, EntriesTrue, NoOrphans
  <2>2. WaitsOnItsOwn' /\ StartKnown'
    BY <1>1 DEF Quiet, WaitsOnItsOwn, StartKnown
  <2> QED
    BY <2>1, <2>2 DEF Quiet
<1> QED
  BY <1>1, <1>2, <1>3, <1>4 DEF IInv, Books

\* The steps of a wait only change the call.
Looks == CallWait \/ WaitForFirst \/ WaitLooks \/ WaitPicks \/ WaitSub \/ WaitSubReturns

LEMMA LooksInv == ASSUME IInv, Looks PROVE IInv'
<1>1. UNCHANGED <<instances, records, nodeInstances, subRunning, subLive, launchInst, crashed, early>>
  BY DEF Looks, CallWait, WaitForFirst, WaitLooks, WaitPicks, WaitSub, WaitSubReturns, launch, subs,
    Sub!BeginWait, Sub!EndWait
<1>2. call \in CallType
  BY DEF IInv, TInv, TypeOK, CallType
<1>3. /\ call' \in CallType
      /\ call.op \notin Starting \cup {"threw", "died"}
      /\ call'.op \notin Starting \cup {"threw", "died"}
      /\ CallKnown'
  <2> USE Numbers, <1>1, <1>2 DEF CallType, Ops, Starting, InSubWait, AtOp, CallKnown, IInv, TInv
  <2>1. CASE CallWait
    <3>1. call.op = "idle"
      BY <2>1 DEF CallWait
    <3>2. CASE call' = [IdleCall EXCEPT !.op = "waitFor", !.all = TRUE]
      <4>1. call' = [op |-> "waitFor", inst |-> NoInst, sub |-> NoNode, subInst |-> NoInst,
                     todo |-> {}, all |-> TRUE]
        BY <3>2 DEF IdleCall
      <4>2. call' \in CallType
        BY <4>1
      <4>3. call'.op = "waitFor" /\ call'.all
        BY <4>1
      <4>4. call.op \notin Starting \cup {"threw", "died"} /\ call'.op \notin Starting \cup {"threw", "died"}
        BY <3>1, <4>3
      <4>5. CallKnown'
        BY <4>3
      <4> QED BY <4>2, <4>4, <4>5
    <3>3. ASSUME NEW i \in Inst, call' = [IdleCall EXCEPT !.op = "wait", !.inst = i]
          PROVE  /\ call' \in CallType
                 /\ call.op \notin Starting \cup {"threw", "died"}
                 /\ call'.op \notin Starting \cup {"threw", "died"}
                 /\ CallKnown'
      <4>1. call' = [op |-> "wait", inst |-> i, sub |-> NoNode, subInst |-> NoInst,
                     todo |-> {}, all |-> FALSE]
        BY <3>3 DEF IdleCall
      <4>2. call' \in CallType
        BY <4>1
      <4>3. call'.op = "wait" /\ call'.inst = i
        BY <4>1
      <4>4. call.op \notin Starting \cup {"threw", "died"} /\ call'.op \notin Starting \cup {"threw", "died"}
        BY <3>1, <4>3
      <4>5. CallKnown'
        BY <4>3
      <4> QED BY <4>2, <4>4, <4>5
    <3> QED BY <2>1, <3>2, <3>3 DEF CallWait
  <2>2. CASE WaitForFirst
    <3>1. PICK i \in Inst : call.op = "first" /\ call' = [call EXCEPT !.op = "wait", !.inst = i]
      BY <2>2 DEF WaitForFirst
    <3> QED BY <3>1
  <2>3. CASE WaitLooks
    <3>1. \/ call.op = "waitFor" /\ (call' = IdleCall \/ call' = [call EXCEPT !.op = "first"])
          \/ call.op = "wait" /\ (call' = IdleCall \/ call' = [call EXCEPT !.op = "begin"])
          \/ call.op = "wait" /\ call.all /\ call' = [call EXCEPT !.op = "waitFor", !.inst = NoInst]
      BY <2>3 DEF WaitLooks
    <3>2. CASE call' = IdleCall
      <4>1. call'.op = "idle" /\ call' \in CallType /\ call.op \in {"waitFor", "wait"}
        BY <3>1, <3>2 DEF IdleCall
      <4> QED BY <4>1
    <3>3. CASE call.op = "waitFor" /\ call' = [call EXCEPT !.op = "first"] BY <3>3
    <3>4. CASE call.op = "wait" /\ call' = [call EXCEPT !.op = "begin"] BY <3>4
    <3>5. CASE call.op = "wait" /\ call.all /\ call' = [call EXCEPT !.op = "waitFor", !.inst = NoInst]
      BY <3>5
    <3> QED BY <3>1, <3>2, <3>3, <3>4, <3>5
  <2>4. CASE WaitPicks
    <3>1. PICK s \in Subs : /\ call.op = "begin" /\ nodeInstances[call.inst][s] # NoInst
                           /\ call' = [call EXCEPT !.op = "deref", !.sub = s,
                                                   !.subInst = nodeInstances[call.inst][s]]
      BY <2>4 DEF WaitPicks
    <3>2. nodeInstances[call.inst][s] \in Inst
      BY <3>1 DEF TypeOK
    <3> QED BY <3>1, <3>2
  <2>5. CASE WaitSub BY <2>5 DEF WaitSub
  <2>6. CASE WaitSubReturns BY <2>6 DEF WaitSubReturns
  <2> QED BY <2>1, <2>2, <2>3, <2>4, <2>5, <2>6 DEF Looks
<1>4. TInv'
  BY <1>1, <1>3 DEF IInv, TInv, TypeOK, SubsKnown, SameKeys, CallType, Starting
<1>5. InstancesBacked'
  BY <1>1, <1>3 DEF IInv, InstancesBacked, Starting
<1>6. WaitsOnItsOwn /\ EntriesTrue => WaitsOnItsOwn'
  <2>1. CASE WaitPicks
    BY <1>1, <1>2, <1>3, <2>1 DEF WaitPicks, CallType, AtOp, WaitsOnItsOwn, EntriesTrue, IInv, TInv,
      CallKnown, InSubWait
  <2>2. CASE WaitSub
    BY <1>1, <1>2, <2>2 DEF WaitSub, CallType, AtOp, WaitsOnItsOwn
  <2>3. CASE Looks /\ ~WaitPicks /\ ~WaitSub
    <3>1. call'.op \notin {"deref", "waitSub", "died"}
      <4>1. CASE CallWait BY <4>1 DEF CallWait, IdleCall
      <4>2. CASE WaitForFirst BY <1>2, <4>2 DEF WaitForFirst, CallType
      <4>3. CASE WaitLooks
        <5>1. \/ call' = IdleCall \/ call' = [call EXCEPT !.op = "first"]
              \/ call' = [call EXCEPT !.op = "begin"]
              \/ call' = [call EXCEPT !.op = "waitFor", !.inst = NoInst]
          BY <4>3 DEF WaitLooks
        <5> QED BY <1>2, <5>1, Numbers DEF CallType
      <4>4. CASE WaitSubReturns BY <1>2, <4>4 DEF WaitSubReturns, CallType
      <4> QED BY <2>3, <4>1, <4>2, <4>3, <4>4 DEF Looks
    <3> QED
      BY <3>1 DEF WaitsOnItsOwn
  <2> QED
    BY <2>1, <2>2, <2>3
<1>7. Books'
  BY <1>1, <1>3, <1>6 DEF IInv, Books, Quiet, EntriesTrue, NoOrphans, StartKnown, Starting
<1> QED
  BY <1>4, <1>5, <1>7 DEF IInv

\* A process exits.
LEMMA SubExitsInv ==
  ASSUME IInv, NEW s \in Subs, NEW j \in Inst, SubExits(s, j)
  PROVE  IInv'
<1> USE DEF IInv, TInv
<1>1. /\ UNCHANGED <<instances, records, nodeInstances, subRunning, launchInst, call, crashed>>
      /\ subLive' = [subLive EXCEPT ![s] = @ \ {j}]
  BY DEF SubExits, Sub!Exit, launch
<1>2. TypeOK'
  BY <1>1 DEF TypeOK, SubExits
<1>3. CallKnown' /\ SubsKnown' /\ SameKeys'
  BY <1>1 DEF TypeOK, CallKnown, SubsKnown, SameKeys, InSubWait
<1>4. InstancesBacked'
  BY <1>1 DEF InstancesBacked
<1>5. Books'
  <2> SUFFICES ASSUME ~early' PROVE Quiet'
    BY DEF Books
  <2>1. Quiet /\ (call.op \in Starting => launchInst[s][j] # call.inst)
    BY DEF SubExits, Books
  <2> QED
    BY <1>1, <2>1 DEF TypeOK, Quiet, EntriesTrue, NoOrphans, WaitsOnItsOwn, StartKnown
<1> QED
  BY <1>2, <1>3, <1>4, <1>5

\* onSubNodeDeath in the handler: the entry goes, and with the last the instance.
LEMMA SubDiesInv ==
  ASSUME IInv, NEW s \in Subs, NEW j \in Inst, SubDies(s, j)
  PROVE  IInv'
<1> USE DEF IInv, TInv
<1> DEFINE i == launchInst[s][j]
<1>1. /\ call.op # "threw" /\ ~(call.op = "died" /\ call.sub = s /\ call.subInst = j)
      /\ j \in subRunning[s] \ subLive[s]
      /\ UNCHANGED <<call, subLive, crashed, early>>
      /\ nodeInstances' = [nodeInstances EXCEPT ![i][s] = NoInst]
      /\ launchInst' = [launchInst EXCEPT ![s][j] = NoInst]
      /\ subRunning' = [subRunning EXCEPT ![s] = @ \ {j}]
  BY DEF SubDies, EraseEntry, Sub!Complete
<1>2. i \in Inst
  BY <1>1 DEF TypeOK
<1>3. IF nodeInstances'[i] = Empty
      THEN instances' = instances \ {i} /\ records' = records \ {i}
      ELSE UNCHANGED <<instances, records>>
  BY DEF SubDies, EndIfEmpty
<1>4. TypeOK'
  BY <1>1, <1>2, <1>3 DEF TypeOK
<1>5. CallKnown' /\ SameKeys'
  BY <1>1, <1>3 DEF CallKnown, SameKeys
<1>6. SubsKnown'
  BY <1>1, <1>2 DEF TypeOK, CallKnown, SubsKnown, InSubWait
<1>7. InstancesBacked'
  <2> SUFFICES ASSUME NEW k \in instances'
               PROVE  \/ call.op \in Starting \cup {"threw"} /\ call.inst = k
                      \/ k \in records' /\ nodeInstances'[k] # Empty
                      \/ k \in records' /\ call.op = "died" /\ launchInst'[call.sub][call.subInst] = k
    BY <1>1 DEF InstancesBacked
  <2>1. k \in instances /\ (k # i \/ nodeInstances'[i] # Empty)
    BY <1>3
  <2>2. \/ call.op \in Starting \cup {"threw"} /\ call.inst = k
        \/ k \in records /\ nodeInstances[k] # Empty
        \/ k \in records /\ call.op = "died" /\ launchInst[call.sub][call.subInst] = k
    BY <2>1 DEF InstancesBacked
  <2>3. k \in records => k \in records'
    BY <1>3, <2>1
  <2>4. k # i => nodeInstances'[k] = nodeInstances[k]
    BY <1>1, <1>2, <2>1 DEF TypeOK
  <2>5. call.op = "died" => launchInst'[call.sub][call.subInst] = launchInst[call.sub][call.subInst]
    BY <1>1 DEF TypeOK, CallKnown, InSubWait
  <2> QED
    BY <2>1, <2>2, <2>3, <2>4, <2>5
<1>8. Books'
  <2> SUFFICES ASSUME ~early, Quiet PROVE Quiet'
    BY <1>1 DEF Books
  <2>1. call.op \in Starting => i # call.inst
    BY <1>1 DEF Quiet, StartKnown
  <2>2. nodeInstances[i][s] = j
    BY <1>1, <2>1 DEF Quiet, NoOrphans, Starting
  <2>3. /\ \A t \in Subs, k \in Inst : <<k, t>> # <<i, s>> => nodeInstances'[k][t] = nodeInstances[k][t]
        /\ nodeInstances'[i][s] = NoInst
        /\ \A t \in Subs, k \in Inst : <<t, k>> # <<s, j>> => launchInst'[t][k] = launchInst[t][k]
        /\ \A t \in Subs : \A k \in subRunning'[t] : k \in Inst /\ k \in subRunning[t] /\ <<t, k>> # <<s, j>>
    BY <1>1, <1>2 DEF TypeOK
  <2>4. EntriesTrue'
    <3> SUFFICES ASSUME NEW k \in Inst, NEW t \in Subs, nodeInstances'[k][t] # NoInst,
                        ~(call.op = "started" /\ call.inst = k /\ call.sub = t)
                 PROVE  launchInst'[t][nodeInstances'[k][t]] = k
      BY <1>1 DEF EntriesTrue
    <3>1. <<k, t>> # <<i, s>> /\ nodeInstances'[k][t] = nodeInstances[k][t]
      BY <2>3
    <3>2. launchInst[t][nodeInstances[k][t]] = k /\ nodeInstances[k][t] \in Inst
      BY <3>1 DEF Quiet, EntriesTrue, TypeOK
    <3>3. <<t, nodeInstances[k][t]>> # <<s, j>>
      BY <3>1, <3>2
    <3> QED
      BY <2>3, <3>1, <3>2, <3>3
  <2>5. NoOrphans'
    <3> SUFFICES ASSUME NEW t \in Subs, NEW k \in subRunning'[t],
                        ~(call.op = "died" /\ call.sub = t /\ call.subInst = k)
                 PROVE  LET n == launchInst[t][k]
                        IN  /\ n \in instances' \cap records'
                            /\ \/ nodeInstances'[n][t] = k
                               \/ /\ call.op = "started" /\ call.inst = n /\ call.sub = t
                                  /\ nodeInstances'[n][t] = 0
      BY <1>1, <2>3 DEF NoOrphans
    <3> DEFINE n == launchInst[t][k]
    <3>1. /\ n \in instances \cap records
          /\ \/ nodeInstances[n][t] = k
             \/ call.op = "started" /\ call.inst = n /\ call.sub = t /\ nodeInstances[n][t] = 0
      BY <2>3 DEF Quiet, NoOrphans
    <3>2. n \in Inst /\ k # NoInst /\ 0 # NoInst /\ k \in Inst
      BY <2>3, <3>1, Numbers DEF TypeOK
    <3>3. <<n, t>> # <<i, s>>
      BY <2>1, <2>2, <2>3, <3>1 DEF Starting
    <3>4. nodeInstances'[n][t] = nodeInstances[n][t] /\ nodeInstances'[n][t] # NoInst
      BY <2>3, <3>1, <3>2, <3>3
    <3>5. n = i => nodeInstances'[i] # Empty
      BY <3>4 DEF Empty
    <3> QED
      BY <1>3, <3>1, <3>4, <3>5
  <2>6. WaitsOnItsOwn'
    <3> SUFFICES ASSUME call.op \in {"deref", "waitSub", "died"}, call.subInst \in subRunning'[call.sub]
                 PROVE  launchInst'[call.sub][call.subInst] = call.inst
      BY <1>1 DEF WaitsOnItsOwn
    <3>1. call.sub \in Subs
      BY DEF CallKnown, InSubWait
    <3> QED
      BY <2>3, <3>1 DEF Quiet, WaitsOnItsOwn
  <2>7. StartKnown'
    <3> SUFFICES ASSUME call.op \in Starting PROVE StartKnown'
      BY <1>1 DEF StartKnown
    <3>1. call.inst \in instances' /\ call.inst \in Inst
      BY <1>3, <2>1 DEF Quiet, StartKnown, CallKnown, Starting
    <3>2. \A t \in Subs : \A k \in subRunning'[t] : launchInst'[t][k] = call.inst => k \in subLive'[t]
      BY <1>1, <2>3 DEF Quiet, StartKnown
    <3>3. \A t \in Subs : nodeInstances'[call.inst][t] = nodeInstances[call.inst][t]
      BY <2>1, <2>3, <3>1
    <3>4. \A t \in Subs : (nodeInstances'[call.inst][t] = NoInst) = (t \in call'.todo)
      BY <1>1, <3>3 DEF Quiet, StartKnown
    <3>5. call.op = "started" => /\ call.sub \in Subs /\ call.subInst \in subRunning[call.sub]
                                 /\ call.subInst \in Inst
                                 /\ launchInst[call.sub][call.subInst] = call.inst
                                 /\ nodeInstances[call.inst][call.sub] = 0
      BY DEF Quiet, StartKnown, CallKnown
    <3>6. call.op = "started" => /\ call.subInst \in subRunning'[call.sub]
                                 /\ launchInst'[call.sub][call.subInst] = call.inst
                                 /\ nodeInstances'[call.inst][call.sub] = 0
      BY <1>1, <2>1, <2>3, <3>3, <3>5 DEF TypeOK
    <3>7. call.op = "started" =>
            \A k \in subRunning'[call.sub] : launchInst'[call.sub][k] = call.inst => k = call.subInst
      BY <2>3, <3>5 DEF Quiet, StartKnown
    <3> QED
      BY <1>1, <3>1, <3>2, <3>4, <3>6, <3>7 DEF Quiet, StartKnown
  <2> QED
    BY <2>4, <2>5, <2>6, <2>7 DEF Quiet
<1> QED
  BY <1>4, <1>5, <1>6, <1>7, <1>8

\* startup(): a number that is not used, and a new record.
LEMMA StartupInv == ASSUME IInv, Startup PROVE IInv'
<1> USE DEF IInv, TInv
<1>1. PICK i \in Inst :
        /\ call.op = "idle"
        /\ i \notin instances
        /\ instances' = instances \cup {i} /\ records' = records \cup {i}
        /\ nodeInstances' = [nodeInstances EXCEPT ![i] = IF i \in records THEN @ ELSE Empty]
        /\ call' = [IdleCall EXCEPT !.op = "starting", !.inst = i, !.todo = Subs]
        /\ UNCHANGED <<subRunning, subLive, launchInst, crashed, early>>
  BY DEF Startup, AtOp, IsNextInst, subs
<1>2. i \notin records /\ Empty \in [Subs -> Inst \cup {NoInst}]
  BY <1>1 DEF SameKeys, Empty
<1>3. nodeInstances' = [nodeInstances EXCEPT ![i] = Empty]
  BY <1>1, <1>2
<1>4. /\ call' \in CallType
      /\ call'.op = "starting" /\ call'.inst = i /\ call'.todo = Subs
  BY <1>1, Numbers DEF CallType, Ops, Starting
<1>5. TypeOK'
  BY <1>1, <1>2, <1>3, <1>4 DEF TypeOK, CallType
<1>6. CallKnown' /\ SubsKnown' /\ SameKeys'
  BY <1>1, <1>4 DEF CallKnown, SubsKnown, SameKeys, InSubWait
<1>7. InstancesBacked'
  BY <1>1, <1>3, <1>4 DEF InstancesBacked, Starting, TypeOK
<1>8. Books'
  <2> SUFFICES ASSUME Quiet PROVE Quiet'
    BY <1>1 DEF Books
  <2>1. EntriesTrue'
    BY <1>1, <1>3, <1>4 DEF Quiet, EntriesTrue, TypeOK, Empty
  <2>2. \A s \in Subs : \A j \in subRunning[s] :
          launchInst[s][j] \in instances \cap records /\ nodeInstances[launchInst[s][j]][s] = j
    BY <1>1 DEF Quiet, NoOrphans
  <2>3. NoOrphans'
    BY <1>1, <1>3, <2>2 DEF NoOrphans, TypeOK
  <2>4. WaitsOnItsOwn'
    BY <1>4 DEF WaitsOnItsOwn
  <2>5. StartKnown'
    <3>1. \A s \in Subs : \A j \in subRunning[s] : launchInst[s][j] # i
      BY <1>1, <2>2
    <3>2. \A s \in Subs : nodeInstances'[i][s] = NoInst
      BY <1>3 DEF TypeOK, Empty
    <3> QED
      BY <1>1, <1>4, <3>1, <3>2 DEF StartKnown
  <2> QED
    BY <2>1, <2>3, <2>4, <2>5 DEF Quiet
<1> QED
  BY <1>5, <1>6, <1>7, <1>8

\* An exception: no more is done.
LEMMA ThrowsInv == ASSUME IInv, StartupThrows \/ StartSubThrows PROVE IInv'
<1> USE DEF IInv, TInv
<1>1. PICK i \in Inst :
        /\ call.op \in {"idle", "starting"} /\ (call.op = "starting" => i = call.inst)
        /\ instances' = instances \cup (IF call.op = "idle" THEN {i} ELSE {})
        /\ call'.op = "threw" /\ call'.inst = i /\ call' \in CallType
        /\ UNCHANGED <<records, nodeInstances, subRunning, subLive, launchInst, crashed, early>>
  <2>1. CASE StartupThrows
    <3>1. PICK i \in Inst : /\ call.op = "idle"
                           /\ instances' = instances \cup {i}
                           /\ call' = [IdleCall EXCEPT !.op = "threw", !.inst = i]
                           /\ UNCHANGED <<records, nodeInstances, subs, crashed, early>>
      BY <2>1 DEF StartupThrows, AtOp
    <3> QED BY <3>1, Numbers DEF subs, CallType, Ops
  <2>2. CASE StartSubThrows
    BY <2>2 DEF StartSubThrows, AtOp, launch, subs, TypeOK, CallKnown, CallType, Ops
  <2> QED BY <2>1, <2>2
<1>2. TypeOK'
  BY <1>1 DEF TypeOK, CallType
<1>3. CallKnown' /\ SubsKnown' /\ SameKeys'
  BY <1>1 DEF CallKnown, SubsKnown, SameKeys, InSubWait
<1>4. InstancesBacked'
  BY <1>1 DEF InstancesBacked, Starting
<1>5. Books'
  BY <1>1 DEF Books, Quiet, EntriesTrue, NoOrphans, WaitsOnItsOwn, StartKnown, Starting
<1> QED
  BY <1>2, <1>3, <1>4, <1>5

\* A sub-node is started: its entry is there before its startup() returns.
LEMMA StartSubInv == ASSUME IInv, StartSub PROVE IInv'
<1> USE DEF IInv, TInv
<1>1. PICK s \in call.todo, j \in Inst :
        /\ call.op = "starting"
        /\ nodeInstances' = [nodeInstances EXCEPT ![call.inst][s] = 0]
        /\ launchInst' = [launchInst EXCEPT ![s][j] = call.inst]
        /\ call' = [call EXCEPT !.op = "started", !.sub = s, !.subInst = j, !.todo = @ \ {s}]
        /\ j \notin subRunning[s]
        /\ subRunning' = [subRunning EXCEPT ![s] = @ \cup {j}]
        /\ subLive' = [subLive EXCEPT ![s] = @ \cup {j}]
        /\ UNCHANGED <<instances, records, crashed, early>>
  BY DEF StartSub, AtOp, Sub!Start
<1>2. s \in Subs /\ call.inst \in Inst
  BY <1>1 DEF TypeOK, CallKnown
<1>3. /\ call' \in CallType
      /\ call'.op = "started" /\ call'.inst = call.inst /\ call'.sub = s /\ call'.subInst = j
      /\ call'.todo = call.todo \ {s}
  BY <1>1, <1>2 DEF TypeOK, CallType, Ops, Starting
<1>4. TypeOK'
  BY <1>1, <1>2, <1>3, Numbers DEF TypeOK, CallType
<1>5. CallKnown' /\ SubsKnown' /\ SameKeys'
  BY <1>1, <1>2, <1>3 DEF CallKnown, SubsKnown, SameKeys, InSubWait, TypeOK
<1>6. InstancesBacked'
  <2>1. \A k \in instances : k # call.inst => nodeInstances'[k] = nodeInstances[k]
    BY <1>1, <1>2 DEF TypeOK
  <2> QED
    BY <1>1, <1>3, <2>1 DEF InstancesBacked, Starting
<1>7. Books'
  <2> SUFFICES ASSUME Quiet PROVE Quiet'
    BY <1>1 DEF Books
  <2>1. /\ \A t \in Subs, k \in Inst : <<k, t>> # <<call.inst, s>> => nodeInstances'[k][t] = nodeInstances[k][t]
        /\ nodeInstances'[call.inst][s] = 0 /\ nodeInstances[call.inst][s] = NoInst
        /\ \A t \in Subs, k \in Inst : <<t, k>> # <<s, j>> => launchInst'[t][k] = launchInst[t][k]
        /\ launchInst'[s][j] = call.inst /\ launchInst[s][j] = NoInst
        /\ \A t \in Subs : \A k \in subRunning'[t] : k \in Inst /\ (k \in subRunning[t] \/ <<t, k>> = <<s, j>>)
    BY <1>1, <1>2 DEF TypeOK, Quiet, StartKnown, Starting
  <2>2. EntriesTrue'
    <3> SUFFICES ASSUME NEW k \in Inst, NEW t \in Subs, nodeInstances'[k][t] # NoInst,
                        ~(k = call.inst /\ t = s)
                 PROVE  launchInst'[t][nodeInstances'[k][t]] = k
      BY <1>3 DEF EntriesTrue
    <3>1. nodeInstances'[k][t] = nodeInstances[k][t] /\ nodeInstances[k][t] \in Inst
      BY <2>1 DEF TypeOK
    <3>2. launchInst[t][nodeInstances[k][t]] = k
      BY <1>1, <3>1 DEF Quiet, EntriesTrue
    <3>3. <<t, nodeInstances[k][t]>> # <<s, j>>
      BY <2>1, <3>2, Numbers
    <3> QED
      BY <2>1, <3>1, <3>2, <3>3
  <2>3. call.inst \in instances \cap records
    BY <1>1 DEF Quiet, StartKnown, Starting, SameKeys
  <2>4. NoOrphans'
    <3> SUFFICES ASSUME NEW t \in Subs, NEW k \in subRunning'[t]
                 PROVE  LET n == launchInst'[t][k]
                        IN  /\ n \in instances' \cap records'
                            /\ \/ nodeInstances'[n][t] = k
                               \/ call.inst = n /\ s = t /\ nodeInstances'[n][t] = 0
      BY <1>3 DEF NoOrphans
    <3>1. CASE <<t, k>> = <<s, j>>
      BY <1>1, <2>1, <2>3, <3>1
    <3>2. CASE <<t, k>> # <<s, j>>
      <4> DEFINE n == launchInst[t][k]
      <4>1. k \in subRunning[t] /\ launchInst'[t][k] = n /\ k \in Inst
        BY <2>1, <3>2
      <4>2. n \in instances \cap records /\ nodeInstances[n][t] = k
        BY <1>1, <4>1 DEF Quiet, NoOrphans
      <4>3. n \in Inst /\ <<n, t>> # <<call.inst, s>>
        BY <2>1, <4>1, <4>2, Numbers DEF TypeOK
      <4> QED
        BY <1>1, <2>1, <4>1, <4>2, <4>3
    <3> QED
      BY <3>1, <3>2
  <2>5. WaitsOnItsOwn'
    BY <1>3 DEF WaitsOnItsOwn
  <2>6. StartKnown'
    <3>1. \A t \in Subs : \A k \in subRunning'[t] : launchInst'[t][k] = call.inst => k \in subLive'[t]
      BY <1>1, <1>2, <2>1 DEF TypeOK, Quiet, StartKnown, Starting
    <3>2. \A t \in Subs : (nodeInstances'[call.inst][t] = NoInst) = (t \in call'.todo)
      BY <1>1, <1>2, <1>3, <2>1, Numbers DEF Quiet, StartKnown, Starting
    <3>3. j \in subRunning'[s]
      BY <1>1, <1>2 DEF TypeOK
    <3>4. \A k \in subRunning[s] : launchInst[s][k] # call.inst
      BY <1>1, <1>2, <2>1, Numbers DEF Quiet, NoOrphans, TypeOK
    <3>5. \A k \in subRunning'[s] : launchInst'[s][k] = call.inst => k = j
      BY <1>2, <2>1, <3>4
    <3> QED
      BY <1>1, <1>3, <2>1, <2>3, <3>1, <3>2, <3>3, <3>5 DEF StartKnown
  <2> QED
    BY <2>2, <2>4, <2>5, <2>6 DEF Quiet
<1> QED
  BY <1>4, <1>5, <1>6, <1>7

\* The number is written into the entry, or the entry has gone.
LEMMA RecordInv == ASSUME IInv, RecordSub \/ RecordSubStale PROVE IInv'
<1> USE DEF IInv, TInv
<1>1. /\ call.op = "started" /\ call.inst \in Inst /\ call.sub \in Subs /\ call.subInst \in Inst
      /\ UNCHANGED <<instances, records, subRunning, subLive, launchInst, crashed, early>>
      /\ call' = [call EXCEPT !.op = "starting", !.sub = NoNode, !.subInst = NoInst]
  BY DEF RecordSub, RecordSubStale, AtOp, CallKnown, launch, subs
<1>2. IF nodeInstances[call.inst][call.sub] = NoInst
      THEN UNCHANGED nodeInstances
      ELSE nodeInstances' = [nodeInstances EXCEPT ![call.inst][call.sub] = call.subInst]
  BY DEF RecordSub, RecordSubStale, launch
<1>3. /\ call' \in CallType
      /\ call'.op = "starting" /\ call'.inst = call.inst /\ call'.todo = call.todo
  BY <1>1 DEF TypeOK, CallType, Ops, Starting
<1>4. TypeOK'
  <2>1. nodeInstances' \in [Inst -> [Subs -> Inst \cup {NoInst}]]
    <3>1. CASE UNCHANGED nodeInstances
      BY <3>1 DEF TypeOK
    <3>2. CASE nodeInstances' = [nodeInstances EXCEPT ![call.inst][call.sub] = call.subInst]
      BY <1>1, <3>2 DEF TypeOK
    <3> QED
      BY <1>2, <3>1, <3>2
  <2> QED
    BY <1>1, <1>3, <2>1 DEF TypeOK, CallType
<1>5. CallKnown' /\ SubsKnown' /\ SameKeys'
  BY <1>1, <1>3 DEF CallKnown, SubsKnown, SameKeys, InSubWait
<1>6. InstancesBacked'
  <2>1. \A k \in instances : k # call.inst => nodeInstances'[k] = nodeInstances[k]
    BY <1>1, <1>2 DEF TypeOK
  <2> QED
    BY <1>1, <1>3, <2>1 DEF InstancesBacked, Starting
<1>7. Books'
  <2> SUFFICES ASSUME Quiet PROVE Quiet'
    BY <1>1 DEF Books
  <2>1. /\ call.inst \in instances \cap records
        /\ call.subInst \in subRunning[call.sub]
        /\ launchInst[call.sub][call.subInst] = call.inst
        /\ nodeInstances[call.inst][call.sub] = 0
    BY <1>1 DEF Quiet, StartKnown, Starting, SameKeys
  <2>2. nodeInstances' = [nodeInstances EXCEPT ![call.inst][call.sub] = call.subInst]
    BY <1>2, <2>1, Numbers
  <2>3. /\ \A t \in Subs, k \in Inst :
             <<k, t>> # <<call.inst, call.sub>> => nodeInstances'[k][t] = nodeInstances[k][t]
        /\ nodeInstances'[call.inst][call.sub] = call.subInst
    BY <1>1, <2>2 DEF TypeOK
  <2>4. EntriesTrue'
    BY <1>1, <1>3, <2>1, <2>3 DEF Quiet, EntriesTrue
  <2>5. NoOrphans'
    <3> SUFFICES ASSUME NEW t \in Subs, NEW k \in subRunning[t]
                 PROVE  LET n == launchInst[t][k]
                        IN  n \in instances \cap records /\ nodeInstances'[n][t] = k
      BY <1>1, <1>3 DEF NoOrphans
    <3> DEFINE n == launchInst[t][k]
    <3>1. /\ n \in instances \cap records
          /\ \/ nodeInstances[n][t] = k
             \/ call.inst = n /\ call.sub = t /\ nodeInstances[n][t] = 0
      BY <1>1 DEF Quiet, NoOrphans
    <3>2. n \in Inst
      BY <3>1 DEF TypeOK
    <3>3. CASE <<n, t>> # <<call.inst, call.sub>>
      BY <2>3, <3>1, <3>2, <3>3
    <3>4. CASE <<n, t>> = <<call.inst, call.sub>>
      <4>1. k = call.subInst
        BY <1>1, <3>4 DEF Quiet, StartKnown, Starting
      <4> QED
        BY <2>3, <3>1, <3>4, <4>1
    <3> QED
      BY <3>3, <3>4
  <2>6. WaitsOnItsOwn'
    BY <1>3 DEF WaitsOnItsOwn
  <2>7. StartKnown'
    BY <1>1, <1>3, <2>1, <2>3, Numbers DEF Quiet, StartKnown, Starting
  <2> QED
    BY <2>4, <2>5, <2>6, <2>7 DEF Quiet
<1> QED
  BY <1>4, <1>5, <1>6, <1>7

\* All sub-nodes are started; where no entry is left the instance ends at once.
LEMMA ReturnsInv == ASSUME IInv, StartupReturns PROVE IInv'
<1> USE DEF IInv, TInv
<1>1. /\ call.op = "starting" /\ call.inst \in Inst /\ call.todo = {}
      /\ UNCHANGED <<instances, records, nodeInstances, subRunning, subLive, launchInst, crashed, early>>
  BY DEF StartupReturns, AtOp, CallKnown, launch, subs
<1>2. \/ /\ nodeInstances[call.inst] = Empty
         /\ call' \in CallType /\ call'.op = "empty" /\ call'.inst = call.inst /\ call'.todo = {}
      \/ nodeInstances[call.inst] # Empty /\ call' \in CallType /\ call'.op = "idle"
  <2>1. CASE nodeInstances[call.inst] = Empty
    BY <1>1, <2>1 DEF StartupReturns, TypeOK, CallType, Ops, Starting
  <2>2. CASE nodeInstances[call.inst] # Empty
    BY <1>1, <2>2, Numbers DEF StartupReturns
  <2> QED BY <2>1, <2>2
<1>3. TypeOK'
  BY <1>1, <1>2 DEF TypeOK, CallType
<1>4. CallKnown' /\ SubsKnown' /\ SameKeys'
  BY <1>1, <1>2 DEF CallKnown, SubsKnown, SameKeys, InSubWait
<1>5. InstancesBacked'
  BY <1>1, <1>2 DEF InstancesBacked, Starting, SameKeys
<1>6. Books'
  <2> SUFFICES ASSUME Quiet PROVE Quiet'
    BY <1>1 DEF Books
  <2>1. nodeInstances[call.inst] = Empty => Subs = {}
    BY <1>1 DEF Quiet, StartKnown, Starting, Empty
  <2> QED
    BY <1>1, <1>2, <2>1 DEF Quiet, EntriesTrue, NoOrphans, WaitsOnItsOwn, StartKnown, Starting
<1> QED
  BY <1>3, <1>4, <1>5, <1>6

LEMMA EndEmptyInv == ASSUME IInv, EndEmpty PROVE IInv'
<1> USE DEF IInv, TInv
<1>1. /\ call.op = "empty" /\ call.inst \in Inst
      /\ instances' = instances \ {call.inst} /\ records' = records \ {call.inst}
      /\ call' \in CallType /\ call'.op = "idle"
      /\ UNCHANGED <<nodeInstances, subRunning, subLive, launchInst, crashed, early>>
  BY Numbers DEF EndEmpty, EndIfEmpty, AtOp, CallKnown, subs
<1>2. TypeOK'
  BY <1>1 DEF TypeOK, CallType
<1>3. CallKnown' /\ SubsKnown' /\ SameKeys'
  BY <1>1 DEF CallKnown, SubsKnown, SameKeys, InSubWait
<1>4. InstancesBacked'
  BY <1>1 DEF InstancesBacked, Starting
<1>5. Books'
  BY <1>1 DEF Books, Quiet, EntriesTrue, NoOrphans, WaitsOnItsOwn, StartKnown, Starting
<1> QED
  BY <1>2, <1>3, <1>4, <1>5

\* onSubNodeDeath in the thread, first half: the entry goes.
LEMMA ThreadErasesInv == ASSUME IInv, ThreadErases PROVE IInv'
<1> USE DEF IInv, TInv
<1> DEFINE i == launchInst[call.sub][call.subInst]
<1>1. /\ call.op = "waitSub"
      /\ call.subInst \in subRunning[call.sub] \ subLive[call.sub]
      /\ call.sub \in Subs /\ call.subInst \in Inst /\ call.inst \in Inst
      /\ nodeInstances' = [nodeInstances EXCEPT ![i][call.sub] = NoInst]
      /\ call' = [call EXCEPT !.op = "died"]
      /\ UNCHANGED <<instances, records, subRunning, subLive, launchInst, crashed, early>>
  BY DEF ThreadErases, AtOp, EraseEntry, CallKnown, InSubWait, subs
<1>2. i \in Inst
  BY <1>1 DEF TypeOK
<1>3. /\ call' \in CallType
      /\ call'.op = "died" /\ call'.inst = call.inst /\ call'.sub = call.sub /\ call'.subInst = call.subInst
  BY <1>1 DEF TypeOK, CallType, Ops, InSubWait
<1>4. TypeOK'
  BY <1>1, <1>2, <1>3 DEF TypeOK, CallType
<1>5. CallKnown' /\ SubsKnown' /\ SameKeys'
  BY <1>1, <1>2, <1>3 DEF CallKnown, SubsKnown, SameKeys, TypeOK
<1>6. InstancesBacked'
  <2>1. \A k \in instances : k # i => nodeInstances'[k] = nodeInstances[k]
    BY <1>1, <1>2 DEF TypeOK
  <2> QED
    BY <1>1, <1>3, <2>1 DEF InstancesBacked, Starting
<1>7. Books'
  <2> SUFFICES ASSUME Quiet PROVE Quiet'
    BY <1>1 DEF Books
  <2>1. /\ \A t \in Subs, k \in Inst : <<k, t>> # <<i, call.sub>> => nodeInstances'[k][t] = nodeInstances[k][t]
        /\ nodeInstances'[i][call.sub] = NoInst
    BY <1>1, <1>2 DEF TypeOK
  <2>2. nodeInstances[i][call.sub] = call.subInst
    BY <1>1 DEF Quiet, NoOrphans
  <2>3. EntriesTrue'
    <3> SUFFICES ASSUME NEW k \in Inst, NEW t \in Subs, nodeInstances'[k][t] # NoInst
                 PROVE  launchInst[t][nodeInstances'[k][t]] = k
      BY <1>1, <1>3 DEF EntriesTrue
    <3>1. nodeInstances'[k][t] = nodeInstances[k][t]
      BY <2>1
    <3>2. EntriesTrue /\ call.op # "started"
      BY <1>1 DEF Quiet
    <3> QED
      BY <3>1, <3>2 DEF EntriesTrue
  <2>4. NoOrphans'
    <3> SUFFICES ASSUME NEW t \in Subs, NEW k \in subRunning[t], <<t, k>> # <<call.sub, call.subInst>>
                 PROVE  LET n == launchInst[t][k]
                        IN  n \in instances \cap records /\ nodeInstances'[n][t] = k
      <4>1. UNCHANGED <<instances, records, subRunning, launchInst>>
        BY <1>1
      <4> QED
        BY <1>3, <4>1 DEF NoOrphans
    <3>1. LET n == launchInst[t][k] IN n \in instances \cap records /\ nodeInstances[n][t] = k
      BY <1>1 DEF Quiet, NoOrphans
    <3>2. launchInst[t][k] \in Inst
      BY <3>1 DEF TypeOK
    <3>3. <<launchInst[t][k], t>> # <<i, call.sub>>
      BY <2>2, <3>1
    <3> QED
      BY <2>1, <3>1, <3>2, <3>3
  <2>5. WaitsOnItsOwn' /\ StartKnown'
    BY <1>1, <1>3 DEF Quiet, WaitsOnItsOwn, StartKnown, Starting
  <2> QED
    BY <2>3, <2>4, <2>5 DEF Quiet
<1> QED
  BY <1>4, <1>5, <1>6, <1>7

\* Second half: if the map is empty now, the instance ends.
LEMMA ThreadEndsInv == ASSUME IInv, ThreadEnds PROVE IInv'
<1> USE DEF IInv, TInv
<1> DEFINE s == call.sub
           j == call.subInst
           i == launchInst[s][j]
<1>1. /\ call.op = "died" /\ s \in Subs /\ j \in Inst
      /\ j \in subRunning[s] \ subLive[s]
      /\ nodeInstances[i][s] = NoInst
      /\ launchInst' = [launchInst EXCEPT ![s][j] = NoInst]
      /\ subRunning' = [subRunning EXCEPT ![s] = @ \ {j}]
      /\ call' = [call EXCEPT !.op = "waitSub"]
      /\ UNCHANGED <<nodeInstances, subLive, crashed, early>>
  BY DEF ThreadEnds, AtOp, Sub!Complete, SubsKnown, CallKnown, InSubWait
<1>2. i \in Inst
  BY <1>1 DEF TypeOK
<1>3. IF nodeInstances[i] = Empty
      THEN instances' = instances \ {i} /\ records' = records \ {i}
      ELSE UNCHANGED <<instances, records>>
  BY DEF ThreadEnds, EndIfEmpty
<1>4. /\ call' \in CallType
      /\ call'.op = "waitSub" /\ call'.inst = call.inst /\ call'.sub = s /\ call'.subInst = j
      /\ call.inst \in Inst
  BY <1>1 DEF TypeOK, CallType, Ops, InSubWait, CallKnown
<1>5. TypeOK'
  <2>1. instances' \subseteq Inst /\ records' \subseteq Inst
    BY <1>3 DEF TypeOK
  <2>2. /\ launchInst' \in [Subs -> [Inst -> Inst \cup {NoInst}]]
        /\ subRunning' \in [Subs -> SUBSET Inst]
    BY <1>1 DEF TypeOK
  <2>3. \A t \in Subs : \A k \in Inst : (launchInst'[t][k] # NoInst) = (k \in subRunning'[t])
    BY <1>1 DEF TypeOK
  <2> QED
    BY <1>1, <1>4, <2>1, <2>2, <2>3 DEF TypeOK, CallType
<1>6. CallKnown' /\ SubsKnown' /\ SameKeys'
  <2>1. \A t \in Subs : subLive'[t] \subseteq subRunning'[t]
    BY <1>1 DEF SubsKnown, TypeOK
  <2> QED
    BY <1>1, <1>3, <1>4, <2>1 DEF CallKnown, SubsKnown, SameKeys
<1>7. InstancesBacked'
  <2> SUFFICES ASSUME NEW k \in instances' PROVE k \in records' /\ nodeInstances[k] # Empty
    BY <1>1 DEF InstancesBacked
  <2>1. k \in instances /\ (k # i \/ nodeInstances[i] # Empty)
    BY <1>3
  <2>2. k \in records /\ (nodeInstances[k] # Empty \/ k = i)
    BY <1>1, <2>1 DEF InstancesBacked, Starting
  <2> QED
    BY <1>3, <2>1, <2>2
<1>8. Books'
  <2> SUFFICES ASSUME Quiet PROVE Quiet'
    BY <1>1 DEF Books
  <2>1. /\ \A t \in Subs, k \in Inst : <<t, k>> # <<s, j>> => launchInst'[t][k] = launchInst[t][k]
        /\ \A t \in Subs : \A k \in subRunning'[t] : k \in Inst /\ k \in subRunning[t] /\ <<t, k>> # <<s, j>>
    BY <1>1 DEF TypeOK
  <2>2. EntriesTrue'
    <3> SUFFICES ASSUME NEW k \in Inst, NEW t \in Subs, nodeInstances[k][t] # NoInst
                 PROVE  launchInst'[t][nodeInstances[k][t]] = k
      BY <1>1 DEF EntriesTrue
    <3>1. launchInst[t][nodeInstances[k][t]] = k /\ nodeInstances[k][t] \in Inst
      BY <1>1 DEF Quiet, EntriesTrue, TypeOK
    <3>2. <<t, nodeInstances[k][t]>> # <<s, j>>
      BY <1>1, <3>1
    <3> QED
      BY <2>1, <3>1, <3>2
  <2>3. NoOrphans'
    <3> SUFFICES ASSUME NEW t \in Subs, NEW k \in subRunning'[t]
                 PROVE  LET n == launchInst[t][k]
                        IN  n \in instances' \cap records' /\ nodeInstances[n][t] = k
      BY <1>1, <1>4, <2>1 DEF NoOrphans
    <3>1. LET n == launchInst[t][k] IN n \in instances \cap records /\ nodeInstances[n][t] = k
      BY <1>1, <2>1 DEF Quiet, NoOrphans
    <3>2. k \in Inst /\ k # NoInst
      BY <2>1, Numbers
    <3>3. launchInst[t][k] = i => nodeInstances[i] # Empty
      BY <3>1, <3>2 DEF Empty
    <3> QED
      BY <1>3, <3>1, <3>3
  <2>4. WaitsOnItsOwn'
    BY <1>1, <1>4 DEF WaitsOnItsOwn, TypeOK
  <2>5. StartKnown'
    BY <1>4 DEF StartKnown, Starting
  <2> QED
    BY <2>2, <2>3, <2>4, <2>5 DEF Quiet
<1> QED
  BY <1>5, <1>6, <1>7, <1>8

\* Every step keeps the invariant.
LEMMA NextInv == ASSUME IInv, [Next]_vars PROVE IInv'
<1>1. CASE Crashes BY <1>1, CrashStep, CrashInv
<1>2. CASE Looks BY <1>2, LooksInv
<1>3. CASE \E s \in Subs, j \in Inst : SubExits(s, j) \/ SubDies(s, j) BY <1>3, SubExitsInv, SubDiesInv
<1>4. CASE Startup \/ StartupThrows \/ StartSubThrows BY <1>4, StartupInv, ThrowsInv
<1>5. CASE StartSub \/ RecordSub \/ RecordSubStale BY <1>5, StartSubInv, RecordInv
<1>6. CASE StartupReturns \/ EndEmpty BY <1>6, ReturnsInv, EndEmptyInv
<1>7. CASE ThreadErases \/ ThreadEnds BY <1>7, ThreadErasesInv, ThreadEndsInv
<1>8. CASE Stopped \/ UNCHANGED vars BY <1>8, CrashInv DEF Stopped
<1> QED
  BY <1>1, <1>2, <1>3, <1>4, <1>5, <1>6, <1>7, <1>8 DEF Next, Thread, Crashes, Looks

LEMMA Invariant == Spec => []IInv
BY InitInv, NextInv, PTL DEF Spec

-----------------------------------------------------------------------------
(* What it gives *)

\* TypeOK, for any sub-nodes and any bound: an instance of a sub-node is known to
\* have a record's address exactly while it runs.
THEOREM TypeCorrect == Spec => []TypeOK
<1>1. IInv => TypeOK
  BY DEF IInv, TInv
<1> QED
  BY <1>1, Invariant, PTL

\* InstancesBacked: whatever the order in which sub-nodes die, in the handler, in
\* the thread or while others are being started (LaunchNode.cxx:12, 54), no
\* instance is left that nothing will end.
THEOREM NoneStranded == Spec => []InstancesBacked
<1>1. IInv => InstancesBacked
  BY DEF IInv
<1> QED
  BY <1>1, Invariant, PTL

\* Bookkeeping: until a process exits too early, records, sub-nodes and the
\* thread's locals agree (LaunchNode.cxx:11-16, 47-52, 74-78).
THEOREM BooksKept == Spec => []Bookkeeping
<1>1. IInv => Bookkeeping
  BY DEF IInv, Books, Quiet, Bookkeeping
<1> QED
  BY <1>1, Invariant, PTL

-----------------------------------------------------------------------------
(* The promise of Node *)

\* Steps that change neither the instances, nor the sub-nodes, nor a startup().
LEMMA LooksRefine ==
  ASSUME IInv, Looks
  PROVE  Contract!Next \/ UNCHANGED Contract!vars
<1>1. UNCHANGED <<instances, records, nodeInstances, subRunning, subLive, launchInst>>
  BY DEF Looks, CallWait, WaitForFirst, WaitLooks, WaitPicks, WaitSub, WaitSubReturns, launch, subs,
    Sub!BeginWait, Sub!EndWait
<1>2. call \in CallType
  BY DEF IInv, TInv, TypeOK, CallType
<1>3. call.op \notin Starting \cup {"threw"} /\ call'.op \notin Starting \cup {"threw"}
  <2> USE <1>2 DEF CallType, Starting, AtOp
  <2>1. CASE CallWait BY <2>1 DEF CallWait, IdleCall
  <2>2. CASE WaitForFirst BY <2>2 DEF WaitForFirst
  <2>3. CASE WaitLooks
    <3>1. /\ call.op \in {"waitFor", "wait"}
          /\ \/ call' = IdleCall \/ call' = [call EXCEPT !.op = "first"]
             \/ call' = [call EXCEPT !.op = "begin"]
             \/ call' = [call EXCEPT !.op = "waitFor", !.inst = NoInst]
      BY <2>3 DEF WaitLooks
    <3> QED BY <3>1, Numbers
  <2>4. CASE WaitPicks BY <2>4 DEF WaitPicks
  <2>5. CASE WaitSub BY <2>5 DEF WaitSub
  <2>6. CASE WaitSubReturns BY <2>6 DEF WaitSubReturns
  <2> QED BY <2>1, <2>2, <2>3, <2>4, <2>5, <2>6 DEF Looks
<1>4. Live' = Live /\ Running = instances /\ Running' = instances
  BY <1>1, <1>3 DEF Live, Running, Starting
<1>5. CASE CallWait
  <2>1. Waiting = Contract!NotWaiting
    BY <1>5 DEF CallWait, AtOp, Waiting, Waits, InSubWait, Contract!NotWaiting, Contract!AllInst
  <2>2. \/ Waiting' = [node |-> Self, inst |-> -2]
        \/ \E i \in Inst : Waiting' = [node |-> Self, inst |-> i]
    BY <1>5 DEF CallWait, IdleCall, Waiting, Waits
  <2> QED
    BY <1>4, <2>1, <2>2 DEF Contract!Next, Contract!BeginWait, Contract!AllInst
<1>6. CASE WaitForFirst \/ WaitPicks \/ WaitSub \/ WaitSubReturns
  <2>1. Waiting' = Waiting
    <3> USE <1>2 DEF CallType, AtOp, Waiting, Waits, InSubWait, IInv, TInv, CallKnown
    <3>1. CASE WaitForFirst BY <3>1 DEF WaitForFirst
    <3>2. CASE WaitPicks BY <3>2 DEF WaitPicks
    <3>3. CASE WaitSub BY <3>3 DEF WaitSub
    <3>4. CASE WaitSubReturns BY <3>4 DEF WaitSubReturns
    <3> QED BY <1>6, <3>1, <3>2, <3>3, <3>4
  <2> QED
    BY <1>4, <2>1 DEF Contract!vars
<1>7. CASE WaitLooks /\ call' # IdleCall
  <2>1. \/ call.op = "waitFor" /\ call' = [call EXCEPT !.op = "first"]
        \/ call.op = "wait" /\ call' = [call EXCEPT !.op = "begin"]
        \/ call.op = "wait" /\ call.all /\ call' = [call EXCEPT !.op = "waitFor", !.inst = NoInst]
    BY <1>7 DEF WaitLooks, AtOp
  <2>2. Waiting' = Waiting
    BY <1>2, <2>1 DEF CallType, Waiting, Waits
  <2> QED
    BY <1>4, <2>2 DEF Contract!vars
<1>8. CASE WaitLooks /\ call' = IdleCall
  <2>1. \/ call.op = "waitFor" /\ call.all /\ instances = {}
        \/ call.op = "wait" /\ ~call.all /\ call.inst \in Inst /\ call.inst \notin instances
    <3>1. CASE call.op = "waitFor"
      <4>1. instances # {} => call' = [call EXCEPT !.op = "first"]
        BY <1>8, <3>1 DEF WaitLooks, AtOp
      <4> QED
        BY <1>2, <1>8, <3>1, <4>1, Numbers DEF CallType, IInv, TInv, CallKnown
    <3>2. CASE call.op = "wait"
      <4>1. /\ call.inst \in instances => call' = [call EXCEPT !.op = "begin"]
            /\ call.inst \notin instances /\ call.all => call' = [call EXCEPT !.op = "waitFor", !.inst = NoInst]
        BY <1>8, <3>2 DEF WaitLooks, AtOp
      <4> QED
        BY <1>2, <1>8, <3>2, <4>1, Numbers DEF CallType, IInv, TInv, CallKnown
    <3> QED
      BY <1>8, <3>1, <3>2 DEF WaitLooks, AtOp
  <2>2. Waiting' = Contract!NotWaiting
    BY <1>8 DEF IdleCall, Waiting, Waits, InSubWait, Contract!NotWaiting, Contract!AllInst
  <2>3. Waiting = [node |-> Self, inst |-> IF call.all THEN -2 ELSE call.inst]
    BY <2>1 DEF Waiting, Waits
  <2>4. call.inst \in Inst => call.inst # -2
    BY DEF Inst
  <2> QED
    BY <1>4, <2>1, <2>2, <2>3, <2>4
    DEF Contract!Next, Contract!EndWait, Contract!NotWaiting, Contract!AllInst
<1> QED
  BY <1>5, <1>6, <1>7, <1>8 DEF Looks

\* An instance that something of has just stopped executing.
LEMMA ExitRefines ==
  ASSUME NEW i, Live' \subseteq Live, Live \ {i} \subseteq Live',
         UNCHANGED <<Running, Waiting>>
  PROVE  Contract!Next \/ UNCHANGED Contract!vars
<1>1. CASE Live' = Live
  BY <1>1 DEF Contract!vars
<1>2. CASE Live' # Live
  <2>1. i \in Live /\ Live' = Live \ {i} /\ i \in Inst
    BY <1>2 DEF Live
  <2>2. Contract!Exit(Self, i)
    BY <2>1 DEF Contract!Exit
  <2> QED
    BY <2>1, <2>2 DEF Contract!Next
<1> QED
  BY <1>1, <1>2

\* A process exits: its launch instance executes on unless it was the last.
LEMMA SubExitsRefines ==
  ASSUME IInv, NEW s \in Subs, NEW j \in Inst, SubExits(s, j)
  PROVE  Contract!Next \/ UNCHANGED Contract!vars
<1>1. /\ UNCHANGED <<instances, records, launchInst, call>>
      /\ subLive' = [subLive EXCEPT ![s] = @ \ {j}]
      /\ subLive \in [Subs -> SUBSET Inst]
  BY DEF SubExits, Sub!Exit, launch, IInv, TInv, TypeOK
<1>2. Live' \subseteq Live /\ Live \ {launchInst[s][j]} \subseteq Live'
  BY <1>1 DEF Live
<1>3. UNCHANGED <<Running, Waiting>>
  BY <1>1 DEF Running, Waiting
<1> QED
  BY <1>2, <1>3, ExitRefines

\* The end of an instance whose sub-nodes have all ended.
LEMMA EndRefines ==
  ASSUME NEW i \in Inst, Live' = Live, Waiting' = Waiting,
         \/ Running' = Running
         \/ i \in Running \ Live /\ Running' = Running \ {i}
  PROVE  Contract!Next \/ UNCHANGED Contract!vars
<1>1. CASE Running' = Running
  BY <1>1 DEF Contract!vars
<1>2. CASE i \in Running \ Live /\ Running' = Running \ {i}
  <2>1. Contract!Complete(Self, i)
    BY <1>2 DEF Contract!Complete
  <2> QED
    BY <2>1 DEF Contract!Next
<1> QED
  BY <1>1, <1>2

LEMMA SubDiesRefines ==
  ASSUME IInv, Quiet, NEW s \in Subs, NEW j \in Inst, SubDies(s, j)
  PROVE  Contract!Next \/ UNCHANGED Contract!vars
<1> USE DEF IInv, TInv
<1> DEFINE i == launchInst[s][j]
<1>1. /\ call.op # "threw" /\ ~(call.op = "died" /\ call.sub = s /\ call.subInst = j)
      /\ j \in subRunning[s] \ subLive[s]
      /\ UNCHANGED <<call, subLive>>
      /\ nodeInstances' = [nodeInstances EXCEPT ![i][s] = NoInst]
      /\ launchInst' = [launchInst EXCEPT ![s][j] = NoInst]
  BY DEF SubDies, EraseEntry, Sub!Complete
<1>2. i \in Inst
  BY <1>1 DEF TypeOK
<1>3. IF nodeInstances'[i] = Empty
      THEN instances' = instances \ {i} /\ records' = records \ {i}
      ELSE UNCHANGED <<instances, records>>
  BY DEF SubDies, EndIfEmpty
<1>4. \A t \in Subs : \A k \in subLive[t] : launchInst'[t][k] = launchInst[t][k]
  BY <1>1 DEF TypeOK
<1>5. Live' = Live /\ Waiting' = Waiting /\ Running = instances /\ Running' = instances'
  BY <1>1, <1>4 DEF Live, Waiting, Running
<1>6. call.op \in Starting => i # call.inst
  BY <1>1 DEF Quiet, StartKnown
<1>7. i \in instances /\ nodeInstances[i][s] = j
  BY <1>1, <1>6 DEF Quiet, NoOrphans, Starting
<1>8. nodeInstances'[i] = Empty => i \notin Live
  <2> SUFFICES ASSUME NEW t \in Subs, NEW k \in subLive[t], launchInst[t][k] = i
               PROVE  nodeInstances'[i] # Empty
    BY <1>6 DEF Live, Starting
  <2>1. k \in subRunning[t] /\ k \in Inst /\ <<t, k>> # <<s, j>>
    BY <1>1 DEF SubsKnown, TypeOK
  <2>2. nodeInstances[i][t] = k
    BY <1>6, <2>1 DEF Quiet, NoOrphans, SubsKnown, Starting
  <2>3. t # s
    BY <1>7, <2>1, <2>2
  <2>4. nodeInstances'[i][t] = k
    BY <1>1, <1>2, <2>2, <2>3 DEF TypeOK
  <2> QED
    BY <2>1, <2>4, Numbers DEF Empty
<1> QED
  BY <1>2, <1>3, <1>5, <1>7, <1>8, EndRefines

LEMMA ThreadEndsRefines ==
  ASSUME IInv, Quiet, ThreadErases \/ ThreadEnds
  PROVE  Contract!Next \/ UNCHANGED Contract!vars
<1> USE DEF IInv, TInv
<1>1. CASE ThreadErases
  BY <1>1 DEF ThreadErases, AtOp, subs, Live, Running, Waiting, Waits, InSubWait, TypeOK, Contract!vars
<1>2. CASE ThreadEnds
  <2> DEFINE s == call.sub
             j == call.subInst
             i == launchInst[s][j]
  <2>1. /\ call.op = "died" /\ s \in Subs /\ j \in Inst
        /\ j \in subRunning[s] \ subLive[s]
        /\ launchInst' = [launchInst EXCEPT ![s][j] = NoInst]
        /\ call' = [call EXCEPT !.op = "waitSub"] /\ call \in CallType
        /\ UNCHANGED <<nodeInstances, subLive>>
    BY <1>2 DEF ThreadEnds, AtOp, Sub!Complete, SubsKnown, CallKnown, InSubWait, TypeOK, CallType
  <2>2. i \in Inst
    BY <2>1 DEF TypeOK
  <2>3. IF nodeInstances[i] = Empty
        THEN instances' = instances \ {i} /\ records' = records \ {i}
        ELSE UNCHANGED <<instances, records>>
    BY <1>2 DEF ThreadEnds, EndIfEmpty
  <2>4. \A t \in Subs : \A k \in subLive[t] : launchInst'[t][k] = launchInst[t][k]
    BY <2>1 DEF TypeOK
  <2>5. Live' = Live /\ Waiting' = Waiting /\ Running = instances /\ Running' = instances'
    BY <2>1, <2>4 DEF Live, Waiting, Running, Waits, InSubWait, CallType
  <2>6. nodeInstances[i] = Empty => i \notin Live
    <3> SUFFICES ASSUME NEW t \in Subs, NEW k \in subLive[t], launchInst[t][k] = i
                 PROVE  nodeInstances[i] # Empty
      BY <2>1 DEF Live
    <3>1. k \in subRunning[t] /\ k \in Inst /\ <<t, k>> # <<s, j>>
      BY <2>1 DEF SubsKnown, TypeOK
    <3>2. nodeInstances[i][t] = k
      BY <2>1, <3>1 DEF Quiet, NoOrphans
    <3> QED
      BY <3>1, <3>2, Numbers DEF Empty
  <2>7. i \in instances \/ instances' = instances
    BY <2>3
  <2> QED
    BY <2>2, <2>3, <2>5, <2>6, <2>7, EndRefines
<1> QED
  BY <1>1, <1>2

\* A startup(), from its beginning to its end or an exception.
LEMMA StartRefines ==
  ASSUME IInv, Quiet,
         \/ Startup \/ StartupThrows \/ StartSubThrows
         \/ StartSub \/ RecordSub \/ RecordSubStale \/ StartupReturns \/ EndEmpty
  PROVE  Contract!Next \/ UNCHANGED Contract!vars
<1> USE DEF IInv, TInv
<1>1. CASE Startup
  <2>1. PICK i \in Inst :
          /\ call.op = "idle" /\ i \notin instances
          /\ instances' = instances \cup {i}
          /\ call' = [IdleCall EXCEPT !.op = "starting", !.inst = i, !.todo = Subs]
          /\ UNCHANGED <<subLive, launchInst>>
    BY <1>1 DEF Startup, AtOp, IsNextInst, subs
  <2>2. call'.op = "starting" /\ call'.inst = i /\ call'.todo = Subs
    BY <2>1, Numbers DEF CallType
  <2>3. Running = instances /\ Running' = instances' /\ Waiting' = Waiting
    BY <2>1, <2>2 DEF Running, Waiting, Waits, InSubWait
  <2>4. Live' = Live \cup {i}
    BY <2>1, <2>2 DEF Live
  <2>5. Contract!Start(Self, i)
    BY <2>1, <2>3, <2>4 DEF Contract!Start
  <2> QED
    BY <2>5 DEF Contract!Next
<1>2. CASE StartupThrows
  <2>1. PICK i \in Inst :
          /\ call.op = "idle" /\ i \notin instances
          /\ instances' = instances \cup {i}
          /\ call' = [IdleCall EXCEPT !.op = "threw", !.inst = i]
          /\ UNCHANGED <<records, subLive, launchInst>>
    BY <1>2 DEF StartupThrows, AtOp, IsNextInst, subs
  <2>2. call'.op = "threw" /\ call'.inst = i
    BY <2>1, Numbers DEF CallType
  <2>3. Running' = Running /\ Waiting' = Waiting /\ Live' = Live
    BY <2>1, <2>2 DEF Running, Waiting, Waits, InSubWait, Live, SameKeys
  <2> QED
    BY <2>3 DEF Contract!vars
<1>3. CASE StartSubThrows
  <2>1. /\ call.op = "starting" /\ call' = [call EXCEPT !.op = "threw"]
        /\ call \in CallType /\ records = instances
        /\ UNCHANGED <<instances, records, subLive, launchInst>>
    BY <1>3 DEF StartSubThrows, AtOp, launch, subs, TypeOK, CallType, SameKeys
  <2>2. Running' = Running /\ Waiting' = Waiting
    BY <2>1 DEF Running, Waiting, Waits, InSubWait, CallType
  <2>3. Live' \subseteq Live /\ Live \ {call.inst} \subseteq Live'
    BY <2>1 DEF Live, CallType
  <2> QED
    BY <2>2, <2>3, ExitRefines
<1>4. CASE StartSub
  <2>1. PICK s \in call.todo, j \in Inst :
          /\ call.op = "starting" /\ call \in CallType
          /\ launchInst' = [launchInst EXCEPT ![s][j] = call.inst]
          /\ call' = [call EXCEPT !.op = "started", !.sub = s, !.subInst = j, !.todo = @ \ {s}]
          /\ j \notin subRunning[s]
          /\ subLive' = [subLive EXCEPT ![s] = @ \cup {j}]
          /\ UNCHANGED <<instances, records>>
    BY <1>4 DEF StartSub, AtOp, Sub!Start, TypeOK, CallType
  <2>2. /\ s \in Subs /\ call.inst \in Inst /\ j \notin subLive[s]
        /\ call'.op = "started" /\ call'.inst = call.inst
    BY <2>1 DEF CallType, CallKnown, SubsKnown
  <2>3. Running' = Running /\ Waiting' = Waiting
    BY <2>1, <2>2 DEF Running, Waiting, Waits, InSubWait
  <2>4. /\ \A t \in Subs : \A k \in subLive[t] : k \in subLive'[t] /\ launchInst'[t][k] = launchInst[t][k]
        /\ \A t \in Subs : \A k \in subLive'[t] : k \in subLive[t] \/ (t = s /\ k = j)
        /\ j \in subLive'[s] /\ launchInst'[s][j] = call.inst
    BY <2>1, <2>2 DEF TypeOK
  <2>5. call.inst \in Live /\ call.inst \in Live'
    BY <2>1, <2>2, <2>4 DEF Live
  <2>6. \A i \in Inst \ {call.inst} : i \in Live <=> i \in Live'
    BY <2>1, <2>2, <2>4 DEF Live
  <2>7. Live' = Live
    BY <2>5, <2>6 DEF Live
  <2> QED
    BY <2>3, <2>7 DEF Contract!vars
<1>5. CASE RecordSub \/ RecordSubStale
  <2>1. /\ call.op = "started" /\ call \in CallType
        /\ call' = [call EXCEPT !.op = "starting", !.sub = NoNode, !.subInst = NoInst]
        /\ UNCHANGED <<instances, records, subLive, launchInst>>
    BY <1>5 DEF RecordSub, RecordSubStale, AtOp, launch, subs, TypeOK, CallType
  <2>2. Running' = Running /\ Waiting' = Waiting /\ Live' = Live
    BY <2>1 DEF Running, Waiting, Waits, InSubWait, Live, CallType
  <2> QED
    BY <2>2 DEF Contract!vars
<1>6. CASE StartupReturns
  <2>1. /\ call.op = "starting" /\ call.todo = {} /\ call \in CallType
        /\ call' = IdleCall \/ call' = [call EXCEPT !.op = "empty"]
        /\ UNCHANGED <<instances, records, subLive, launchInst>>
    BY <1>6 DEF StartupReturns, AtOp, launch, subs, TypeOK, CallType
  <2>2. call'.op \in {"idle", "empty"}
    BY <2>1, Numbers DEF CallType
  <2>3. Running' = Running /\ Waiting' = Waiting
    BY <2>1, <2>2 DEF Running, Waiting, Waits, InSubWait
  <2>4. Live' \subseteq Live /\ Live \ {call.inst} \subseteq Live'
    BY <2>1, <2>2 DEF Live
  <2> QED
    BY <2>3, <2>4, ExitRefines
<1>7. CASE EndEmpty
  <2>1. /\ call.op = "empty" /\ call.inst \in Inst /\ call'.op = "idle"
        /\ instances' = instances \ {call.inst}
        /\ UNCHANGED <<subLive, launchInst>>
    BY <1>7, Numbers DEF EndEmpty, EndIfEmpty, AtOp, CallKnown, subs
  <2>2. Subs = {} /\ call.inst \in instances
    BY <2>1 DEF Quiet, StartKnown, Starting
  <2>3. /\ Running = instances /\ Running' = instances' /\ Waiting' = Waiting
        /\ Live' = Live /\ call.inst \notin Live
    BY <2>1, <2>2 DEF Running, Waiting, Waits, InSubWait, Live
  <2> QED
    BY <2>1, <2>2, <2>3, EndRefines
<1> QED
  BY <1>1, <1>2, <1>3, <1>4, <1>5, <1>6, <1>7

\* KeepsContract, for any sub-nodes that keep the promise themselves: until a
\* process exits before startup() has returned, a launch node does
\* (Node.hxx:124, 131).
THEOREM Promise == Spec => KeepsContract
<1>1. Init => Contract!Init
  BY DEF Init, Sub!Init, IdleCall, Running, Live, Waiting, Waits, InSubWait, Contract!Init,
    Contract!NotWaiting, Contract!AllInst
<1>2. ASSUME IInv, [Next]_vars, ~early' PROVE [Contract!Next]_(Contract!vars)
  <2>1. Quiet
    <3>1. early' = early \/ \E s \in Subs, j \in Inst : SubExits(s, j)
      BY <1>2 DEF Next, Thread, SubDies, SubDiesStale, Startup, StartupThrows, StartSubThrows, CallWait,
        StartSub, RecordSub, RecordSubStale, StartCrashes, StartupReturns, EndEmpty, WaitForFirst,
        WaitLooks, WaitPicks, WaitPicksNothing, WaitSub, WaitSubStale, ThreadErases, ThreadEnds,
        ThreadEndsStale, WaitSubReturns, Stopped, Crash, vars
    <3> QED
      BY <1>2, <3>1 DEF SubExits, IInv, Books
  <2>2. CASE Crashes \/ Stopped \/ UNCHANGED vars
    <3>1. UNCHANGED <<instances, records, subLive, launchInst, call>>
      BY <2>2, CrashStep DEF Crash, Stopped, vars, launch, subs
    <3> QED
      BY <3>1 DEF Running, Live, Waiting, Contract!vars
  <2>3. CASE Looks BY <1>2, <2>3, LooksRefine
  <2>4. CASE \E s \in Subs, j \in Inst : SubExits(s, j) \/ SubDies(s, j)
    BY <1>2, <2>1, <2>4, SubExitsRefines, SubDiesRefines
  <2>5. CASE \/ Startup \/ StartupThrows \/ StartSubThrows
             \/ StartSub \/ RecordSub \/ RecordSubStale \/ StartupReturns \/ EndEmpty
    BY <1>2, <2>1, <2>5, StartRefines
  <2>6. CASE ThreadErases \/ ThreadEnds BY <1>2, <2>1, <2>6, ThreadEndsRefines
  <2> QED
    BY <1>2, <2>2, <2>3, <2>4, <2>5, <2>6 DEF Next, Thread, Crashes, Looks
<1> QED
  BY <1>1, <1>2, Invariant, PTL DEF Spec, KeepsContract
=============================================================================
