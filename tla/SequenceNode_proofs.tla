------------------------ MODULE SequenceNode_proofs ------------------------
(***************************************************************************)
(* Proofs about SequenceNode, for any stages, sub-nodes and files, with    *)
(* one sequence at a time whose stages do not exit before their numbers    *)
(* are noted: types, that the programs run one after the other, that the   *)
(* sequence is never dropped, that all programs have the same descriptors, *)
(* and the promise of Node.                                                *)
(***************************************************************************)
EXTENDS SequenceNode, TLAPS

USE SequenceAssumption

OneSequence == MaxInst = 1 /\ ~EarlyExit

\* The steps of proceed() between the callback and its return.
Starting == {"pass", "number", "enter", "clear", "fork", "close", "assign"}

SeqType == [stage : -1 .. Len(Order), node : Subs \cup {NoNode}, num : Nums \cup {NoInst}]
ProcType == [node : Subs, num : Nums, pid : Pids, seq : {0}, fds : SUBSET Files,
             st : {"alive", "ok", "fail", "killed"}]
FrameType == [op : FrameOps, node : Subs \cup {NoNode}, num : Nums \cup {NoInst}, ret : {0, 1},
              todo : {<<>>, <<0>>}, seq : {0, NoInst}, next : Subs \cup {NoNode},
              new : Nums \cup {NoInst}]
CallType == [op : Waits \cup {"idle"}, inst : {0, NoInst}, node : Subs \cup {NoNode},
             num : Nums \cup {NoInst}, pid : Pids \cup {NoPid}, all : BOOLEAN]

\* The types, for one sequence.
Types ==
  /\ instances \in SUBSET {0} /\ sequences \in SUBSET {0}
  /\ seq \in [{0} -> SeqType]
  /\ procs \in SUBSET ProcType
  /\ pidInstance \in [Subs -> [Pids -> Nums \cup {NoInst}]]
  /\ subInstances \in [Subs -> [Nums -> {NoHandlers, <<0>>}]]
  /\ onInstanceDeath \in [Subs -> {<<>>, <<0>>}]
  /\ fdMap \in [Subs \cup {Self} -> SUBSET Files]
  /\ held \in [{0} -> SUBSET Files] /\ given \in [{0} -> SUBSET Files]
  /\ frame \in [Contexts -> FrameType]
  /\ call \in CallType
  /\ crashed \in BOOLEAN

\* The frame f has the sequence in its hands.
Token(f) ==
  \/ f.op \in {"proceed", "end"} \cup Starting
  \/ f.op = "callbacks" /\ f.todo = <<0>>

\* What the fields of the frame f of c hold at each point of it.
FrameKnown(c, f) ==
  /\ f.op = "idle" => f.node = NoNode
  /\ f.op = "idle" => f.todo = <<>>
  /\ f.op \in {"proceed", "end"} \cup Starting => f.seq = 0
  /\ f.op \in {"proceed", "end"} \cup Starting => f.todo = <<>>
  /\ f.op \in {"idle", "callbacks"} => f.seq = NoInst
  /\ f.op \in Starting => f.next \in Subs
  /\ f.op \in {"enter", "clear", "fork", "close", "assign"} => f.new \in Nums
  /\ f.op # "idle" /\ f.node = NoNode => c = "thread"
  /\ f.node # NoNode => f.num \in Nums
FramesKnown == \A c \in Contexts : FrameKnown(c, frame[c])

\* The sequence is in one hand at a time: the thread's, the handler's or that of
\* a process; in two only while the number of a process just started is noted.
OneHand ==
  /\ \A p, q \in procs : p = q
  /\ \A c, d \in Contexts : Token(frame[c]) /\ Token(frame[d]) => c = d
  /\ \A c \in Contexts : Token(frame[c]) /\ frame[c].op \notin {"close", "assign"} => procs = {}
  /\ \A c \in Contexts : frame[c].op \in {"close", "assign"} =>
       \E p \in procs : p.node = frame[c].next /\ p.num = frame[c].new /\ p.st = "alive"

\* It is in some hand until it has completed; its RunningSequence goes just before,
\* and a wait that comes late may leave another one after that.
InHand ==
  /\ 0 \in instances <=> procs # {} \/ \E c \in Contexts : Token(frame[c])
  /\ 0 \in instances => (0 \in sequences <=> \A c \in Contexts : frame[c].op # "end")

\* Nobody is finishing the instance k of s.
NotFinishing(s, k) == \A c \in Contexts : frame[c].node = s => frame[c].num # k

\* An instance that is being finished or has a process is in the map; the two are
\* not the same, nor are two that are being finished.
Entries ==
  /\ \A c \in Contexts : frame[c].node # NoNode => SubRuns(frame[c].node, frame[c].num)
  /\ frame["thread"].node # NoNode /\ frame["thread"].node = frame["handler"].node =>
       frame["thread"].num # frame["handler"].num
  /\ \A p \in procs : SubRuns(p.node, p.num) /\ NotFinishing(p.node, p.num)
  /\ \A c \in Contexts : frame[c].op = "enter" => ~SubRuns(frame[c].next, frame[c].new)
  /\ \A c \in Contexts : frame[c].op \in {"clear", "fork"} =>
       SubRuns(frame[c].next, frame[c].new) /\ NotFinishing(frame[c].next, frame[c].new)

\* A sub-node has the handler of the sequence from ProceedNext to StageClear.
Adding(s) == \E c \in Contexts : frame[c].op \in {"pass", "number", "enter", "clear"} /\ frame[c].next = s
HandlersKnown == \A s \in Subs : onInstanceDeath[s] = <<0>> <=> Adding(s)

\* It has the links of the sequence from PassFds to CloseFds.
Passing(s) == \E c \in Contexts :
                frame[c].op \in {"number", "enter", "clear", "fork", "close"} /\ frame[c].next = s
LinksKnown ==
  /\ held[0] = IF 0 \in instances \cap sequences THEN given[0] ELSE {}
  /\ \A s \in Subs : fdMap[s] = IF Passing(s) THEN given[0] ELSE {}
  /\ frame["thread"].op = "idle" \/ frame["thread"].node # NoNode => fdMap[Self] = {}
  /\ \A p \in procs : p.fds = given[0]

\* The stage is that of the program that is there or is being started.
StageKnown ==
  /\ 0 \in instances => seq[0].stage < Len(Order)
  /\ \A c \in Contexts : frame[c].op \in Starting =>
       /\ seq[0].stage >= 0 /\ frame[c].next = Order[seq[0].stage + 1]
       /\ seq[0].node = frame[c].next
  /\ \A p \in procs :
       /\ seq[0].stage >= 0 /\ p.node = Order[seq[0].stage + 1]
       /\ seq[0].node = p.node
       /\ (\A c \in Contexts : frame[c].op \notin {"close", "assign"}) => seq[0].num = p.num

\* An instance that is in the map has a process, is being finished, or is about to
\* get a process.
InMap ==
  \A s \in Subs, k \in Nums : SubRuns(s, k) =>
    \/ \E p \in procs : p.node = s /\ p.num = k
    \/ \E c \in Contexts : frame[c].node = s /\ frame[c].num = k
    \/ \E c \in Contexts : frame[c].op \in {"clear", "fork"} /\ frame[c].next = s /\ frame[c].new = k

\* pidInstance has the number of the process there is.
PidsKnown == \A p \in procs : pidInstance[p.node][p.pid] = p.num

\* A wait has what a RunningSequence says, also one that another wait has left.
CallNoted ==
  /\ call.op \in {"num", "pid", "waitSub"} => call.node \in Subs
  /\ call.op \in {"pid", "waitSub"} => call.num \in Nums
  /\ 0 \in sequences /\ 0 \notin instances => seq[0].node \in Subs /\ seq[0].num \in Nums

\* By it the wait of the sub-node collects what it waits for.
Finds == InMap /\ PidsKnown /\ CallNoted

IInv ==
  /\ Types /\ FramesKnown /\ OneHand /\ InHand /\ Entries /\ HandlersKnown /\ LinksKnown /\ StageKnown

-----------------------------------------------------------------------------
(* The invariant *)

\* Constants, and the sequences of handlers that occur.
LEMMA Numbers ==
  ASSUME OneSequence
  PROVE  /\ Inst = {0} /\ NoInst \notin Nums /\ NoInst # 0 /\ Contexts = {"thread", "handler"}
         /\ <<>> # <<0>> /\ <<>> # NoHandlers /\ <<0>> # NoHandlers
         /\ Append(<<>>, 0) = <<0>> /\ Head(<<0>>) = 0 /\ Tail(<<0>>) = <<>>
         /\ NoNode \notin Subs
  BY DEF OneSequence, Inst, NoInst, Nums, Contexts, NoHandlers

\* Only the frame of c changes, to r.
LEMMA FrameChanges ==
  ASSUME IInv, NEW c \in Contexts, NEW r \in FrameType, FrameKnown(c, r),
         frame' = [frame EXCEPT ![c] = r]
  PROVE  /\ frame' \in [Contexts -> FrameType]
         /\ frame'[c] = r /\ \A d \in Contexts : d # c => frame'[d] = frame[d]
         /\ FramesKnown'
<1>1. frame \in [Contexts -> FrameType]
  BY DEF IInv, Types
<1>2. /\ frame' \in [Contexts -> FrameType]
      /\ frame'[c] = r /\ \A d \in Contexts : d # c => frame'[d] = frame[d]
  BY <1>1
<1> QED
  BY <1>2 DEF IInv, FramesKnown

\* While c has the sequence in its hands, the other frame is idle or has only an
\* instance to erase.
LEMMA Alone ==
  ASSUME IInv, NEW c \in Contexts, Token(frame[c]), NEW d \in Contexts, d # c
  PROVE  frame[d].op \in {"idle", "callbacks"} /\ frame[d].todo = <<>> /\ ~Token(frame[d])
<1>1. ~Token(frame[d])
  BY DEF IInv, OneHand
<1>2. frame[d] \in FrameType
  BY DEF IInv, Types
<1>3. frame[d].op \in {"idle", "callbacks"}
  BY <1>1, <1>2 DEF Token, Starting, FrameType, FrameOps
<1>4. frame[d].todo = <<>>
  BY <1>1, <1>2, <1>3 DEF Token, FrameType, IInv, FramesKnown, FrameKnown
<1> QED
  BY <1>1, <1>3, <1>4

\* The entries stay true when no instance is entered or erased, none is begun to
\* be finished, and no frame is about to enter one or to fork.
LEMMA EntriesKept ==
  ASSUME IInv, UNCHANGED <<procs, subInstances>>,
         \A d \in Contexts : frame'[d].node = frame[d].node /\ frame'[d].num = frame[d].num,
         \A d \in Contexts : frame'[d].op \notin {"enter", "clear", "fork"}
  PROVE  Entries'
<1>1. \A s, k : (SubRuns(s, k)' <=> SubRuns(s, k)) /\ (NotFinishing(s, k)' <=> NotFinishing(s, k))
  BY DEF SubRuns, NotFinishing
<1>2. \A d \in Contexts : (frame[d].node # NoNode => SubRuns(frame[d].node, frame[d].num))'
  BY <1>1 DEF IInv, Entries
<1>3. frame'["thread"].node # NoNode /\ frame'["thread"].node = frame'["handler"].node =>
        frame'["thread"].num # frame'["handler"].num
  BY DEF IInv, Entries, Contexts
<1>4. \A p \in procs' : SubRuns(p.node, p.num)' /\ NotFinishing(p.node, p.num)'
  BY <1>1 DEF IInv, Entries
<1> QED
  BY <1>2, <1>3, <1>4 DEF Entries

\* So do the links, when none is passed on or closed.
LEMMA LinksKept ==
  ASSUME IInv, UNCHANGED <<procs, fdMap, held, given>>,
         0 \in (instances \cap sequences)' <=> 0 \in instances \cap sequences,
         \A d \in Contexts : frame'[d].node = frame[d].node,
         frame'["thread"].op = "idle" <=> frame["thread"].op = "idle",
         \A s \in Subs : Passing(s)' <=> Passing(s)
  PROVE  LinksKnown'
<1>1. frame'["thread"].node = frame["thread"].node
  BY DEF Contexts
<1>2. \A s \in Subs : fdMap'[s] = IF Passing(s)' THEN given'[0] ELSE {}
  BY DEF IInv, LinksKnown
<1>3. held'[0] = IF 0 \in (instances \cap sequences)' THEN given'[0] ELSE {}
  BY DEF IInv, LinksKnown
<1>4. frame'["thread"].op = "idle" \/ frame'["thread"].node # NoNode => fdMap'[Self] = {}
  BY <1>1 DEF IInv, LinksKnown
<1>5. \A p \in procs' : p.fds = given'[0]
  BY DEF IInv, LinksKnown
<1> QED
  BY <1>2, <1>3, <1>4, <1>5 DEF LinksKnown

\* A crash changes nothing else.
LEMMA CrashInv ==
  ASSUME IInv, UNCHANGED <<node, procs, pidInstance, subInstances, onInstanceDeath, links, frame, call>>,
         crashed' \in BOOLEAN
  PROVE  IInv'
<1>1. Types' /\ FramesKnown' /\ OneHand' /\ InHand'
  BY DEF IInv, Types, FramesKnown, OneHand, InHand, node, links
<1>2. Entries'
  BY DEF IInv, Entries, NotFinishing, SubRuns
<1>3. HandlersKnown' /\ StageKnown'
  BY DEF IInv, HandlersKnown, StageKnown, node, Adding
<1>4. LinksKnown'
  BY DEF IInv, LinksKnown, node, links, Passing
<1> QED
  BY <1>1, <1>2, <1>3, <1>4 DEF IInv

\* Waits only change the call.
LEMMA WaitInv ==
  ASSUME OneSequence, IInv, CallWait \/ Wait
  PROVE  IInv'
<1>1. UNCHANGED <<node, procs, pidInstance, subInstances, onInstanceDeath, links, frame, crashed>>
  BY DEF CallWait, Wait
<1>2. call \in CallType /\ seq \in [{0} -> SeqType] /\ sequences \in SUBSET {0} /\ Inst = {0}
  BY Numbers DEF IInv, Types
<1>3. call' \in CallType
  <2>1. IdleCall \in CallType
    BY DEF IdleCall, CallType
  <2>2. CASE CallWait
    <3>1. \/ call' = [IdleCall EXCEPT !.op = "waitFor", !.all = TRUE]
          \/ \E i \in {0} : call' = [IdleCall EXCEPT !.op = "wait", !.inst = i]
      BY <1>2, <2>2 DEF CallWait
    <3> QED
      BY <2>1, <3>1 DEF CallType, Waits
  <2>3. CASE Wait
    <3>1. \/ call' = IdleCall
          \/ call' = [call EXCEPT !.op = "first"]
          \/ \E i \in {0} : call' = [call EXCEPT !.op = "wait", !.inst = i]
          \/ call' = [call EXCEPT !.op = "node"]
          \/ call' = [call EXCEPT !.op = "waitFor", !.inst = NoInst]
          \/ \E s \in Subs \cup {NoNode} : call' = [call EXCEPT !.op = "num", !.node = s]
          \/ \E k \in Nums \cup {NoInst} : call' = [call EXCEPT !.op = "pid", !.num = k]
          \/ \E id \in Pids \cup {NoPid} : call' = [call EXCEPT !.op = "waitSub", !.pid = id]
          \/ call' = [call EXCEPT !.op = "wait", !.node = NoNode, !.num = NoInst, !.pid = NoPid]
      <4>1. ASSUME call.inst \in sequences
            PROVE  seq[call.inst].node \in Subs \cup {NoNode} /\ seq[call.inst].num \in Nums \cup {NoInst}
        BY <1>2, <4>1 DEF SeqType
      <4> QED
        BY <1>2, <2>3, <4>1 DEF Wait, WaitSteps
    <3>2. CASE call' = IdleCall
      BY <2>1, <3>2
    <3>3. CASE call' = [call EXCEPT !.op = "first"]
      BY <1>2, <3>3 DEF CallType, Waits
    <3>4. CASE \E i \in {0} : call' = [call EXCEPT !.op = "wait", !.inst = i]
      BY <1>2, <3>4 DEF CallType, Waits
    <3>5. CASE call' = [call EXCEPT !.op = "node"]
      BY <1>2, <3>5 DEF CallType, Waits
    <3>6. CASE call' = [call EXCEPT !.op = "waitFor", !.inst = NoInst]
      BY <1>2, <3>6 DEF CallType, Waits
    <3>7. CASE \E s \in Subs \cup {NoNode} : call' = [call EXCEPT !.op = "num", !.node = s]
      BY <1>2, <3>7 DEF CallType, Waits
    <3>8. CASE \E k \in Nums \cup {NoInst} : call' = [call EXCEPT !.op = "pid", !.num = k]
      BY <1>2, <3>8 DEF CallType, Waits
    <3>9. CASE \E id \in Pids \cup {NoPid} : call' = [call EXCEPT !.op = "waitSub", !.pid = id]
      BY <1>2, <3>9 DEF CallType, Waits
    <3>10. CASE call' = [call EXCEPT !.op = "wait", !.node = NoNode, !.num = NoInst, !.pid = NoPid]
      BY <1>2, <3>10 DEF CallType, Waits
    <3> QED
      BY <3>1, <3>2, <3>3, <3>4, <3>5, <3>6, <3>7, <3>8, <3>9, <3>10
  <2> QED
    BY <2>2, <2>3
<1>4. Types'
  BY <1>1, <1>3 DEF IInv, Types, node, links
<1>5. FramesKnown' /\ OneHand' /\ InHand'
  BY <1>1 DEF IInv, FramesKnown, OneHand, InHand, node
<1>6. Entries' /\ HandlersKnown'
  <2>1. Entries'
    BY <1>1 DEF IInv, Entries, NotFinishing, SubRuns
  <2>2. HandlersKnown'
    BY <1>1 DEF IInv, HandlersKnown, Adding
  <2> QED
    BY <2>1, <2>2
<1>7. LinksKnown' /\ StageKnown'
  BY <1>1 DEF IInv, LinksKnown, StageKnown, Passing, node, links
<1> QED
  BY <1>4, <1>5, <1>6, <1>7 DEF IInv

\* A wait that comes late leaves another RunningSequence: nothing is there by then.
LEMMA FindsNone ==
  ASSUME OneSequence, IInv, WaitFindsNone
  PROVE  /\ instances = {} /\ instances' = {} /\ procs = {} /\ \A c \in Contexts : frame[c].op = "idle"
         /\ UNCHANGED <<procs, pidInstance, subInstances, onInstanceDeath, links, frame, call, crashed>>
         /\ sequences' = {0}
         /\ \E s \in Subs, k \in Nums :
              seq' = [seq EXCEPT ![0] = [stage |-> -1, node |-> s, num |-> k]]
<1>1. /\ call.inst = 0 /\ 0 \notin sequences /\ sequences' = sequences \cup {0}
      /\ UNCHANGED <<instances, procs, pidInstance, subInstances, onInstanceDeath, links, frame, call,
                     crashed>>
      /\ \E s \in Subs, k \in Nums :
           seq' = [seq EXCEPT ![0] = [stage |-> -1, node |-> s, num |-> k]]
  <2>1. call.inst \in {0}
    BY Numbers DEF WaitFindsNone
  <2> QED
    BY <2>1 DEF WaitFindsNone
<1>2. \A c \in Contexts : frame[c].op = "idle"
  BY Numbers DEF WaitFindsNone, AtCall, Runs
<1>3. 0 \notin instances /\ procs = {}
  BY <1>1, <1>2 DEF IInv, InHand
<1>4. instances = {} /\ instances' = {} /\ sequences' = {0}
  <2>1. instances \in SUBSET {0} /\ sequences \in SUBSET {0}
    BY DEF IInv, Types
  <2> QED
    BY <1>1, <1>3, <2>1
<1> QED
  BY <1>1, <1>2, <1>3, <1>4

LEMMA WaitFindsNoneInv ==
  ASSUME OneSequence, IInv, WaitFindsNone
  PROVE  IInv'
<1>1. /\ instances = {} /\ instances' = {} /\ procs = {} /\ \A c \in Contexts : frame[c].op = "idle"
      /\ UNCHANGED <<procs, pidInstance, subInstances, onInstanceDeath, links, frame, call, crashed>>
      /\ sequences' = {0}
  BY FindsNone
<1>2. seq' \in [{0} -> SeqType]
  <2>1. PICK s \in Subs, k \in Nums :
          seq' = [seq EXCEPT ![0] = [stage |-> -1, node |-> s, num |-> k]]
    BY FindsNone
  <2>2. [stage |-> -1, node |-> s, num |-> k] \in SeqType
    BY DEF SeqType
  <2> QED
    BY <2>1, <2>2 DEF IInv, Types
<1>3. Types'
  BY <1>1, <1>2 DEF IInv, Types, links
<1>4. FramesKnown' /\ OneHand' /\ InHand' /\ HandlersKnown'
  BY <1>1 DEF IInv, FramesKnown, OneHand, InHand, HandlersKnown, Adding
<1>5. Entries'
  BY <1>1 DEF IInv, Entries, NotFinishing, SubRuns
<1>6. LinksKnown' /\ StageKnown'
  BY <1>1 DEF IInv, LinksKnown, StageKnown, Passing, Starting, links
<1> QED
  BY <1>3, <1>4, <1>5, <1>6 DEF IInv

\* A process exits.
LEMMA ExitInv ==
  ASSUME OneSequence, IInv, NEW p \in procs, Exit(p)
  PROVE  IInv'
<1>1. /\ UNCHANGED <<node, pidInstance, subInstances, onInstanceDeath, links, frame, call, crashed>>
      /\ p.st = "alive"
      /\ \A c \in Contexts : ~(frame[c].op \in {"close", "assign"} /\ frame[c].seq = p.seq)
  BY DEF Exit, OneSequence
<1>2. PICK st \in {"ok", "fail", "killed"} : procs' = (procs \ {p}) \cup {[p EXCEPT !.st = st]}
  BY DEF Exit
<1>3. p \in ProcType /\ procs = {p}
  BY DEF IInv, Types, OneHand
<1> DEFINE q == [p EXCEPT !.st = st]
<1>4. /\ q \in ProcType /\ q.node = p.node /\ q.num = p.num /\ q.seq = 0 /\ q.fds = p.fds
      /\ p.seq = 0
  BY <1>3 DEF ProcType
<1>5. procs' = {q}
  BY <1>2, <1>3
<1> HIDE DEF q
<1>6. Types'
  BY <1>1, <1>4, <1>5 DEF IInv, Types, node, links
<1>7. \A c \in Contexts : frame[c].op \notin {"close", "assign"}
  BY <1>1, <1>4 DEF IInv, FramesKnown, FrameKnown, Starting
<1>8. OneHand'
  BY <1>1, <1>3, <1>5, <1>7 DEF IInv, OneHand
<1>9. InHand'
  BY <1>1, <1>3, <1>5 DEF IInv, InHand, node
<1>10. Entries'
  BY <1>1, <1>3, <1>4, <1>5 DEF IInv, Entries, NotFinishing, SubRuns
<1>11. LinksKnown'
  BY <1>1, <1>3, <1>4, <1>5 DEF IInv, LinksKnown, Passing, node, links
<1>12. StageKnown'
  BY <1>1, <1>3, <1>4, <1>5 DEF IInv, StageKnown, node
<1>13. FramesKnown' /\ HandlersKnown'
  BY <1>1 DEF IInv, FramesKnown, HandlersKnown, Adding
<1> QED
  BY <1>6, <1>8, <1>9, <1>10, <1>11, <1>12, <1>13 DEF IInv

\* The handler, or the thread's wait, collects the process p: it looks for what
\* waits for p and finds it, in the wait too.
LEMMA Reaps ==
  ASSUME OneSequence, IInv, Finds, NEW p \in procs, HandlerReaps(p) \/ ThreadReaps(p)
  PROVE  /\ \E c \in Contexts :
              /\ frame[c].op = "idle" /\ p.st # "alive"
              /\ frame' = [frame EXCEPT ![c] = Finishing(p.node, p.num, RetVal(p))]
         /\ procs' = procs \ {p} /\ UNCHANGED pidInstance
         /\ UNCHANGED <<node, subInstances, onInstanceDeath, links, call, crashed>>
<1>1. /\ p \in ProcType /\ p.node \in Subs /\ p.num \in Nums /\ p.pid \in Pids
      /\ pidInstance \in [Subs -> [Pids -> Nums \cup {NoInst}]]
      /\ pidInstance[p.node][p.pid] = p.num
  BY DEF IInv, Types, ProcType, Finds, PidsKnown
<1>2. Entry(p.node, p.pid) = p.num /\ [pidInstance EXCEPT ![p.node][p.pid] = p.num] = pidInstance
  BY <1>1, Numbers DEF Entry
<1>3. CASE HandlerReaps(p)
  BY <1>2, <1>3, Numbers DEF HandlerReaps, ReapProcess, At
<1>4. CASE ThreadReaps(p)
  <2>1. /\ frame["thread"].op = "idle" /\ frame["handler"].op = "idle" /\ p.st # "alive"
        /\ SubRuns(call.node, call.num) /\ ReapProcess("thread", call.node, p)
    BY <1>4 DEF ThreadReaps, AtCall, Runs
  <2>2. call.node = p.node
    <3>1. call.node \in Subs /\ call.num \in Nums
      BY <1>4 DEF Finds, CallNoted, ThreadReaps, AtCall
    <3>2. \A c \in Contexts : frame[c].op = "idle" /\ frame[c].node = NoNode
      BY <2>1, Numbers DEF IInv, FramesKnown, FrameKnown
    <3>3. PICK q \in procs : q.node = call.node /\ q.num = call.num
      BY <2>1, <3>1, <3>2, Numbers DEF Finds, InMap
    <3> QED
      BY <3>3 DEF IInv, OneHand
  <2> QED
    BY <1>2, <2>1, <2>2, Numbers DEF ReapProcess
<1> QED
  BY <1>3, <1>4

LEMMA ReapInv ==
  ASSUME OneSequence, IInv, Finds, NEW p \in procs, HandlerReaps(p) \/ ThreadReaps(p)
  PROVE  IInv'
<1>1. PICK c \in Contexts :
        /\ frame[c].op = "idle" /\ p.st # "alive"
        /\ frame' = [frame EXCEPT ![c] = Finishing(p.node, p.num, RetVal(p))]
  BY Reaps
<1>2. /\ procs' = procs \ {p}
      /\ UNCHANGED <<node, pidInstance, subInstances, onInstanceDeath, links, call, crashed>>
  BY Reaps
<1>3. p \in ProcType /\ procs' = {}
  BY <1>2 DEF IInv, Types, OneHand
<1>4. SubRuns(p.node, p.num) /\ NotFinishing(p.node, p.num) /\ subInstances[p.node][p.num] = <<0>>
  BY <1>3 DEF IInv, Entries, SubRuns, Types, ProcType
<1> DEFINE r == [IdleFrame EXCEPT !.op = "callbacks", !.node = p.node, !.num = p.num,
                                  !.ret = RetVal(p), !.todo = <<0>>]
<1>5. Finishing(p.node, p.num, RetVal(p)) = r
  BY <1>4 DEF Finishing
<1>6. /\ r \in FrameType /\ r.op = "callbacks" /\ r.node = p.node /\ r.num = p.num /\ r.todo = <<0>>
      /\ r.seq = NoInst /\ p.node \in Subs /\ p.num \in Nums /\ Token(r)
  BY <1>3 DEF IdleFrame, FrameType, FrameOps, ProcType, RetVal, Token
<1> HIDE DEF r
<1>7. /\ frame' \in [Contexts -> FrameType]
      /\ frame'[c] = r /\ \A d \in Contexts : d # c => frame'[d] = frame[d]
      /\ FramesKnown'
  BY <1>1, <1>5, <1>6, FrameChanges, Numbers DEF FrameKnown, Starting
<1>8. \A d \in Contexts : ~Token(frame[d])
  <2>1. ASSUME NEW d \in Contexts, Token(frame[d]) PROVE FALSE
    BY <1>1, <2>1 DEF IInv, OneHand
  <2> QED
    BY <2>1
<1>9. \A d \in Contexts : frame[d].op \in {"idle", "callbacks"} /\ frame'[d].op \in {"idle", "callbacks"}
  BY <1>1, <1>6, <1>7, <1>8 DEF Token, Starting, FrameType, FrameOps, IInv, Types
<1>10. Types'
  BY <1>2, <1>3, <1>7 DEF IInv, Types, node, links
<1>11. FramesKnown'
  BY <1>7
<1>12. OneHand'
  BY <1>3, <1>6, <1>7, <1>8, <1>9 DEF OneHand
<1>13. InHand'
  BY <1>2, <1>3, <1>6, <1>7, <1>9 DEF IInv, InHand, node
<1>14. Entries'
  <2>1. \A s, k : SubRuns(s, k)' <=> SubRuns(s, k)
    BY <1>2 DEF SubRuns
  <2>2. \A d \in Contexts : frame'[d].node # NoNode => SubRuns(frame'[d].node, frame'[d].num)
    BY <1>4, <1>6, <1>7 DEF IInv, Entries
  <2>3. frame'["thread"].node # NoNode /\ frame'["thread"].node = frame'["handler"].node =>
          frame'["thread"].num # frame'["handler"].num
    <3>1. CASE c = "thread"
      BY <1>4, <1>6, <1>7, <3>1, Numbers DEF NotFinishing
    <3>2. CASE c = "handler"
      BY <1>4, <1>6, <1>7, <3>2, Numbers DEF NotFinishing
    <3> QED
      BY <3>1, <3>2 DEF Contexts
  <2> QED
    BY <1>3, <1>9, <2>1, <2>2, <2>3 DEF Entries, SubRuns
<1>15. HandlersKnown'
  BY <1>2, <1>9 DEF IInv, HandlersKnown, Adding
<1>16. LinksKnown'
  <2>1. \A s \in Subs : ~Passing(s) /\ ~Passing(s)'
    BY <1>9 DEF Passing
  <2>2. frame'["thread"].op = "idle" \/ frame'["thread"].node # NoNode =>
          frame["thread"].op = "idle" \/ frame["thread"].node # NoNode
    <3>1. CASE c = "thread"
      BY <1>1, <3>1
    <3>2. CASE c = "handler"
      BY <1>7, <3>2, Numbers
    <3> QED
      BY <3>1, <3>2 DEF Contexts
  <2>3. /\ held'[0] = IF 0 \in (instances \cap sequences)' THEN given'[0] ELSE {}
        /\ \A s \in Subs : fdMap'[s] = {}
        /\ frame'["thread"].op = "idle" \/ frame'["thread"].node # NoNode => fdMap'[Self] = {}
    BY <1>2, <2>1, <2>2 DEF IInv, LinksKnown, node, links
  <2> QED
    BY <1>3, <2>1, <2>3 DEF LinksKnown
<1>17. StageKnown'
  BY <1>2, <1>3, <1>9 DEF IInv, StageKnown, node, Starting
<1> QED
  BY <1>10, <1>11, <1>12, <1>13, <1>14, <1>15, <1>16, <1>17 DEF IInv

\* A frame that has the sequence in its hands is about to go on; the other one
\* has none of it.
LEMMA Goes ==
  ASSUME OneSequence, IInv, NEW c \in Contexts, Token(frame[c])
  PROVE  /\ frame[c] \in FrameType /\ frame[c].todo \in {<<>>, <<0>>} /\ frame[c].op # "idle"
         /\ frame[c].op # "callbacks" => frame[c].seq = 0 /\ frame[c].todo = <<>>
         /\ frame[c].op \in Starting => frame[c].next \in Subs
         /\ frame[c].op \in {"enter", "clear", "fork", "close", "assign"} => frame[c].new \in Nums
         /\ FrameKnown(c, frame[c])
         /\ frame[c].op \notin {"close", "assign"} => procs = {}
         /\ 0 \in instances
         /\ frame[c].op # "end" => 0 \in sequences
         /\ \A d \in Contexts : d # c => /\ frame[d].op \in {"idle", "callbacks"}
                                         /\ frame[d].todo = <<>> /\ ~Token(frame[d])
<1>1. \A d \in Contexts : d # c => /\ frame[d].op \in {"idle", "callbacks"}
                                   /\ frame[d].todo = <<>> /\ ~Token(frame[d])
  BY Alone
<1>2. frame[c] \in FrameType /\ FrameKnown(c, frame[c])
  BY DEF IInv, Types, FramesKnown
<1>3. frame[c].op # "idle" /\ (frame[c].op # "callbacks" => frame[c].op \in {"proceed", "end"} \cup Starting)
  BY DEF Token, Starting
<1>4. 0 \in instances
  BY DEF IInv, InHand
<1>5. frame[c].op # "end" => 0 \in sequences
  BY <1>1, <1>4 DEF IInv, InHand
<1> QED
  BY <1>1, <1>2, <1>3, <1>4, <1>5 DEF FrameKnown, FrameType, IInv, OneHand

\* Most steps of such a frame are from one point of it to the next, with the
\* sequence in its hands before and after.
LEMMA GoesOn ==
  ASSUME OneSequence, IInv, NEW c \in Contexts, Token(frame[c]), NEW r \in FrameType,
         FrameKnown(c, r), Token(r), r.node = frame[c].node, r.num = frame[c].num,
         r.op \notin {"close", "assign"}, frame' = [frame EXCEPT ![c] = r], UNCHANGED procs,
         UNCHANGED instances, frame[c].op \notin {"end", "close", "assign"},
         IF r.op = "end" THEN sequences' = {} ELSE UNCHANGED sequences
  PROVE  /\ frame' \in [Contexts -> FrameType]
         /\ frame'[c] = r /\ \A d \in Contexts : d # c => frame'[d] = frame[d]
         /\ FramesKnown' /\ OneHand' /\ InHand' /\ procs = {} /\ r.op # "idle"
         /\ \A d \in Contexts : frame'[d].node = frame[d].node /\ frame'[d].num = frame[d].num
         /\ frame'["thread"].op = "idle" <=> frame["thread"].op = "idle"
<1>1. /\ frame' \in [Contexts -> FrameType]
      /\ frame'[c] = r /\ \A d \in Contexts : d # c => frame'[d] = frame[d]
      /\ FramesKnown'
  BY FrameChanges
<1>2. /\ \A d \in Contexts : d # c => frame[d].op \in {"idle", "callbacks"} /\ ~Token(frame[d])
      /\ frame[c].op # "idle" /\ 0 \in instances /\ 0 \in sequences
  BY Goes
<1>3. procs = {}
  BY Goes
<1>4. r.op # "idle"
  BY DEF Token, Starting
<1>5. \A d \in Contexts : Token(frame'[d]) => d = c
  BY <1>1, <1>2
<1>6. OneHand'
  BY <1>1, <1>2, <1>3, <1>5 DEF OneHand
<1>7. InHand'
  BY <1>1, <1>2, <1>3, <1>5 DEF InHand
<1>8. frame'["thread"].op = "idle" <=> frame["thread"].op = "idle"
  BY <1>1, <1>2, <1>4, Numbers
<1> QED
  BY <1>1, <1>3, <1>4, <1>6, <1>7, <1>8


\* What proceed() has to do when it is called for the next handler.
LEMMA CallbackInv ==
  ASSUME OneSequence, IInv, NEW c \in Contexts, Callback(c)
  PROVE  IInv'
<1>1. /\ frame[c].op = "callbacks" /\ frame[c].todo # <<>>
      /\ frame' = [frame EXCEPT ![c].op = "proceed", ![c].seq = Head(frame[c].todo),
                                ![c].todo = Tail(@)]
      /\ UNCHANGED <<node, procs, pidInstance, subInstances, onInstanceDeath, links, call, crashed>>
  BY DEF Callback, At
<1>2. frame \in [Contexts -> FrameType]
  BY DEF IInv, Types
<1>3. frame[c].todo = <<0>> /\ Token(frame[c])
  BY <1>1, <1>2 DEF FrameType, Token
<1> DEFINE r == [frame[c] EXCEPT !.op = "proceed", !.seq = 0, !.todo = <<>>]
<1>4. frame' = [frame EXCEPT ![c] = r]
  BY <1>1, <1>2, <1>3, Numbers
<1>5. /\ r \in FrameType /\ r.op = "proceed" /\ r.seq = 0 /\ r.todo = <<>>
      /\ r.node = frame[c].node /\ r.num = frame[c].num
  <2>1. frame[c] \in FrameType
    BY <1>2
  <2>2. /\ r.op = "proceed" /\ r.seq = 0 /\ r.todo = <<>>
        /\ r.node = frame[c].node /\ r.num = frame[c].num
    BY <2>1 DEF FrameType
  <2> QED
    BY <2>1, <2>2 DEF FrameType, FrameOps
<1> HIDE DEF r
<1>6. FrameKnown(c, r) /\ Token(r)
  BY <1>1, <1>3, <1>5, Goes DEF FrameKnown, Token, Starting
<1>7. /\ frame' \in [Contexts -> FrameType]
      /\ frame'[c] = r /\ \A d \in Contexts : d # c => frame'[d] = frame[d]
      /\ FramesKnown' /\ OneHand' /\ InHand' /\ procs = {}
      /\ \A d \in Contexts : frame'[d].node = frame[d].node /\ frame'[d].num = frame[d].num
      /\ frame'["thread"].op = "idle" <=> frame["thread"].op = "idle"
  BY <1>1, <1>3, <1>4, <1>5, <1>6, GoesOn DEF node
<1>8. \A d \in Contexts : frame[d].op \in {"idle", "callbacks"} /\ frame'[d].op \in {"idle", "callbacks", "proceed"}
  BY <1>1, <1>3, <1>5, <1>7, Goes
<1>9. Types'
  BY <1>1, <1>7 DEF IInv, Types, node, links
<1>10. Entries'
  BY <1>1, <1>7, <1>8, EntriesKept
<1>11. HandlersKnown'
  BY <1>1, <1>8 DEF IInv, HandlersKnown, Adding
<1>12. LinksKnown'
  <2>1. \A s \in Subs : ~Passing(s)' /\ ~Passing(s)
    BY <1>8 DEF Passing
  <2> QED
    BY <1>1, <1>7, <2>1, LinksKept DEF node, links
<1>13. StageKnown'
  BY <1>1, <1>7, <1>8 DEF IInv, StageKnown, Starting, node
<1> QED
  BY <1>7, <1>9, <1>10, <1>11, <1>12, <1>13 DEF IInv

\* The stage that has ended was the last one, or has failed.
LEMMA ProceedEndsInv ==
  ASSUME OneSequence, IInv, NEW c \in Contexts, ProceedEnds(c)
  PROVE  IInv'
<1>1. /\ frame[c].op = "proceed" /\ Token(frame[c])
      /\ seq' = [seq EXCEPT ![frame[c].seq].stage = -1]
      /\ sequences' = sequences \ {frame[c].seq}
      /\ held' = [held EXCEPT ![frame[c].seq] = {}]
      /\ frame' = [frame EXCEPT ![c].op = "end"]
      /\ UNCHANGED <<instances, procs, pidInstance, subInstances, onInstanceDeath, fdMap, given, call, crashed>>
  BY DEF ProceedEnds, At, Token
<1>2. frame \in [Contexts -> FrameType] /\ frame[c].seq = 0 /\ frame[c].todo = <<>>
  BY <1>1, Goes DEF IInv, Types
<1> DEFINE r == [frame[c] EXCEPT !.op = "end"]
<1>4. frame' = [frame EXCEPT ![c] = r]
  BY <1>1, <1>2
<1>5. /\ r \in FrameType /\ r.op = "end" /\ r.seq = 0 /\ r.todo = <<>>
      /\ r.node = frame[c].node /\ r.num = frame[c].num
  <2>1. frame[c] \in FrameType
    BY <1>2
  <2>2. /\ r.op = "end" /\ r.seq = 0 /\ r.todo = <<>>
        /\ r.node = frame[c].node /\ r.num = frame[c].num
    BY <1>2, <2>1 DEF FrameType
  <2> QED
    BY <2>1, <2>2 DEF FrameType, FrameOps
<1> HIDE DEF r
<1>6. FrameKnown(c, r) /\ Token(r)
  BY <1>1, <1>5, Goes DEF FrameKnown, Token, Starting
<1>3. sequences' = {}
  BY <1>1, <1>2 DEF IInv, Types
<1>7. /\ frame' \in [Contexts -> FrameType]
      /\ frame'[c] = r /\ \A d \in Contexts : d # c => frame'[d] = frame[d]
      /\ FramesKnown' /\ OneHand' /\ InHand' /\ procs = {}
      /\ \A d \in Contexts : frame'[d].node = frame[d].node /\ frame'[d].num = frame[d].num
      /\ frame'["thread"].op = "idle" <=> frame["thread"].op = "idle"
  BY <1>1, <1>3, <1>4, <1>5, <1>6, GoesOn
<1>8. \A d \in Contexts : /\ frame[d].op \in {"idle", "callbacks", "proceed"}
                          /\ frame'[d].op \in {"idle", "callbacks", "end"}
  BY <1>1, <1>5, <1>7, Goes
<1>9. seq' \in [{0} -> SeqType] /\ seq'[0].stage = -1
  <2>1. seq \in [{0} -> SeqType] /\ seq[0] \in SeqType
    BY DEF IInv, Types
  <2>2. seq' = [seq EXCEPT ![0] = [seq[0] EXCEPT !.stage = -1]]
    BY <1>1, <1>2, <2>1
  <2>3. -1 \in -1 .. Len(Order)
    OBVIOUS
  <2> QED
    BY <2>1, <2>2, <2>3 DEF SeqType
<1>10. Types'
  BY <1>1, <1>2, <1>3, <1>7, <1>9 DEF IInv, Types
<1>11. Entries'
  BY <1>1, <1>7, <1>8, EntriesKept
<1>12. HandlersKnown'
  BY <1>1, <1>8 DEF IInv, HandlersKnown, Adding
<1>13. LinksKnown'
  <2>1. \A s \in Subs : ~Passing(s)' /\ ~Passing(s)
    BY <1>8 DEF Passing
  <2>2. held'[0] = {} /\ 0 \notin sequences'
    BY <1>1, <1>2, <1>3 DEF IInv, Types
  <2>3. \A s \in Subs : fdMap'[s] = {}
    BY <1>1, <2>1 DEF IInv, LinksKnown
  <2>4. frame'["thread"].op = "idle" \/ frame'["thread"].node # NoNode => fdMap'[Self] = {}
    <3>1. frame'["thread"].node = frame["thread"].node
      BY <1>7 DEF Contexts
    <3> QED
      BY <1>1, <1>7, <3>1 DEF IInv, LinksKnown
  <2>5. \A p \in procs' : p.fds = given'[0]
    BY <1>1, <1>7
  <2> QED
    BY <2>1, <2>2, <2>3, <2>4, <2>5 DEF LinksKnown
<1>14. StageKnown'
  <2>1. \A d \in Contexts : frame'[d].op \notin Starting
    BY <1>8 DEF Starting
  <2>2. procs' = {} /\ seq'[0].stage < Len(Order)
    BY <1>1, <1>7, <1>9
  <2> QED
    BY <2>1, <2>2 DEF StageKnown
<1> QED
  BY <1>7, <1>10, <1>11, <1>12, <1>13, <1>14 DEF IInv

\* It has been completed: nobody has it any more.
LEMMA FinishSequenceInv ==
  ASSUME OneSequence, IInv, NEW c \in Contexts, FinishSequence(c)
  PROVE  IInv'
<1>1. /\ frame[c].op = "end" /\ Token(frame[c])
      /\ instances' = instances \ {frame[c].seq}
      /\ frame' = [frame EXCEPT ![c].op = "callbacks", ![c].seq = NoInst]
      /\ UNCHANGED <<sequences, seq, procs, pidInstance, subInstances, onInstanceDeath, links, call, crashed>>
  BY DEF FinishSequence, At, Token
<1>2. /\ frame \in [Contexts -> FrameType] /\ frame[c].seq = 0 /\ frame[c].todo = <<>>
      /\ procs = {}
  BY <1>1, Goes DEF IInv, Types
<1> DEFINE r == [frame[c] EXCEPT !.op = "callbacks", !.seq = NoInst]
<1>4. frame' = [frame EXCEPT ![c] = r]
  BY <1>1, <1>2
<1>5. /\ r \in FrameType /\ r.op = "callbacks" /\ r.seq = NoInst /\ r.todo = <<>>
      /\ r.node = frame[c].node /\ r.num = frame[c].num
  <2>1. frame[c] \in FrameType
    BY <1>2
  <2>2. r.op = "callbacks" /\ r.seq = NoInst /\ r.todo = <<>>
        /\ r.node = frame[c].node /\ r.num = frame[c].num
    BY <1>2, <2>1 DEF FrameType
  <2> QED
    BY <2>1, <2>2 DEF FrameType, FrameOps
<1> HIDE DEF r
<1>6. FrameKnown(c, r) /\ ~Token(r)
  BY <1>1, <1>5, Goes, Numbers DEF FrameKnown, Token, Starting
<1>7. /\ frame' \in [Contexts -> FrameType]
      /\ frame'[c] = r /\ \A d \in Contexts : d # c => frame'[d] = frame[d]
      /\ FramesKnown'
  BY <1>4, <1>5, <1>6, FrameChanges
<1>3. instances' = {} /\ sequences = {}
  BY <1>1, <1>2 DEF IInv, Types, InHand
<1>8. /\ \A d \in Contexts : /\ frame[d].op \in {"idle", "callbacks", "end"} /\ ~Token(frame'[d])
                             /\ frame'[d].op \in {"idle", "callbacks"}
      /\ \A d \in Contexts : frame'[d].node = frame[d].node /\ frame'[d].num = frame[d].num
      /\ frame'["thread"].op = "idle" <=> frame["thread"].op = "idle"
  BY <1>1, <1>5, <1>6, <1>7, Goes, Numbers
<1>9. Types'
  BY <1>1, <1>3, <1>7 DEF IInv, Types, links
<1>10. OneHand' /\ InHand'
  BY <1>1, <1>2, <1>3, <1>8 DEF OneHand, InHand
<1>11. Entries'
  BY <1>1, <1>7, <1>8, EntriesKept
<1>12. HandlersKnown'
  BY <1>1, <1>8 DEF IInv, HandlersKnown, Adding
<1>13. LinksKnown'
  <2>1. \A s \in Subs : ~Passing(s)' /\ ~Passing(s)
    BY <1>8 DEF Passing
  <2> QED
    BY <1>1, <1>3, <1>8, <2>1, LinksKept DEF links
<1>14. StageKnown'
  BY <1>1, <1>2, <1>3, <1>8 DEF StageKnown, Starting
<1> QED
  BY <1>7, <1>9, <1>10, <1>11, <1>12, <1>13, <1>14 DEF IInv


\* The next stage is that of Order, and its node has the handler now.
LEMMA ProceedNextInv ==
  ASSUME OneSequence, IInv, NEW c \in Contexts, ProceedNext(c)
  PROVE  IInv'
<1> DEFINE s == Order[seq[0].stage + 2]
<1>1. frame[c].op = "proceed" /\ Token(frame[c]) /\ frame[c].seq = 0 /\ frame[c].todo = <<>>
  BY Goes DEF ProceedNext, At, Token
<1>2. /\ ~Ends(0, frame[c].ret)
      /\ seq' = [seq EXCEPT ![0].stage = @ + 1, ![0].node = s]
      /\ onInstanceDeath' = [onInstanceDeath EXCEPT ![s] = Append(@, 0)]
      /\ frame' = [frame EXCEPT ![c].op = "pass", ![c].next = s]
      /\ UNCHANGED <<instances, sequences, procs, pidInstance, subInstances, links, call, crashed>>
  BY <1>1 DEF ProceedNext
<1>3. /\ frame \in [Contexts -> FrameType] /\ seq \in [{0} -> SeqType]
      /\ onInstanceDeath \in [Subs -> {<<>>, <<0>>}]
  BY DEF IInv, Types
<1>9. seq[0].stage \in -1 .. Len(Order) /\ seq[0].stage + 1 < Len(Order) /\ s \in Subs
  BY <1>2, <1>3 DEF Ends, SeqType
<1> HIDE DEF s
<1> DEFINE r == [frame[c] EXCEPT !.op = "pass", !.next = s]
<1>4. frame' = [frame EXCEPT ![c] = r]
  BY <1>2, <1>3
<1>5. /\ r \in FrameType /\ r.op = "pass" /\ r.seq = 0 /\ r.todo = <<>> /\ r.next = s
      /\ r.node = frame[c].node /\ r.num = frame[c].num
  <2>1. frame[c] \in FrameType
    BY <1>3
  <2>2. /\ r.op = "pass" /\ r.seq = 0 /\ r.todo = <<>> /\ r.next = s
        /\ r.node = frame[c].node /\ r.num = frame[c].num
    BY <1>1, <2>1 DEF FrameType
  <2> QED
    BY <1>9, <2>1, <2>2 DEF FrameType, FrameOps
<1> HIDE DEF r
<1>6. FrameKnown(c, r) /\ Token(r)
  BY <1>1, <1>5, <1>9, Goes DEF FrameKnown, Token, Starting
<1>7. /\ frame' \in [Contexts -> FrameType]
      /\ frame'[c] = r /\ \A d \in Contexts : d # c => frame'[d] = frame[d]
      /\ FramesKnown' /\ OneHand' /\ InHand' /\ procs = {}
      /\ \A d \in Contexts : frame'[d].node = frame[d].node /\ frame'[d].num = frame[d].num
      /\ frame'["thread"].op = "idle" <=> frame["thread"].op = "idle"
  BY <1>1, <1>2, <1>4, <1>5, <1>6, GoesOn
<1>8. \A d \in Contexts : /\ frame[d].op \in {"idle", "callbacks", "proceed"}
                          /\ frame'[d].op \in {"idle", "callbacks", "pass"}
                          /\ frame'[d].op = "pass" => frame'[d].next = s
  BY <1>1, <1>5, <1>7, Goes
<1>10. seq' \in [{0} -> SeqType] /\ seq'[0].stage = seq[0].stage + 1 /\ seq'[0].node = s
  <2>1. seq[0] \in SeqType
    BY <1>3
  <2>2. seq' = [seq EXCEPT ![0] = [seq[0] EXCEPT !.stage = seq[0].stage + 1, !.node = s]]
    BY <1>2, <1>3
  <2>3. seq[0].stage + 1 \in -1 .. Len(Order)
    BY <1>9
  <2> QED
    BY <1>3, <1>9, <2>1, <2>2, <2>3 DEF SeqType
<1>11. onInstanceDeath[s] = <<>>
  BY <1>3, <1>8, <1>9 DEF IInv, HandlersKnown, Adding
<1>12. onInstanceDeath' = [onInstanceDeath EXCEPT ![s] = <<0>>]
  BY <1>2, <1>3, <1>9, <1>11, Numbers
<1>13. Types'
  BY <1>2, <1>3, <1>7, <1>9, <1>10, <1>12 DEF IInv, Types, links
<1>14. Entries'
  BY <1>2, <1>7, <1>8, EntriesKept
<1>15. HandlersKnown'
  <2>1. \A t \in Subs : Adding(t)' <=> t = s
    BY <1>5, <1>7, <1>8 DEF Adding
  <2>2. \A t \in Subs : ~Adding(t)
    BY <1>8 DEF Adding
  <2> QED
    BY <1>3, <1>9, <1>12, <2>1, <2>2 DEF IInv, HandlersKnown
<1>16. LinksKnown'
  <2>1. \A t \in Subs : ~Passing(t)' /\ ~Passing(t)
    BY <1>8 DEF Passing
  <2> QED
    BY <1>2, <1>7, <2>1, LinksKept DEF links
<1>17. StageKnown'
  <2>1. seq'[0].stage < Len(Order) /\ seq'[0].stage >= 0 /\ s = Order[seq'[0].stage + 1]
    BY <1>9, <1>10 DEF s
  <2> QED
    BY <1>2, <1>7, <1>8, <1>10, <2>1 DEF StageKnown, Starting
<1> QED
  BY <1>7, <1>13, <1>14, <1>15, <1>16, <1>17 DEF IInv

\* Its node has the links of the sequence, and no other, from here on.
LEMMA PassFdsInv ==
  ASSUME OneSequence, IInv, NEW c \in Contexts, PassFds(c)
  PROVE  IInv'
<1>1. /\ frame[c].op = "pass" /\ Token(frame[c])
      /\ fdMap' = [fdMap EXCEPT ![frame[c].next] = @ \cup held[frame[c].seq]]
      /\ frame' = [frame EXCEPT ![c].op = "number"]
      /\ UNCHANGED <<node, procs, pidInstance, subInstances, onInstanceDeath, held, given, call, crashed>>
  BY DEF PassFds, At, Token, Starting
<1>2. /\ frame \in [Contexts -> FrameType] /\ frame[c].seq = 0 /\ frame[c].todo = <<>>
      /\ frame[c].next \in Subs /\ 0 \in instances /\ 0 \in sequences /\ procs = {}
  BY <1>1, Goes DEF IInv, Types, Starting
<1> DEFINE r == [frame[c] EXCEPT !.op = "number"]
<1>4. frame' = [frame EXCEPT ![c] = r]
  BY <1>1, <1>2
<1>5. /\ r \in FrameType /\ r.op = "number" /\ r.seq = 0 /\ r.todo = <<>>
      /\ r.node = frame[c].node /\ r.num = frame[c].num /\ r.next = frame[c].next
  BY <1>2 DEF FrameType, FrameOps
<1> HIDE DEF r
<1>6. FrameKnown(c, r) /\ Token(r)
  BY <1>1, <1>2, <1>5, Goes DEF FrameKnown, Token, Starting
<1>7. /\ frame' \in [Contexts -> FrameType]
      /\ frame'[c] = r /\ \A d \in Contexts : d # c => frame'[d] = frame[d]
      /\ FramesKnown' /\ OneHand' /\ InHand' /\ procs = {}
      /\ \A d \in Contexts : frame'[d].node = frame[d].node /\ frame'[d].num = frame[d].num
      /\ frame'["thread"].op = "idle" <=> frame["thread"].op = "idle"
  BY <1>1, <1>4, <1>5, <1>6, GoesOn DEF node
<1>8. \A d \in Contexts : /\ frame[d].op \in {"idle", "callbacks", "pass"}
                          /\ frame'[d].op \in {"idle", "callbacks", "number"}
                          /\ frame[d].op = "pass" <=> d = c
                          /\ frame'[d].op = "number" <=> d = c
  BY <1>1, <1>5, <1>7, Goes
<1>9. held[0] = given[0] /\ fdMap[r.next] = {} /\ r.next # Self /\ r.next \in Subs
  BY <1>2, <1>5, <1>8 DEF IInv, LinksKnown, Passing
<1>10. fdMap' = [fdMap EXCEPT ![r.next] = given[0]] /\ given[0] \in SUBSET Files
  BY <1>1, <1>2, <1>5, <1>9 DEF IInv, Types
<1>11. Types'
  BY <1>1, <1>7, <1>9, <1>10 DEF IInv, Types, node
<1>12. Entries'
  BY <1>1, <1>7, <1>8, EntriesKept
<1>13. HandlersKnown'
  <2>1. \A s \in Subs : Adding(s)' <=> Adding(s)
    BY <1>5, <1>7, <1>8 DEF Adding
  <2> QED
    BY <1>1, <2>1 DEF IInv, HandlersKnown
<1>14. LinksKnown'
  <2>1. \A s \in Subs : ~Passing(s) /\ (Passing(s)' <=> s = r.next)
    BY <1>7, <1>8 DEF Passing
  <2>2. \A s \in Subs : fdMap'[s] = IF Passing(s)' THEN given[0] ELSE {}
    BY <1>9, <1>10, <2>1 DEF IInv, LinksKnown, Types
  <2>3. fdMap'[Self] = fdMap[Self]
    BY <1>9, <1>10 DEF IInv, Types
  <2> QED
    BY <1>1, <1>7, <2>2, <2>3, Numbers DEF IInv, LinksKnown, node
<1>15. StageKnown'
  BY <1>1, <1>5, <1>7, <1>8 DEF IInv, StageKnown, Starting, node
<1> QED
  BY <1>7, <1>11, <1>12, <1>13, <1>14, <1>15 DEF IInv

\* Its new number is that of no instance in the map.
LEMMA StageNumberInv ==
  ASSUME OneSequence, IInv, NEW c \in Contexts, StageNumber(c)
  PROVE  IInv'
<1>1. PICK k \in Nums :
        /\ frame[c].op = "number" /\ Token(frame[c]) /\ ~SubRuns(frame[c].next, k)
        /\ frame' = [frame EXCEPT ![c].op = "enter", ![c].new = k]
        /\ UNCHANGED <<node, procs, pidInstance, subInstances, onInstanceDeath, links, call, crashed>>
  BY DEF StageNumber, At, Token, Starting, IsNextNum
<1>2. /\ frame \in [Contexts -> FrameType] /\ frame[c].seq = 0 /\ frame[c].todo = <<>>
      /\ frame[c].next \in Subs /\ 0 \in sequences /\ procs = {}
  BY <1>1, Goes DEF IInv, Types, Starting
<1> DEFINE r == [frame[c] EXCEPT !.op = "enter", !.new = k]
<1>4. frame' = [frame EXCEPT ![c] = r]
  BY <1>1, <1>2
<1>5. /\ r \in FrameType /\ r.op = "enter" /\ r.seq = 0 /\ r.todo = <<>> /\ r.new = k
      /\ r.node = frame[c].node /\ r.num = frame[c].num /\ r.next = frame[c].next
  <2>1. frame[c] \in FrameType
    BY <1>2
  <2>2. /\ r.op = "enter" /\ r.seq = 0 /\ r.todo = <<>> /\ r.new = k
        /\ r.node = frame[c].node /\ r.num = frame[c].num /\ r.next = frame[c].next
    BY <1>2, <2>1 DEF FrameType
  <2> QED
    BY <2>1, <2>2 DEF FrameType, FrameOps
<1> HIDE DEF r
<1>6. FrameKnown(c, r) /\ Token(r)
  BY <1>1, <1>2, <1>5, Goes DEF FrameKnown, Token, Starting
<1>7. /\ frame' \in [Contexts -> FrameType]
      /\ frame'[c] = r /\ \A d \in Contexts : d # c => frame'[d] = frame[d]
      /\ FramesKnown' /\ OneHand' /\ InHand' /\ procs = {}
      /\ \A d \in Contexts : frame'[d].node = frame[d].node /\ frame'[d].num = frame[d].num
      /\ frame'["thread"].op = "idle" <=> frame["thread"].op = "idle"
  BY <1>1, <1>4, <1>5, <1>6, GoesOn DEF node
<1>8. \A d \in Contexts : /\ frame[d].op \in {"idle", "callbacks", "number"}
                          /\ frame'[d].op \in {"idle", "callbacks", "enter"}
                          /\ frame[d].op = "number" <=> d = c
                          /\ frame'[d].op = "enter" <=> d = c
  BY <1>1, <1>5, <1>7, Goes
<1>9. Types'
  BY <1>1, <1>7 DEF IInv, Types, node, links
<1>10. Entries'
  <2>1. \A t, n : (SubRuns(t, n)' <=> SubRuns(t, n)) /\ (NotFinishing(t, n)' <=> NotFinishing(t, n))
    BY <1>1, <1>7 DEF SubRuns, NotFinishing
  <2>2. \A d \in Contexts : (frame[d].node # NoNode => SubRuns(frame[d].node, frame[d].num))'
    BY <1>7, <2>1 DEF IInv, Entries
  <2>3. frame'["thread"].node # NoNode /\ frame'["thread"].node = frame'["handler"].node =>
          frame'["thread"].num # frame'["handler"].num
    BY <1>7 DEF IInv, Entries, Contexts
  <2>4. ~SubRuns(frame[c].next, k)
    BY <1>1
  <2>5. \A d \in Contexts : (frame[d].op = "enter" => ~SubRuns(frame[d].next, frame[d].new))'
    BY <1>5, <1>7, <1>8, <2>1, <2>4
  <2>6. \A p \in procs' : SubRuns(p.node, p.num)' /\ NotFinishing(p.node, p.num)'
    BY <1>1, <1>7
  <2> QED
    BY <1>8, <2>2, <2>3, <2>5, <2>6 DEF Entries
<1>11. HandlersKnown'
  <2>1. \A s \in Subs : Adding(s)' <=> Adding(s)
    BY <1>5, <1>7, <1>8 DEF Adding
  <2> QED
    BY <1>1, <2>1 DEF IInv, HandlersKnown
<1>12. LinksKnown'
  <2>1. \A s \in Subs : Passing(s)' <=> Passing(s)
    BY <1>5, <1>7, <1>8 DEF Passing
  <2> QED
    BY <1>1, <1>7, <2>1, Numbers DEF IInv, LinksKnown, node, links
<1>13. StageKnown'
  BY <1>1, <1>5, <1>7, <1>8 DEF IInv, StageKnown, Starting, node
<1> QED
  BY <1>7, <1>9, <1>10, <1>11, <1>12, <1>13 DEF IInv


\* It is in the map, with the handler of the sequence; nobody is finishing it.
LEMMA StageEnterInv ==
  ASSUME OneSequence, IInv, NEW c \in Contexts, StageEnter(c)
  PROVE  IInv'
<1>1. /\ frame[c].op = "enter" /\ Token(frame[c])
      /\ subInstances' = [subInstances EXCEPT ![frame[c].next][frame[c].new] =
                                                onInstanceDeath[frame[c].next]]
      /\ frame' = [frame EXCEPT ![c].op = "clear"]
      /\ UNCHANGED <<node, procs, pidInstance, onInstanceDeath, links, call, crashed>>
  BY DEF StageEnter, At, Token, Starting
<1>2. /\ frame \in [Contexts -> FrameType] /\ frame[c].seq = 0 /\ frame[c].todo = <<>>
      /\ frame[c].next \in Subs /\ frame[c].new \in Nums /\ 0 \in sequences
  BY <1>1, Goes DEF IInv, Types, Starting
<1> DEFINE r == [frame[c] EXCEPT !.op = "clear"]
<1>4. frame' = [frame EXCEPT ![c] = r]
  BY <1>1, <1>2
<1>5. /\ r \in FrameType /\ r.op = "clear" /\ r.seq = 0 /\ r.todo = <<>> /\ r.new = frame[c].new
      /\ r.node = frame[c].node /\ r.num = frame[c].num /\ r.next = frame[c].next
  BY <1>2 DEF FrameType, FrameOps
<1> HIDE DEF r
<1>6. FrameKnown(c, r) /\ Token(r)
  BY <1>1, <1>2, <1>5, Goes DEF FrameKnown, Token, Starting
<1>7. /\ frame' \in [Contexts -> FrameType]
      /\ frame'[c] = r /\ \A d \in Contexts : d # c => frame'[d] = frame[d]
      /\ FramesKnown' /\ OneHand' /\ InHand' /\ procs = {}
      /\ \A d \in Contexts : frame'[d].node = frame[d].node /\ frame'[d].num = frame[d].num
      /\ frame'["thread"].op = "idle" <=> frame["thread"].op = "idle"
  BY <1>1, <1>4, <1>5, <1>6, GoesOn DEF node
<1>8. \A d \in Contexts : /\ frame[d].op \in {"idle", "callbacks", "enter"}
                          /\ frame'[d].op \in {"idle", "callbacks", "clear"}
                          /\ frame[d].op = "enter" <=> d = c
                          /\ frame'[d].op = "clear" <=> d = c
  BY <1>1, <1>5, <1>7, Goes
<1>9. /\ onInstanceDeath[r.next] = <<0>> /\ r.next \in Subs /\ r.new \in Nums
      /\ ~SubRuns(r.next, r.new)
      /\ subInstances \in [Subs -> [Nums -> {NoHandlers, <<0>>}]]
  BY <1>1, <1>2, <1>5 DEF IInv, Types, HandlersKnown, Adding, Entries
<1>10. subInstances' = [subInstances EXCEPT ![r.next][r.new] = <<0>>]
  BY <1>1, <1>5, <1>9
<1>19. /\ subInstances' \in [Subs -> [Nums -> {NoHandlers, <<0>>}]]
       /\ \A s \in Subs, k \in Nums :
            subInstances'[s][k] = IF s = r.next /\ k = r.new THEN <<0>> ELSE subInstances[s][k]
  <2>1. subInstances[r.next] \in [Nums -> {NoHandlers, <<0>>}]
    BY <1>9
  <2>2. [subInstances[r.next] EXCEPT ![r.new] = <<0>>] \in [Nums -> {NoHandlers, <<0>>}]
    BY <2>1
  <2>3. subInstances' = [subInstances EXCEPT ![r.next] = [subInstances[r.next] EXCEPT ![r.new] = <<0>>]]
    BY <1>10
  <2> QED
    BY <1>9, <2>1, <2>2, <2>3
<1>11. Types'
  BY <1>1, <1>7, <1>19 DEF IInv, Types, node, links
<1>12. \A s \in Subs, k \in Nums : SubRuns(s, k)' <=> SubRuns(s, k) \/ (s = r.next /\ k = r.new)
  BY <1>19, Numbers DEF SubRuns
<1>13. \A d \in Contexts : frame[d].node # NoNode =>
         frame[d].node \in Subs /\ frame[d].num \in Nums /\ SubRuns(frame[d].node, frame[d].num)
  BY <1>2 DEF IInv, FramesKnown, FrameKnown, FrameType, Entries
<1>14. NotFinishing(r.next, r.new)
  BY <1>9, <1>13, Numbers DEF NotFinishing
<1>15. Entries'
  <2>1. \A d \in Contexts : (frame[d].node # NoNode => SubRuns(frame[d].node, frame[d].num))'
    BY <1>7, <1>12, <1>13 DEF SubRuns
  <2>2. frame'["thread"].node # NoNode /\ frame'["thread"].node = frame'["handler"].node =>
          frame'["thread"].num # frame'["handler"].num
    BY <1>7, Numbers DEF IInv, Entries
  <2>3. \A d \in Contexts : (frame[d].op = "clear" =>
          SubRuns(frame[d].next, frame[d].new) /\ NotFinishing(frame[d].next, frame[d].new))'
    BY <1>7, <1>8, <1>9, <1>12, <1>14 DEF NotFinishing, SubRuns
  <2> QED
    BY <1>1, <1>7, <1>8, <2>1, <2>2, <2>3 DEF Entries, SubRuns, NotFinishing
<1>16. HandlersKnown'
  <2>1. \A s \in Subs : Adding(s)' <=> Adding(s)
    BY <1>5, <1>7, <1>8 DEF Adding
  <2> QED
    BY <1>1, <2>1 DEF IInv, HandlersKnown
<1>17. LinksKnown'
  <2>1. \A s \in Subs : Passing(s)' <=> Passing(s)
    BY <1>5, <1>7, <1>8 DEF Passing
  <2> QED
    BY <1>1, <1>7, <2>1, Numbers DEF IInv, LinksKnown, node, links
<1>18. StageKnown'
  BY <1>1, <1>5, <1>7, <1>8 DEF IInv, StageKnown, Starting, node
<1> QED
  BY <1>7, <1>11, <1>15, <1>16, <1>17, <1>18 DEF IInv

\* No later instance of the sub-node gets the handler.
LEMMA StageClearInv ==
  ASSUME OneSequence, IInv, NEW c \in Contexts, StageClear(c)
  PROVE  IInv'
<1>1. /\ frame[c].op = "clear" /\ Token(frame[c])
      /\ onInstanceDeath' = [onInstanceDeath EXCEPT ![frame[c].next] = <<>>]
      /\ frame' = [frame EXCEPT ![c].op = "fork"]
      /\ UNCHANGED <<node, procs, pidInstance, subInstances, links, call, crashed>>
  BY DEF StageClear, At, Token, Starting
<1>2. /\ frame \in [Contexts -> FrameType] /\ frame[c].seq = 0 /\ frame[c].todo = <<>>
      /\ frame[c].next \in Subs /\ frame[c].new \in Nums /\ 0 \in sequences
  BY <1>1, Goes DEF IInv, Types, Starting
<1> DEFINE r == [frame[c] EXCEPT !.op = "fork"]
<1>4. frame' = [frame EXCEPT ![c] = r]
  BY <1>1, <1>2
<1>5. /\ r \in FrameType /\ r.op = "fork" /\ r.seq = 0 /\ r.todo = <<>> /\ r.new = frame[c].new
      /\ r.node = frame[c].node /\ r.num = frame[c].num /\ r.next = frame[c].next
  BY <1>2 DEF FrameType, FrameOps
<1> HIDE DEF r
<1>6. FrameKnown(c, r) /\ Token(r)
  BY <1>1, <1>2, <1>5, Goes DEF FrameKnown, Token, Starting
<1>7. /\ frame' \in [Contexts -> FrameType]
      /\ frame'[c] = r /\ \A d \in Contexts : d # c => frame'[d] = frame[d]
      /\ FramesKnown' /\ OneHand' /\ InHand' /\ procs = {}
      /\ \A d \in Contexts : frame'[d].node = frame[d].node /\ frame'[d].num = frame[d].num
      /\ frame'["thread"].op = "idle" <=> frame["thread"].op = "idle"
  BY <1>1, <1>4, <1>5, <1>6, GoesOn DEF node
<1>8. \A d \in Contexts : /\ frame[d].op \in {"idle", "callbacks", "clear"}
                          /\ frame'[d].op \in {"idle", "callbacks", "fork"}
                          /\ frame[d].op = "clear" <=> d = c
                          /\ frame'[d].op = "fork" <=> d = c
  BY <1>1, <1>5, <1>7, Goes
<1>9. onInstanceDeath \in [Subs -> {<<>>, <<0>>}] /\ r.next \in Subs
  BY <1>2, <1>5 DEF IInv, Types
<1>10. Types'
  BY <1>1, <1>5, <1>7, <1>9 DEF IInv, Types, node, links
<1>11. Entries'
  <2>1. \A t, k : (SubRuns(t, k)' <=> SubRuns(t, k)) /\ (NotFinishing(t, k)' <=> NotFinishing(t, k))
    BY <1>1, <1>7 DEF SubRuns, NotFinishing
  <2>2. \A d \in Contexts : (frame[d].node # NoNode => SubRuns(frame[d].node, frame[d].num))'
    BY <1>7, <2>1 DEF IInv, Entries
  <2>3. frame'["thread"].node # NoNode /\ frame'["thread"].node = frame'["handler"].node =>
          frame'["thread"].num # frame'["handler"].num
    BY <1>7 DEF IInv, Entries, Contexts
  <2>4. SubRuns(frame[c].next, frame[c].new) /\ NotFinishing(frame[c].next, frame[c].new)
    BY <1>1 DEF IInv, Entries
  <2>5. \A d \in Contexts : (frame[d].op \in {"clear", "fork"} =>
           SubRuns(frame[d].next, frame[d].new) /\ NotFinishing(frame[d].next, frame[d].new))'
    BY <1>5, <1>7, <1>8, <2>1, <2>4
  <2>6. \A p \in procs' : SubRuns(p.node, p.num)' /\ NotFinishing(p.node, p.num)'
    BY <1>1, <1>7
  <2> QED
    BY <1>8, <2>2, <2>3, <2>5, <2>6 DEF Entries
<1>12. HandlersKnown'
  <2>1. \A s \in Subs : ~Adding(s)' /\ (Adding(s) <=> s = r.next)
    BY <1>5, <1>7, <1>8 DEF Adding
  <2> QED
    BY <1>1, <1>5, <1>9, <2>1, Numbers DEF IInv, HandlersKnown
<1>13. LinksKnown'
  <2>1. \A s \in Subs : Passing(s)' <=> Passing(s)
    BY <1>5, <1>7, <1>8 DEF Passing
  <2> QED
    BY <1>1, <1>7, <2>1, Numbers DEF IInv, LinksKnown, node, links
<1>14. StageKnown'
  BY <1>1, <1>5, <1>7, <1>8 DEF IInv, StageKnown, Starting, node
<1> QED
  BY <1>7, <1>10, <1>11, <1>12, <1>13, <1>14 DEF IInv

\* The program of the stage is there, with the links of the sequence.
LEMMA StageForkInv ==
  ASSUME OneSequence, IInv, NEW c \in Contexts, StageFork(c)
  PROVE  IInv'
<1>17. PICK id \in Pids :
         /\ procs' = procs \cup {[node |-> frame[c].next, num |-> frame[c].new, pid |-> id,
                                    seq |-> frame[c].seq, fds |-> fdMap[frame[c].next],
                                    st |-> "alive"]}
         /\ pidInstance' = [pidInstance EXCEPT ![frame[c].next][id] = frame[c].new]
  BY DEF StageFork
<1> DEFINE p == [node |-> frame[c].next, num |-> frame[c].new, pid |-> id, seq |-> frame[c].seq,
                 fds |-> fdMap[frame[c].next], st |-> "alive"]
<1>1. /\ frame[c].op = "fork" /\ Token(frame[c])
      /\ procs' = procs \cup {p}
      /\ frame' = [frame EXCEPT ![c].op = "close"]
      /\ UNCHANGED <<node, subInstances, onInstanceDeath, links, call, crashed>>
  BY <1>17 DEF StageFork, At, Token, Starting
<1>2. /\ frame \in [Contexts -> FrameType] /\ frame[c].seq = 0 /\ frame[c].todo = <<>>
      /\ frame[c].next \in Subs /\ frame[c].new \in Nums /\ 0 \in sequences /\ procs = {}
  BY <1>1, Goes DEF IInv, Types, Starting
<1> DEFINE r == [frame[c] EXCEPT !.op = "close"]
<1>4. frame' = [frame EXCEPT ![c] = r]
  BY <1>1, <1>2
<1>5. /\ r \in FrameType /\ r.op = "close" /\ r.seq = 0 /\ r.todo = <<>> /\ r.new = frame[c].new
      /\ r.node = frame[c].node /\ r.num = frame[c].num /\ r.next = frame[c].next
  BY <1>2 DEF FrameType, FrameOps
<1> HIDE DEF r
<1>6. FrameKnown(c, r) /\ Token(r)
  BY <1>1, <1>2, <1>5, Goes DEF FrameKnown, Token, Starting
<1>7. /\ frame' \in [Contexts -> FrameType]
      /\ frame'[c] = r /\ \A d \in Contexts : d # c => frame'[d] = frame[d]
      /\ FramesKnown'
  BY <1>4, <1>5, <1>6, FrameChanges
<1>8. /\ \A d \in Contexts : /\ frame[d].op \in {"idle", "callbacks", "fork"}
                             /\ frame'[d].op \in {"idle", "callbacks", "close"}
                             /\ frame[d].op = "fork" <=> d = c
                             /\ frame'[d].op = "close" <=> d = c
                             /\ Token(frame'[d]) <=> d = c
      /\ 0 \in instances
      /\ frame'["thread"].op = "idle" <=> frame["thread"].op = "idle"
      /\ \A d \in Contexts : frame'[d].node = frame[d].node /\ frame'[d].num = frame[d].num
  BY <1>1, <1>5, <1>6, <1>7, Goes, Numbers
<1>9. /\ p \in ProcType /\ p.node = r.next /\ p.num = r.new /\ p.st = "alive"
      /\ p.fds = fdMap[r.next] /\ procs' = {p} /\ r.next \in Subs
  <2>1. fdMap[frame[c].next] \in SUBSET Files
    BY <1>2 DEF IInv, Types
  <2> QED
    BY <1>1, <1>2, <1>5, <2>1 DEF ProcType
<1> HIDE DEF p
<1>18. pidInstance' \in [Subs -> [Pids -> Nums \cup {NoInst}]]
  <2>1. pidInstance \in [Subs -> [Pids -> Nums \cup {NoInst}]]
    BY DEF IInv, Types
  <2>2. pidInstance[frame[c].next] \in [Pids -> Nums \cup {NoInst}]
    BY <1>2, <2>1
  <2>3. [pidInstance[frame[c].next] EXCEPT ![id] = frame[c].new] \in [Pids -> Nums \cup {NoInst}]
    BY <1>2, <2>2
  <2>4. pidInstance' = [pidInstance EXCEPT ![frame[c].next] =
                                              [pidInstance[frame[c].next] EXCEPT ![id] = frame[c].new]]
    BY <1>2, <1>17, <2>1
  <2> QED
    BY <1>2, <2>1, <2>3, <2>4
<1>10. Types'
  BY <1>1, <1>7, <1>9, <1>18 DEF IInv, Types, node, links
<1>16. OneHand'
  BY <1>5, <1>7, <1>8, <1>9 DEF OneHand
<1>11. InHand'
  BY <1>1, <1>2, <1>8, <1>9 DEF InHand, node
<1>12. Entries'
  <2>1. \A s, k : (SubRuns(s, k)' <=> SubRuns(s, k)) /\ (NotFinishing(s, k)' <=> NotFinishing(s, k))
    BY <1>1, <1>8 DEF SubRuns, NotFinishing
  <2>2. SubRuns(r.next, r.new) /\ NotFinishing(r.next, r.new)
    BY <1>1, <1>5 DEF IInv, Entries
  <2>3. \A d \in Contexts : (frame[d].node # NoNode => SubRuns(frame[d].node, frame[d].num))'
    BY <1>8, <2>1 DEF IInv, Entries
  <2>4. frame'["thread"].node # NoNode /\ frame'["thread"].node = frame'["handler"].node =>
          frame'["thread"].num # frame'["handler"].num
    BY <1>8, Numbers DEF IInv, Entries
  <2>5. \A q \in procs' : SubRuns(q.node, q.num)' /\ NotFinishing(q.node, q.num)'
    BY <1>9, <2>1, <2>2
  <2> QED
    BY <1>8, <2>3, <2>4, <2>5 DEF Entries, SubRuns, NotFinishing
<1>13. HandlersKnown'
  BY <1>1, <1>8 DEF IInv, HandlersKnown, Adding
<1>14. LinksKnown'
  <2>1. \A s \in Subs : (Passing(s)' <=> Passing(s)) /\ (Passing(s) <=> s = r.next)
    BY <1>5, <1>7, <1>8 DEF Passing
  <2>2. p.fds = given[0]
    BY <1>9, <2>1 DEF IInv, LinksKnown
  <2> QED
    BY <1>1, <1>8, <1>9, <2>1, <2>2 DEF IInv, LinksKnown, node, links
<1>15. StageKnown'
  <2>1. /\ seq[0].stage < Len(Order) /\ seq[0].stage >= 0 /\ r.next = Order[seq[0].stage + 1]
        /\ seq[0].node = r.next
    BY <1>1, <1>5, <1>8 DEF IInv, StageKnown, Starting
  <2> QED
    BY <1>1, <1>7, <1>8, <1>9, <2>1 DEF StageKnown, Starting, node
<1> QED
  BY <1>7, <1>10, <1>11, <1>12, <1>13, <1>14, <1>15, <1>16 DEF IInv


\* The links of the sub-node are closed: the next instance gets none of them.
LEMMA CloseFdsInv ==
  ASSUME OneSequence, IInv, NEW c \in Contexts, CloseFds(c)
  PROVE  IInv'
<1>1. /\ frame[c].op = "close" /\ Token(frame[c])
      /\ fdMap' = [fdMap EXCEPT ![frame[c].next] = {}]
      /\ frame' = [frame EXCEPT ![c].op = "assign"]
      /\ UNCHANGED <<node, procs, pidInstance, subInstances, onInstanceDeath, held, given, call, crashed>>
  BY DEF CloseFds, At, Token, Starting
<1>2. /\ frame \in [Contexts -> FrameType] /\ frame[c].seq = 0 /\ frame[c].todo = <<>>
      /\ frame[c].next \in Subs /\ frame[c].new \in Nums /\ 0 \in sequences /\ 0 \in instances
  BY <1>1, Goes DEF IInv, Types, Starting
<1> DEFINE r == [frame[c] EXCEPT !.op = "assign"]
<1>4. frame' = [frame EXCEPT ![c] = r]
  BY <1>1, <1>2
<1>5. /\ r \in FrameType /\ r.op = "assign" /\ r.seq = 0 /\ r.todo = <<>> /\ r.new = frame[c].new
      /\ r.node = frame[c].node /\ r.num = frame[c].num /\ r.next = frame[c].next
  BY <1>2 DEF FrameType, FrameOps
<1> HIDE DEF r
<1>6. FrameKnown(c, r) /\ Token(r)
  BY <1>1, <1>2, <1>5, Goes DEF FrameKnown, Token, Starting
<1>7. /\ frame' \in [Contexts -> FrameType]
      /\ frame'[c] = r /\ \A d \in Contexts : d # c => frame'[d] = frame[d]
      /\ FramesKnown'
  BY <1>4, <1>5, <1>6, FrameChanges
<1>8. /\ \A d \in Contexts : /\ frame[d].op \in {"idle", "callbacks", "close"}
                             /\ frame'[d].op \in {"idle", "callbacks", "assign"}
                             /\ frame[d].op = "close" <=> d = c
                             /\ frame'[d].op = "assign" <=> d = c
                             /\ Token(frame'[d]) <=> d = c
      /\ frame'["thread"].op = "idle" <=> frame["thread"].op = "idle"
      /\ \A d \in Contexts : frame'[d].node = frame[d].node /\ frame'[d].num = frame[d].num
  BY <1>1, <1>5, <1>6, <1>7, Goes, Numbers
<1>9. fdMap \in [Subs \cup {Self} -> SUBSET Files] /\ r.next \in Subs /\ r.next # Self
  BY <1>2, <1>5 DEF IInv, Types
<1>10. Types'
  BY <1>1, <1>5, <1>7, <1>9 DEF IInv, Types, node
<1>11. OneHand'
  BY <1>1, <1>5, <1>7, <1>8 DEF IInv, OneHand
<1>12. InHand'
  BY <1>1, <1>2, <1>8 DEF InHand, node
<1>13. Entries'
  BY <1>1, <1>7, <1>8, EntriesKept
<1>14. HandlersKnown'
  BY <1>1, <1>8 DEF IInv, HandlersKnown, Adding
<1>15. LinksKnown'
  <2>1. \A s \in Subs : ~Passing(s)' /\ (Passing(s) <=> s = r.next)
    BY <1>5, <1>7, <1>8 DEF Passing
  <2>2. \A s \in Subs : fdMap'[s] = {}
    BY <1>1, <1>5, <1>9, <2>1 DEF IInv, LinksKnown
  <2>3. fdMap'[Self] = fdMap[Self]
    BY <1>1, <1>5, <1>9
  <2> QED
    BY <1>1, <1>8, <2>1, <2>2, <2>3, Numbers DEF IInv, LinksKnown, node
<1>16. StageKnown'
  BY <1>1, <1>5, <1>7, <1>8 DEF IInv, StageKnown, Starting, node
<1> QED
  BY <1>7, <1>10, <1>11, <1>12, <1>13, <1>14, <1>15, <1>16 DEF IInv

\* The number is noted, of the process that still runs.
LEMMA StageAssignInv ==
  ASSUME OneSequence, IInv, NEW c \in Contexts, StageAssign(c)
  PROVE  IInv'
<1>1. /\ frame[c].op = "assign" /\ Token(frame[c])
      /\ seq' = [seq EXCEPT ![frame[c].seq].num = frame[c].new]
      /\ frame' = [frame EXCEPT ![c].op = "callbacks", ![c].seq = NoInst,
                                ![c].next = NoNode, ![c].new = NoInst]
      /\ UNCHANGED <<instances, sequences, procs, pidInstance, subInstances, onInstanceDeath, links, call, crashed>>
  BY DEF StageAssign, At, Token, Starting
<1>2. /\ frame \in [Contexts -> FrameType] /\ frame[c].seq = 0 /\ frame[c].todo = <<>>
      /\ frame[c].next \in Subs /\ frame[c].new \in Nums /\ 0 \in sequences /\ 0 \in instances
  BY <1>1, Goes DEF IInv, Types, Starting
<1> DEFINE r == [frame[c] EXCEPT !.op = "callbacks", !.seq = NoInst, !.next = NoNode,
                                    !.new = NoInst]
<1>3. PICK p \in procs : p.node = frame[c].next /\ p.num = frame[c].new
  BY <1>1 DEF IInv, OneHand
<1>4. frame' = [frame EXCEPT ![c] = r]
  BY <1>1, <1>2
<1>5. /\ r \in FrameType /\ r.op = "callbacks" /\ r.seq = NoInst /\ r.todo = <<>>
      /\ r.node = frame[c].node /\ r.num = frame[c].num
  <2>1. frame[c] \in FrameType
    BY <1>2
  <2>2. /\ r.op = "callbacks" /\ r.seq = NoInst /\ r.todo = <<>> /\ r.next = NoNode /\ r.new = NoInst
        /\ r.node = frame[c].node /\ r.num = frame[c].num
    BY <1>2, <2>1 DEF FrameType
  <2> QED
    BY <2>1, <2>2 DEF FrameType, FrameOps
<1> HIDE DEF r
<1>6. FrameKnown(c, r) /\ ~Token(r)
  BY <1>1, <1>5, Goes, Numbers DEF FrameKnown, Token, Starting
<1>7. /\ frame' \in [Contexts -> FrameType]
      /\ frame'[c] = r /\ \A d \in Contexts : d # c => frame'[d] = frame[d]
      /\ FramesKnown'
  BY <1>4, <1>5, <1>6, FrameChanges
<1>8. /\ \A d \in Contexts : /\ frame[d].op \in {"idle", "callbacks", "assign"}
                             /\ frame'[d].op \in {"idle", "callbacks"}
                             /\ ~Token(frame'[d])
      /\ frame'["thread"].op = "idle" <=> frame["thread"].op = "idle"
      /\ \A d \in Contexts : frame'[d].node = frame[d].node /\ frame'[d].num = frame[d].num
  BY <1>1, <1>5, <1>6, <1>7, Goes, Numbers
<1>9. /\ seq' \in [{0} -> SeqType] /\ seq'[0].stage = seq[0].stage /\ seq'[0].node = seq[0].node
      /\ seq'[0].num = frame[c].new
  <2>1. seq \in [{0} -> SeqType] /\ seq[0] \in SeqType
    BY DEF IInv, Types
  <2>2. seq' = [seq EXCEPT ![0] = [seq[0] EXCEPT !.num = frame[c].new]]
    BY <1>1, <1>2, <2>1
  <2> QED
    BY <1>2, <2>1, <2>2 DEF SeqType
<1>10. Types'
  BY <1>1, <1>7, <1>9 DEF IInv, Types, links
<1>11. OneHand'
  BY <1>1, <1>8 DEF IInv, OneHand
<1>12. InHand'
  BY <1>1, <1>2, <1>3, <1>8 DEF InHand
<1>13. Entries'
  BY <1>1, <1>7, <1>8, EntriesKept
<1>14. HandlersKnown'
  BY <1>1, <1>8 DEF IInv, HandlersKnown, Adding
<1>15. LinksKnown'
  BY <1>1, <1>8, Numbers DEF IInv, LinksKnown, Passing, links
<1>16. StageKnown'
  <2>1. procs = {p}
    BY <1>3 DEF IInv, OneHand
  <2>2. /\ seq'[0].stage >= 0 /\ p.node = Order[seq'[0].stage + 1]
        /\ seq'[0].node = p.node /\ seq'[0].num = p.num
    BY <1>3, <1>9 DEF IInv, StageKnown
  <2>3. 0 \in instances' => seq'[0].stage < Len(Order)
    BY <1>1, <1>9 DEF IInv, StageKnown
  <2> QED
    BY <1>1, <1>8, <2>1, <2>2, <2>3 DEF StageKnown, Starting
<1> QED
  BY <1>7, <1>10, <1>11, <1>12, <1>13, <1>14, <1>15, <1>16 DEF IInv

\* The instance of the sub-node goes from the map; nobody else is finishing it,
\* and no process has its number.
LEMMA CallbacksDoneInv ==
  ASSUME OneSequence, IInv, NEW c \in Contexts, CallbacksDone(c)
  PROVE  IInv'
<1> DEFINE f == frame[c]
<1>1. /\ f.op = "callbacks" /\ f.todo = <<>> /\ (c = "thread" => frame["handler"].op = "idle")
      /\ subInstances' = IF f.node = NoNode THEN subInstances
                         ELSE [subInstances EXCEPT ![f.node][f.num] = NoHandlers]
      /\ fdMap' = IF f.node = NoNode THEN [fdMap EXCEPT ![Self] = {}] ELSE fdMap
      /\ frame' = [frame EXCEPT ![c] = IdleFrame]
      /\ UNCHANGED <<node, procs, pidInstance, onInstanceDeath, held, given, call, crashed>>
  BY DEF CallbacksDone, At, Runs
<1>2. /\ frame \in [Contexts -> FrameType] /\ f \in FrameType /\ ~Token(f)
      /\ f.node = NoNode => c = "thread"
      /\ f.node # NoNode => f.node \in Subs /\ f.num \in Nums
  <2>1. frame \in [Contexts -> FrameType] /\ f \in FrameType /\ FrameKnown(c, f)
    BY DEF IInv, Types, FramesKnown
  <2> QED
    BY <1>1, <2>1, Numbers DEF FrameType, FrameKnown, Token, Starting
<1>3. /\ IdleFrame \in FrameType /\ IdleFrame.op = "idle" /\ IdleFrame.node = NoNode
      /\ FrameKnown(c, IdleFrame) /\ ~Token(IdleFrame)
  BY Numbers DEF IdleFrame, FrameType, FrameOps, FrameKnown, Token, Starting
<1>4. /\ frame' \in [Contexts -> FrameType]
      /\ frame'[c] = IdleFrame /\ \A d \in Contexts : d # c => frame'[d] = frame[d]
      /\ FramesKnown'
  BY <1>1, <1>3, FrameChanges
<1>5. \A d \in Contexts : Token(frame'[d]) => Token(frame[d]) /\ frame'[d] = frame[d]
  BY <1>3, <1>4
<1>6. \A d \in Contexts : Token(frame[d]) => frame'[d] = frame[d] /\ Token(frame'[d])
  BY <1>2, <1>4
<1>7. \A d \in Contexts : /\ frame'[d].op # "idle" => frame'[d] = frame[d]
                          /\ frame[d].op \notin {"idle", "callbacks"} => frame'[d] = frame[d]
                          /\ frame'[d].node # NoNode => d # c /\ frame'[d] = frame[d]
  BY <1>1, <1>3, <1>4
<1> HIDE DEF f
<1>8. /\ subInstances' \in [Subs -> [Nums -> {NoHandlers, <<0>>}]]
      /\ \A s \in Subs, k \in Nums :
           subInstances'[s][k] = IF f.node # NoNode /\ s = f.node /\ k = f.num
                                 THEN NoHandlers ELSE subInstances[s][k]
  <2>1. subInstances \in [Subs -> [Nums -> {NoHandlers, <<0>>}]]
    BY DEF IInv, Types
  <2>2. CASE f.node = NoNode
    BY <1>1, <2>1, <2>2
  <2>3. CASE f.node # NoNode
    <3>1. subInstances[f.node] \in [Nums -> {NoHandlers, <<0>>}]
      BY <1>2, <2>1, <2>3
    <3>2. [subInstances[f.node] EXCEPT ![f.num] = NoHandlers] \in [Nums -> {NoHandlers, <<0>>}]
      BY <3>1
    <3>3. subInstances' = [subInstances EXCEPT ![f.node] = [subInstances[f.node] EXCEPT ![f.num] = NoHandlers]]
      BY <1>1, <2>1, <2>3
    <3> QED
      BY <1>2, <2>1, <2>3, <3>1, <3>2, <3>3
  <2> QED
    BY <2>2, <2>3
<1>9. \A s \in Subs, k \in Nums :
        SubRuns(s, k)' <=> SubRuns(s, k) /\ ~(f.node # NoNode /\ s = f.node /\ k = f.num)
  BY <1>8 DEF SubRuns
<1>10. /\ fdMap' \in [Subs \cup {Self} -> SUBSET Files]
       /\ \A s \in Subs : fdMap'[s] = fdMap[s]
       /\ fdMap'[Self] = IF f.node = NoNode THEN {} ELSE fdMap[Self]
  BY <1>1 DEF IInv, Types
<1>11. Types'
  BY <1>1, <1>4, <1>8, <1>10 DEF IInv, Types, node
<1>12. OneHand'
  <2>1. \A d, e \in Contexts : Token(frame'[d]) /\ Token(frame'[e]) => d = e
    BY <1>5 DEF IInv, OneHand
  <2>2. \A d \in Contexts : Token(frame'[d]) /\ frame'[d].op \notin {"close", "assign"} => procs = {}
    BY <1>5 DEF IInv, OneHand
  <2>3. \A d \in Contexts : frame'[d].op \in {"close", "assign"} =>
          \E p \in procs : p.node = frame'[d].next /\ p.num = frame'[d].new /\ p.st = "alive"
    BY <1>7 DEF IInv, OneHand
  <2> QED
    BY <1>1, <2>1, <2>2, <2>3 DEF IInv, OneHand
<1>13. InHand'
  <2>1. (\E d \in Contexts : Token(frame'[d])) <=> (\E d \in Contexts : Token(frame[d]))
    BY <1>5, <1>6
  <2>2. (\A d \in Contexts : frame'[d].op # "end") <=> (\A d \in Contexts : frame[d].op # "end")
    BY <1>7
  <2> QED
    BY <1>1, <2>1, <2>2 DEF IInv, InHand, node
<1>14. Entries'
  <2>1. \A d \in Contexts : (frame[d].node # NoNode => SubRuns(frame[d].node, frame[d].num))'
    <3> SUFFICES ASSUME NEW d \in Contexts, frame'[d].node # NoNode
                 PROVE  SubRuns(frame[d].node, frame[d].num)'
      OBVIOUS
    <3>1. d # c /\ frame'[d] = frame[d] /\ FrameKnown(d, frame[d]) /\ frame[d] \in FrameType
      BY <1>2, <1>7 DEF IInv, FramesKnown
    <3>2. frame[d].node \in Subs /\ frame[d].num \in Nums /\ SubRuns(frame[d].node, frame[d].num)
      BY <3>1 DEF IInv, Entries, FrameKnown, FrameType
    <3>3. ~(f.node # NoNode /\ frame[d].node = f.node /\ frame[d].num = f.num)
      BY <3>1, Numbers DEF IInv, Entries, f
    <3> QED
      BY <1>9, <3>1, <3>2, <3>3 DEF SubRuns
  <2>2. frame'["thread"].node # NoNode /\ frame'["thread"].node = frame'["handler"].node =>
          frame'["thread"].num # frame'["handler"].num
    BY <1>7, Numbers DEF IInv, Entries
  <2>3. \A s \in Subs : \A k : NotFinishing(s, k) => NotFinishing(s, k)'
    BY <1>7 DEF NotFinishing
  <2>4. \A s \in Subs, k \in Nums : NotFinishing(s, k) /\ SubRuns(s, k) => SubRuns(s, k)'
    BY <1>9 DEF NotFinishing, f
  <2>5. \A p \in procs' : SubRuns(p.node, p.num)' /\ NotFinishing(p.node, p.num)'
    <3> SUFFICES ASSUME NEW p \in procs PROVE SubRuns(p.node, p.num)' /\ NotFinishing(p.node, p.num)'
      BY <1>1
    <3>1. p.node \in Subs /\ p.num \in Nums
      BY DEF IInv, Types, ProcType
    <3> QED
      BY <3>1, <2>3, <2>4 DEF IInv, Entries
  <2>6. \A d \in Contexts : (frame[d].op = "enter" => ~SubRuns(frame[d].next, frame[d].new))'
    <3> SUFFICES ASSUME NEW d \in Contexts, frame'[d].op = "enter"
                 PROVE  ~SubRuns(frame[d].next, frame[d].new)'
      OBVIOUS
    <3>1. frame'[d] = frame[d] /\ frame[d].next \in Subs /\ frame[d].new \in Nums
      BY <1>7 DEF IInv, FramesKnown, FrameKnown, Starting
    <3> QED
      BY <1>9, <3>1 DEF IInv, Entries, SubRuns
  <2>7. \A d \in Contexts : (frame[d].op \in {"clear", "fork"} =>
           SubRuns(frame[d].next, frame[d].new) /\ NotFinishing(frame[d].next, frame[d].new))'
    <3> SUFFICES ASSUME NEW d \in Contexts, frame'[d].op \in {"clear", "fork"}
                 PROVE  (SubRuns(frame[d].next, frame[d].new) /\ NotFinishing(frame[d].next, frame[d].new))'
      OBVIOUS
    <3>1. frame'[d] = frame[d] /\ frame[d].next \in Subs /\ frame[d].new \in Nums
      BY <1>7 DEF IInv, FramesKnown, FrameKnown, Starting
    <3>2. SubRuns(frame[d].next, frame[d].new) /\ NotFinishing(frame[d].next, frame[d].new)
      BY <3>1 DEF IInv, Entries
    <3>3. subInstances'[frame[d].next][frame[d].new] # NoHandlers
      BY <2>4, <3>1, <3>2 DEF SubRuns
    <3>4. \A e \in Contexts : frame'[e].node = frame[d].next => frame'[e].num # frame[d].new
      BY <2>3, <3>1, <3>2 DEF NotFinishing
    <3> QED
      BY <3>1, <3>3, <3>4 DEF SubRuns, NotFinishing
  <2> QED
    BY <2>1, <2>2, <2>5, <2>6, <2>7 DEF Entries
<1>15. HandlersKnown'
  <2>1. \A s \in Subs : Adding(s)' <=> Adding(s)
    BY <1>7 DEF Adding
  <2> QED
    BY <1>1, <2>1 DEF IInv, HandlersKnown
<1>16. LinksKnown'
  <2>1. \A s \in Subs : Passing(s)' <=> Passing(s)
    BY <1>7 DEF Passing
  <2>2. frame'["thread"].op = "idle" \/ frame'["thread"].node # NoNode => fdMap'[Self] = {}
    <3>1. CASE c = "thread" /\ f.node # NoNode
      BY <1>10, <3>1 DEF IInv, LinksKnown, f
    <3>2. CASE c = "thread" /\ f.node = NoNode
      BY <1>10, <3>2
    <3>3. CASE c = "handler"
      BY <1>2, <1>4, <1>10, <3>3, Numbers DEF IInv, LinksKnown
    <3> QED
      BY <3>1, <3>2, <3>3 DEF Contexts
  <2> QED
    BY <1>1, <1>10, <2>1, <2>2 DEF IInv, LinksKnown, node
<1>17. StageKnown'
  <2>1. \A d \in Contexts : frame'[d].op \in Starting => frame'[d] = frame[d]
    BY <1>7 DEF Starting
  <2>2. (\A d \in Contexts : frame'[d].op \notin {"close", "assign"}) <=>
          (\A d \in Contexts : frame[d].op \notin {"close", "assign"})
    BY <1>7
  <2> QED
    BY <1>1, <2>1, <2>2 DEF IInv, StageKnown, node
<1> QED
  BY <1>4, <1>11, <1>12, <1>13, <1>14, <1>15, <1>16, <1>17 DEF IInv


\* A client starts a sequence: none was there before.
LEMMA StartupInv ==
  ASSUME OneSequence, IInv, NEW files \in SUBSET Files, Startup(files)
  PROVE  IInv'
<1> DEFINE r == [IdleFrame EXCEPT !.op = "proceed", !.seq = 0]
<1>14. PICK i \in Inst :
         /\ i \notin instances /\ i \notin sequences
         /\ instances' = instances \cup {i} /\ sequences' = sequences \cup {i}
         /\ seq' = [seq EXCEPT ![i] = NewSeq]
         /\ frame' = [frame EXCEPT !["thread"] = [IdleFrame EXCEPT !.op = "proceed", !.seq = i]]
         /\ fdMap' = [fdMap EXCEPT ![Self] = @ \cup files]
         /\ held' = [held EXCEPT ![i] = @ \cup fdMap[Self] \cup files]
         /\ given' = [given EXCEPT ![i] = files]
  BY DEF Startup, IsNextInst
<1>15. i = 0
  BY Numbers
<1>1. /\ frame["thread"].op = "idle" /\ frame["handler"].op = "idle"
      /\ 0 \notin instances /\ 0 \notin sequences
      /\ instances' = instances \cup {0} /\ sequences' = sequences \cup {0}
      /\ seq' = [seq EXCEPT ![0] = NewSeq]
      /\ frame' = [frame EXCEPT !["thread"] = r]
      /\ fdMap' = [fdMap EXCEPT ![Self] = @ \cup files]
      /\ held' = [held EXCEPT ![0] = @ \cup fdMap[Self] \cup files]
      /\ given' = [given EXCEPT ![0] = files]
      /\ UNCHANGED <<procs, pidInstance, subInstances, onInstanceDeath, call, crashed>>
  BY <1>14, <1>15 DEF Startup, AtCall, Runs
<1>2. /\ r \in FrameType /\ r.op = "proceed" /\ r.seq = 0 /\ r.todo = <<>> /\ r.node = NoNode
      /\ FrameKnown("thread", r) /\ Token(r)
  BY DEF IdleFrame, FrameType, FrameOps, FrameKnown, Token, Starting
<1> HIDE DEF r
<1>3. /\ frame' \in [Contexts -> FrameType]
      /\ frame'["thread"] = r /\ \A d \in Contexts : d # "thread" => frame'[d] = frame[d]
      /\ FramesKnown'
  BY <1>1, <1>2, FrameChanges, Numbers
<1>4. /\ instances' = {0} /\ sequences = {} /\ sequences' = {0} /\ procs = {}
      /\ \A d \in Contexts : frame[d].op = "idle" /\ ~Token(frame[d])
      /\ \A d \in Contexts : /\ frame'[d].op \in {"idle", "proceed"}
                             /\ Token(frame'[d]) => d = "thread"
      /\ \A d \in Contexts : frame[d].node = NoNode /\ frame'[d].node = NoNode
  <2>4. instances = {} /\ sequences \in SUBSET {0}
    BY <1>1 DEF IInv, Types
  <2>5. 0 \notin sequences /\ procs = {}
    BY <1>1 DEF IInv, InHand
  <2>1. instances' = {0} /\ sequences = {} /\ sequences' = {0} /\ procs = {}
    BY <1>1, <2>4, <2>5
  <2>2. \A d \in Contexts : frame[d].op = "idle" /\ ~Token(frame[d])
    BY <1>1, Numbers DEF Token, Starting
  <2>3. \A d \in Contexts : frame[d].node = NoNode /\ frame'[d].node = NoNode
    BY <1>2, <1>3, <2>2 DEF IInv, FramesKnown, FrameKnown
  <2> QED
    BY <1>2, <1>3, <2>1, <2>2, <2>3
<1>5. /\ fdMap[Self] = {} /\ held[0] = {} /\ fdMap \in [Subs \cup {Self} -> SUBSET Files]
      /\ held \in [{0} -> SUBSET Files] /\ given \in [{0} -> SUBSET Files]
      /\ \A s \in Subs : fdMap[s] = {}
  BY <1>1, <1>4 DEF IInv, LinksKnown, Passing, Types
<1>6. /\ fdMap' \in [Subs \cup {Self} -> SUBSET Files] /\ \A s \in Subs : fdMap'[s] = {}
      /\ held' \in [{0} -> SUBSET Files] /\ given' \in [{0} -> SUBSET Files]
      /\ held'[0] = files /\ given'[0] = files
  BY <1>1, <1>5
<1>7. seq' \in [{0} -> SeqType] /\ seq'[0].stage = -1
  <2>1. NewSeq \in SeqType /\ NewSeq.stage = -1
    BY DEF NewSeq, SeqType
  <2> QED
    BY <1>1, <1>4, <2>1 DEF IInv, Types
<1>8. Types'
  BY <1>1, <1>3, <1>4, <1>6, <1>7 DEF IInv, Types
<1>9. OneHand' /\ InHand'
  BY <1>1, <1>2, <1>3, <1>4, Numbers DEF OneHand, InHand
<1>10. Entries'
  BY <1>1, <1>4, Numbers DEF Entries, NotFinishing, SubRuns
<1>11. HandlersKnown'
  BY <1>1, <1>4 DEF IInv, HandlersKnown, Adding
<1>12. LinksKnown'
  BY <1>1, <1>2, <1>3, <1>4, <1>6, Numbers DEF LinksKnown, Passing
<1>13. StageKnown'
  BY <1>1, <1>4, <1>7 DEF StageKnown, Starting
<1> QED
  BY <1>3, <1>8, <1>9, <1>10, <1>11, <1>12, <1>13 DEF IInv

LEMMA InitInv ==
  ASSUME OneSequence, Init
  PROVE  IInv
<1>1. /\ Inst = {0} /\ instances = {} /\ sequences = {} /\ procs = {}
      /\ pidInstance = [s \in Subs |-> [id \in Pids |-> NoInst]]
      /\ subInstances = [s \in Subs |-> [k \in Nums |-> NoHandlers]]
      /\ onInstanceDeath = [s \in Subs |-> <<>>]
      /\ fdMap = [n \in Subs \cup {Self} |-> {}] /\ held = [i \in {0} |-> {}]
      /\ given = [i \in {0} |-> {}] /\ frame = [c \in Contexts |-> IdleFrame]
      /\ seq = [i \in {0} |-> NewSeq] /\ call = IdleCall /\ crashed = FALSE
  BY Numbers DEF Init
<1>2. /\ NewSeq \in SeqType /\ IdleFrame \in FrameType /\ IdleCall \in CallType
      /\ \A c \in Contexts : frame[c] = IdleFrame
  BY <1>1 DEF NewSeq, SeqType, IdleFrame, FrameType, FrameOps, IdleCall, CallType
<1>3. /\ IdleFrame.op = "idle" /\ IdleFrame.node = NoNode /\ ~Token(IdleFrame)
      /\ \A c \in Contexts : FrameKnown(c, IdleFrame)
  BY DEF IdleFrame, Token, Starting, FrameKnown
<1>4. Types
  BY <1>1, <1>2 DEF Types
<1>5. FramesKnown /\ OneHand /\ InHand
  BY <1>1, <1>2, <1>3 DEF FramesKnown, OneHand, InHand
<1>6. Entries
  BY <1>1, <1>2, <1>3, Numbers DEF Entries
<1>7. HandlersKnown /\ LinksKnown /\ StageKnown
  BY <1>1, <1>2, <1>3, Numbers DEF HandlersKnown, LinksKnown, StageKnown, Adding, Passing, Starting
<1> QED
  BY <1>4, <1>5, <1>6, <1>7 DEF IInv

LEMMA StepInv ==
  ASSUME OneSequence, IInv, Finds, [Next]_vars
  PROVE  IInv'
<1>1. ASSUME UNCHANGED vars PROVE IInv'
  <2>1. /\ UNCHANGED <<node, procs, pidInstance, subInstances, onInstanceDeath, links, frame, call>>
        /\ crashed' \in BOOLEAN
    BY <1>1 DEF vars, IInv, Types
  <2> QED
    BY <2>1, CrashInv
<1>2. ASSUME NEW p \in procs, Exit(p) \/ HandlerReaps(p) \/ ThreadReaps(p) PROVE IInv'
  BY <1>2, ExitInv, ReapInv
<1>3. ASSUME NEW c \in Contexts, Frame(c) PROVE IInv'
  <2>1. CASE Callback(c) \/ CallbacksDone(c) \/ ProceedEnds(c) \/ FinishSequence(c) \/ ProceedNext(c)
    BY <2>1, CallbackInv, CallbacksDoneInv, ProceedEndsInv, FinishSequenceInv, ProceedNextInv
  <2>2. CASE PassFds(c) \/ StageNumber(c) \/ StageEnter(c) \/ StageClear(c) \/ StageFork(c)
    BY <2>2, PassFdsInv, StageNumberInv, StageEnterInv, StageClearInv, StageForkInv
  <2>3. CASE CloseFds(c) \/ StageAssign(c)
    BY <2>3, CloseFdsInv, StageAssignInv
  <2>4. CASE TouchesFreed(c) \/ StageThrows(c)
    BY <2>4, CrashInv DEF TouchesFreed, StageThrows
  <2> QED
    BY <1>3, <2>1, <2>2, <2>3, <2>4 DEF Frame
<1>4. ASSUME NEW files \in SUBSET Files, Startup(files) PROVE IInv'
  BY <1>4, StartupInv
<1>5. ASSUME CallWait \/ Wait PROVE IInv'
  BY <1>5, WaitInv
<1>6. ASSUME WaitFindsNone \/ WaitFindsNoNode \/ StartupFindsEntry PROVE IInv'
  BY <1>6, WaitFindsNoneInv, CrashInv DEF WaitFindsNoNode, StartupFindsEntry
<1> QED
  BY <1>1, <1>2, <1>3, <1>4, <1>5, <1>6 DEF Next, Thread, Stopped

\* What is in the map, when no process and no entry comes or goes.
LEMMA InMapKept ==
  ASSUME IInv, InMap, PidsKnown, UNCHANGED <<procs, pidInstance, subInstances>>,
         \A d \in Contexts : frame'[d].node = frame[d].node /\ frame'[d].num = frame[d].num,
         \A d \in Contexts : frame[d].op \in {"clear", "fork"} =>
           /\ frame'[d].op \in {"clear", "fork"}
           /\ frame'[d].next = frame[d].next /\ frame'[d].new = frame[d].new
  PROVE  InMap' /\ PidsKnown'
<1>1. InMap'
  <2> SUFFICES ASSUME NEW s \in Subs, NEW k \in Nums, SubRuns(s, k)'
               PROVE  (\/ \E p \in procs : p.node = s /\ p.num = k
                       \/ \E c \in Contexts : frame[c].node = s /\ frame[c].num = k
                       \/ \E c \in Contexts : /\ frame[c].op \in {"clear", "fork"}
                                               /\ frame[c].next = s /\ frame[c].new = k)'
    BY DEF InMap
  <2>1. SubRuns(s, k)
    BY DEF SubRuns
  <2>2. CASE \E p \in procs : p.node = s /\ p.num = k
    BY <2>2
  <2>3. CASE \E c \in Contexts : frame[c].node = s /\ frame[c].num = k
    BY <2>3
  <2>4. CASE \E c \in Contexts : frame[c].op \in {"clear", "fork"} /\ frame[c].next = s /\ frame[c].new = k
    BY <2>4
  <2> QED
    BY <2>1, <2>2, <2>3, <2>4 DEF InMap
<1>2. PidsKnown'
  BY DEF PidsKnown
<1> QED
  BY <1>1, <1>2

LEMMA ExitFinds ==
  ASSUME OneSequence, IInv, InMap, PidsKnown, NEW p \in procs, Exit(p)
  PROVE  InMap' /\ PidsKnown'
<1>1. UNCHANGED <<pidInstance, subInstances, frame>>
  BY DEF Exit
<1>2. PICK st \in {"ok", "fail", "killed"} : procs' = (procs \ {p}) \cup {[p EXCEPT !.st = st]}
  BY DEF Exit
<1> DEFINE q == [p EXCEPT !.st = st]
<1>3. q.node = p.node /\ q.num = p.num /\ q.pid = p.pid
  BY DEF IInv, Types, ProcType
<1>4. procs' = {q} /\ procs = {p}
  BY <1>2 DEF IInv, OneHand
<1> HIDE DEF q
<1>5. InMap'
  BY <1>1, <1>3, <1>4 DEF InMap, SubRuns
<1>6. PidsKnown'
  BY <1>1, <1>3, <1>4 DEF PidsKnown
<1> QED
  BY <1>5, <1>6

LEMMA ReapFinds ==
  ASSUME OneSequence, IInv, Finds, NEW p \in procs, HandlerReaps(p) \/ ThreadReaps(p)
  PROVE  InMap' /\ PidsKnown'
<1>1. PICK c \in Contexts :
        /\ frame[c].op = "idle" /\ p.st # "alive"
        /\ frame' = [frame EXCEPT ![c] = Finishing(p.node, p.num, RetVal(p))]
  BY Reaps
<1>2. procs' = procs \ {p} /\ UNCHANGED <<pidInstance, subInstances>>
  BY Reaps
<1>3. /\ procs = {p} /\ procs' = {} /\ frame \in [Contexts -> FrameType]
      /\ frame[c].node = NoNode /\ NoNode \notin Subs
  BY <1>1, <1>2, Numbers DEF IInv, Types, OneHand, FramesKnown, FrameKnown
<1>4. /\ frame'[c].node = p.node /\ frame'[c].num = p.num
      /\ \A d \in Contexts : d # c => frame'[d] = frame[d]
  BY <1>1, <1>3 DEF Finishing, IdleFrame
<1>5. InMap'
  BY <1>1, <1>2, <1>3, <1>4 DEF Finds, InMap, SubRuns
<1>6. PidsKnown'
  BY <1>3 DEF PidsKnown
<1> QED
  BY <1>5, <1>6

\* An entry comes, and the frame that has made it is about to fork.
LEMMA EnterFinds ==
  ASSUME OneSequence, IInv, InMap, PidsKnown, NEW c \in Contexts, StageEnter(c)
  PROVE  InMap' /\ PidsKnown'
<1>1. /\ frame[c].op = "enter" /\ Token(frame[c])
      /\ subInstances' = [subInstances EXCEPT ![frame[c].next][frame[c].new] =
                                                onInstanceDeath[frame[c].next]]
      /\ frame' = [frame EXCEPT ![c].op = "clear"] /\ UNCHANGED <<procs, pidInstance>>
  BY DEF StageEnter, At, Token, Starting
<1>2. /\ procs = {} /\ frame \in [Contexts -> FrameType]
      /\ frame[c].next \in Subs /\ frame[c].new \in Nums
      /\ subInstances \in [Subs -> [Nums -> {NoHandlers, <<0>>}]]
      /\ \A d \in Contexts : frame[d].op \notin {"clear", "fork"}
  BY <1>1, Goes DEF IInv, Types, Starting
<1>3. /\ frame'[c].op = "clear" /\ frame'[c].next = frame[c].next /\ frame'[c].new = frame[c].new
      /\ \A d \in Contexts : frame'[d].node = frame[d].node /\ frame'[d].num = frame[d].num
  BY <1>1, <1>2 DEF FrameType
<1>4. \A s \in Subs, k \in Nums :
        SubRuns(s, k)' => SubRuns(s, k) \/ (s = frame[c].next /\ k = frame[c].new)
  BY <1>1, <1>2 DEF SubRuns
<1>5. InMap'
  BY <1>1, <1>2, <1>3, <1>4 DEF InMap
<1>6. PidsKnown'
  BY <1>1, <1>2 DEF PidsKnown
<1> QED
  BY <1>5, <1>6

\* The entry has a process now, and pidInstance the number.
LEMMA ForkFinds ==
  ASSUME OneSequence, IInv, InMap, PidsKnown, NEW c \in Contexts, StageFork(c)
  PROVE  InMap' /\ PidsKnown'
<1>1. /\ frame[c].op = "fork" /\ Token(frame[c])
      /\ frame' = [frame EXCEPT ![c].op = "close"] /\ UNCHANGED subInstances
  BY DEF StageFork, At, Token, Starting
<1>2. PICK id \in Pids :
        /\ procs' = procs \cup {[node |-> frame[c].next, num |-> frame[c].new, pid |-> id,
                                   seq |-> frame[c].seq, fds |-> fdMap[frame[c].next],
                                   st |-> "alive"]}
        /\ pidInstance' = [pidInstance EXCEPT ![frame[c].next][id] = frame[c].new]
  BY DEF StageFork
<1> DEFINE q == [node |-> frame[c].next, num |-> frame[c].new, pid |-> id, seq |-> frame[c].seq,
                 fds |-> fdMap[frame[c].next], st |-> "alive"]
<1>3. /\ procs = {} /\ frame \in [Contexts -> FrameType] /\ frame[c].next \in Subs
      /\ pidInstance \in [Subs -> [Pids -> Nums \cup {NoInst}]]
      /\ \A d \in Contexts : d # c => frame[d].op \notin {"clear", "fork"}
  BY <1>1, Goes DEF IInv, Types, Starting
<1>4. procs' = {q} /\ q.node = frame[c].next /\ q.num = frame[c].new /\ q.pid = id
  BY <1>2, <1>3
<1> HIDE DEF q
<1>5. \A d \in Contexts : frame'[d].node = frame[d].node /\ frame'[d].num = frame[d].num
  BY <1>1, <1>3 DEF FrameType
<1>6. InMap'
  BY <1>1, <1>3, <1>4, <1>5 DEF InMap, SubRuns
<1>7. pidInstance'[q.node][q.pid] = q.num
  BY <1>2, <1>3, <1>4
<1>8. PidsKnown'
  BY <1>4, <1>7 DEF PidsKnown
<1> QED
  BY <1>6, <1>8

\* The entry goes with the frame that was finishing it.
LEMMA DoneFinds ==
  ASSUME OneSequence, IInv, InMap, PidsKnown, NEW c \in Contexts, CallbacksDone(c)
  PROVE  InMap' /\ PidsKnown'
<1> DEFINE f == frame[c]
<1>1. /\ f.op = "callbacks"
      /\ subInstances' = IF f.node = NoNode THEN subInstances
                         ELSE [subInstances EXCEPT ![f.node][f.num] = NoHandlers]
      /\ frame' = [frame EXCEPT ![c] = IdleFrame] /\ UNCHANGED <<procs, pidInstance>>
  BY DEF CallbacksDone, At
<1>2. /\ frame \in [Contexts -> FrameType] /\ f \in FrameType /\ NoNode \notin Subs
      /\ f.node # NoNode => f.node \in Subs /\ f.num \in Nums
      /\ subInstances \in [Subs -> [Nums -> {NoHandlers, <<0>>}]]
  <2>1. frame \in [Contexts -> FrameType] /\ f \in FrameType /\ FrameKnown(c, f)
    BY DEF IInv, Types, FramesKnown
  <2> QED
    BY <2>1, Numbers DEF FrameType, FrameKnown, IInv, Types
<1>3. \A d \in Contexts : d # c => frame'[d] = frame[d]
  BY <1>1, <1>2
<1> HIDE DEF f
<1>4. \A s \in Subs, k \in Nums :
        SubRuns(s, k)' => SubRuns(s, k) /\ ~(f.node = s /\ f.num = k)
  BY <1>1, <1>2 DEF SubRuns
<1>5. InMap'
  <2> SUFFICES ASSUME NEW s \in Subs, NEW k \in Nums, SubRuns(s, k)'
               PROVE  (\/ \E p \in procs : p.node = s /\ p.num = k
                       \/ \E d \in Contexts : frame[d].node = s /\ frame[d].num = k
                       \/ \E d \in Contexts : /\ frame[d].op \in {"clear", "fork"}
                                               /\ frame[d].next = s /\ frame[d].new = k)'
    BY DEF InMap
  <2>1. SubRuns(s, k) /\ ~(f.node = s /\ f.num = k)
    BY <1>4
  <2>2. CASE \E p \in procs : p.node = s /\ p.num = k
    BY <1>1, <2>2
  <2>3. CASE \E d \in Contexts : frame[d].node = s /\ frame[d].num = k
    BY <1>3, <2>1, <2>3 DEF f
  <2>4. CASE \E d \in Contexts : frame[d].op \in {"clear", "fork"} /\ frame[d].next = s /\ frame[d].new = k
    BY <1>1, <1>3, <2>4 DEF f
  <2> QED
    BY <2>1, <2>2, <2>3, <2>4 DEF InMap
<1>6. PidsKnown'
  BY <1>1 DEF PidsKnown
<1> QED
  BY <1>5, <1>6

\* The other steps of a frame.
LEMMA FrameFinds ==
  ASSUME OneSequence, IInv, InMap, PidsKnown, NEW c \in Contexts, Frame(c)
  PROVE  InMap' /\ PidsKnown'
<1>1. frame \in [Contexts -> FrameType]
  BY DEF IInv, Types
<1>2. CASE StageEnter(c) \/ StageFork(c) \/ CallbacksDone(c)
  BY <1>2, EnterFinds, ForkFinds, DoneFinds
<1>3. CASE Callback(c)
  <2>1. UNCHANGED <<procs, pidInstance, subInstances>> /\ frame[c].op = "callbacks"
    BY <1>3 DEF Callback, At
  <2>2. \A d \in Contexts : frame'[d].node = frame[d].node /\ frame'[d].num = frame[d].num
    BY <1>1, <1>3 DEF Callback, FrameType
  <2>3. \A d \in Contexts : d # c => frame'[d] = frame[d]
    BY <1>1, <1>3 DEF Callback
  <2> QED
    BY <2>1, <2>2, <2>3, InMapKept
<1>4. CASE ProceedEnds(c) \/ FinishSequence(c) \/ ProceedNext(c) \/ PassFds(c) \/ StageNumber(c)
  <2>1. /\ UNCHANGED <<procs, pidInstance, subInstances>>
        /\ frame[c].op \in {"proceed", "end", "pass", "number"}
    BY <1>4 DEF ProceedEnds, FinishSequence, ProceedNext, PassFds, StageNumber, At
  <2>2. \A d \in Contexts : frame'[d].node = frame[d].node /\ frame'[d].num = frame[d].num
    <3>1. CASE ProceedEnds(c)
      BY <1>1, <3>1 DEF ProceedEnds, FrameType
    <3>2. CASE FinishSequence(c)
      BY <1>1, <3>2 DEF FinishSequence, FrameType
    <3>3. CASE ProceedNext(c)
      BY <1>1, <3>3 DEF ProceedNext, FrameType
    <3>4. CASE PassFds(c)
      BY <1>1, <3>4 DEF PassFds, FrameType
    <3>5. CASE StageNumber(c)
      BY <1>1, <3>5 DEF StageNumber, FrameType
    <3> QED
      BY <1>4, <3>1, <3>2, <3>3, <3>4, <3>5
  <2>3. \A d \in Contexts : d # c => frame'[d] = frame[d]
    BY <1>1, <1>4 DEF ProceedEnds, FinishSequence, ProceedNext, PassFds, StageNumber
  <2> QED
    BY <2>1, <2>2, <2>3, InMapKept
<1>5. CASE CloseFds(c) \/ StageAssign(c)
  <2>1. /\ UNCHANGED <<procs, pidInstance, subInstances>>
        /\ frame[c].op \in {"close", "assign"}
    BY <1>5 DEF CloseFds, StageAssign, At
  <2>2. \A d \in Contexts : frame'[d].node = frame[d].node /\ frame'[d].num = frame[d].num
    BY <1>1, <1>5 DEF CloseFds, StageAssign, FrameType
  <2>3. \A d \in Contexts : d # c => frame'[d] = frame[d]
    BY <1>1, <1>5 DEF CloseFds, StageAssign
  <2> QED
    BY <2>1, <2>2, <2>3, InMapKept
<1>6. CASE StageClear(c)
  <2>1. /\ UNCHANGED <<procs, pidInstance, subInstances>>
        /\ frame' = [frame EXCEPT ![c].op = "fork"]
    BY <1>6 DEF StageClear, node
  <2>2. /\ frame'[c].op = "fork" /\ frame'[c].next = frame[c].next /\ frame'[c].new = frame[c].new
        /\ \A d \in Contexts : frame'[d].node = frame[d].node /\ frame'[d].num = frame[d].num
        /\ \A d \in Contexts : d # c => frame'[d] = frame[d]
    BY <1>1, <2>1 DEF FrameType
  <2> QED
    BY <2>1, <2>2, InMapKept
<1>7. CASE TouchesFreed(c) \/ StageThrows(c)
  BY <1>7, InMapKept DEF TouchesFreed, StageThrows
<1> QED
  BY <1>2, <1>3, <1>4, <1>5, <1>6, <1>7 DEF Frame

LEMMA NotedFrame ==
  ASSUME OneSequence, IInv, CallNoted, NEW c \in Contexts, Frame(c)
  PROVE  CallNoted'
<1>1. CASE UNCHANGED node
  <2>1. call' = call
    BY DEF Frame, Callback, CallbacksDone, ProceedEnds, FinishSequence, ProceedNext, PassFds,
      StageNumber, StageEnter, StageClear, StageFork, CloseFds, StageAssign, TouchesFreed, StageThrows
  <2> QED
    BY <1>1, <2>1 DEF CallNoted, node
<1>2. CASE ProceedEnds(c)
  <2>1. frame[c].seq = 0 /\ sequences' = sequences \ {0} /\ call' = call
    BY <1>2, Goes DEF ProceedEnds, At, Token
  <2> QED
    BY <2>1 DEF CallNoted
<1>3. CASE FinishSequence(c)
  <2>1. frame[c].op = "end" /\ Token(frame[c]) /\ sequences' = sequences /\ call' = call
    BY <1>3 DEF FinishSequence, At, Token
  <2>2. 0 \notin sequences
    BY <2>1, Goes DEF IInv, InHand
  <2> QED
    BY <2>1, <2>2 DEF CallNoted
<1>4. CASE ProceedNext(c) \/ StageAssign(c)
  <2>1. Token(frame[c]) /\ instances' = instances /\ call' = call
    BY <1>4 DEF ProceedNext, StageAssign, At, Token, Starting
  <2>2. 0 \in instances
    BY <2>1, Goes
  <2> QED
    BY <2>1, <2>2 DEF CallNoted
<1> QED
  BY <1>1, <1>2, <1>3, <1>4 DEF Frame, Callback, CallbacksDone, PassFds, StageNumber, StageEnter,
    StageClear, StageFork, CloseFds, TouchesFreed, StageThrows

LEMMA NotedWait ==
  ASSUME OneSequence, IInv, CallNoted, CallWait \/ Wait
  PROVE  CallNoted'
<1>1. UNCHANGED node /\ call \in CallType
  BY DEF CallWait, Wait, IInv, Types
<1>2. CASE CallWait
  BY <1>1, <1>2 DEF CallWait, CallNoted, IdleCall, node
<1>3. CASE Wait
  <2>1. CASE call.op \in {"waitFor", "first", "wait", "waitSub"}
    <3>1. call'.op \notin {"num", "pid", "waitSub"}
      <4>1. CASE call.op = "waitFor"
        BY <1>1, <1>3, <4>1 DEF Wait, WaitSteps, AtCall, IdleCall, CallType
      <4>2. CASE call.op = "first"
        BY <1>1, <1>3, <4>2 DEF Wait, WaitSteps, AtCall, CallType
      <4>3. CASE call.op = "wait"
        <5>1. \/ call' = [call EXCEPT !.op = "node"]
              \/ call' = [call EXCEPT !.op = "waitFor", !.inst = NoInst]
              \/ call' = IdleCall
          BY <1>3, <4>3 DEF Wait, WaitSteps, AtCall
        <5>2. CASE call' = [call EXCEPT !.op = "node"]
          BY <1>1, <5>2 DEF CallType
        <5>3. CASE call' = [call EXCEPT !.op = "waitFor", !.inst = NoInst]
          BY <1>1, <5>3 DEF CallType
        <5>4. CASE call' = IdleCall
          BY <5>4 DEF IdleCall
        <5> QED
          BY <5>1, <5>2, <5>3, <5>4
      <4>4. CASE call.op = "waitSub"
        BY <1>1, <1>3, <4>4 DEF Wait, WaitSteps, AtCall, CallType
      <4> QED
        BY <2>1, <4>1, <4>2, <4>3, <4>4
    <3> QED
      BY <1>1, <3>1 DEF CallNoted, node
  <2>2. CASE call.op \in {"node", "num"}
    <3>1. /\ \A c \in Contexts : frame[c].op = "idle" /\ ~Token(frame[c])
          /\ call.inst \in sequences /\ call.inst = 0
      <4>1. \A c \in Contexts : frame[c].op = "idle"
        BY <1>3, <2>2, Numbers DEF Wait, WaitSteps, AtCall, Runs
      <4>2. call.inst \in sequences
        BY <1>3, <2>2 DEF Wait, WaitSteps, AtCall
      <4> QED
        BY <4>1, <4>2 DEF Token, Starting, IInv, Types
    <3>2. seq[0].node \in Subs /\ seq[0].num \in Nums
      <4>1. CASE 0 \in instances
        <5>1. PICK p \in procs : TRUE
          BY <3>1, <4>1 DEF IInv, InHand
        <5> QED
          BY <3>1, <5>1 DEF IInv, StageKnown, Types, ProcType
      <4>2. CASE 0 \notin instances
        BY <3>1, <4>2 DEF CallNoted
      <4> QED
        BY <4>1, <4>2
    <3>3. CASE call.op = "node"
      <4>1. call' = [call EXCEPT !.op = "num", !.node = seq[0].node]
        BY <1>3, <3>1, <3>3 DEF Wait, WaitSteps, AtCall
      <4>2. call'.op = "num" /\ call'.node = seq[0].node
        BY <1>1, <4>1 DEF CallType
      <4> QED
        BY <1>1, <3>2, <4>2 DEF CallNoted, node
    <3>4. CASE call.op = "num"
      <4>1. call' = [call EXCEPT !.op = "pid", !.num = seq[0].num]
        BY <1>3, <3>1, <3>4 DEF Wait, WaitSteps, AtCall
      <4>2. call'.op = "pid" /\ call'.num = seq[0].num /\ call'.node = call.node
        BY <1>1, <4>1 DEF CallType
      <4> QED
        BY <1>1, <3>2, <3>4, <4>2 DEF CallNoted, node
    <3> QED
      BY <2>2, <3>3, <3>4
  <2>3. CASE call.op = "pid"
    <3>1. PICK id \in Pids \cup {NoPid} : call' = [call EXCEPT !.op = "waitSub", !.pid = id]
      BY <1>3, <2>3 DEF Wait, WaitSteps, AtCall
    <3>2. call'.node = call.node /\ call'.num = call.num
      BY <1>1, <3>1 DEF CallType
    <3> QED
      BY <1>1, <2>3, <3>2 DEF CallNoted, node
  <2> QED
    BY <1>3, <2>1, <2>2, <2>3 DEF Wait, WaitSteps, AtCall
<1> QED
  BY <1>2, <1>3

LEMMA NotedFindsNone ==
  ASSUME OneSequence, IInv, CallNoted, WaitFindsNone
  PROVE  CallNoted'
<1>1. PICK s \in Subs, k \in Nums :
        seq' = [seq EXCEPT ![0] = [stage |-> -1, node |-> s, num |-> k]]
  BY FindsNone
<1>2. seq'[0].node = s /\ seq'[0].num = k
  BY <1>1 DEF IInv, Types
<1> QED
  BY <1>2, FindsNone DEF CallNoted

LEMMA StepFinds ==
  ASSUME OneSequence, IInv, Finds, [Next]_vars
  PROVE  Finds'
<1> USE DEF Finds
<1>1. ASSUME UNCHANGED <<node, procs, pidInstance, subInstances, frame, call>> PROVE Finds'
  BY <1>1, InMapKept DEF CallNoted, node
<1>2. ASSUME NEW p \in procs, Exit(p) PROVE Finds'
  BY <1>2, ExitFinds DEF Exit, CallNoted, node
<1>3. ASSUME NEW p \in procs, HandlerReaps(p) \/ ThreadReaps(p) PROVE Finds'
  <2>1. UNCHANGED <<node, call>>
    BY <1>3, Reaps
  <2> QED
    BY <1>3, <2>1, ReapFinds DEF CallNoted, node
<1>4. ASSUME NEW c \in Contexts, Frame(c) PROVE Finds'
  BY <1>4, FrameFinds, NotedFrame
<1>5. ASSUME NEW files \in SUBSET Files, Startup(files) PROVE Finds'
  <2>1. /\ UNCHANGED <<procs, pidInstance, subInstances, call>> /\ instances' = {0}
        /\ \A c \in Contexts : frame[c].op = "idle" /\ frame[c].node = NoNode
    <3>1. UNCHANGED <<procs, pidInstance, subInstances, call>>
      BY <1>5 DEF Startup
    <3>2. \A c \in Contexts : frame[c].op = "idle"
      BY <1>5, Numbers DEF Startup, AtCall, Runs
    <3>3. \E i \in {0} : instances' = instances \cup {i}
      BY <1>5, Numbers DEF Startup
    <3> QED
      BY <3>1, <3>2, <3>3 DEF IInv, Types, FramesKnown, FrameKnown
  <2>2. InMap'
    BY <2>1, Numbers DEF InMap, SubRuns
  <2>3. PidsKnown' /\ CallNoted'
    BY <2>1 DEF PidsKnown, CallNoted
  <2> QED
    BY <2>2, <2>3
<1>6. ASSUME CallWait \/ Wait PROVE Finds'
  <2>1. UNCHANGED <<procs, pidInstance, subInstances, frame>>
    BY <1>6 DEF CallWait, Wait
  <2> QED
    BY <1>6, <2>1, InMapKept, NotedWait
<1>7. ASSUME WaitFindsNone PROVE Finds'
  <2>1. UNCHANGED <<procs, pidInstance, subInstances, frame>>
    BY <1>7, FindsNone
  <2> QED
    BY <1>7, <2>1, InMapKept, NotedFindsNone
<1>8. ASSUME WaitFindsNoNode \/ StartupFindsEntry \/ UNCHANGED vars PROVE Finds'
  BY <1>1, <1>8 DEF WaitFindsNoNode, StartupFindsEntry, vars
<1> QED
  BY <1>2, <1>3, <1>4, <1>5, <1>6, <1>7, <1>8 DEF Next, Thread, Stopped

LEMMA InitFinds ==
  ASSUME OneSequence, Init
  PROVE  Finds
<1>1. procs = {} /\ sequences = {} /\ call.op = "idle" /\ \A s \in Subs, k \in Nums : ~SubRuns(s, k)
  BY DEF Init, IdleCall, SubRuns
<1> QED
  BY <1>1 DEF Finds, InMap, PidsKnown, CallNoted

LEMMA Invariant == OneSequence => (Spec => [](IInv /\ Finds))
<1> SUFFICES ASSUME OneSequence PROVE Spec => [](IInv /\ Finds)
  OBVIOUS
<1>1. Init => IInv /\ Finds
  BY InitInv, InitFinds
<1>2. IInv /\ Finds /\ [Next]_vars => (IInv /\ Finds)'
  BY StepInv, StepFinds
<1> QED
  BY <1>1, <1>2, PTL DEF Spec

-----------------------------------------------------------------------------
(* The properties *)

\* The variables have their types, in every run with one sequence at a time.
THEOREM TypeCorrect == OneSequence => (Spec => []TypeOK)
<1> SUFFICES ASSUME OneSequence PROVE Spec => []TypeOK
  OBVIOUS
<1>1. ASSUME IInv PROVE TypeOK
  <2>1. Inst = {0} /\ Handlers = {<<>>, <<0>>}
    <3>1. Inst = {0} /\ MaxInst = 1
      BY Numbers DEF OneSequence
    <3>2. [1 .. 0 -> {0}] = {<<>>}
      <4>1. \A f \in [1 .. 0 -> {0}] : f = [j \in 1 .. 0 |-> 0]
        OBVIOUS
      <4>2. <<>> \in [1 .. 0 -> {0}]
        OBVIOUS
      <4> QED
        BY <4>1, <4>2
    <3>3. [1 .. 1 -> {0}] = {<<0>>}
      OBVIOUS
    <3>4. 0 .. 1 = {0, 1}
      OBVIOUS
    <3> QED
      BY <3>1, <3>2, <3>3, <3>4 DEF Handlers
  <2>2. Types
    BY <1>1 DEF IInv
  <2> QED
    BY <2>1, <2>2 DEF TypeOK, Types, SeqType, ProcType, FrameType, CallType
<1> QED
  BY <1>1, Invariant, PTL

\* The programs of a sequence run one after the other, each in its turn: the
\* next is started only when the last has been reaped (SequenceNode.cxx:41-55).
THEOREM InTurn == OneSequence => (Spec => []OneAfterTheOther)
<1> SUFFICES ASSUME OneSequence PROVE Spec => []OneAfterTheOther
  OBVIOUS
<1>1. ASSUME IInv PROVE OneAfterTheOther
  BY <1>1 DEF IInv, Types, ProcType, OneHand, StageKnown, OneAfterTheOther
<1> QED
  BY <1>1, Invariant, PTL

\* A sequence that has not ended is never dropped: the thread or the handler is at
\* it, or a process that will continue it and that a wait finds (SequenceNode.cxx:50-52).
THEOREM NeverDropped == OneSequence => (Spec => []CarriedOn)
<1> SUFFICES ASSUME OneSequence PROVE Spec => []CarriedOn
  OBVIOUS
<1>1. ASSUME IInv PROVE CarriedOn
  <2> SUFFICES ASSUME 0 \in instances, \A c \in Contexts : ~Handles(c, 0)
               PROVE  /\ 0 \in sequences
                      /\ \E p \in procs : /\ p.seq = 0
                                          /\ subInstances[p.node][p.num] = <<0>>
                                          /\ seq[0].node = p.node /\ seq[0].num = p.num
    <3>1. \A i \in instances : i = 0
      BY <1>1 DEF IInv, Types
    <3> QED
      BY <3>1 DEF CarriedOn
  <2>1. \A c \in Contexts : ~Token(frame[c]) /\ frame[c].op \notin {"end", "close", "assign"}
    <3> SUFFICES ASSUME NEW c \in Contexts PROVE ~Token(frame[c])
      BY DEF Token, Starting
    <3>1. frame[c].seq # 0
      BY DEF Handles
    <3>2. frame[c].todo # <<0>>
      BY DEF Handles
    <3> QED
      BY <1>1, <3>1, <3>2 DEF IInv, FramesKnown, FrameKnown, Token
  <2>2. 0 \in sequences /\ procs # {}
    BY <1>1, <2>1 DEF IInv, InHand
  <2>3. PICK p \in procs : TRUE
    BY <2>2
  <2>4. p.seq = 0 /\ seq[0].node = p.node /\ seq[0].num = p.num
    BY <1>1, <2>1 DEF IInv, Types, ProcType, StageKnown
  <2>5. subInstances[p.node][p.num] = <<0>>
    BY <1>1 DEF IInv, Types, ProcType, Entries, SubRuns
  <2> QED
    BY <2>2, <2>4, <2>5
<1> QED
  BY <1>1, Invariant, PTL

\* All programs of a sequence have what was linked for it, and nothing that is left
\* of another one; nothing of it stays linked (SequenceNode.cxx:51, Node.cxx:147).
THEOREM HandlesShared == OneSequence => (Spec => []SameHandles)
<1> SUFFICES ASSUME OneSequence PROVE Spec => []SameHandles
  OBVIOUS
<1>1. ASSUME IInv PROVE SameHandles
  <2>1. \A p \in procs : p.fds = given[p.seq]
    BY <1>1 DEF IInv, LinksKnown, Types, ProcType
  <2>2. \A i \in Inst \ sequences : held[i] = {}
    BY <1>1, Numbers DEF IInv, LinksKnown
  <2>3. ASSUME \A c \in Contexts : frame[c].op = "idle", NEW n \in Subs \cup {Self}
        PROVE  fdMap[n] = {}
    BY <1>1, <2>3, Numbers DEF IInv, LinksKnown, Passing
  <2> QED
    BY <2>1, <2>2, <2>3 DEF SameHandles
<1> QED
  BY <1>1, Invariant, PTL


-----------------------------------------------------------------------------
(* The promise of Node *)

\* Something of the sequence executes, or will be started.
AtProceed(f) == f.op = "proceed" \/ (f.op = "callbacks" /\ f.todo = <<0>>)
Executes ==
  \/ \E c \in Contexts : frame[c].op \in {"pass", "number", "enter", "clear", "fork"}
  \/ \E c \in Contexts : AtProceed(frame[c]) /\ MoreToRun(0, frame[c].ret)
  \/ \E p \in procs : p.st = "alive" \/ MoreToRun(0, RetVal(p))

LiveKnown == Live = IF Executes THEN {0} ELSE {}

LEMMA LiveIs == OneSequence => (IInv => LiveKnown)
<1> SUFFICES ASSUME OneSequence, IInv PROVE LiveKnown
  OBVIOUS
<1>1. Live \in SUBSET {0}
  BY DEF Live, IInv, Types
<1>2. ASSUME Executes PROVE 0 \in instances
  BY <1>2 DEF Executes, AtProceed, IInv, InHand, Token, Starting
<1>3. \A c \in Contexts : frame[c].op \in {"pass", "number", "enter", "clear", "fork"} => frame[c].seq = 0
  BY DEF IInv, FramesKnown, FrameKnown, Starting
<1>4. \A c \in Contexts :
        Handles(c, 0) /\ frame[c].op \in {"proceed", "callbacks"} <=> AtProceed(frame[c])
  <2> SUFFICES ASSUME NEW c \in Contexts
               PROVE  Handles(c, 0) /\ frame[c].op \in {"proceed", "callbacks"} <=> AtProceed(frame[c])
    OBVIOUS
  <2>1. frame[c].todo \in {<<>>, <<0>>} /\ FrameKnown(c, frame[c])
    BY DEF IInv, Types, FrameType, FramesKnown
  <2>2. (\E j \in DOMAIN frame[c].todo : frame[c].todo[j] = 0) <=> frame[c].todo = <<0>>
    BY <2>1
  <2> QED
    BY <2>1, <2>2, Numbers DEF Handles, AtProceed, FrameKnown, Starting
<1>5. \A p \in procs : p.seq = 0
  BY DEF IInv, Types, ProcType
<1>6. 0 \in Live <=> Executes
  BY <1>2, <1>3, <1>4, <1>5 DEF Live, WillStart, Executes
<1> QED
  BY <1>1, <1>6 DEF LiveKnown

\* With the sequence in the hands of c, only the frame of c and the process count;
\* in nobody's, only the process.
ProgramRuns == \E p \in procs : p.st = "alive" \/ MoreToRun(0, RetVal(p))
ExecutesAt(c) ==
  \/ frame[c].op \in {"pass", "number", "enter", "clear", "fork"}
  \/ AtProceed(frame[c]) /\ MoreToRun(0, frame[c].ret)
  \/ ProgramRuns

OnlyAt == \A c \in Contexts : Token(frame[c]) => (Executes <=> ExecutesAt(c))
OnlyProgram == (\A c \in Contexts : ~Token(frame[c])) => (Executes <=> ProgramRuns)

LEMMA ExecutesOnly == OneSequence => (IInv => OnlyAt /\ OnlyProgram)
<1> SUFFICES ASSUME OneSequence, IInv PROVE OnlyAt /\ OnlyProgram
  OBVIOUS
<1>1. \A c \in Contexts : ~Token(frame[c]) =>
        /\ frame[c].op \notin {"pass", "number", "enter", "clear", "fork"}
        /\ ~AtProceed(frame[c])
  BY DEF Token, AtProceed, Starting
<1>2. OnlyProgram
  BY <1>1 DEF OnlyProgram, Executes, ProgramRuns
<1>3. OnlyAt
  <2> SUFFICES ASSUME NEW c \in Contexts, Token(frame[c]) PROVE Executes <=> ExecutesAt(c)
    BY DEF OnlyAt
  <2>1. \A d \in Contexts : d # c => ~Token(frame[d])
    BY Goes
  <2> QED
    BY <1>1, <2>1 DEF Executes, ExecutesAt, ProgramRuns
<1> QED
  BY <1>2, <1>3

\* A step of the node that completes nothing and starts no sequence goes on with
\* what executes.
LEMMA FrameExecutes ==
  ASSUME OneSequence, IInv, (OnlyAt /\ OnlyProgram)', NEW c \in Contexts, Frame(c), ~FinishSequence(c)
  PROVE  instances' = instances /\ (Executes' <=> Executes)
<1>1. OnlyAt /\ OnlyProgram
  BY ExecutesOnly
<1>2. frame \in [Contexts -> FrameType] /\ frame[c] \in FrameType
  BY DEF IInv, Types
<1>3. CASE Callback(c)
  <2>1. frame[c].todo = <<0>> /\ frame[c].op = "callbacks"
    BY <1>2, <1>3 DEF Callback, At, FrameType
  <2>2. frame'[c].op = "proceed" /\ frame'[c].ret = frame[c].ret
    BY <1>2, <1>3 DEF Callback, FrameType
  <2>3. Token(frame[c]) /\ Token(frame[c])'
    BY <2>1, <2>2 DEF Token
  <2>4. UNCHANGED <<node, procs>>
    BY <1>3 DEF Callback
  <2>5. ExecutesAt(c)' <=> ExecutesAt(c)
    BY <2>1, <2>2, <2>4 DEF ExecutesAt, AtProceed, ProgramRuns, MoreToRun, RetVal, node
  <2> QED
    BY <1>1, <2>3, <2>4, <2>5 DEF OnlyAt, node
<1>4. CASE ProceedEnds(c)
  <2>1. /\ frame[c].op = "proceed" /\ frame'[c].op = "end" /\ Ends(frame[c].seq, frame[c].ret)
        /\ procs' = procs /\ instances' = instances
    BY <1>2, <1>4 DEF ProceedEnds, At, FrameType
  <2>2. Token(frame[c]) /\ Token(frame[c])'
    BY <2>1 DEF Token
  <2>3. procs = {} /\ frame[c].seq = 0
    BY <2>1, <2>2, Goes
  <2>4. seq[0].stage \in Int
    BY DEF IInv, Types, SeqType
  <2>5. ~ExecutesAt(c)
    BY <2>1, <2>3, <2>4 DEF ExecutesAt, AtProceed, ProgramRuns, MoreToRun, Ends
  <2>6. ~ExecutesAt(c)'
    BY <2>1, <2>3 DEF ExecutesAt, AtProceed, ProgramRuns
  <2> QED
    BY <1>1, <2>1, <2>2, <2>5, <2>6 DEF OnlyAt
<1>5. CASE ProceedNext(c)
  <2>1. /\ frame[c].op = "proceed" /\ frame'[c].op = "pass" /\ ~Ends(frame[c].seq, frame[c].ret)
        /\ instances' = instances
    BY <1>2, <1>5 DEF ProceedNext, At, FrameType
  <2>2. Token(frame[c]) /\ Token(frame[c])'
    BY <2>1 DEF Token, Starting
  <2>3. frame[c].seq = 0 /\ seq[0].stage \in Int
    BY <2>1, <2>2, Goes DEF IInv, Types, SeqType
  <2>4. ExecutesAt(c) /\ ExecutesAt(c)'
    BY <2>1, <2>3 DEF ExecutesAt, AtProceed, MoreToRun, Ends
  <2> QED
    BY <1>1, <2>1, <2>2, <2>4 DEF OnlyAt
<1>6. CASE PassFds(c) \/ StageNumber(c) \/ StageEnter(c) \/ StageClear(c)
  <2>1. /\ frame[c].op \in {"pass", "number", "enter", "clear"}
        /\ frame'[c].op \in {"number", "enter", "clear", "fork"}
        /\ instances' = instances
    BY <1>2, <1>6 DEF PassFds, StageNumber, StageEnter, StageClear, At, FrameType, node
  <2> QED
    BY <1>1, <2>1 DEF OnlyAt, ExecutesAt, Token, Starting
<1>7. CASE StageFork(c)
  <2>4. PICK id \in Pids :
          procs' = procs \cup {[node |-> frame[c].next, num |-> frame[c].new, pid |-> id,
                                 seq |-> frame[c].seq, fds |-> fdMap[frame[c].next], st |-> "alive"]}
    BY <1>7 DEF StageFork
  <2> DEFINE q == [node |-> frame[c].next, num |-> frame[c].new, pid |-> id, seq |-> frame[c].seq,
                   fds |-> fdMap[frame[c].next], st |-> "alive"]
  <2>1. /\ frame[c].op = "fork" /\ frame'[c].op = "close" /\ instances' = instances
        /\ q \in procs'
    BY <1>2, <1>7, <2>4 DEF StageFork, At, FrameType, node
  <2>3. q.st = "alive"
    OBVIOUS
  <2> HIDE DEF q
  <2>2. \E p \in procs' : p.st = "alive"
    BY <2>1, <2>3
  <2> QED
    BY <1>1, <2>1, <2>2 DEF OnlyAt, ExecutesAt, ProgramRuns, Token, Starting
<1>8. CASE CloseFds(c)
  <2>1. /\ frame[c].op = "close" /\ frame'[c].op = "assign" /\ instances' = instances
        /\ procs' = procs
    BY <1>2, <1>8 DEF CloseFds, At, FrameType, node
  <2>2. \E p \in procs : p.st = "alive"
    BY <2>1 DEF IInv, OneHand
  <2> QED
    BY <1>1, <2>1, <2>2 DEF OnlyAt, ExecutesAt, ProgramRuns, Token, Starting
<1>9. CASE StageAssign(c)
  <2>1. /\ frame[c].op = "assign" /\ frame[c].todo = <<>>
        /\ frame'[c].op = "callbacks" /\ frame'[c].todo = frame[c].todo
        /\ instances' = instances /\ procs' = procs
        /\ \A d \in Contexts : d # c => frame'[d] = frame[d]
    BY <1>2, <1>9, Goes DEF StageAssign, At, FrameType, Token, Starting
  <2>2. Token(frame[c])
    BY <2>1 DEF Token, Starting
  <2>3. \A d \in Contexts : ~Token(frame'[d])
    BY <2>1, <2>2, Goes, Numbers DEF Token, Starting
  <2>4. \E p \in procs : p.st = "alive"
    BY <2>1 DEF IInv, OneHand
  <2> QED
    BY <1>1, <2>1, <2>2, <2>3, <2>4 DEF OnlyAt, OnlyProgram, ExecutesAt, ProgramRuns
<1>10. CASE CallbacksDone(c)
  <2>1. /\ frame[c].op = "callbacks" /\ frame[c].todo = <<>> /\ frame'[c].op = "idle"
        /\ UNCHANGED <<node, procs>>
        /\ \A d \in Contexts : d # c => frame'[d] = frame[d]
    BY <1>2, <1>10 DEF CallbacksDone, At, IdleFrame
  <2>2. \A d \in Contexts : /\ ~AtProceed(frame[c]) /\ ~AtProceed(frame[c])'
                            /\ d # c => frame'[d] = frame[d]
    BY <2>1, Numbers DEF AtProceed
  <2> QED
    BY <2>1, <2>2 DEF Executes, AtProceed, MoreToRun, RetVal, node
<1>11. CASE TouchesFreed(c) \/ StageThrows(c)
  <2>1. UNCHANGED <<node, procs, frame>>
    BY <1>11 DEF TouchesFreed, StageThrows
  <2> QED
    BY <2>1 DEF Executes, AtProceed, MoreToRun, RetVal, node
<1> QED
  BY <1>3, <1>4, <1>5, <1>6, <1>7, <1>8, <1>9, <1>10, <1>11 DEF Frame


\* Collecting the process changes nothing of it: what it has returned is in the frame.
LEMMA ReapExecutes ==
  ASSUME OneSequence, IInv, Finds, (OnlyAt /\ OnlyProgram)', NEW p \in procs,
         HandlerReaps(p) \/ ThreadReaps(p)
  PROVE  instances' = instances /\ (Executes' <=> Executes)
<1>1. PICK c \in Contexts :
        /\ frame[c].op = "idle" /\ p.st # "alive"
        /\ frame' = [frame EXCEPT ![c] = Finishing(p.node, p.num, RetVal(p))]
        /\ procs' = procs \ {p} /\ UNCHANGED node
  BY Reaps
<1>2. procs = {p} /\ procs' = {} /\ frame \in [Contexts -> FrameType]
  BY <1>1 DEF IInv, Types, OneHand
<1>3. SubRuns(p.node, p.num) /\ subInstances[p.node][p.num] = <<0>>
  BY DEF IInv, Entries, SubRuns, Types, ProcType
<1> DEFINE r == Finishing(p.node, p.num, RetVal(p))
<1>4. r.op = "callbacks" /\ r.todo = <<0>> /\ r.ret = RetVal(p)
  BY <1>3 DEF Finishing, IdleFrame
<1> HIDE DEF r
<1>5. frame'[c].op = "callbacks" /\ frame'[c].todo = <<0>> /\ frame'[c].ret = RetVal(p)
  BY <1>1, <1>2, <1>4 DEF r
<1>6. \A d \in Contexts : ~Token(frame[d])
  <2>1. \A d \in Contexts : frame[d].op \notin {"close", "assign"}
    BY <1>1, <1>2 DEF IInv, OneHand
  <2> QED
    BY <1>2, <2>1 DEF IInv, OneHand
<1>7. Executes <=> MoreToRun(0, RetVal(p))
  <2>1. OnlyProgram
    BY ExecutesOnly
  <2> QED
    BY <1>1, <1>2, <1>6, <2>1 DEF OnlyProgram, ProgramRuns
<1>8. Executes' <=> MoreToRun(0, RetVal(p))
  <2>1. Token(frame'[c])
    BY <1>5 DEF Token
  <2>2. ExecutesAt(c)' <=> MoreToRun(0, RetVal(p))
    BY <1>1, <1>2, <1>5 DEF ExecutesAt, AtProceed, ProgramRuns, MoreToRun, node
  <2> QED
    BY <2>1, <2>2 DEF OnlyAt
<1> QED
  BY <1>1, <1>7, <1>8 DEF node

\* A process that exits may be the last: nothing else executes.
LEMMA ExitExecutes ==
  ASSUME OneSequence, IInv, NEW p \in procs, Exit(p)
  PROVE  instances' = instances /\ Executes
<1>1. instances' = instances /\ p.st = "alive"
  BY DEF Exit, node
<1> QED
  BY <1>1 DEF Executes

\* The sequence is declared complete when nothing of it executes.
LEMMA FinishExecutes ==
  ASSUME OneSequence, IInv, (OnlyAt /\ OnlyProgram)', NEW c \in Contexts, FinishSequence(c)
  PROVE  instances = {0} /\ instances' = {} /\ ~Executes /\ ~Executes'
<1>1. frame[c].op = "end" /\ Token(frame[c])
  BY DEF FinishSequence, At, Token
<1>2. procs = {} /\ frame[c].seq = 0 /\ frame[c].todo = <<>> /\ frame \in [Contexts -> FrameType]
  BY <1>1, Goes DEF IInv, Types
<1>3. instances = {0} /\ instances' = {} /\ procs' = procs
  BY <1>1, <1>2, Goes DEF FinishSequence, IInv, Types
<1>4. /\ frame'[c].op = "callbacks" /\ frame'[c].todo = <<>>
      /\ \A d \in Contexts : d # c => frame'[d] = frame[d]
  BY <1>2 DEF FinishSequence, FrameType
<1>5. \A d \in Contexts : ~Token(frame'[d])
  BY <1>1, <1>4, Goes, Numbers DEF Token, Starting
<1>6. ~Executes
  BY <1>1, <1>2, ExecutesOnly DEF OnlyAt, ExecutesAt, AtProceed, ProgramRuns
<1>7. ~Executes'
  BY <1>2, <1>3, <1>5 DEF OnlyProgram, ProgramRuns
<1> QED
  BY <1>3, <1>6, <1>7

\* A sequence with a stage executes from its start.
LEMMA StartupExecutes ==
  ASSUME OneSequence, Order # <<>>, IInv, NEW files \in SUBSET Files, Startup(files)
  PROVE  instances = {} /\ instances' = {0} /\ call' = call /\ ~Executes /\ Executes'
<1>1. PICK i \in Inst :
        /\ i \notin instances /\ instances' = instances \cup {i}
        /\ seq' = [seq EXCEPT ![i] = NewSeq]
        /\ frame' = [frame EXCEPT !["thread"] = [IdleFrame EXCEPT !.op = "proceed", !.seq = i]]
        /\ call' = call
  BY DEF Startup, IsNextInst
<1>2. i = 0 /\ "thread" \in Contexts
  BY Numbers
<1>3. /\ instances = {} /\ frame \in [Contexts -> FrameType] /\ seq \in [{0} -> SeqType]
  BY <1>1, <1>2 DEF IInv, Types
<1>4. ~Executes
  BY <1>3 DEF IInv, InHand, Executes, AtProceed, Token, Starting
<1>5. seq'[0].stage = -1
  BY <1>1, <1>2, <1>3, <1>4 DEF NewSeq
<1>6. frame'["thread"].op = "proceed" /\ frame'["thread"].ret = 0
  BY <1>1, <1>2, <1>3 DEF IdleFrame
<1>7. Len(Order) > 0
  OBVIOUS
<1>8. Executes'
  BY <1>2, <1>5, <1>6, <1>7 DEF Executes, AtProceed, MoreToRun
<1> QED
  BY <1>1, <1>2, <1>3, <1>4, <1>8



\* A wait for all instances is one until it returns.
CallKnown == call.op \in {"waitFor", "first"} => call.all

\* The steps of a wait: it returns, or goes on with what it waits for.
LEMMA WaitGoesOn ==
  ASSUME call \in CallType, CallKnown, Wait
  PROVE  \/ call' = IdleCall
         \/ /\ call'.op \in Waits /\ call'.all = call.all /\ (~call.all => call'.inst = call.inst)
            /\ CallKnown'
<1>1. WaitSteps
  BY DEF Wait
<1>2. CASE call.op = "waitFor"
  BY <1>1, <1>2 DEF WaitSteps, AtCall, CallKnown, CallType, Waits
<1>3. CASE call.op = "first"
  <2>1. PICK i \in Inst : call' = [call EXCEPT !.op = "wait", !.inst = i]
    BY <1>1, <1>3 DEF WaitSteps, AtCall
  <2>2. call'.op = "wait" /\ call'.all = call.all
    BY <2>1 DEF CallType
  <2> QED
    BY <1>3, <2>2 DEF CallKnown, Waits
<1>4. CASE call.op = "wait" /\ call.inst \in instances
  <2>1. call' = [call EXCEPT !.op = "node"]
    BY <1>1, <1>4 DEF WaitSteps, AtCall
  <2> QED
    BY <2>1 DEF CallKnown, CallType, Waits
<1>5. CASE call.op = "wait" /\ call.inst \notin instances /\ call.all
  <2>1. call' = [call EXCEPT !.op = "waitFor", !.inst = NoInst]
    BY <1>1, <1>5 DEF WaitSteps, AtCall
  <2>2. call'.op = "waitFor" /\ call'.all = call.all
    BY <2>1 DEF CallType
  <2> QED
    BY <1>5, <2>2 DEF CallKnown, Waits
<1>6. CASE call.op = "wait" /\ call.inst \notin instances /\ ~call.all
  BY <1>1, <1>6 DEF WaitSteps, AtCall
<1>7. CASE call.op = "node"
  <2>1. call' = [call EXCEPT !.op = "num", !.node = seq[call.inst].node]
    BY <1>1, <1>7 DEF WaitSteps, AtCall
  <2> QED
    BY <2>1 DEF CallKnown, CallType, Waits
<1>8. CASE call.op = "num"
  <2>1. call' = [call EXCEPT !.op = "pid", !.num = seq[call.inst].num]
    BY <1>1, <1>8 DEF WaitSteps, AtCall
  <2> QED
    BY <2>1 DEF CallKnown, CallType, Waits
<1>9. CASE call.op = "waitSub"
  <2>1. call' = [call EXCEPT !.op = "wait", !.node = NoNode, !.num = NoInst, !.pid = NoPid]
    BY <1>1, <1>9 DEF WaitSteps, AtCall
  <2> QED
    BY <2>1 DEF CallKnown, CallType, Waits
<1>10. CASE call.op = "pid"
  <2>1. PICK id \in Pids \cup {NoPid} : call' = [call EXCEPT !.op = "waitSub", !.pid = id]
    BY <1>1, <1>10 DEF WaitSteps, AtCall
  <2> QED
    BY <2>1 DEF CallKnown, CallType, Waits
<1> QED
  BY <1>1, <1>2, <1>3, <1>4, <1>5, <1>6, <1>7, <1>8, <1>9, <1>10 DEF WaitSteps, AtCall

LEMMA CallStep ==
  ASSUME OneSequence, IInv, CallKnown, [Next]_vars
  PROVE  CallKnown'
<1>1. ASSUME UNCHANGED call PROVE CallKnown'
  BY <1>1 DEF CallKnown
<1>2. ASSUME CallWait \/ Wait PROVE CallKnown'
  <2>1. call \in CallType
    BY DEF IInv, Types
  <2> QED
    <3>1. CASE CallWait
      BY <3>1 DEF CallWait, CallKnown, IdleCall
    <3>2. CASE Wait
      <4>1. CASE call' = IdleCall
        BY <4>1 DEF CallKnown, IdleCall
      <4> QED
        BY <2>1, <3>2, <4>1, WaitGoesOn
    <3> QED
      BY <1>2, <3>1, <3>2
<1>3. CASE CallWait \/ Wait
  BY <1>2, <1>3
<1>4. CASE ~(CallWait \/ Wait)
  <2>1. ASSUME NEW c \in Contexts, Frame(c) PROVE UNCHANGED call
    BY <2>1 DEF Frame, Callback, CallbacksDone, ProceedEnds, FinishSequence, ProceedNext, PassFds,
      StageNumber, StageEnter, StageClear, StageFork, CloseFds, StageAssign, TouchesFreed, StageThrows
  <2> QED
    BY <1>1, <1>4, <2>1 DEF Next, Thread, Stopped, vars, Exit, HandlerReaps, ThreadReaps, ReapProcess,
      Startup, StartupFindsEntry, WaitFindsNone, WaitFindsNoNode
<1> QED
  BY <1>3, <1>4

\* What a wait does is what Contract says: it begins, it goes on, it ends with
\* what it waits for.
LEMMA WaitRefines ==
  ASSUME OneSequence, IInv, CallKnown, CallWait \/ Wait, Live' = Live
  PROVE  [Contract!Next]_(Contract!vars)
<1>1. call \in CallType /\ Inst = {0} /\ instances' = instances /\ Self # NoNode
  BY Numbers DEF IInv, Types, CallWait, Wait, node
<1>2. CASE CallWait
  <2>1. Waiting = Contract!NotWaiting
    BY <1>2 DEF CallWait, AtCall, Waiting, Waits, Contract!NotWaiting, Contract!AllInst
  <2>2. \/ Waiting' = [node |-> Self, inst |-> Contract!AllInst]
        \/ Waiting' = [node |-> Self, inst |-> 0]
    BY <1>1, <1>2 DEF CallWait, IdleCall, Waiting, Waits, Contract!AllInst
  <2>3. Contract!BeginWait(Self, Contract!AllInst) \/ Contract!BeginWait(Self, 0)
    BY <1>1, <2>1, <2>2 DEF Contract!BeginWait
  <2> QED
    BY <1>1, <2>3 DEF Contract!Next
<1>3. CASE Wait
  <2>1. call.op \in Waits
    BY <1>3 DEF Wait, WaitSteps, AtCall, Waits
  <2>2. Waiting = [node |-> Self, inst |-> IF call.all THEN -2 ELSE call.inst]
    BY <2>1 DEF Waiting
  <2>3. CASE call'.op \in Waits
    <3>1. call'.all = call.all /\ (~call.all => call'.inst = call.inst)
      BY <1>1, <1>3, <2>3, WaitGoesOn DEF IdleCall, Waits
    <3>2. Waiting' = Waiting
      BY <1>1, <2>2, <2>3, <3>1 DEF Waiting, CallType
    <3> QED
      BY <1>1, <3>2 DEF Contract!vars
  <2>4. CASE call'.op \notin Waits
    <3>1. IF call.all THEN instances = {} ELSE call.inst \notin instances
      BY <1>1, <1>3, <2>4 DEF Wait, WaitSteps, CallKnown, CallType, Waits
    <3>2. Waiting' = Contract!NotWaiting
      BY <2>4 DEF Waiting, Contract!NotWaiting, Contract!AllInst
    <3>3. call.inst # -2
      BY <1>1 DEF CallType, NoInst
    <3>4. Contract!EndWait
      BY <1>1, <2>2, <3>1, <3>2, <3>3 DEF Contract!EndWait, Contract!NotWaiting, Contract!AllInst
    <3> QED
      BY <3>4 DEF Contract!Next
  <2> QED
    BY <2>3, <2>4
<1> QED
  BY <1>2, <1>3

LEMMA Stutters ==
  ASSUME instances' = instances, Live' = Live, call' = call
  PROVE  [Contract!Next]_(Contract!vars)
<1>1. Waiting' = Waiting
  BY DEF Waiting
<1> QED
  BY <1>1 DEF Contract!vars

\* Every step of the sequence node is one that Contract allows, or none of it.
LEMMA StepRefines ==
  ASSUME OneSequence, Order # <<>>, IInv, Finds, CallKnown, (OnlyAt /\ OnlyProgram)', LiveKnown',
         [Next]_vars
  PROVE  [Contract!Next]_(Contract!vars)
<1>1. LiveKnown /\ Inst = {0}
  BY LiveIs, Numbers
<1>2. ASSUME instances' = instances, call' = call, Executes' <=> Executes
      PROVE  [Contract!Next]_(Contract!vars)
  <2>1. Live' = Live
    BY <1>1, <1>2 DEF LiveKnown
  <2> QED
    BY <1>2, <2>1, Stutters
<1>3. ASSUME UNCHANGED <<node, procs, frame>> PROVE instances' = instances /\ (Executes' <=> Executes)
  BY <1>3 DEF node, Executes, AtProceed, MoreToRun, RetVal
<1>4. ASSUME NEW p \in procs, Exit(p) PROVE [Contract!Next]_(Contract!vars)
  <2>1. instances' = instances /\ call' = call /\ Executes
    BY <1>4, ExitExecutes DEF Exit
  <2>2. CASE Executes'
    BY <1>2, <2>1, <2>2
  <2>3. CASE ~Executes'
    <3>1. Live = {0} /\ Live' = {} /\ Waiting' = Waiting
      BY <1>1, <2>1, <2>3 DEF LiveKnown, Waiting
    <3>2. Contract!Exit(Self, 0)
      BY <2>1, <3>1 DEF Contract!Exit
    <3> QED
      BY <1>1, <3>2 DEF Contract!Next
  <2> QED
    BY <2>2, <2>3
<1>5. ASSUME NEW p \in procs, HandlerReaps(p) \/ ThreadReaps(p)
      PROVE  [Contract!Next]_(Contract!vars)
  BY <1>2, <1>5, ReapExecutes DEF HandlerReaps, ThreadReaps, ReapProcess
<1>6. ASSUME NEW c \in Contexts, FinishSequence(c) PROVE [Contract!Next]_(Contract!vars)
  <2>1. instances = {0} /\ instances' = {} /\ ~Executes /\ ~Executes'
    BY <1>6, FinishExecutes
  <2>2. Live = {} /\ Live' = {} /\ Waiting' = Waiting
    BY <1>1, <1>6, <2>1 DEF LiveKnown, Waiting, FinishSequence
  <2>3. Contract!Complete(Self, 0)
    BY <2>1, <2>2 DEF Contract!Complete
  <2> QED
    BY <1>1, <2>3 DEF Contract!Next
<1>7. ASSUME NEW c \in Contexts, Frame(c), ~FinishSequence(c) PROVE [Contract!Next]_(Contract!vars)
  <2>1. call' = call
    BY <1>7 DEF Frame, Callback, CallbacksDone, ProceedEnds, ProceedNext, PassFds,
      StageNumber, StageEnter, StageClear, StageFork, CloseFds, StageAssign, TouchesFreed, StageThrows
  <2> QED
    BY <1>2, <1>7, <2>1, FrameExecutes
<1>8. ASSUME NEW files \in SUBSET Files, Startup(files) PROVE [Contract!Next]_(Contract!vars)
  <2>1. instances = {} /\ instances' = {0} /\ call' = call /\ ~Executes /\ Executes'
    BY <1>8, StartupExecutes
  <2>2. Live = {} /\ Live' = {0} /\ Waiting' = Waiting
    BY <1>1, <2>1 DEF LiveKnown, Waiting
  <2>3. Contract!Start(Self, 0)
    BY <2>1, <2>2 DEF Contract!Start
  <2> QED
    BY <1>1, <2>3 DEF Contract!Next
<1>9. ASSUME CallWait \/ Wait PROVE [Contract!Next]_(Contract!vars)
  <2>1. Live' = Live
    BY <1>1, <1>3, <1>9 DEF LiveKnown, CallWait, Wait
  <2> QED
    BY <1>9, <2>1, WaitRefines
<1>10. ASSUME WaitFindsNoNode \/ StartupFindsEntry \/ UNCHANGED vars
       PROVE  [Contract!Next]_(Contract!vars)
  <2>1. UNCHANGED <<node, procs, frame>> /\ call' = call
    BY <1>10 DEF WaitFindsNoNode, StartupFindsEntry, vars
  <2> QED
    BY <1>2, <1>3, <2>1
<1>11. ASSUME WaitFindsNone PROVE [Contract!Next]_(Contract!vars)
  <2>1. /\ instances = {} /\ instances' = {} /\ procs = {} /\ \A c \in Contexts : frame[c].op = "idle"
        /\ UNCHANGED <<procs, frame, call>>
    BY <1>11, FindsNone
  <2>2. ~Executes /\ ~Executes'
    BY <2>1 DEF Executes, AtProceed
  <2> QED
    BY <1>2, <2>1, <2>2
<1> QED
  BY <1>4, <1>5, <1>6, <1>7, <1>8, <1>9, <1>10, <1>11 DEF Next, Thread, Stopped

\* With one sequence at a time, of at least one stage, a sequence node keeps the
\* promise of Node: an instance completes only when its last program has ended or one
\* has failed that no other follows, and a wait for it returns only then.
THEOREM KeepsContract == OneSequence /\ Order # <<>> => (Spec => ImplementsContract)
<1> SUFFICES ASSUME OneSequence, Order # <<>> PROVE Spec => ImplementsContract
  OBVIOUS
<1>1. Init => Contract!Init /\ CallKnown
  <2> SUFFICES ASSUME Init PROVE Contract!Init /\ CallKnown
    OBVIOUS
  <2>1. instances = {} /\ call = IdleCall
    BY DEF Init
  <2>2. Live = {}
    BY <2>1 DEF Live
  <2> QED
    BY <2>1, <2>2 DEF IdleCall, CallKnown, Waiting, Waits, Contract!Init, Contract!NotWaiting,
      Contract!AllInst
<1>2. IInv => LiveKnown /\ OnlyAt /\ OnlyProgram
  BY LiveIs, ExecutesOnly
<1>3. IInv /\ CallKnown /\ [Next]_vars => CallKnown'
  BY CallStep
<1>4. IInv /\ Finds /\ CallKnown /\ (OnlyAt /\ OnlyProgram)' /\ LiveKnown' /\ [Next]_vars =>
        [Contract!Next]_(Contract!vars)
  BY StepRefines
<1>5. Spec => [](IInv /\ Finds)
  BY Invariant
<1> QED
  BY <1>1, <1>2, <1>3, <1>4, <1>5, PTL DEF Spec, ImplementsContract, Contract!Spec
=============================================================================
