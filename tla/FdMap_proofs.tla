---------------------------- MODULE FdMap_proofs ----------------------------
(***************************************************************************)
(* Proofs about FdMap, for any number of threads, nodes, files and         *)
(* descriptors: type correctness, and the claim of linkFd's comment that   *)
(* moving the links into place never overwrites one that is still to move; *)
(* and, for one thread, that no descriptor is lost and a program sees what *)
(* was linked for it.                                                      *)
(***************************************************************************)
EXTENDS FdMap, TLAPS

USE FdAssumption

-----------------------------------------------------------------------------
(* Type correctness *)

\* A thread's call record after a step of linkFd, passFds or their callers.
LEMMA LinkTypes ==
  ASSUME TypeOK, NEW l \in Linkers, NEW r \in Links, link' = [link EXCEPT ![l] = r],
         r.op = "open" => r.nFd \in Fds,
         r.op \in {"probe", "dup"} => r.extFd \in Fds /\ r.node \in Nodes /\ r.nFd # NoFd,
         r.op = "pass" => r.node \in Nodes /\ r.from \in Nodes
  PROVE  /\ link' \in [Linkers -> Links]
         /\ \A m \in Linkers :
              /\ link'[m].op = "open" => link'[m].nFd \in Fds
              /\ link'[m].op \in {"probe", "dup"} => link'[m].extFd \in Fds /\ link'[m].node \in Nodes
              /\ link'[m].op = "pass" => link'[m].node \in Nodes /\ link'[m].from \in Nodes
              /\ link'[m].op \in {"probe", "dup"} => link'[m].nFd # NoFd
<1>1. \A m \in Linkers : link'[m] = IF m = l THEN r ELSE link[m]
  BY DEF TypeOK
<1> QED
  BY <1>1 DEF TypeOK

\* The idle call record and the absent child have their types.
LEMMA IdleType == IdleLink \in Links /\ NoChild \in Children
  BY DEF IdleLink, NoChild, Links, Children, LinkOps, ChildOps, Content, Open

\* The two calls that linkFd's caller and passFds make have the right types.
LEMMA LinkingType ==
  ASSUME NEW n \in Nodes, NEW fd \in Targets \cup {NoFd}, NEW extFd \in Fds,
         NEW from \in Nodes \cup {NoNode}, NEW rest \in SUBSET Fds
  PROVE  /\ Linking(n, fd, extFd, from, rest) \in Links
         /\ Linking(n, fd, extFd, from, rest).op = "probe"
         /\ Linking(n, fd, extFd, from, rest).extFd = extFd
         /\ Linking(n, fd, extFd, from, rest).node = n
         /\ Linking(n, fd, extFd, from, rest).fd = fd
         /\ Linking(n, fd, extFd, from, rest).nFd = fd + 1
         /\ fd + 1 # NoFd
<1>1. fd + 1 \in Fds \cup {MaxFd} /\ fd + 1 # NoFd
  BY DEF Fds, NoFd
<1> QED
  BY <1>1 DEF Linking, Links, LinkOps

\* The steps of a thread's own open() and close().
LEMMA OpenTypes ==
  ASSUME TypeOK, NEW l \in Linkers,
         OpenReserves(l) \/ OpenInstalls(l) \/ \E k \in Fds : CloseOwn(l, k)
  PROVE  TypeOK'
<1>1. CASE OpenReserves(l)
  <2>1. PICK k \in Fds :
          /\ table' = [table EXCEPT ![k] = Reserved]
          /\ link' = [link EXCEPT ![l].op = "open", ![l].nFd = k]
    BY <1>1 DEF OpenReserves
  <2> DEFINE r == [link[l] EXCEPT !.op = "open", !.nFd = k]
  <2>2. link[l] \in Links
    BY DEF TypeOK
  <2>5. r \in Links /\ r.op = "open" /\ r.nFd = k
    BY <2>2 DEF Links, LinkOps
  <2>3. link' = [link EXCEPT ![l] = r]
    BY <2>1 DEF TypeOK
  <2>4. table' \in [Fds -> Content]
    BY <2>1 DEF TypeOK, Content
  <2> HIDE DEF r
  <2> QED
    BY <1>1, <2>5, <2>3, <2>4, LinkTypes DEF OpenReserves, TypeOK
<1>2. CASE OpenInstalls(l)
  <2>1. link[l].nFd \in Fds /\ link' = [link EXCEPT ![l] = IdleLink]
    BY <1>2 DEF OpenInstalls, At, TypeOK
  <2>2. table' \in [Fds -> Content]
    <3>1. PICK f \in Files : table' = [table EXCEPT ![link[l].nFd] = f]
      BY <1>2 DEF OpenInstalls
    <3>2. f \in Content /\ table \in [Fds -> Content]
      BY DEF Content, TypeOK
    <3> QED
      BY <2>1, <3>1, <3>2
  <2>3. mine' \in [Linkers -> SUBSET Fds]
    BY <1>2, <2>1 DEF OpenInstalls, TypeOK
  <2>4. IdleLink.op = "idle"
    BY DEF IdleLink
  <2> QED
    BY <1>2, <2>1, <2>2, <2>3, <2>4, LinkTypes, IdleType DEF OpenInstalls, TypeOK
<1>3. ASSUME NEW k \in Fds, CloseOwn(l, k) PROVE TypeOK'
  <2>1. table' \in [Fds -> Content]
    BY <1>3 DEF CloseOwn, TypeOK, Content
  <2>2. mine' \in [Linkers -> SUBSET Fds]
    BY <1>3 DEF CloseOwn, TypeOK
  <2> QED
    BY <1>3, <2>1, <2>2 DEF CloseOwn, TypeOK
<1> QED
  BY <1>1, <1>2, <1>3

\* The steps that call linkFd: a caller of its own, passFds and passFd.
LEMMA CallTypes ==
  ASSUME TypeOK, NEW l \in Linkers,
         \/ \E n \in Nodes, fd \in Targets, extFd \in Fds : LinkFd(l, n, fd, extFd)
         \/ \E m, n \in Nodes : PassFds(l, m, n)
         \/ \E m, n \in Nodes, fd, childFd \in Targets : PassFd(l, m, n, fd, childFd)
         \/ PassNext(l)
  PROVE  TypeOK'
<1>1. ASSUME NEW n \in Nodes, NEW fd \in Targets, NEW extFd \in Fds, LinkFd(l, n, fd, extFd)
      PROVE  TypeOK'
  <2> DEFINE r == Linking(n, fd, extFd, NoNode, {})
  <2>1. r \in Links /\ r.op = "probe" /\ r.extFd \in Fds /\ r.node \in Nodes /\ r.nFd # NoFd
    BY LinkingType
  <2>2. link' = [link EXCEPT ![l] = r]
    BY <1>1 DEF LinkFd
  <2> HIDE DEF r
  <2> QED
    BY <1>1, <2>1, <2>2, LinkTypes DEF LinkFd, TypeOK
<1>2. ASSUME NEW m \in Nodes, NEW n \in Nodes, PassFds(l, m, n) PROVE TypeOK'
  <2> DEFINE r == [IdleLink EXCEPT !.op = "pass", !.node = n, !.from = m, !.rest = Keys(fdMap[m])]
  <2>1. r \in Links /\ r.op = "pass" /\ r.node \in Nodes /\ r.from \in Nodes
    BY DEF IdleLink, Links, LinkOps, Keys
  <2>2. link' = [link EXCEPT ![l] = r]
    BY <1>2 DEF PassFds
  <2> HIDE DEF r
  <2> QED
    BY <1>2, <2>1, <2>2, LinkTypes DEF PassFds, TypeOK
<1>3. ASSUME NEW m \in Nodes, NEW n \in Nodes, NEW fd \in Targets, NEW childFd \in Targets,
             PassFd(l, m, n, fd, childFd)
      PROVE  TypeOK'
  <2>1. PICK k \in Fds : link' = [link EXCEPT ![l] = Linking(n, childFd, k, NoNode, {})]
    BY <1>3 DEF PassFd
  <2> DEFINE r == Linking(n, childFd, k, NoNode, {})
  <2>2. r \in Links /\ r.op = "probe" /\ r.extFd \in Fds /\ r.node \in Nodes /\ r.nFd # NoFd
    BY LinkingType
  <2>3. link' = [link EXCEPT ![l] = r]
    BY <2>1
  <2> HIDE DEF r
  <2> QED
    BY <1>3, <2>2, <2>3, LinkTypes DEF PassFd, TypeOK
<1>4. CASE PassNext(l)
  <2>1. /\ link[l].node \in Nodes /\ link[l].from \in Nodes
        /\ link[l].rest \in SUBSET Fds
    BY <1>4 DEF PassNext, At, TypeOK, Links
  <2>2. CASE link' = [link EXCEPT ![l] = IdleLink]
    BY <1>4, <2>2, LinkTypes, IdleType DEF PassNext, TypeOK, IdleLink
  <2>3. CASE \E k \in link[l].rest : link' = [link EXCEPT ![l] =
               Linking(link[l].node, fdMap[link[l].from][k], k, link[l].from, link[l].rest \ {k})]
    <3>1. PICK k \in link[l].rest : link' = [link EXCEPT ![l] =
               Linking(link[l].node, fdMap[link[l].from][k], k, link[l].from, link[l].rest \ {k})]
      BY <2>3
    <3> DEFINE r == Linking(link[l].node, fdMap[link[l].from][k], k, link[l].from,
                            link[l].rest \ {k})
    <3>2. fdMap[link[l].from][k] \in Targets \cup {NoFd} /\ k \in Fds
      BY <2>1 DEF TypeOK
    <3>3. r \in Links /\ r.op = "probe" /\ r.extFd \in Fds /\ r.node \in Nodes /\ r.nFd # NoFd
      BY <2>1, <3>2, LinkingType
    <3>4. link' = [link EXCEPT ![l] = r]
      BY <3>1
    <3> HIDE DEF r
    <3> QED
      BY <1>4, <3>3, <3>4, LinkTypes DEF PassNext, TypeOK
  <2> QED
    BY <1>4, <2>2, <2>3 DEF PassNext
<1> QED
  BY <1>1, <1>2, <1>3, <1>4

\* The loop of linkFd.
LEMMA LoopTypes ==
  ASSUME TypeOK, NEW l \in Linkers,
         Probe(l) \/ Dup3(l) \/ Dup3Busy(l) \/ Dup3Fails(l)
  PROVE  TypeOK'
<1>1. /\ link[l] \in Links /\ link[l].op \in {"probe", "dup"}
      /\ link[l].extFd \in Fds /\ link[l].node \in Nodes /\ link[l].nFd # NoFd
  BY DEF Probe, Dup3, Dup3Busy, Dup3Fails, At, TypeOK
<1>2. ASSUME link[l].nFd \in Fds, Skip(l), UNCHANGED <<table, mine, fdMap, asked, child>>
      PROVE  TypeOK'
  <2> DEFINE r == [link[l] EXCEPT !.op = "probe", !.nFd = @ + 1]
  <2>1. link[l].nFd + 1 \in Fds \cup {MaxFd} /\ link[l].nFd + 1 # NoFd
    BY <1>2 DEF Fds, NoFd
  <2>2. r \in Links /\ r.op = "probe" /\ r.extFd \in Fds /\ r.node \in Nodes /\ r.nFd # NoFd
    BY <1>1, <2>1 DEF Links, LinkOps
  <2>3. link' = [link EXCEPT ![l] = r]
    BY <1>2 DEF Skip, TypeOK
  <2> HIDE DEF r
  <2> QED
    BY <1>2, <2>2, <2>3, LinkTypes DEF TypeOK
<1>3. ASSUME NEW op \in {"dup", "threw"}, link' = [link EXCEPT ![l].op = op],
             UNCHANGED <<table, mine, fdMap, asked, child>>
      PROVE  TypeOK'
  <2> DEFINE r == [link[l] EXCEPT !.op = op]
  <2>1. r \in Links /\ r.op = op /\ r.extFd \in Fds /\ r.node \in Nodes /\ r.nFd # NoFd
    BY <1>1 DEF Links, LinkOps
  <2>2. link' = [link EXCEPT ![l] = r]
    BY <1>3 DEF TypeOK
  <2> HIDE DEF r
  <2> QED
    BY <1>3, <2>1, <2>2, LinkTypes DEF TypeOK
<1>4. CASE Probe(l)
  BY <1>4, <1>2, <1>3 DEF Probe
<1>5. CASE Dup3Busy(l)
  BY <1>5, <1>2 DEF Dup3Busy
<1>6. CASE Dup3Fails(l)
  BY <1>6, <1>3 DEF Dup3Fails, Throw
<1>7. CASE Dup3(l)
  <2>1. link[l].nFd \in Fds /\ table[link[l].extFd] \in Open /\ link[l].fd \in Targets \cup {NoFd}
    BY <1>1, <1>7 DEF Dup3, Links
  <2>2. table' \in [Fds -> Content]
    BY <1>7, <2>1 DEF Dup3, TypeOK, Content, Open
  <2>3. fdMap' \in [Nodes -> [Fds -> Targets \cup {NoFd}]]
    BY <1>1, <1>7, <2>1 DEF Dup3, TypeOK
  <2>4. asked' \in [Nodes -> SUBSET ((Targets \cup {NoFd}) \X Open)]
    <3>1. asked' = [asked EXCEPT ![link[l].node] = @ \cup {<<link[l].fd, table[link[l].extFd]>>}]
      BY <1>7 DEF Dup3
    <3>2. <<link[l].fd, table[link[l].extFd]>> \in (Targets \cup {NoFd}) \X Open
      BY <2>1
    <3> QED
      BY <3>1, <3>2 DEF TypeOK
  <2>5. Returned(l) \in Links /\ Returned(l).op \in {"pass", "idle"}
        /\ (Returned(l).op = "pass" => Returned(l).node \in Nodes /\ Returned(l).from \in Nodes)
    <3>1. CASE link[l].from # NoNode
      BY <1>1, <3>1 DEF Returned, Links, LinkOps
    <3>2. CASE link[l].from = NoNode
      BY <3>2, IdleType DEF Returned, IdleLink
    <3> QED
      BY <3>1, <3>2
  <2>6. link' = [link EXCEPT ![l] = Returned(l)]
    BY <1>7 DEF Dup3
  <2>7. UNCHANGED <<mine, child>>
    BY <1>7 DEF Dup3
  <2> QED
    BY <2>2, <2>3, <2>4, <2>5, <2>6, <2>7, LinkTypes DEF TypeOK
<1> QED
  BY <1>4, <1>5, <1>6, <1>7

\* closeFds leaves the launcher's tables in their types.
LEMMA CloseTypes ==
  ASSUME TypeOK, NEW n \in Nodes, CloseFds(n)
  PROVE  /\ table' \in [Fds -> Content]
         /\ fdMap' \in [Nodes -> [Fds -> Targets \cup {NoFd}]]
         /\ asked' \in [Nodes -> SUBSET ((Targets \cup {NoFd}) \X Open)]
<1>1. table' \in [Fds -> Content]
  BY DEF CloseFds, TypeOK, Content
<1>2. fdMap' \in [Nodes -> [Fds -> Targets \cup {NoFd}]]
  BY DEF CloseFds, TypeOK
<1>3. asked' \in [Nodes -> SUBSET ((Targets \cup {NoFd}) \X Open)]
  BY DEF CloseFds, TypeOK
<1> QED
  BY <1>1, <1>2, <1>3

\* A leaf's child record after a step of startup or of the child.
LEMMA ChildTypes ==
  ASSUME TypeOK, NEW n \in Leaves, NEW c \in Children, child' = [child EXCEPT ![n] = c],
         c.todo \subseteq Keys(c.map)
  PROVE  /\ child' \in [Leaves -> Children]
         /\ \A m \in Leaves : child'[m].todo \subseteq Keys(child'[m].map)
<1>1. \A m \in Leaves : child'[m] = IF m = n THEN c ELSE child[m]
  BY DEF TypeOK
<1> QED
  BY <1>1 DEF TypeOK

\* The child that startup() forks.
LEMMA StartupTypes ==
  ASSUME TypeOK, NEW l \in Linkers, NEW n \in Nodes, Startup(l, n) \/ GroupCloses(l, n)
  PROVE  TypeOK'
<1>1. CASE GroupCloses(l, n)
  BY <1>1, CloseTypes DEF GroupCloses, TypeOK
<1>2. CASE Startup(l, n)
  <2> DEFINE c == [op |-> "overwrite", tbl |-> Copied, start |-> Copied, map |-> fdMap[n],
                   todo |-> Keys(fdMap[n]), keep |-> Stdio, asked |-> asked[n]]
  <2>1. Copied \in [Fds -> Content]
    BY DEF Copied, TypeOK, Content
  <2>2. fdMap[n] \in [Fds -> Targets \cup {NoFd}] /\ asked[n] \in SUBSET ((Targets \cup {NoFd}) \X Open)
    BY DEF TypeOK
  <2>3. Keys(fdMap[n]) \in SUBSET Fds
    BY DEF Keys
  <2>4. c \in Children
    BY <2>1, <2>2, <2>3 DEF Children, ChildOps
  <2>5. c.todo \subseteq Keys(c.map)
    OBVIOUS
  <2>6. child' = [child EXCEPT ![n] = c] /\ CloseFds(n) /\ UNCHANGED <<mine, link>> /\ n \in Leaves
    BY <1>2 DEF Startup
  <2> HIDE DEF c
  <2> QED
    BY <2>4, <2>5, <2>6, ChildTypes, CloseTypes DEF TypeOK
<1> QED
  BY <1>1, <1>2

\* What one turn of overwriteFds makes of the child, written as one record.
LEMMA DupRecord ==
  ASSUME TypeOK, NEW n \in Leaves, ChildDup(n)
  PROVE  \E k \in Fds :
           /\ k \in child[n].todo
           /\ \A j \in child[n].todo : k <= j
           /\ child[n].map[k] \in Targets
           /\ \/ child' = [child EXCEPT ![n] =
                   [child[n] EXCEPT !.tbl = [@ EXCEPT ![child[n].map[k]] = child[n].tbl[k]],
                                    !.keep = @ \cup {child[n].map[k]}, !.todo = @ \ {k}]]
              \/ child' = [child EXCEPT ![n] = [NoChild EXCEPT !.op = "failed"]]
<1>1. PICK k \in Fds :
        /\ Lowest(k, child[n].todo)
        /\ IF child[n].tbl[k] \in Open
           THEN child' = [child EXCEPT ![n].tbl[child[n].map[k]] = child[n].tbl[k],
                                       ![n].keep = @ \cup {child[n].map[k]},
                                       ![n].todo = @ \ {k}]
           ELSE child' = [child EXCEPT ![n] = [NoChild EXCEPT !.op = "failed"]]
  BY DEF ChildDup
<1>2. k \in child[n].todo /\ \A j \in child[n].todo : k <= j
  BY <1>1 DEF Lowest
<1>3. child[n] \in Children /\ child[n].todo \subseteq Keys(child[n].map)
  BY DEF TypeOK
<1>4. child[n].map[k] \in Targets
  BY <1>2, <1>3 DEF Keys, Children
<1>5. CASE child[n].tbl[k] \in Open
  <2>1. child' = [child EXCEPT ![n] =
           [child[n] EXCEPT !.tbl = [@ EXCEPT ![child[n].map[k]] = child[n].tbl[k]],
                            !.keep = @ \cup {child[n].map[k]}, !.todo = @ \ {k}]]
    BY <1>1, <1>5, <1>3 DEF TypeOK, Children
  <2> QED
    BY <1>2, <1>4, <2>1
<1>6. CASE child[n].tbl[k] \notin Open
  BY <1>1, <1>2, <1>4, <1>6
<1> QED
  BY <1>5, <1>6

\* The steps of the child.
LEMMA ChildStepTypes ==
  ASSUME TypeOK, NEW n \in Leaves, ChildDup(n) \/ ChildExec(n) \/ ChildGoes(n)
  PROVE  TypeOK'
<1>1. child[n] \in Children /\ child[n].todo \subseteq Keys(child[n].map)
  BY DEF TypeOK
<1>2. ASSUME NEW c \in Children, c.todo \subseteq Keys(c.map), child' = [child EXCEPT ![n] = c],
             UNCHANGED <<table, mine, fdMap, asked, link>>
      PROVE  TypeOK'
  BY <1>2, ChildTypes DEF TypeOK
<1>3. NoChild \in Children /\ NoChild.todo = {}
  BY IdleType DEF NoChild
<1>4. CASE ChildDup(n)
  <2>1. UNCHANGED <<table, mine, fdMap, asked, link>>
    BY <1>4 DEF ChildDup
  <2>2. PICK k \in Fds :
           /\ child[n].map[k] \in Targets
           /\ \/ child' = [child EXCEPT ![n] =
                   [child[n] EXCEPT !.tbl = [@ EXCEPT ![child[n].map[k]] = child[n].tbl[k]],
                                    !.keep = @ \cup {child[n].map[k]}, !.todo = @ \ {k}]]
              \/ child' = [child EXCEPT ![n] = [NoChild EXCEPT !.op = "failed"]]
    BY <1>4, DupRecord
  <2> DEFINE t == child[n].map[k]
             c == [child[n] EXCEPT !.tbl = [@ EXCEPT ![t] = child[n].tbl[k]],
                                   !.keep = @ \cup {t}, !.todo = @ \ {k}]
             d == [NoChild EXCEPT !.op = "failed"]
  <2>3. [child[n].tbl EXCEPT ![t] = child[n].tbl[k]] \in [Fds -> Content]
    BY <1>1 DEF Children
  <2>4. child[n].keep \cup {t} \in SUBSET Fds
    BY <1>1, <2>2 DEF Children
  <2>5. child[n].todo \ {k} \in SUBSET Fds
    BY <1>1 DEF Children
  <2>6. c \in Children
    BY <1>1, <2>3, <2>4, <2>5 DEF Children
  <2>7. c.todo \subseteq Keys(c.map)
    <3>1. c.todo = child[n].todo \ {k} /\ c.map = child[n].map
      BY <1>1 DEF Children
    <3> QED
      BY <3>1, <1>1
  <2>8. d \in Children /\ d.todo = {}
    BY <1>3 DEF Children, ChildOps
  <2>9. child' = [child EXCEPT ![n] = c] \/ child' = [child EXCEPT ![n] = d]
    BY <2>2
  <2> HIDE DEF c, d
  <2> QED
    BY <1>2, <2>1, <2>6, <2>7, <2>8, <2>9
<1>5. CASE ChildExec(n)
  <2> DEFINE tbl == [k \in Fds |-> IF k \in child[n].keep THEN child[n].tbl[k] ELSE Closed]
             c == [NoChild EXCEPT !.op = "exec", !.asked = child[n].asked, !.tbl = tbl]
  <2>1. tbl \in [Fds -> Content]
    BY <1>1 DEF Children, Content
  <2>2. child[n].asked \in SUBSET ((Targets \cup {NoFd}) \X Open)
    BY <1>1 DEF Children
  <2> HIDE DEF tbl
  <2>3. c \in Children /\ c.todo = {}
    BY <1>3, <2>1, <2>2 DEF Children, ChildOps
  <2>4. child' = [child EXCEPT ![n] = c] /\ UNCHANGED <<table, mine, fdMap, asked, link>>
    BY <1>5 DEF ChildExec, tbl
  <2> HIDE DEF c
  <2> QED
    BY <1>2, <2>3, <2>4
<1>6. CASE ChildGoes(n)
  BY <1>2, <1>3, <1>6 DEF ChildGoes
<1> QED
  BY <1>4, <1>5, <1>6

\* Every step keeps the types.
LEMMA TypeStep == TypeOK /\ [Next]_vars => TypeOK'
<1> SUFFICES ASSUME TypeOK, [Next]_vars PROVE TypeOK'
  OBVIOUS
<1>1. CASE UNCHANGED vars
  BY <1>1 DEF vars, TypeOK
<1>2. ASSUME NEW l \in Linkers, InLinkFd(l) PROVE TypeOK'
  BY <1>2, LoopTypes, CallTypes, OpenTypes DEF InLinkFd
<1>3. ASSUME NEW l \in Linkers, Caller(l) PROVE TypeOK'
  BY <1>3, StartupTypes, CallTypes, OpenTypes DEF Caller
<1>4. ASSUME NEW n \in Leaves, ChildDup(n) \/ ChildExec(n) \/ ChildGoes(n) PROVE TypeOK'
  BY <1>4, ChildStepTypes
<1>5. CASE Stopped
  BY <1>1, <1>5 DEF Stopped
<1> QED
  BY <1>1, <1>2, <1>3, <1>4, <1>5 DEF Next

\* The initial state has its types.
LEMMA TypeInit == Init => TypeOK
<1> SUFFICES ASSUME Init PROVE TypeOK
  OBVIOUS
<1>1. table \in [Fds -> Content] /\ mine \in [Linkers -> SUBSET Fds]
  BY DEF Init, Content
<1>2. /\ fdMap \in [Nodes -> [Fds -> Targets \cup {NoFd}]]
      /\ asked \in [Nodes -> SUBSET ((Targets \cup {NoFd}) \X Open)]
  BY DEF Init
<1>3. link \in [Linkers -> Links] /\ child \in [Leaves -> Children]
  BY IdleType DEF Init
<1>4. \A l \in Linkers : link[l].op = "idle"
  BY DEF Init, IdleLink
<1>5. \A n \in Leaves : child[n].todo = {}
  BY DEF Init, NoChild
<1> QED
  BY <1>1, <1>2, <1>3, <1>4, <1>5 DEF TypeOK

\* The launcher's descriptor table, the maps of the nodes, the records of the
\* calls and those of the children keep their types.
THEOREM TypeCorrect == Spec => []TypeOK
BY TypeInit, TypeStep, PTL DEF Spec

-----------------------------------------------------------------------------
(* No link is overwritten before it has been moved *)

\* linkFd looks only above the descriptor the instance wants to see, ...
LinkAbove == \A l \in Linkers : link[l].op \in {"probe", "dup"} => link[l].fd < link[l].nFd

\* ... so that every link a node has is above its target, ...
MapAbove == \A n \in Nodes : \A k \in Fds : fdMap[n][k] < k

\* ... and so is every link that a child has copied.
ChildAbove ==
  \A n \in Leaves : child[n].op = "overwrite" => \A k \in Fds : child[n].map[k] < k

Above == TypeOK /\ LinkAbove /\ MapAbove /\ ChildAbove /\ SourcesKept

\* The calls of linkFd and its loop keep the number above the target.
LEMMA LinkAboveStep ==
  ASSUME TypeOK, LinkAbove, NEW l \in Linkers, InLinkFd(l) \/ Caller(l)
  PROVE  LinkAbove'
<1>1. ASSUME NEW r \in Links, link' = [link EXCEPT ![l] = r],
             r.op \in {"probe", "dup"} => r.fd < r.nFd
      PROVE  LinkAbove'
  <2>1. \A m \in Linkers : link'[m] = IF m = l THEN r ELSE link[m]
    BY <1>1 DEF TypeOK
  <2> QED
    BY <1>1, <2>1 DEF LinkAbove
<1>2. CASE UNCHANGED link
  BY <1>2 DEF LinkAbove
<1>3. ASSUME link' = [link EXCEPT ![l] = IdleLink] PROVE LinkAbove'
  BY <1>1, <1>3, IdleType DEF IdleLink
<1>4. ASSUME NEW n \in Nodes, NEW fd \in Targets \cup {NoFd}, NEW extFd \in Fds,
             NEW from \in Nodes \cup {NoNode}, NEW rest \in SUBSET Fds,
             link' = [link EXCEPT ![l] = Linking(n, fd, extFd, from, rest)]
      PROVE  LinkAbove'
  <2> DEFINE r == Linking(n, fd, extFd, from, rest)
  <2>1. r \in Links /\ r.fd = fd /\ r.nFd = fd + 1
    BY LinkingType
  <2>2. fd < fd + 1
    BY DEF Fds, NoFd
  <2>3. link' = [link EXCEPT ![l] = r]
    BY <1>4
  <2> HIDE DEF r
  <2> QED
    BY <1>1, <2>1, <2>2, <2>3
<1>5. ASSUME NEW op \in {"dup", "threw"}, link[l].op \in {"probe", "dup"},
             link' = [link EXCEPT ![l].op = op]
      PROVE  LinkAbove'
  <2> DEFINE r == [link[l] EXCEPT !.op = op]
  <2>0. link[l] \in Links
    BY DEF TypeOK
  <2>1. r \in Links /\ r.fd = link[l].fd /\ r.nFd = link[l].nFd
    BY <2>0 DEF Links, LinkOps
  <2>2. link' = [link EXCEPT ![l] = r]
    BY <1>5 DEF TypeOK
  <2> HIDE DEF r
  <2> QED
    BY <1>1, <1>5, <2>1, <2>2 DEF LinkAbove
<1>6. ASSUME link[l].op \in {"probe", "dup"}, link[l].nFd \in Fds, Skip(l) PROVE LinkAbove'
  <2> DEFINE r == [link[l] EXCEPT !.op = "probe", !.nFd = @ + 1]
  <2>1. /\ link[l] \in Links
        /\ link[l].fd < link[l].nFd
        /\ link[l].fd \in Int /\ link[l].nFd \in Int
        /\ link[l].nFd + 1 \in Fds \cup {MaxFd}
    <3>1. link[l] \in Links
      BY DEF TypeOK
    <3>2. link[l].fd < link[l].nFd
      BY <1>6 DEF LinkAbove
    <3>3. link[l].fd \in Fds \cup {NoFd}
      BY <3>1 DEF Links
    <3>4. link[l].nFd + 1 \in Fds \cup {MaxFd}
      BY <1>6 DEF Fds
    <3> QED
      BY <1>6, <3>1, <3>2, <3>3, <3>4 DEF Fds, NoFd
  <2>2. r \in Links /\ r.fd = link[l].fd /\ r.nFd = link[l].nFd + 1
    BY <2>1 DEF Links, LinkOps
  <2>3. link' = [link EXCEPT ![l] = r]
    BY <1>6 DEF Skip, TypeOK
  <2>4. link[l].fd < link[l].nFd + 1
    BY <2>1
  <2> HIDE DEF r
  <2> QED
    BY <1>1, <2>2, <2>3, <2>4
<1>7. CASE OpenReserves(l)
  <2>1. PICK k \in Fds : link' = [link EXCEPT ![l].op = "open", ![l].nFd = k]
    BY <1>7 DEF OpenReserves
  <2> DEFINE r == [link[l] EXCEPT !.op = "open", !.nFd = k]
  <2>4. link[l] \in Links
    BY DEF TypeOK
  <2>2. r \in Links /\ r.op = "open"
    BY <2>4 DEF Links, LinkOps
  <2>3. link' = [link EXCEPT ![l] = r]
    BY <2>1 DEF TypeOK
  <2> HIDE DEF r
  <2> QED
    BY <1>1, <2>2, <2>3
<1>8. CASE OpenInstalls(l) \/ \E k \in Fds : CloseOwn(l, k)
  BY <1>2, <1>3, <1>8 DEF OpenInstalls, CloseOwn
<1>9. CASE \E n \in Nodes, fd \in Targets, extFd \in Fds : LinkFd(l, n, fd, extFd)
  BY <1>4, <1>9 DEF LinkFd
<1>10. ASSUME NEW m \in Nodes, NEW n \in Nodes, PassFds(l, m, n) PROVE LinkAbove'
  <2> DEFINE r == [IdleLink EXCEPT !.op = "pass", !.node = n, !.from = m, !.rest = Keys(fdMap[m])]
  <2>1. r \in Links /\ r.op = "pass"
    BY DEF IdleLink, Links, LinkOps, Keys
  <2>2. link' = [link EXCEPT ![l] = r]
    BY <1>10 DEF PassFds
  <2> HIDE DEF r
  <2> QED
    BY <1>1, <2>1, <2>2
<1>11. ASSUME NEW m \in Nodes, NEW n \in Nodes, NEW fd \in Targets, NEW childFd \in Targets,
              PassFd(l, m, n, fd, childFd)
       PROVE  LinkAbove'
  BY <1>4, <1>11 DEF PassFd
<1>12. CASE PassNext(l)
  <2>1. link[l].node \in Nodes /\ link[l].from \in Nodes /\ link[l].rest \in SUBSET Fds
    BY <1>12 DEF PassNext, At, TypeOK, Links
  <2>2. CASE link' = [link EXCEPT ![l] = IdleLink]
    BY <1>3, <2>2
  <2>3. ASSUME NEW k \in link[l].rest, link' = [link EXCEPT ![l] =
               Linking(link[l].node, fdMap[link[l].from][k], k, link[l].from, link[l].rest \ {k})]
        PROVE  LinkAbove'
    <3>1. fdMap[link[l].from][k] \in Targets \cup {NoFd} /\ k \in Fds
      BY <2>1 DEF TypeOK
    <3>2. link[l].rest \ {k} \in SUBSET Fds
      BY <2>1
    <3> DEFINE n == link[l].node
               from == link[l].from
               rest == link[l].rest \ {k}
               fd == fdMap[link[l].from][k]
    <3>3. n \in Nodes /\ from \in Nodes \cup {NoNode}
      BY <2>1
    <3>4. link' = [link EXCEPT ![l] = Linking(n, fd, k, from, rest)]
      BY <2>3
    <3>5. fd \in Targets \cup {NoFd} /\ rest \in SUBSET Fds
      BY <3>1, <3>2
    <3> HIDE DEF n, from, rest, fd
    <3> QED
      BY <1>4, <3>1, <3>3, <3>4, <3>5
  <2> QED
    BY <1>12, <2>2, <2>3 DEF PassNext
<1>13. CASE Probe(l)
  BY <1>5, <1>6, <1>13 DEF Probe, At
<1>14. CASE Dup3Busy(l)
  BY <1>6, <1>14 DEF Dup3Busy, At
<1>15. CASE Dup3Fails(l)
  BY <1>5, <1>15 DEF Dup3Fails, Throw, At
<1>16. CASE Dup3(l)
  <2>1. link[l] \in Links /\ link' = [link EXCEPT ![l] = Returned(l)]
    BY <1>16 DEF Dup3, TypeOK
  <2>2. CASE link[l].from # NoNode
    <3> DEFINE r == [link[l] EXCEPT !.op = "pass"]
    <3>1. r \in Links /\ r.op = "pass"
      BY <2>1 DEF Links, LinkOps
    <3>2. link' = [link EXCEPT ![l] = r]
      BY <2>1, <2>2 DEF Returned
    <3> HIDE DEF r
    <3> QED
      BY <1>1, <3>1, <3>2
  <2>3. CASE link[l].from = NoNode
    BY <1>3, <2>1, <2>3 DEF Returned
  <2> QED
    BY <2>2, <2>3
<1>17. CASE \E n \in Nodes : Startup(l, n) \/ GroupCloses(l, n)
  BY <1>2, <1>17 DEF Startup, GroupCloses
<1> QED
  BY <1>7, <1>8, <1>9, <1>10, <1>11, <1>12, <1>13, <1>14, <1>15, <1>16, <1>17
  DEF InLinkFd, Caller

\* dup3() adds a link above its target, closeFds() removes links, and nothing
\* else changes them.
LEMMA MapAboveStep ==
  ASSUME TypeOK, LinkAbove, MapAbove, NEW l \in Linkers, InLinkFd(l) \/ Caller(l)
  PROVE  MapAbove'
<1>1. CASE Dup3(l)
  <2>1. /\ link[l].op = "dup" /\ link[l].node \in Nodes /\ link[l].nFd \in Fds
        /\ fdMap' = [fdMap EXCEPT ![link[l].node][link[l].nFd] = link[l].fd]
    BY <1>1 DEF Dup3, At, TypeOK
  <2>2. link[l].fd < link[l].nFd
    BY <2>1 DEF LinkAbove
  <2>3. \A n \in Nodes : \A k \in Fds : fdMap'[n][k] =
          IF n = link[l].node /\ k = link[l].nFd THEN link[l].fd ELSE fdMap[n][k]
    BY <2>1 DEF TypeOK
  <2> QED
    BY <2>2, <2>3 DEF MapAbove
<1>2. ASSUME NEW n \in Nodes, CloseFds(n) PROVE MapAbove'
  <2>1. \A m \in Nodes : \A k \in Fds : fdMap'[m][k] = IF m = n THEN NoFd ELSE fdMap[m][k]
    BY <1>2 DEF CloseFds, TypeOK
  <2>2. \A k \in Fds : NoFd < k
    BY DEF Fds, NoFd
  <2> QED
    BY <2>1, <2>2 DEF MapAbove
<1>3. CASE UNCHANGED fdMap
  BY <1>3 DEF MapAbove
<1> QED
  BY <1>1, <1>2, <1>3
  DEF InLinkFd, Caller, Probe, Dup3Busy, Dup3Fails, PassNext, OpenInstalls, OpenReserves,
      CloseOwn, LinkFd, PassFds, PassFd, Startup, GroupCloses

\* One turn of overwriteFds: the link it moves is the lowest that is left, and
\* its target is lower still, so the table is unchanged at every other link.
LEMMA ChildDupAbove ==
  ASSUME TypeOK, ChildAbove, SourcesKept, NEW n \in Leaves, ChildDup(n)
  PROVE  ChildAbove' /\ SourcesKept'
<1>1. child[n] \in Children /\ child[n].op = "overwrite"
  BY DEF TypeOK, ChildDup
<1>2. PICK k \in Fds :
        /\ k \in child[n].todo
        /\ \A j \in child[n].todo : k <= j
        /\ child[n].map[k] \in Targets
        /\ \/ child' = [child EXCEPT ![n] =
                [child[n] EXCEPT !.tbl = [@ EXCEPT ![child[n].map[k]] = child[n].tbl[k]],
                                 !.keep = @ \cup {child[n].map[k]}, !.todo = @ \ {k}]]
           \/ child' = [child EXCEPT ![n] = [NoChild EXCEPT !.op = "failed"]]
  BY DupRecord
<1>3. ASSUME NEW c, child' = [child EXCEPT ![n] = c],
             c.op = "overwrite" => /\ \A j \in Fds : c.map[j] < j
                                   /\ \A j \in c.todo : c.tbl[j] = c.start[j]
      PROVE  ChildAbove' /\ SourcesKept'
  <2>1. \A m \in Leaves : child'[m] = IF m = n THEN c ELSE child[m]
    BY <1>3 DEF TypeOK
  <2>2. ChildAbove'
    BY <1>3, <2>1 DEF ChildAbove
  <2>3. SourcesKept'
    BY <1>3, <2>1 DEF SourcesKept
  <2> QED
    BY <2>2, <2>3
<1> DEFINE t == child[n].map[k]
           c == [child[n] EXCEPT !.tbl = [@ EXCEPT ![t] = child[n].tbl[k]],
                                 !.keep = @ \cup {t}, !.todo = @ \ {k}]
           d == [NoChild EXCEPT !.op = "failed"]
<1>4. t < k
  BY <1>1, <1>2 DEF ChildAbove
<1>5. ASSUME child' = [child EXCEPT ![n] = c] PROVE ChildAbove' /\ SourcesKept'
  <2>1. c.map = child[n].map /\ c.start = child[n].start /\ c.todo = child[n].todo \ {k}
    BY <1>1 DEF Children
  <2>2. \A j \in Fds : c.map[j] < j
    BY <1>1, <2>1 DEF ChildAbove
  <2>3. \A j \in Fds : j # t => c.tbl[j] = child[n].tbl[j]
    BY <1>1 DEF Children
  <2>4. ASSUME NEW j \in c.todo PROVE c.tbl[j] = c.start[j]
    <3>1. j \in child[n].todo /\ j \in Fds /\ k <= j
      BY <1>1, <1>2, <2>1 DEF Children
    <3>2. t \in Fds
      BY <1>2
    <3>3. j # t
      BY <1>4, <3>1, <3>2 DEF Fds
    <3>4. child[n].tbl[j] = child[n].start[j]
      BY <1>1, <3>1 DEF SourcesKept
    <3> QED
      BY <2>1, <2>3, <3>1, <3>3, <3>4
  <2> HIDE DEF c
  <2> QED
    BY <1>3, <1>5, <2>2, <2>4
<1>6. ASSUME child' = [child EXCEPT ![n] = d] PROVE ChildAbove' /\ SourcesKept'
  <2>1. d.op = "failed"
    BY DEF NoChild
  <2> HIDE DEF d
  <2> QED
    BY <1>3, <1>6, <2>1
<1> QED
  BY <1>2, <1>5, <1>6

\* The other steps on a child: fork() copies the node's links, and exec or exit
\* ends the moving.
LEMMA ChildAboveStep ==
  ASSUME TypeOK, MapAbove, ChildAbove, SourcesKept,
         NEW n \in Leaves, ChildExec(n) \/ ChildGoes(n) \/ \E l \in Linkers : Startup(l, n)
  PROVE  ChildAbove' /\ SourcesKept'
<1>1. ASSUME NEW c, child' = [child EXCEPT ![n] = c],
             c.op = "overwrite" => /\ \A j \in Fds : c.map[j] < j
                                   /\ \A j \in c.todo : c.tbl[j] = c.start[j]
      PROVE  ChildAbove' /\ SourcesKept'
  <2>1. \A m \in Leaves : child'[m] = IF m = n THEN c ELSE child[m]
    BY <1>1 DEF TypeOK
  <2>2. ChildAbove'
    BY <1>1, <2>1 DEF ChildAbove
  <2>3. SourcesKept'
    BY <1>1, <2>1 DEF SourcesKept
  <2> QED
    BY <2>2, <2>3
<1>2. CASE ChildExec(n)
  <2> DEFINE c == [NoChild EXCEPT !.op = "exec", !.asked = child[n].asked,
                     !.tbl = [k \in Fds |-> IF k \in child[n].keep THEN child[n].tbl[k] ELSE Closed]]
  <2>1. child' = [child EXCEPT ![n] = c]
    BY <1>2 DEF ChildExec
  <2>2. c.op = "exec"
    BY DEF NoChild
  <2> HIDE DEF c
  <2> QED
    BY <1>1, <2>1, <2>2
<1>3. CASE ChildGoes(n)
  <2>1. child' = [child EXCEPT ![n] = NoChild] /\ NoChild.op = "none"
    BY <1>3 DEF ChildGoes, NoChild
  <2> QED
    BY <1>1, <2>1
<1>4. ASSUME NEW l \in Linkers, Startup(l, n) PROVE ChildAbove' /\ SourcesKept'
  <2> DEFINE c == [op |-> "overwrite", tbl |-> Copied, start |-> Copied, map |-> fdMap[n],
                   todo |-> Keys(fdMap[n]), keep |-> Stdio, asked |-> asked[n]]
  <2>1. child' = [child EXCEPT ![n] = c]
    BY <1>4 DEF Startup
  <2>2. c.map = fdMap[n] /\ c.tbl = Copied /\ c.start = Copied
    OBVIOUS
  <2>3. \A j \in Fds : c.map[j] < j
    BY <2>2 DEF MapAbove
  <2>4. \A j \in c.todo : c.tbl[j] = c.start[j]
    BY <2>2
  <2> HIDE DEF c
  <2> QED
    BY <1>1, <2>1, <2>3, <2>4
<1> QED
  BY <1>2, <1>3, <1>4

\* The strengthened invariant is kept by every step.
LEMMA AboveStep == Above /\ [Next]_vars => Above'
<1> SUFFICES ASSUME Above, [Next]_vars PROVE Above'
  OBVIOUS
<1>1. TypeOK /\ LinkAbove /\ MapAbove /\ ChildAbove /\ SourcesKept /\ TypeOK'
  BY TypeStep DEF Above
<1>2. ASSUME UNCHANGED child PROVE ChildAbove' /\ SourcesKept'
  BY <1>1, <1>2 DEF ChildAbove, SourcesKept
<1>3. CASE UNCHANGED vars
  BY <1>1, <1>2, <1>3 DEF vars, Above, LinkAbove, MapAbove
<1>4. ASSUME NEW l \in Linkers, InLinkFd(l) PROVE Above'
  <2>1. UNCHANGED child
    BY <1>4 DEF InLinkFd, Probe, Dup3, Dup3Busy, Dup3Fails, PassNext, OpenInstalls
  <2> QED
    BY <1>1, <1>2, <1>4, <2>1, LinkAboveStep, MapAboveStep DEF Above
<1>5. ASSUME NEW l \in Linkers, Caller(l) PROVE Above'
  <2>1. ChildAbove' /\ SourcesKept'
    <3>1. CASE UNCHANGED child
      BY <1>2, <3>1
    <3>2. ASSUME NEW n \in Nodes, Startup(l, n) PROVE ChildAbove' /\ SourcesKept'
      <4>1. n \in Leaves
        BY <3>2 DEF Startup
      <4> QED
        BY <1>1, <3>2, <4>1, ChildAboveStep
    <3> QED
      BY <1>5, <3>1, <3>2
      DEF Caller, OpenReserves, CloseOwn, LinkFd, PassFds, PassFd, GroupCloses
  <2> QED
    BY <1>1, <1>5, <2>1, LinkAboveStep, MapAboveStep DEF Above
<1>6. ASSUME NEW n \in Leaves, ChildDup(n) \/ ChildExec(n) \/ ChildGoes(n) PROVE Above'
  <2>1. ChildAbove' /\ SourcesKept'
    BY <1>1, <1>6, ChildDupAbove, ChildAboveStep
  <2>2. UNCHANGED <<link, fdMap>>
    BY <1>6 DEF ChildDup, ChildExec, ChildGoes
  <2> QED
    BY <1>1, <2>1, <2>2 DEF Above, LinkAbove, MapAbove
<1>7. CASE Stopped
  BY <1>3, <1>7 DEF Stopped
<1> QED
  BY <1>3, <1>4, <1>5, <1>6, <1>7 DEF Next

\* It holds at the start: there are no calls, no links and no children.
LEMMA AboveInit == Init => Above
<1> SUFFICES ASSUME Init PROVE Above
  OBVIOUS
<1>1. LinkAbove
  BY DEF Init, LinkAbove, IdleLink
<1>2. MapAbove
  BY DEF Init, MapAbove, Fds, NoFd
<1>3. ChildAbove /\ SourcesKept
  BY DEF Init, ChildAbove, SourcesKept, NoChild
<1> QED
  BY <1>1, <1>2, <1>3, TypeInit DEF Above

\* Moving the links of a child into place, overwriteFds never overwrites one it
\* has still to move, whatever other threads do while the links are made.
THEOREM MovesSafely == Spec => []SourcesKept
<1>1. Above => SourcesKept
  BY DEF Above
<1> QED
  BY <1>1, AboveInit, AboveStep, PTL DEF Spec

-----------------------------------------------------------------------------
(* With one thread: every number is accounted for, and every program sees    *)
(* what was linked for it                                                    *)

OneThread == \A l, m \in Linkers : l = m

\* What a number that is in use refers to.
TableKnown ==
  /\ \A k \in Stdio : table[k] = Tty
  /\ \A l \in Linkers : \A k \in mine[l] : table[k] \in Open /\ k \notin Stdio
  /\ \A l \in Linkers : link[l].op = "open" => table[link[l].nFd] = Reserved

\* A link is made for a descriptor that an instance wants to see, from one that
\* the thread opened or from one of the other node's links.
LinkKnown ==
  \A l \in Linkers :
    /\ link[l].op \in {"probe", "dup"} => link[l].fd \in Targets
    /\ link[l].op \in {"pass", "probe", "dup"} /\ link[l].from # NoNode =>
         link[l].rest \subseteq Keys(fdMap[link[l].from])

\* Nothing that was asked for has been lost.
AskedKept == \A n \in Nodes : \A a \in asked[n] : \E k \in Keys(fdMap[n]) : fdMap[n][k] = a[1]

\* The child has its node's links; where it has moved one, the file is one that
\* was asked for, and everything else is as it was.
Moved(c) == Keys(c.map) \ c.todo
LinksRight(c) ==
  /\ \A k \in Stdio : c.start[k] = Tty
  /\ \A k \in Keys(c.map) : <<c.map[k], c.start[k]>> \in c.asked
  /\ \A a \in c.asked : \E k \in Keys(c.map) : c.map[k] = a[1]
  /\ c.keep = Stdio \cup {c.map[k] : k \in Moved(c)}
  /\ \A k \in Fds : (\A j \in Moved(c) : c.map[j] # k) => c.tbl[k] = c.start[k]
  /\ \A j \in Moved(c) : <<c.map[j], c.tbl[c.map[j]]>> \in c.asked
ChildKnown == \A n \in Leaves : child[n].op = "overwrite" => LinksRight(child[n])

\* What ChildSees says of one program.
SeesRight(c) ==
  \A k \in Fds :
    LET files == {f \in Open : <<k, f>> \in c.asked}
    IN  c.tbl[k] \in IF files # {} THEN files ELSE {IF k \in Stdio THEN Tty ELSE Closed}

Books == Accounted /\ TableKnown /\ LinkKnown /\ AskedKept
Kept == Above /\ Books /\ ChildKnown /\ ChildSees

\* The keys of a map are numbers of open files.
LEMMA LinksOpen ==
  ASSUME TypeOK, Accounted, NEW n \in Nodes, NEW k \in Keys(fdMap[n])
  PROVE  k \in Fds /\ fdMap[n][k] \in Targets /\ table[k] \in Open
<1>1. k \in Fds /\ fdMap[n][k] \in Targets
  BY DEF Keys, TypeOK
<1>2. <<fdMap[n][k], table[k]>> \in asked[n]
  BY DEF Accounted
<1> QED
  BY <1>1, <1>2 DEF TypeOK

\* The constants that stand for a free and for a reserved number are no files.
LEMMA NoFiles == Closed \notin Open /\ Reserved \notin Open /\ Closed # Reserved
  BY DEF Open

\* Steps of linkFd and its callers that change only where the thread is.
LEMMA MovesBooks ==
  ASSUME TypeOK, Books, OneThread, NEW l \in Linkers, NEW r,
         link' = [link EXCEPT ![l] = r], UNCHANGED <<table, mine, fdMap, asked>>,
         link[l].op # "open", r.op # "open",
         r.op \in {"probe", "dup"} => r.fd \in Targets,
         r.op \in {"pass", "probe", "dup"} /\ r.from # NoNode => r.rest \subseteq Keys(fdMap[r.from]),
         r.op = "dup" /\ r.nFd \in Fds => table[r.nFd] = Closed
  PROVE  Books'
<1>1. \A m \in Linkers : m = l /\ link'[m] = r /\ Pending(m) = {} /\ Pending(m)' = {}
  BY DEF TypeOK, OneThread, Pending
<1>2. Accounted'
  BY <1>1 DEF Books, Accounted, Keys
<1>3. TableKnown' /\ LinkKnown' /\ AskedKept'
  BY <1>1 DEF Books, TableKnown, LinkKnown, AskedKept, Keys
<1> QED
  BY <1>2, <1>3 DEF Books

\* open() and close() of the thread itself.
LEMMA OpenBooks ==
  ASSUME TypeOK, Books, OneThread, NEW l \in Linkers,
         OpenReserves(l) \/ OpenInstalls(l) \/ \E k \in Fds : CloseOwn(l, k)
  PROVE  Books'
<1>1. \A m \in Linkers : m = l
  BY DEF OneThread
<1>2. Accounted /\ TableKnown /\ LinkKnown /\ AskedKept /\ UNCHANGED <<fdMap, asked>>
  BY DEF Books, OpenReserves, OpenInstalls, CloseOwn
<1>3. \A n \in Nodes : \A k \in Keys(fdMap[n]) : k \in Fds /\ table[k] \in Open
  BY <1>2, LinksOpen
<1>4. CASE OpenReserves(l)
  <2>1. PICK k \in Fds : /\ table[k] = Closed
                         /\ table' = [table EXCEPT ![k] = Reserved]
                         /\ link' = [link EXCEPT ![l].op = "open", ![l].nFd = k]
    BY <1>4 DEF OpenReserves, Lowest
  <2>2. /\ link[l].op = "idle" /\ link'[l].op = "open" /\ link'[l].nFd = k
        /\ Pending(l) = {} /\ Pending(l)' = {k} /\ UNCHANGED mine
    <3>1. link[l] \in Links /\ link[l].op = "idle" /\ UNCHANGED mine
      BY <1>4 DEF OpenReserves, At, TypeOK
    <3>2. link'[l] = [link[l] EXCEPT !.op = "open", !.nFd = k]
      BY <2>1 DEF TypeOK
    <3>3. link'[l].op = "open" /\ link'[l].nFd = k
      BY <3>1, <3>2 DEF Links
    <3> QED
      BY <3>1, <3>3 DEF Pending
  <2>3. \A j \in Fds : table'[j] = IF j = k THEN Reserved ELSE table[j]
    BY <2>1 DEF TypeOK
  <2>4. \A n \in Nodes : k \notin Keys(fdMap[n])
    BY <1>3, <2>1, NoFiles
  <2>5. k \notin Stdio /\ k \notin mine[l] /\ mine[l] \subseteq Fds
    BY <1>2, <2>1, NoFiles DEF TableKnown, TypeOK
  <2>6. Accounted'
    <3>1. ASSUME NEW j \in Fds, table'[j] # Closed
          PROVE  \/ j \in Stdio
                 \/ \E m \in Linkers : j \in mine'[m] \cup Pending(m)'
                 \/ \E n \in Nodes : fdMap'[n][j] # NoFd
      BY <1>1, <1>2, <2>2, <2>3, <3>1 DEF Accounted
    <3>2. ASSUME NEW n \in Nodes, NEW j \in Keys(fdMap'[n])
          PROVE  /\ <<fdMap'[n][j], table'[j]>> \in asked'[n]
                 /\ j \notin Stdio
                 /\ \A m \in Linkers : j \notin mine'[m] \cup Pending(m)'
                 /\ \A m \in Nodes : fdMap'[m][j] # NoFd => m = n
      <4>1. j \in Keys(fdMap[n]) /\ j # k /\ table'[j] = table[j]
        BY <1>2, <1>3, <2>3, <2>4, <3>2
      <4> QED
        BY <1>1, <1>2, <2>2, <4>1 DEF Accounted
    <3>3. \A m \in Linkers : link'[m].op # "dup"
      BY <1>1, <2>2
    <3> QED
      BY <3>1, <3>2, <3>3 DEF Accounted
  <2>7. TableKnown'
    BY <1>1, <1>2, <2>2, <2>3, <2>5 DEF TableKnown
  <2>8. LinkKnown' /\ AskedKept'
    BY <1>1, <1>2, <2>2 DEF LinkKnown, AskedKept, Keys
  <2> QED
    BY <2>6, <2>7, <2>8 DEF Books
<1>5. CASE OpenInstalls(l)
  <2> DEFINE k == link[l].nFd
  <2>1. link[l].op = "open" /\ k \in Fds /\ table[k] = Reserved
    BY <1>2, <1>5 DEF OpenInstalls, At, TypeOK, TableKnown
  <2>2. PICK f \in Files : table' = [table EXCEPT ![k] = f]
    BY <1>5 DEF OpenInstalls
  <2>3. /\ link'[l] = IdleLink /\ mine'[l] = mine[l] \cup {k}
        /\ Pending(l) = {k} /\ Pending(l)' = {}
    BY <1>5, <2>1 DEF OpenInstalls, TypeOK, Pending, IdleLink
  <2>4. \A j \in Fds : table'[j] = IF j = k THEN f ELSE table[j]
    BY <2>1, <2>2 DEF TypeOK
  <2>5. \A n \in Nodes : k \notin Keys(fdMap[n])
    BY <1>3, <2>1, NoFiles
  <2>6. k \notin Stdio /\ mine[l] \subseteq Fds /\ f \in Open
    BY <1>2, <2>1 DEF TableKnown, TypeOK, Open
  <2> HIDE DEF k
  <2>7. Accounted'
    <3>1. ASSUME NEW j \in Fds, table'[j] # Closed
          PROVE  \/ j \in Stdio
                 \/ \E m \in Linkers : j \in mine'[m] \cup Pending(m)'
                 \/ \E n \in Nodes : fdMap'[n][j] # NoFd
      BY <1>1, <1>2, <2>3, <2>4, <3>1 DEF Accounted
    <3>2. ASSUME NEW n \in Nodes, NEW j \in Keys(fdMap'[n])
          PROVE  /\ <<fdMap'[n][j], table'[j]>> \in asked'[n]
                 /\ j \notin Stdio
                 /\ \A m \in Linkers : j \notin mine'[m] \cup Pending(m)'
                 /\ \A m \in Nodes : fdMap'[m][j] # NoFd => m = n
      <4>1. j \in Keys(fdMap[n]) /\ j # k /\ table'[j] = table[j]
        BY <1>2, <1>3, <2>4, <2>5, <3>2
      <4> QED
        BY <1>1, <1>2, <2>3, <4>1 DEF Accounted
    <3>3. \A m \in Linkers : link'[m].op # "dup"
      BY <1>1, <2>3 DEF IdleLink
    <3> QED
      BY <3>1, <3>2, <3>3 DEF Accounted
  <2>8. TableKnown'
    <3>1. \A j \in mine'[l] : table'[j] \in Open /\ j \notin Stdio
      BY <1>2, <2>1, <2>3, <2>4, <2>6 DEF TableKnown
    <3>2. k \in Fds /\ \A j \in Stdio : j # k /\ j \in Fds
      BY <2>1, <2>6
    <3>3. \A j \in Stdio : table'[j] = Tty
      BY <1>2, <2>4, <3>2 DEF TableKnown
    <3> QED
      BY <1>1, <2>3, <3>1, <3>3 DEF TableKnown, IdleLink
  <2>9. LinkKnown' /\ AskedKept'
    BY <1>1, <1>2, <2>3 DEF LinkKnown, AskedKept, Keys, IdleLink
  <2> QED
    BY <2>7, <2>8, <2>9 DEF Books
<1>6. ASSUME NEW k \in Fds, CloseOwn(l, k) PROVE Books'
  <2>1. /\ k \in mine[l] /\ mine'[l] = mine[l] \ {k} /\ UNCHANGED link /\ link[l].op = "idle"
        /\ Pending(l) = {} /\ Pending(l)' = {}
    BY <1>6 DEF CloseOwn, At, TypeOK, Pending
  <2>2. \A j \in Fds : table'[j] = IF j = k THEN Closed ELSE table[j]
    BY <1>6 DEF CloseOwn, TypeOK
  <2>3. k \notin Stdio /\ \A n \in Nodes : k \notin Keys(fdMap[n])
    BY <1>2, <2>1 DEF Accounted, TableKnown
  <2>4. mine[l] \subseteq Fds
    BY DEF TypeOK
  <2>5. Accounted'
    <3>1. ASSUME NEW j \in Fds, table'[j] # Closed
          PROVE  \/ j \in Stdio
                 \/ \E m \in Linkers : j \in mine'[m] \cup Pending(m)'
                 \/ \E n \in Nodes : fdMap'[n][j] # NoFd
      BY <1>1, <1>2, <2>1, <2>2, <3>1 DEF Accounted
    <3>2. ASSUME NEW n \in Nodes, NEW j \in Keys(fdMap'[n])
          PROVE  /\ <<fdMap'[n][j], table'[j]>> \in asked'[n]
                 /\ j \notin Stdio
                 /\ \A m \in Linkers : j \notin mine'[m] \cup Pending(m)'
                 /\ \A m \in Nodes : fdMap'[m][j] # NoFd => m = n
      <4>1. j \in Keys(fdMap[n]) /\ j # k /\ table'[j] = table[j]
        BY <1>2, <1>3, <2>2, <2>3, <3>2
      <4> QED
        BY <1>1, <1>2, <2>1, <4>1 DEF Accounted
    <3> QED
      BY <1>1, <2>1, <3>1, <3>2 DEF Accounted
  <2>6. TableKnown'
    BY <1>1, <1>2, <2>1, <2>2, <2>3, <2>4 DEF TableKnown
  <2>7. LinkKnown' /\ AskedKept'
    BY <1>1, <1>2, <2>1 DEF LinkKnown, AskedKept, Keys
  <2> QED
    BY <2>5, <2>6, <2>7 DEF Books
<1> QED
  BY <1>4, <1>5, <1>6

\* The calls: a thread's own linkFd(), passFd() and passFds().
LEMMA CallBooks ==
  ASSUME TypeOK, Books, OneThread, NEW l \in Linkers,
         \/ \E n \in Nodes, fd \in Targets, extFd \in Fds : LinkFd(l, n, fd, extFd)
         \/ \E m, n \in Nodes : PassFds(l, m, n)
         \/ \E m, n \in Nodes, fd, childFd \in Targets : PassFd(l, m, n, fd, childFd)
         \/ PassNext(l)
  PROVE  Books'
<1>1. link[l].op \in {"idle", "pass"} /\ UNCHANGED <<table, mine, fdMap, asked>>
  BY DEF LinkFd, PassFds, PassFd, PassNext, At
<1>2. ASSUME NEW n \in Nodes, NEW fd \in Targets, NEW extFd \in Fds, NEW from, NEW rest,
             link' = [link EXCEPT ![l] = Linking(n, fd, extFd, from, rest)],
             from # NoNode => rest \subseteq Keys(fdMap[from])
      PROVE  Books'
  <2> DEFINE r == Linking(n, fd, extFd, from, rest)
  <2>1. r.op = "probe" /\ r.fd = fd /\ r.from = from /\ r.rest = rest
    BY DEF Linking
  <2>2. link' = [link EXCEPT ![l] = r]
    BY <1>2
  <2> HIDE DEF r
  <2> QED
    BY <1>1, <1>2, <2>1, <2>2, MovesBooks
<1>3. ASSUME NEW m \in Nodes, NEW n \in Nodes, PassFds(l, m, n) PROVE Books'
  <2> DEFINE r == [IdleLink EXCEPT !.op = "pass", !.node = n, !.from = m, !.rest = Keys(fdMap[m])]
  <2>1. r.op = "pass" /\ r.from = m /\ r.rest = Keys(fdMap[m])
    BY DEF IdleLink
  <2>2. link' = [link EXCEPT ![l] = r]
    BY <1>3 DEF PassFds
  <2> HIDE DEF r
  <2> QED
    BY <1>1, <2>1, <2>2, MovesBooks
<1>4. CASE PassNext(l)
  <2>1. /\ link[l] \in Links /\ link[l].op = "pass"
        /\ link[l].node \in Nodes /\ link[l].from \in Nodes /\ NoNode \notin Nodes
    BY <1>4 DEF PassNext, At, TypeOK
  <2>2. link[l].rest \subseteq Keys(fdMap[link[l].from])
    BY <2>1 DEF Books, LinkKnown
  <2>3. CASE link' = [link EXCEPT ![l] = IdleLink]
    <3>1. IdleLink.op = "idle"
      BY DEF IdleLink
    <3> QED
      BY <1>1, <2>3, <3>1, MovesBooks
  <2>4. ASSUME NEW k \in link[l].rest, link' = [link EXCEPT ![l] =
                 Linking(link[l].node, fdMap[link[l].from][k], k, link[l].from, link[l].rest \ {k})]
        PROVE  Books'
    <3>1. k \in Fds /\ fdMap[link[l].from][k] \in Targets
      BY <2>1, <2>2 DEF Keys, TypeOK
    <3>2. link[l].rest \ {k} \subseteq Keys(fdMap[link[l].from])
      BY <2>2
    <3> QED
      BY <1>2, <2>1, <2>4, <3>1, <3>2
  <2> QED
    BY <1>4, <2>3, <2>4 DEF PassNext
<1>5. CASE \E n \in Nodes, fd \in Targets, extFd \in Fds : LinkFd(l, n, fd, extFd)
  BY <1>2, <1>5 DEF LinkFd
<1>6. CASE \E m, n \in Nodes, fd, childFd \in Targets : PassFd(l, m, n, fd, childFd)
  BY <1>2, <1>6 DEF PassFd
<1> QED
  BY <1>3, <1>4, <1>5, <1>6

\* A number that is reserved is one that the thread's own open() has taken: it is
\* not there while the thread is in linkFd().
LEMMA NoneReserved ==
  ASSUME TypeOK, Books, OneThread, NEW l \in Linkers, link[l].op # "open", NEW k \in Fds,
         table[k] \notin Open
  PROVE  table[k] = Closed
<1>1. ASSUME table[k] # Closed PROVE FALSE
  <2>1. CASE k \in Stdio
    BY <2>1 DEF Books, TableKnown, Open
  <2>2. ASSUME NEW m \in Linkers, k \in mine[m] PROVE FALSE
    BY <2>2 DEF Books, TableKnown
  <2>3. ASSUME NEW m \in Linkers, k \in Pending(m) PROVE FALSE
    BY <2>3 DEF OneThread, Pending
  <2>4. ASSUME NEW n \in Nodes, fdMap[n][k] # NoFd PROVE FALSE
    BY <2>4, LinksOpen DEF Books, Keys
  <2> QED
    BY <1>1, <2>1, <2>2, <2>3, <2>4 DEF Books, Accounted
<1> QED
  BY <1>1

\* The loop of linkFd() up to its dup3().
LEMMA LoopBooks ==
  ASSUME TypeOK, Books, OneThread, NEW l \in Linkers, Probe(l) \/ Dup3Busy(l) \/ Dup3Fails(l)
  PROVE  Books'
<1>1. /\ link[l] \in Links /\ link[l].op \in {"probe", "dup"}
      /\ link[l].fd \in Targets
      /\ link[l].from # NoNode => link[l].rest \subseteq Keys(fdMap[link[l].from])
      /\ UNCHANGED <<table, mine, fdMap, asked>>
  BY DEF Probe, Dup3Busy, Dup3Fails, At, TypeOK, Books, LinkKnown
<1>2. ASSUME NEW op \in {"dup", "threw"}, link' = [link EXCEPT ![l].op = op],
             op = "dup" /\ link[l].nFd \in Fds => table[link[l].nFd] = Closed
      PROVE  Books'
  <2> DEFINE r == [link[l] EXCEPT !.op = op]
  <2>1. /\ r.op = op /\ r.fd = link[l].fd /\ r.nFd = link[l].nFd
        /\ r.from = link[l].from /\ r.rest = link[l].rest
    BY <1>1 DEF Links
  <2>2. link' = [link EXCEPT ![l] = r]
    BY <1>2 DEF TypeOK
  <2> HIDE DEF r
  <2> QED
    BY <1>1, <1>2, <2>1, <2>2, MovesBooks
<1>3. ASSUME Skip(l) PROVE Books'
  <2> DEFINE r == [link[l] EXCEPT !.op = "probe", !.nFd = @ + 1]
  <2>1. r.op = "probe" /\ r.fd = link[l].fd /\ r.from = link[l].from /\ r.rest = link[l].rest
    BY <1>1 DEF Links
  <2>2. link' = [link EXCEPT ![l] = r]
    BY <1>3 DEF Skip, TypeOK
  <2> HIDE DEF r
  <2> QED
    BY <1>1, <2>1, <2>2, MovesBooks
<1>4. CASE Probe(l)
  <2>1. ASSUME link[l].nFd \in Fds, table[link[l].nFd] \notin Open PROVE table[link[l].nFd] = Closed
    BY <1>1, <2>1, NoneReserved
  <2> QED
    BY <1>2, <1>3, <1>4, <2>1 DEF Probe
<1> QED
  BY <1>2, <1>3, <1>4 DEF Dup3Busy, Dup3Fails, Throw

\* dup3() takes a free number.
LEMMA DupBooks ==
  ASSUME TypeOK, Books, OneThread, NEW l \in Linkers, Dup3(l)
  PROVE  Books'
<1> DEFINE t == link[l]
           k == t.nFd
<1>1. /\ t \in Links /\ t.op = "dup" /\ k \in Fds /\ t.node \in Nodes /\ t.extFd \in Fds
      /\ t.fd \in Targets /\ table[t.extFd] \in Open
      /\ t.from # NoNode => t.from \in Nodes /\ t.rest \subseteq Keys(fdMap[t.from])
      /\ NoFd \notin Targets
  BY DEF Dup3, At, TypeOK, Books, LinkKnown, Links, NoFd, Fds
<1>2. table[k] = Closed
  BY <1>1 DEF Books, Accounted
<1>3. /\ table' = [table EXCEPT ![k] = table[t.extFd]]
      /\ fdMap' = [fdMap EXCEPT ![t.node][k] = t.fd]
      /\ asked' = [asked EXCEPT ![t.node] = @ \cup {<<t.fd, table[t.extFd]>>}]
      /\ link' = [link EXCEPT ![l] = Returned(l)] /\ UNCHANGED mine
  BY DEF Dup3
<1> HIDE DEF k
<1>4. /\ \A j \in Fds : table'[j] = IF j = k THEN table[t.extFd] ELSE table[j]
      /\ \A n \in Nodes : \A j \in Fds : fdMap'[n][j] = IF n = t.node /\ j = k THEN t.fd ELSE fdMap[n][j]
      /\ \A n \in Nodes : asked'[n] = IF n = t.node THEN asked[n] \cup {<<t.fd, table[t.extFd]>>}
                                      ELSE asked[n]
  BY <1>1, <1>3 DEF TypeOK
<1>5. /\ k \notin Stdio /\ k \notin mine[l] /\ mine[l] \subseteq Fds
      /\ \A n \in Nodes : fdMap[n][k] = NoFd
  <2>1. \A n \in Nodes : k \notin Keys(fdMap[n])
    BY <1>2, LinksOpen, NoFiles DEF Books
  <2> QED
    BY <1>1, <1>2, <2>1, NoFiles DEF Books, TableKnown, Open, Keys, TypeOK
<1>6. /\ \A m \in Linkers : m = l
      /\ link'[l] = Returned(l) /\ Returned(l).op \in {"idle", "pass"}
      /\ Returned(l).op = "pass" => Returned(l).from = t.from /\ Returned(l).rest = t.rest
                                    /\ t.from # NoNode
      /\ Returned(l).from # NoNode => Returned(l).op = "pass"
  BY <1>1, <1>3 DEF OneThread, TypeOK, Returned, IdleLink, Links
<1>7. Pending(l) = {} /\ Pending(l)' = {}
  BY <1>1, <1>6 DEF Pending
<1> HIDE DEF t
<1>8. \A n \in Nodes : \A j \in Fds :
        j \in Keys(fdMap'[n]) <=> j \in Keys(fdMap[n]) \/ (n = t.node /\ j = k)
  BY <1>1, <1>4 DEF Keys
<1>9. Accounted'
  <2>1. ASSUME NEW j \in Fds, table'[j] # Closed
        PROVE  \/ j \in Stdio
               \/ \E m \in Linkers : j \in mine'[m] \cup Pending(m)'
               \/ \E n \in Nodes : fdMap'[n][j] # NoFd
    BY <1>1, <1>3, <1>4, <1>6, <1>7, <2>1 DEF Books, Accounted
  <2>2. ASSUME NEW n \in Nodes, NEW j \in Keys(fdMap'[n])
        PROVE  /\ <<fdMap'[n][j], table'[j]>> \in asked'[n]
               /\ j \notin Stdio
               /\ \A m \in Linkers : j \notin mine'[m] \cup Pending(m)'
               /\ \A m \in Nodes : fdMap'[m][j] # NoFd => m = n
    <3>1. CASE n = t.node /\ j = k
      <4>1. fdMap'[n][j] = t.fd /\ table'[j] = table[t.extFd]
        BY <1>1, <1>4, <3>1
      <4>2. <<t.fd, table[t.extFd]>> \in asked'[n]
        BY <1>1, <1>4, <3>1
      <4>3. \A m \in Nodes : fdMap'[m][j] # NoFd => m = n
        BY <1>1, <1>4, <1>5, <3>1
      <4>4. j \notin Stdio /\ \A m \in Linkers : j \notin mine'[m] \cup Pending(m)'
        BY <1>3, <1>5, <1>6, <1>7, <3>1
      <4> QED
        BY <4>1, <4>2, <4>3, <4>4
    <3>2. CASE ~(n = t.node /\ j = k)
      <4>1. j \in Keys(fdMap[n]) /\ j \in Fds /\ j # k
        BY <1>5, <1>8, <2>2, <3>2 DEF Keys
      <4> QED
        <5>1. fdMap'[n][j] = fdMap[n][j] /\ table'[j] = table[j] /\ asked[n] \subseteq asked'[n]
          BY <1>4, <4>1
        <5>2. /\ <<fdMap[n][j], table[j]>> \in asked[n] /\ j \notin Stdio
              /\ j \notin mine[l] /\ \A m \in Nodes : fdMap[m][j] # NoFd => m = n
          BY <4>1 DEF Books, Accounted
        <5>3. \A m \in Nodes : fdMap'[m][j] # NoFd => m = n
          BY <1>4, <4>1, <5>2
        <5>4. \A m \in Linkers : j \notin mine'[m] \cup Pending(m)'
          BY <1>3, <1>6, <1>7, <5>2
        <5> QED
          BY <5>1, <5>2, <5>3, <5>4
    <3> QED
      BY <3>1, <3>2
  <2>3. \A m \in Linkers : link'[m].op # "dup"
    BY <1>6
  <2> QED
    BY <2>1, <2>2, <2>3 DEF Accounted
<1>10. TableKnown'
  <2>1. \A j \in Stdio : table'[j] = Tty
    BY <1>4, <1>5 DEF Books, TableKnown
  <2>2. \A j \in mine'[l] : table'[j] \in Open /\ j \notin Stdio
    BY <1>3, <1>4, <1>5 DEF Books, TableKnown
  <2> QED
    BY <1>6, <2>1, <2>2 DEF TableKnown
<1>11. LinkKnown'
  <2>1. ASSUME Returned(l).from # NoNode PROVE Returned(l).rest \subseteq Keys(fdMap'[Returned(l).from])
    <3>1. t.from \in Nodes /\ t.rest \subseteq Keys(fdMap[t.from]) /\ Returned(l).from = t.from
          /\ Returned(l).rest = t.rest
      BY <1>1, <1>6, <2>1
    <3>2. Keys(fdMap[t.from]) \subseteq Keys(fdMap'[t.from])
      BY <1>8, <3>1 DEF Keys
    <3> QED
      BY <3>1, <3>2
  <2> QED
    BY <1>6, <2>1 DEF LinkKnown
<1>12. AskedKept'
  <2>1. ASSUME NEW n \in Nodes, NEW a \in asked'[n] PROVE \E j \in Keys(fdMap'[n]) : fdMap'[n][j] = a[1]
    <3>1. CASE a \in asked[n]
      <4>1. PICK j \in Keys(fdMap[n]) : fdMap[n][j] = a[1]
        BY <3>1 DEF Books, AskedKept
      <4>2. j \in Fds /\ j # k
        BY <1>5, <4>1 DEF Keys
      <4> QED
        BY <1>4, <1>8, <4>1, <4>2
    <3>2. CASE n = t.node /\ a = <<t.fd, table[t.extFd]>>
      BY <1>1, <1>4, <1>8, <3>2
    <3>3. asked'[n] = IF n = t.node THEN asked[n] \cup {<<t.fd, table[t.extFd]>>} ELSE asked[n]
      BY <1>4
    <3>4. a \in asked[n] \/ (n = t.node /\ a = <<t.fd, table[t.extFd]>>)
      BY <2>1, <3>3
    <3> QED
      BY <3>1, <3>2, <3>4
  <2> QED
    BY <2>1 DEF AskedKept
<1> QED
  BY <1>9, <1>10, <1>11, <1>12 DEF Books

\* closeFds() of a node, in its startup().
LEMMA CloseBooks ==
  ASSUME TypeOK, Books, OneThread, NEW l \in Linkers, link[l].op = "idle", NEW n \in Nodes,
         CloseFds(n), UNCHANGED <<mine, link>>
  PROVE  Books'
<1>1. \A m \in Linkers : m = l /\ link[m].op = "idle" /\ Pending(m) = {} /\ Pending(m)' = {}
  BY DEF OneThread, Pending
<1>2. /\ \A j \in Fds : table'[j] = IF j \in Keys(fdMap[n]) THEN Closed ELSE table[j]
      /\ \A m \in Nodes : \A j \in Fds : fdMap'[m][j] = IF m = n THEN NoFd ELSE fdMap[m][j]
      /\ \A m \in Nodes : asked'[m] = IF m = n THEN {} ELSE asked[m]
  BY DEF CloseFds, TypeOK
<1>3. Accounted /\ TableKnown /\ LinkKnown /\ AskedKept /\ mine[l] \subseteq Fds
  BY DEF Books, TypeOK
<1>4. \A m \in Nodes : \A j \in Fds : j \in Keys(fdMap'[m]) <=> m # n /\ j \in Keys(fdMap[m])
  BY <1>2 DEF Keys
<1>5. \A m \in Nodes : m # n => \A j \in Keys(fdMap[m]) : j \notin Keys(fdMap[n])
  BY <1>3 DEF Accounted, Keys
<1>6. Accounted'
  <2>1. ASSUME NEW j \in Fds, table'[j] # Closed
        PROVE  \/ j \in Stdio
               \/ \E m \in Linkers : j \in mine'[m] \cup Pending(m)'
               \/ \E m \in Nodes : fdMap'[m][j] # NoFd
    <3>1. j \notin Keys(fdMap[n]) /\ table[j] # Closed
      BY <1>2, <2>1
    <3>2. fdMap[n][j] = NoFd
      BY <3>1 DEF Keys
    <3> QED
      BY <1>1, <1>2, <1>3, <3>1, <3>2 DEF Accounted
  <2>2. ASSUME NEW m \in Nodes, NEW j \in Keys(fdMap'[m])
        PROVE  /\ <<fdMap'[m][j], table'[j]>> \in asked'[m]
               /\ j \notin Stdio
               /\ \A o \in Linkers : j \notin mine'[o] \cup Pending(o)'
               /\ \A o \in Nodes : fdMap'[o][j] # NoFd => o = m
    <3>1. j \in Fds
      BY <2>2 DEF Keys
    <3>2. m # n /\ j \in Keys(fdMap[m]) /\ j \notin Keys(fdMap[n])
      BY <1>4, <1>5, <2>2, <3>1
    <3> QED
      BY <1>1, <1>2, <1>3, <3>1, <3>2 DEF Accounted
  <2>3. \A m \in Linkers : link'[m].op # "dup"
    BY <1>1
  <2> QED
    BY <2>1, <2>2, <2>3 DEF Accounted
<1>7. TableKnown'
  <2>1. \A j \in Stdio : j \notin Keys(fdMap[n])
    BY <1>3 DEF Accounted
  <2>2. \A j \in mine[l] : j \notin Keys(fdMap[n])
    BY <1>3 DEF Accounted
  <2> QED
    BY <1>1, <1>2, <1>3, <2>1, <2>2 DEF TableKnown
<1>8. LinkKnown'
  BY <1>1 DEF LinkKnown
<1>9. AskedKept'
  <2>1. ASSUME NEW m \in Nodes, NEW a \in asked'[m] PROVE \E j \in Keys(fdMap'[m]) : fdMap'[m][j] = a[1]
    <3>1. m # n /\ a \in asked[m]
      BY <1>2, <2>1
    <3>2. PICK j \in Keys(fdMap[m]) : fdMap[m][j] = a[1]
      BY <1>3, <3>1 DEF AskedKept
    <3>3. j \in Fds
      BY <3>2 DEF Keys
    <3> QED
      BY <1>2, <1>4, <3>1, <3>2, <3>3
  <2> QED
    BY <2>1 DEF AskedKept
<1> QED
  BY <1>6, <1>7, <1>8, <1>9 DEF Books

\* Only what the child of one leaf is changes.
LEMMA ChildChanges ==
  ASSUME TypeOK, ChildKnown, ChildSees, NEW n \in Leaves, NEW c, child' = [child EXCEPT ![n] = c],
         c.op = "overwrite" => LinksRight(c), c.op = "exec" => SeesRight(c)
  PROVE  ChildKnown' /\ ChildSees'
<1>1. \A m \in Leaves : child'[m] = IF m = n THEN c ELSE child[m]
  BY DEF TypeOK
<1>2. ChildKnown'
  BY <1>1 DEF ChildKnown
<1>3. \A m \in Leaves : child[m].op = "exec" => SeesRight(child[m])
  BY DEF ChildSees, SeesRight
<1>4. \A m \in Leaves : child'[m].op = "exec" => SeesRight(child'[m])
  BY <1>1, <1>3
<1>5. ChildSees'
  BY <1>4 DEF ChildSees, SeesRight
<1> QED
  BY <1>2, <1>5

\* startup() of a leaf: the child starts with its node's links, all still to be
\* moved, and the files they lead to.
LEMMA StartupSees ==
  ASSUME TypeOK, Books, ChildKnown, ChildSees, NEW l \in Linkers, NEW n \in Leaves, Startup(l, n)
  PROVE  ChildKnown' /\ ChildSees'
<1> DEFINE c == [op |-> "overwrite", tbl |-> Copied, start |-> Copied, map |-> fdMap[n],
                 todo |-> Keys(fdMap[n]), keep |-> Stdio, asked |-> asked[n]]
<1>1. /\ c.op = "overwrite" /\ c.tbl = Copied /\ c.start = Copied /\ c.map = fdMap[n]
      /\ c.keep = Stdio /\ c.asked = asked[n] /\ Moved(c) = {}
  BY DEF Moved
<1>2. child' = [child EXCEPT ![n] = c] /\ n \in Nodes
  BY DEF Startup
<1> HIDE DEF c
<1>3. \A k \in Fds : table[k] \in Open => Copied[k] = table[k]
  BY NoFiles DEF Copied
<1>4. \A k \in Stdio : c.start[k] = Tty
  BY <1>1, <1>3 DEF Books, TableKnown, Open
<1>5. ASSUME NEW k \in Keys(c.map) PROVE <<c.map[k], c.start[k]>> \in c.asked
  <2>1. k \in Keys(fdMap[n]) /\ Accounted
    BY <1>1, <1>5 DEF Books
  <2>2. k \in Fds /\ table[k] \in Open
    BY <1>2, <2>1, LinksOpen
  <2>3. <<fdMap[n][k], table[k]>> \in asked[n]
    BY <1>2, <2>1 DEF Accounted
  <2> QED
    BY <1>1, <1>3, <2>2, <2>3
<1>6. \A a \in c.asked : \E k \in Keys(c.map) : c.map[k] = a[1]
  BY <1>1, <1>2 DEF Books, AskedKept
<1> QED
  <2>1. LinksRight(c)
    BY <1>1, <1>4, <1>5, <1>6 DEF LinksRight
  <2> QED
    BY <1>1, <1>2, <2>1, ChildChanges

\* One turn of overwriteFds: the link it moves still leads to the file it led to.
LEMMA DupSees ==
  ASSUME TypeOK, SourcesKept, ChildKnown, ChildSees, NEW n \in Leaves, ChildDup(n)
  PROVE  ChildKnown' /\ ChildSees'
<1> DEFINE b == child[n]
<1>1. /\ b \in Children /\ b.op = "overwrite" /\ b.todo \subseteq Keys(b.map)
      /\ LinksRight(b)
      /\ \A k \in Stdio : b.start[k] = Tty
      /\ \A k \in Keys(b.map) : <<b.map[k], b.start[k]>> \in b.asked
      /\ \A a \in b.asked : \E k \in Keys(b.map) : b.map[k] = a[1]
      /\ b.keep = Stdio \cup {b.map[k] : k \in Moved(b)}
      /\ \A k \in Fds : (\A j \in Moved(b) : b.map[j] # k) => b.tbl[k] = b.start[k]
      /\ \A j \in Moved(b) : <<b.map[j], b.tbl[b.map[j]]>> \in b.asked
  BY DEF ChildDup, TypeOK, ChildKnown, LinksRight
<1>2. PICK k \in Fds :
        /\ k \in b.todo
        /\ b.map[k] \in Targets
        /\ \/ child' = [child EXCEPT ![n] =
                [b EXCEPT !.tbl = [@ EXCEPT ![b.map[k]] = b.tbl[k]],
                          !.keep = @ \cup {b.map[k]}, !.todo = @ \ {k}]]
           \/ child' = [child EXCEPT ![n] = [NoChild EXCEPT !.op = "failed"]]
  BY DupRecord
<1>3. b.tbl[k] = b.start[k]
  BY <1>1, <1>2 DEF SourcesKept
<1> HIDE DEF b
<1> DEFINE t == b.map[k]
           c == [b EXCEPT !.tbl = [@ EXCEPT ![t] = b.tbl[k]], !.keep = @ \cup {t}, !.todo = @ \ {k}]
           d == [NoChild EXCEPT !.op = "failed"]
<1>4. ASSUME child' = [child EXCEPT ![n] = c] PROVE ChildKnown' /\ ChildSees'
  <2>1. /\ c.op = "overwrite" /\ c.map = b.map /\ c.start = b.start /\ c.asked = b.asked
        /\ c.keep = b.keep \cup {t} /\ c.todo = b.todo \ {k}
        /\ \A j \in Fds : c.tbl[j] = IF j = t THEN b.tbl[k] ELSE b.tbl[j]
    BY <1>1 DEF Children
  <2>2. Moved(c) = Moved(b) \cup {k} /\ k \in Keys(b.map) /\ t \in Fds
    BY <1>1, <1>2, <2>1 DEF Moved
  <2> HIDE DEF c
  <2>3. c.keep = Stdio \cup {c.map[j] : j \in Moved(c)}
    BY <1>1, <2>1, <2>2
  <2>4. ASSUME NEW j \in Fds, \A i \in Moved(c) : c.map[i] # j PROVE c.tbl[j] = c.start[j]
    BY <1>1, <2>1, <2>2, <2>4
  <2>5. ASSUME NEW j \in Moved(c) PROVE <<c.map[j], c.tbl[c.map[j]]>> \in c.asked
    <3>1. CASE b.map[j] = t
      BY <1>1, <1>3, <2>1, <2>2, <3>1
    <3>2. CASE b.map[j] # t
      <4>1. j \in Moved(b) /\ b.map[j] \in Fds
        BY <1>1, <2>2, <2>5, <3>2 DEF Moved, Keys, Children
      <4> QED
        BY <1>1, <2>1, <3>2, <4>1
    <3> QED
      BY <3>1, <3>2
  <2> QED
    <3>1. LinksRight(c)
      BY <1>1, <2>1, <2>3, <2>4, <2>5 DEF LinksRight
    <3> QED
      BY <1>4, <2>1, <3>1, ChildChanges
<1>5. ASSUME child' = [child EXCEPT ![n] = d] PROVE ChildKnown' /\ ChildSees'
  <2>1. d.op = "failed"
    BY DEF NoChild
  <2> HIDE DEF d
  <2> QED
    BY <1>5, <2>1, ChildChanges
<1> QED
  BY <1>2, <1>4, <1>5

\* exec: where a link was to be, there is now a file that was asked for, and only
\* the launcher's own descriptors are left besides.
LEMMA ExecSees ==
  ASSUME TypeOK, ChildKnown, ChildSees, NEW n \in Leaves, ChildExec(n) \/ ChildGoes(n)
  PROVE  ChildKnown' /\ ChildSees'
<1>1. CASE ChildExec(n)
  <2> DEFINE b == child[n]
             tbl == [k \in Fds |-> IF k \in b.keep THEN b.tbl[k] ELSE Closed]
             c == [NoChild EXCEPT !.op = "exec", !.asked = b.asked, !.tbl = tbl]
  <2>1. /\ b \in Children /\ Moved(b) = Keys(b.map)
        /\ \A k \in Stdio : b.start[k] = Tty
        /\ \A a \in b.asked : \E k \in Keys(b.map) : b.map[k] = a[1]
        /\ b.keep = Stdio \cup {b.map[k] : k \in Moved(b)}
        /\ \A k \in Fds : (\A j \in Moved(b) : b.map[j] # k) => b.tbl[k] = b.start[k]
        /\ \A j \in Moved(b) : <<b.map[j], b.tbl[b.map[j]]>> \in b.asked
    BY <1>1 DEF ChildExec, TypeOK, ChildKnown, LinksRight, Moved
  <2>2. child' = [child EXCEPT ![n] = c]
    BY <1>1 DEF ChildExec
  <2> HIDE DEF tbl
  <2>3. c.op = "exec" /\ c.asked = b.asked /\ c.tbl = tbl
    BY DEF NoChild
  <2> HIDE DEF c, b
  <2>4. \A k \in Fds : tbl[k] = IF k \in b.keep THEN b.tbl[k] ELSE Closed
    BY DEF tbl
  <2>5. ASSUME NEW k \in Fds
        PROVE  LET files == {f \in Open : <<k, f>> \in b.asked}
               IN  tbl[k] \in IF files # {} THEN files ELSE {IF k \in Stdio THEN Tty ELSE Closed}
    <3> DEFINE files == {f \in Open : <<k, f>> \in b.asked}
    <3>1. CASE \E j \in Moved(b) : b.map[j] = k
      <4>1. <<k, b.tbl[k]>> \in b.asked /\ k \in b.keep
        BY <2>1, <3>1
      <4>2. b.tbl[k] \in Open
        BY <2>1, <4>1 DEF Children
      <4> QED
        BY <2>4, <4>1, <4>2
    <3>2. CASE \A j \in Moved(b) : b.map[j] # k
      <4>1. files = {}
        <5>1. ASSUME NEW f \in Open, <<k, f>> \in b.asked PROVE FALSE
          <6>1. PICK j \in Keys(b.map) : b.map[j] = <<k, f>>[1]
            BY <2>1, <5>1
          <6> QED
            BY <2>1, <3>2, <6>1
        <5> QED
          BY <5>1
      <4>2. (k \in b.keep) = (k \in Stdio) /\ b.tbl[k] = b.start[k]
        BY <2>1, <3>2
      <4> QED
        BY <2>1, <2>4, <4>1, <4>2
    <3> QED
      BY <3>1, <3>2
  <2> QED
    <3>1. SeesRight(c)
      BY <2>3, <2>5 DEF SeesRight
    <3> QED
      BY <2>2, <2>3, <3>1, ChildChanges
<1>2. CASE ChildGoes(n)
  <2>1. child' = [child EXCEPT ![n] = NoChild] /\ NoChild.op = "none"
    BY <1>2 DEF ChildGoes, NoChild
  <2> QED
    BY <2>1, ChildChanges
<1> QED
  BY <1>1, <1>2

\* Every step keeps all of it.
LEMMA KeptStep == ASSUME OneThread, Kept, [Next]_vars PROVE Kept'
<1>1. TypeOK /\ SourcesKept /\ Books /\ ChildKnown /\ ChildSees /\ Above'
  BY AboveStep DEF Kept, Above
<1>2. ASSUME UNCHANGED child PROVE ChildKnown' /\ ChildSees'
  <2>1. ChildKnown'
    BY <1>1, <1>2 DEF ChildKnown
  <2>2. ChildSees'
    BY <1>1, <1>2 DEF ChildSees
  <2> QED
    BY <2>1, <2>2
<1>3. CASE UNCHANGED vars
  <2>1. Books'
    BY <1>1, <1>3 DEF vars, Books, Accounted, TableKnown, LinkKnown, AskedKept, Pending, Keys
  <2> QED
    BY <1>1, <1>2, <1>3, <2>1 DEF vars, Kept
<1>4. ASSUME NEW l \in Linkers, InLinkFd(l) PROVE Kept'
  <2>1. UNCHANGED child
    BY <1>4 DEF InLinkFd, Probe, Dup3, Dup3Busy, Dup3Fails, PassNext, OpenInstalls
  <2>2. Books'
    BY <1>1, <1>4, LoopBooks, DupBooks, CallBooks, OpenBooks DEF InLinkFd
  <2> QED
    BY <1>1, <1>2, <2>1, <2>2 DEF Kept
<1>5. ASSUME NEW l \in Linkers, NEW n \in Nodes, Startup(l, n) \/ GroupCloses(l, n) PROVE Kept'
  <2>1. Books'
    BY <1>1, <1>5, CloseBooks DEF Startup, GroupCloses, At
  <2>2. ChildKnown' /\ ChildSees'
    <3>1. CASE Startup(l, n)
      BY <1>1, <3>1, StartupSees DEF Startup
    <3>2. CASE GroupCloses(l, n)
      BY <1>2, <3>2 DEF GroupCloses
    <3> QED
      BY <1>5, <3>1, <3>2
  <2> QED
    BY <1>1, <2>1, <2>2 DEF Kept
<1>6. ASSUME NEW l \in Linkers, Caller(l) PROVE Kept'
  <2>1. CASE \E n \in Nodes : Startup(l, n) \/ GroupCloses(l, n)
    BY <1>5, <2>1
  <2>2. CASE ~\E n \in Nodes : Startup(l, n) \/ GroupCloses(l, n)
    <3>1. UNCHANGED child
      BY <1>6, <2>2 DEF Caller, OpenReserves, CloseOwn, LinkFd, PassFds, PassFd
    <3>2. Books'
      BY <1>1, <1>6, <2>2, CallBooks, OpenBooks DEF Caller
    <3> QED
      BY <1>1, <1>2, <3>1, <3>2 DEF Kept
  <2> QED
    BY <2>1, <2>2
<1>7. ASSUME NEW n \in Leaves, ChildDup(n) \/ ChildExec(n) \/ ChildGoes(n) PROVE Kept'
  <2>1. ChildKnown' /\ ChildSees'
    BY <1>1, <1>7, DupSees, ExecSees
  <2>2. UNCHANGED <<table, mine, fdMap, asked, link>>
    BY <1>7 DEF ChildDup, ChildExec, ChildGoes
  <2>3. Books'
    BY <1>1, <2>2 DEF Books, Accounted, TableKnown, LinkKnown, AskedKept, Pending, Keys
  <2> QED
    BY <1>1, <2>1, <2>3 DEF Kept
<1>8. CASE Stopped
  BY <1>3, <1>8 DEF Stopped
<1> QED
  BY <1>3, <1>4, <1>6, <1>7, <1>8 DEF Next

\* At first there are the launcher's own descriptors only.
LEMMA KeptInit == Init => Kept
<1> SUFFICES ASSUME Init PROVE Kept
  OBVIOUS
<1>1. /\ \A l \in Linkers : link[l] = IdleLink /\ mine[l] = {}
      /\ \A k \in Fds : table[k] = IF k \in Stdio THEN Tty ELSE Closed
      /\ \A n \in Nodes : asked[n] = {} /\ \A k \in Fds : fdMap[n][k] = NoFd
      /\ \A n \in Leaves : child[n].op = "none"
  BY DEF Init, NoChild
<1>2. IdleLink.op = "idle"
  BY DEF IdleLink
<1>3. Accounted
  BY <1>1, <1>2 DEF Accounted, Keys, Pending
<1>4. TableKnown
  BY <1>1, <1>2 DEF TableKnown
<1>5. LinkKnown /\ AskedKept
  BY <1>1, <1>2 DEF LinkKnown, AskedKept
<1>6. ChildKnown /\ ChildSees
  BY <1>1 DEF ChildKnown, ChildSees
<1> QED
  BY <1>3, <1>4, <1>5, <1>6, AboveInit DEF Kept, Books

\* Accounted: with one thread that links descriptors, however often nodes are
\* started, no number is lost, shared or left behind (Node.cxx:17-21, 120-142).
THEOREM NoneLost == OneThread => (Spec => []Accounted)
<1> SUFFICES ASSUME OneThread PROVE Spec => []Accounted
  OBVIOUS
<1>1. Kept => Accounted
  BY DEF Kept, Books
<1>2. Kept /\ [Next]_vars => Kept'
  BY KeptStep
<1> QED
  BY <1>1, <1>2, KeptInit, PTL DEF Spec

\* ChildSees: with one thread, what a program finds at a descriptor is what was
\* linked there, or the launcher's own, for any number of nodes and descriptors.
THEOREM SeesItsLinks == OneThread => (Spec => []ChildSees)
<1> SUFFICES ASSUME OneThread PROVE Spec => []ChildSees
  OBVIOUS
<1>1. Kept => ChildSees
  BY DEF Kept
<1>2. Kept /\ [Next]_vars => Kept'
  BY KeptStep
<1> QED
  BY <1>1, <1>2, KeptInit, PTL DEF Spec
=============================================================================
