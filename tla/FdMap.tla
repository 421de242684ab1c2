-------------------------------- MODULE FdMap --------------------------------
(***************************************************************************)
(* The descriptors a node passes to its next instance: linkFd() duplicates *)
(* them out of the way in the launcher, fork() copies the launcher's table *)
(* and overwriteFds() moves them into place in the child, closeFds()       *)
(* releases them in the launcher; passFds() and passFd() hand them down    *)
(* from a group node to a node of the group.                               *)
(*                                                                         *)
(* linkFd probes a number with fcntl() and takes it with dup3(): two       *)
(* system calls, between which another thread of the launcher (SocketNode  *)
(* has one) or its SIGCHLD handler may open descriptors and link too.      *)
(***************************************************************************)
EXTENDS Integers, FiniteSets

CONSTANTS
  Nodes,    \* the nodes
  Leaves,   \* those among them that fork: ExecutableNode
  NoNode,   \* no node
  Linkers,  \* the threads of the launcher that link descriptors
  Files,    \* open files
  Tty,      \* the file the launcher's own descriptors refer to
  Closed,   \* a descriptor number that is free
  Reserved, \* one that an open() has taken and not filled yet
  MaxFd,    \* the descriptor limit of the process
  MaxOwn,   \* bound: descriptors a thread holds open besides the links
  Stdio,    \* the descriptors the launcher itself inherited
  Targets   \* the descriptors an instance wants to see (the `fd' of linkFd)

Fds == 0 .. MaxFd - 1
NoFd == -1
Content == Files \cup {Tty, Closed, Reserved}

ASSUME FdAssumption ==
  /\ MaxFd \in Nat \ {0} /\ MaxOwn \in Nat
  /\ Leaves \subseteq Nodes /\ NoNode \notin Nodes
  /\ Tty \notin Files /\ {Closed, Reserved} \cap (Files \cup {Tty}) = {} /\ Closed # Reserved
  /\ Stdio \subseteq Fds /\ Targets \subseteq Fds

VARIABLES
  table,  \* the launcher's descriptor table
  mine,   \* the descriptors each thread opened and has not closed
  fdMap,  \* Node::fdMap of each node: link -> target
  asked,  \* history: what the links of a node were made for, <<target, file>>
  link,   \* where each thread is in open(), linkFd() or passFds()
  child   \* the process just forked for each leaf

vars == <<table, mine, fdMap, asked, link, child>>

IdleLink == [op |-> "idle", node |-> NoNode, fd |-> NoFd, extFd |-> NoFd, nFd |-> NoFd,
             from |-> NoNode, rest |-> {}]
NoChild == [op |-> "none", tbl |-> [k \in Fds |-> Closed], start |-> [k \in Fds |-> Closed],
            map |-> [k \in Fds |-> NoFd], todo |-> {}, keep |-> {}, asked |-> {}]

Keys(map) == {k \in Fds : map[k] # NoFd}
Open == Files \cup {Tty}

Init ==
  /\ table = [k \in Fds |-> IF k \in Stdio THEN Tty ELSE Closed]
  /\ mine = [l \in Linkers |-> {}]
  /\ fdMap = [n \in Nodes |-> [k \in Fds |-> NoFd]]
  /\ asked = [n \in Nodes |-> {}]
  /\ link = [l \in Linkers |-> IdleLink]
  /\ child = [n \in Leaves |-> NoChild]

-----------------------------------------------------------------------------
(* Helpers *)

\* An exception of linkFd ends the program.  A child works on its own copy of
\* the table, so its steps commute with the launcher's and are taken first.
At(l, op) ==
  /\ link[l].op = op
  /\ \A m \in Linkers : link[m].op # "threw"
  /\ \A n \in Leaves : child[n].op = "none"

Lowest(k, S) == k \in S /\ \A j \in S : k <= j

\* Mutant: starts at the lowest number.
Linking_FromZero(n, fd, extFd, from, rest) ==
  [op |-> "probe", node |-> n, fd |-> fd, extFd |-> extFd, nFd |-> 0,
   from |-> from, rest |-> rest]

\* linkFd(fd, extFd) on n: the first number it looks at is above fd.
Linking(n, fd, extFd, from, rest) ==
  [op |-> "probe", node |-> n, fd |-> fd, extFd |-> extFd, nFd |-> fd + 1,
   from |-> from, rest |-> rest]

\* Where linkFd returns to: the loop of passFds, or its caller.
Returned(l) == IF link[l].from # NoNode THEN [link[l] EXCEPT !.op = "pass"] ELSE IdleLink

\* Mutant: forgets nFd++.
Skip_Stays(l) == link' = [link EXCEPT ![l].op = "probe"]

\* nFd++; continue
Skip(l) == link' = [link EXCEPT ![l].op = "probe", ![l].nFd = @ + 1]

Throw(l) == link' = [link EXCEPT ![l].op = "threw"]

\* closeFds()
CloseFds(n) ==
  /\ table' = [k \in Fds |-> IF k \in Keys(fdMap[n]) THEN Closed ELSE table[k]]
  /\ fdMap' = [fdMap EXCEPT ![n] = [k \in Fds |-> NoFd]]
  /\ asked' = [asked EXCEPT ![n] = {}]

-----------------------------------------------------------------------------
(* The callers: pipe2() or accept4() and close() *)

\* The kernel takes the lowest free number, and fills it later.
OpenReserves(l) ==
  /\ At(l, "idle")
  /\ Cardinality(mine[l]) < MaxOwn
  /\ \E k \in Fds :
       /\ Lowest(k, {j \in Fds : table[j] = Closed})
       /\ table' = [table EXCEPT ![k] = Reserved]
       /\ link' = [link EXCEPT ![l].op = "open", ![l].nFd = k]
  /\ UNCHANGED <<mine, fdMap, asked, child>>

OpenInstalls(l) ==
  /\ At(l, "open")
  /\ \E f \in Files : table' = [table EXCEPT ![link[l].nFd] = f]
  /\ mine' = [mine EXCEPT ![l] = @ \cup {link[l].nFd}]
  /\ link' = [link EXCEPT ![l] = IdleLink]
  /\ UNCHANGED <<fdMap, asked, child>>

CloseOwn(l, k) ==
  /\ At(l, "idle")
  /\ k \in mine[l]
  /\ table' = [table EXCEPT ![k] = Closed]
  /\ mine' = [mine EXCEPT ![l] = @ \ {k}]
  /\ UNCHANGED <<fdMap, asked, link, child>>

-----------------------------------------------------------------------------
(* linkFd(), passFds(), passFd() *)

LinkFd(l, n, fd, extFd) ==
  /\ At(l, "idle")
  /\ extFd \in mine[l]
  /\ link' = [link EXCEPT ![l] = Linking(n, fd, extFd, NoNode, {})]
  /\ UNCHANGED <<table, mine, fdMap, asked, child>>

PassFds(l, m, n) ==
  /\ At(l, "idle")
  /\ m # n
  /\ link' = [link EXCEPT ![l] =
       [IdleLink EXCEPT !.op = "pass", !.node = n, !.from = m, !.rest = Keys(fdMap[m])]]
  /\ UNCHANGED <<table, mine, fdMap, asked, child>>

PassNext(l) ==
  /\ At(l, "pass")
  /\ LET t == link[l]
     IN  \/ t.rest = {} /\ link' = [link EXCEPT ![l] = IdleLink]
         \/ \E k \in t.rest :
              /\ Lowest(k, t.rest)
              /\ link' = [link EXCEPT ![l] =
                   Linking(t.node, fdMap[t.from][k], k, t.from, t.rest \ {k})]
  /\ UNCHANGED <<table, mine, fdMap, asked, child>>

\* Only the first link of the target, in the order of the links, is passed.
PassFd(l, m, n, fd, childFd) ==
  /\ At(l, "idle")
  /\ m # n
  /\ \E k \in Fds :
       /\ Lowest(k, {j \in Fds : fdMap[m][j] = fd})
       /\ link' = [link EXCEPT ![l] = Linking(n, childFd, k, NoNode, {})]
  /\ UNCHANGED <<table, mine, fdMap, asked, child>>

\* Mutant: no fcntl() check.
Probe_Blind(l) ==
  /\ At(l, "probe")
  /\ link' = [link EXCEPT ![l].op = "dup"]
  /\ UNCHANGED <<table, mine, fdMap, asked, child>>

\* fcntl(nFd, F_GETFD) fails on a number that is free, merely reserved, or
\* beyond the limit.
Probe(l) ==
  /\ At(l, "probe")
  /\ IF link[l].nFd \in Fds /\ table[link[l].nFd] \in Open
     THEN Skip(l)
     ELSE link' = [link EXCEPT ![l].op = "dup"]
  /\ UNCHANGED <<table, mine, fdMap, asked, child>>

\* Mutant: fdMap[fd] = nFd.
Dup3_Swapped(l) ==
  LET t == link[l]
  IN  /\ At(l, "dup")
      /\ t.nFd \in Fds
      /\ table[t.nFd] # Reserved
      /\ t.extFd # t.nFd
      /\ table[t.extFd] \in Open
      /\ table' = [table EXCEPT ![t.nFd] = table[t.extFd]]
      /\ fdMap' = [fdMap EXCEPT ![t.node][t.fd] = t.nFd]
      /\ asked' = [asked EXCEPT ![t.node] = @ \cup {<<t.fd, table[t.extFd]>>}]
      /\ link' = [link EXCEPT ![l] = Returned(l)]
      /\ UNCHANGED <<mine, child>>

\* dup3() silently closes what nFd has become in the meantime.
Dup3(l) ==
  LET t == link[l]
  IN  /\ At(l, "dup")
      /\ t.nFd \in Fds
      /\ table[t.nFd] # Reserved
      /\ t.extFd # t.nFd
      /\ table[t.extFd] \in Open
      /\ table' = [table EXCEPT ![t.nFd] = table[t.extFd]]
      /\ fdMap' = [fdMap EXCEPT ![t.node][t.nFd] = t.fd]
      /\ asked' = [asked EXCEPT ![t.node] = @ \cup {<<t.fd, table[t.extFd]>>}]
      /\ link' = [link EXCEPT ![l] = Returned(l)]
      /\ UNCHANGED <<mine, child>>

Dup3Busy(l) ==
  /\ At(l, "dup")
  /\ link[l].nFd \in Fds
  /\ table[link[l].nFd] = Reserved
  /\ table[link[l].extFd] \in Open
  /\ Skip(l)
  /\ UNCHANGED <<table, mine, fdMap, asked, child>>

\* EBADF or EINVAL: the limit, or a source that is no open descriptor any more.
Dup3Fails(l) ==
  /\ At(l, "dup")
  /\ \/ link[l].nFd \notin Fds
     \/ link[l].nFd = link[l].extFd
     \/ table[link[l].extFd] \notin Open
  /\ Throw(l)
  /\ UNCHANGED <<table, mine, fdMap, asked, child>>

-----------------------------------------------------------------------------
(* startup(): fork(), the child's overwriteFds() and exec, closeFds() *)

\* What fork() copies: not the numbers an open() has merely reserved.
Copied == [k \in Fds |-> IF table[k] = Reserved THEN Closed ELSE table[k]]

\* All descriptors of the launcher but its own are close-on-exec.
Startup(l, n) ==
  /\ At(l, "idle")
  /\ n \in Leaves
  /\ child' = [child EXCEPT ![n] =
       [op |-> "overwrite", tbl |-> Copied, start |-> Copied, map |-> fdMap[n],
        todo |-> Keys(fdMap[n]), keep |-> Stdio, asked |-> asked[n]]]
  /\ CloseFds(n)
  /\ UNCHANGED <<mine, link>>

\* A group's startup() ends here, when its startInstance has passed on what it
\* had; so does the life of a RunningSequence.
GroupCloses(l, n) ==
  /\ At(l, "idle")
  /\ n \notin Leaves
  /\ CloseFds(n)
  /\ UNCHANGED <<mine, link, child>>

\* Mutant: from the highest link down.
ChildDup_Down(n) ==
  LET c == child[n]
  IN  /\ c.op = "overwrite"
      /\ \E k \in c.todo :
           /\ \A j \in c.todo : j <= k
           /\ child' = [child EXCEPT ![n].tbl[c.map[k]] = c.tbl[k],
                                     ![n].keep = @ \cup {c.map[k]},
                                     ![n].todo = @ \ {k}]
      /\ UNCHANGED <<table, mine, fdMap, asked, link>>

ChildDup(n) ==
  LET c == child[n]
  IN  /\ c.op = "overwrite"
      /\ \E k \in Fds :
           /\ Lowest(k, c.todo)
           /\ IF c.tbl[k] \in Open
              THEN child' = [child EXCEPT ![n].tbl[c.map[k]] = c.tbl[k],
                                          ![n].keep = @ \cup {c.map[k]},
                                          ![n].todo = @ \ {k}]
              ELSE child' = [child EXCEPT ![n] = [NoChild EXCEPT !.op = "failed"]]
      /\ UNCHANGED <<table, mine, fdMap, asked, link>>

ChildExec(n) ==
  LET c == child[n]
  IN  /\ c.op = "overwrite"
      /\ c.todo = {}
      /\ child' = [child EXCEPT ![n] =
           [NoChild EXCEPT !.op = "exec", !.asked = c.asked,
                           !.tbl = [k \in Fds |-> IF k \in c.keep THEN c.tbl[k] ELSE Closed]]]
      /\ UNCHANGED <<table, mine, fdMap, asked, link>>

\* The program that was started, or the exit in its place, is left to itself.
ChildGoes(n) ==
  /\ child[n].op \in {"exec", "failed"}
  /\ child' = [child EXCEPT ![n] = NoChild]
  /\ UNCHANGED <<table, mine, fdMap, asked, link>>

-----------------------------------------------------------------------------
InLinkFd(l) == Probe(l) \/ Dup3(l) \/ Dup3Busy(l) \/ Dup3Fails(l) \/ PassNext(l) \/ OpenInstalls(l)

Caller(l) ==
  \/ OpenReserves(l)
  \/ \E k \in Fds : CloseOwn(l, k)
  \/ \E n \in Nodes, fd \in Targets, extFd \in Fds : LinkFd(l, n, fd, extFd)
  \/ \E m, n \in Nodes : PassFds(l, m, n)
  \/ \E m, n \in Nodes, fd, childFd \in Targets : PassFd(l, m, n, fd, childFd)
  \/ \E n \in Nodes : Startup(l, n) \/ GroupCloses(l, n)

Stopped == (\E l \in Linkers : link[l].op = "threw") /\ UNCHANGED vars

Next ==
  \/ \E l \in Linkers : InLinkFd(l) \/ Caller(l)
  \/ \E n \in Leaves : ChildDup(n) \/ ChildExec(n) \/ ChildGoes(n)
  \/ Stopped

\* Threads that are inside a call run on, and so do the children.  Strong
\* fairness makes up for the pauses that taking a child's steps first puts into
\* a thread that would never stop for them.
Fairness ==
  /\ \A l \in Linkers : SF_vars(InLinkFd(l))
  /\ \A n \in Leaves : WF_vars(ChildDup(n) \/ ChildExec(n) \/ ChildGoes(n))

Spec == Init /\ [][Next]_vars
FairSpec == Spec /\ Fairness

-----------------------------------------------------------------------------
(* Properties *)

LinkOps == {"idle", "open", "pass", "probe", "dup", "threw"}
ChildOps == {"none", "overwrite", "exec", "failed"}

Links ==
  [op : LinkOps, node : Nodes \cup {NoNode}, fd : Targets \cup {NoFd},
   extFd : Fds \cup {NoFd}, nFd : Fds \cup {NoFd, MaxFd},
   from : Nodes \cup {NoNode}, rest : SUBSET Fds]
Children ==
  [op : ChildOps, tbl : [Fds -> Content], start : [Fds -> Content],
   map : [Fds -> Targets \cup {NoFd}], todo : SUBSET Fds, keep : SUBSET Fds,
   asked : SUBSET ((Targets \cup {NoFd}) \X Open)]

\* The tables, the maps and the locals of the calls have their types.
TypeOK ==
  /\ table \in [Fds -> Content]
  /\ mine \in [Linkers -> SUBSET Fds]
  /\ fdMap \in [Nodes -> [Fds -> Targets \cup {NoFd}]]
  /\ asked \in [Nodes -> SUBSET ((Targets \cup {NoFd}) \X Open)]
  /\ link \in [Linkers -> Links]
  /\ \A l \in Linkers :
       /\ link[l].op = "open" => link[l].nFd \in Fds
       /\ link[l].op \in {"probe", "dup"} => link[l].extFd \in Fds /\ link[l].node \in Nodes
       /\ link[l].op = "pass" => link[l].node \in Nodes /\ link[l].from \in Nodes
       /\ link[l].op \in {"probe", "dup"} => link[l].nFd # NoFd
  /\ child \in [Leaves -> Children]
  /\ \A n \in Leaves : child[n].todo \subseteq Keys(child[n].map)

\* overwriteFds never overwrites a link it has still to move: it goes through
\* the links in ascending order, and each is above its target
\* (Node.cxx:121-122, "such that nFd is never closed by accident").
SourcesKept ==
  \A n \in Leaves : child[n].op = "overwrite" =>
    \A k \in child[n].todo : child[n].tbl[k] = child[n].start[k]

\* A program starts with each descriptor it was linked referring to a file that
\* was linked there, and with nothing else of the launcher but its stdio
\* (Node.hxx, linkFd: "Connects the passed in file descriptor to the next node
\* instance started").
ChildSees ==
  \A n \in Leaves : child[n].op = "exec" =>
    \A k \in Fds :
      LET files == {f \in Open : <<k, f>> \in child[n].asked}
      IN  child[n].tbl[k] \in
            IF files # {} THEN files ELSE {IF k \in Stdio THEN Tty ELSE Closed}

\* The numbers in use, and for what: no link is lost, shared or left behind, and
\* a number about to be taken by dup3 is free.
Pending(l) == IF link[l].op = "open" THEN {link[l].nFd} ELSE {}
Accounted ==
  /\ \A k \in Fds : table[k] # Closed =>
       \/ k \in Stdio
       \/ \E l \in Linkers : k \in mine[l] \cup Pending(l)
       \/ \E n \in Nodes : fdMap[n][k] # NoFd
  /\ \A n \in Nodes : \A k \in Keys(fdMap[n]) :
       /\ <<fdMap[n][k], table[k]>> \in asked[n]
       /\ k \notin Stdio
       /\ \A l \in Linkers : k \notin mine[l] \cup Pending(l)
       /\ \A m \in Nodes : fdMap[m][k] # NoFd => m = n
  /\ \A l \in Linkers : link[l].op = "dup" /\ link[l].nFd \in Fds => table[link[l].nFd] = Closed

\* dup3 only takes a number that was free when linkFd looked (Node.cxx:126,
\* "Check that nFd is not currently an open file descriptor").
TakesFreeFd == [][\A l \in Linkers : Dup3(l) => table[link[l].nFd] = Closed]_vars

\* linkFd comes to an end: its retries pass over every number only once.
LinkTerminates == \A l \in Linkers : link[l].op \in {"probe", "dup"} ~>
  link[l].op \in {"idle", "threw"} \/ \E m \in Linkers : link[m].op = "threw"
=============================================================================
