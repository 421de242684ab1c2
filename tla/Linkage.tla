------------------------------- MODULE Linkage -------------------------------
(***************************************************************************)
(* The descriptors of a whole document: the startup() of a launch makes a  *)
(* pipe for each linkage, hands what was linked to itself to its sub-nodes *)
(* as externalize says, and starts them; a sub-node that is a launch does  *)
(* the same in turn, one that is a program is forked.  A socket node hands *)
(* an accepted connection to its sub-nodes first.                          *)
(*                                                                         *)
(* One thread does all this (linkFd() against another one is in FdMap), so *)
(* linkFd() is one step here.  Programs are known by the descriptors they  *)
(* were started with; one ends at the latest when all it reads from has.   *)
(* The listening descriptors of a socket node are left out.                *)
(***************************************************************************)
EXTENDS Integers, Sequences

CONSTANTS
  Launches,    \* the launch and socket nodes of the documents
  Leaves,      \* their programs; nodes are numbered in the order of their names
  Roots,       \* the nodes that a client may have: the documents' outermost
  Depth,       \* how deep in its document each node is
  Kids,        \* launch node -> its sub-nodes
  Links,       \* launch node -> its linkages
  Externals,   \* launch node -> its externalizations
  Sockets,     \* launch node -> its socket linkages, none if it is no socket node
  ClientLinks, \* the descriptors of a root that a client links
  NoNode,      \* no node
  Tty,         \* what the launcher's own descriptors refer to
  Closed,      \* a descriptor number that is free
  Stdio,       \* the descriptors the launcher inherited
  MaxFd,       \* the descriptor limit of the process
  MaxInst,     \* bound: startups of the root
  MaxPipes     \* bound: the client opens none when there are so many pipes

Nodes == Launches \cup Leaves
Fds == 0 .. MaxFd - 1
NoFd == -1
Ends == {"r", "w", "rw"}
Files == (Nat \X Ends) \cup {Tty}

\* A document is a tree of nodes, and what it links is in it.
ASSUME DocumentAssumption ==
  /\ MaxFd \in Nat /\ MaxInst \in Nat /\ Stdio \subseteq Fds /\ ClientLinks \subseteq {0, 1, 2}
  /\ Roots \subseteq Launches /\ NoNode \notin Nodes /\ Launches \cap Leaves = {}
  /\ Closed \notin Files /\ Tty \notin Nat \X Ends
  /\ Depth \in [Nodes -> Nat] /\ \A n \in Roots : Depth[n] = 0
  /\ Kids \in [Launches -> SUBSET Nodes]
  /\ \A n \in Launches : \A m \in Kids[n] : Depth[m] = Depth[n] + 1
  /\ \A n, o \in Launches : n # o => Kids[n] \cap Kids[o] = {}
  /\ \A n \in Launches :
       /\ Links[n] \in Seq([to : Kids[n], to_fd : Nat, from : Kids[n], from_fd : Nat])
       /\ Externals[n] \in Seq([external : Nat, node : Kids[n], internal : Nat])
       /\ Sockets[n] \in Seq([node : Kids[n], fd : Nat])

VARIABLES
  table,   \* the launcher's descriptor table
  fdMap,   \* Node::fdMap of each node: link -> target
  client,  \* the descriptors the client holds
  frame,   \* where each launch node is in its startup()
  cur,     \* the node whose startup() executes
  root,    \* the node that the client starts
  inst,    \* how many startups of it there have been
  garbled, \* pipe2() has failed unnoticed
  exited,  \* an exception has ended the launcher
  running, \* the programs that execute: <<leaf, startup>>
  image,   \* the descriptors each was started with
  pipes,   \* how many pipes and connections there have been
  made,    \* history: for which startup, and what its ends were linked to
  asked    \* history: what the client has linked since the last startup

place == <<frame, cur>>
status == <<root, inst, garbled, exited>>
programs == <<running, image>>
ghosts == <<pipes, made, asked>>
vars == <<table, fdMap, client, place, status, programs, ghosts>>

NoLinks == [k \in Fds |-> NoFd]
Frame(op, r, up) == [op |-> op, i |-> 1, r |-> r, w |-> NoFd, todo |-> {}, up |-> up]
Idle == Frame("idle", NoFd, NoNode)

Init ==
  /\ root \in Roots
  /\ table = [k \in Fds |-> IF k \in Stdio THEN Tty ELSE Closed]
  /\ fdMap = [n \in Nodes |-> NoLinks]
  /\ client = {}
  /\ frame = [n \in Launches |-> Idle] /\ cur = NoNode
  /\ inst = 0 /\ garbled = FALSE /\ exited = FALSE
  /\ running = {} /\ image = [q \in Leaves \X (1 .. MaxInst) |-> [k \in Fds |-> Closed]]
  /\ pipes = 0 /\ made = <<>> /\ asked = {}

-----------------------------------------------------------------------------
(* Helpers *)

At(n, op) == cur = n /\ frame[n].op = op
Idling == cur = NoNode /\ ~exited

IsOpen(k) == k \in Fds /\ table[k] # Closed

\* Mutant: from fd on.
Free_From(fd) == {k \in Fds : k >= fd /\ table[k] = Closed}

Free(fd) == {k \in Fds : k > fd /\ table[k] = Closed}
Lowest(k, S) == k \in S /\ \A j \in S : k <= j
Last(k, S) == k \in S /\ \A j \in S : j <= k
Linked(n, fd) == {k \in Fds : fdMap[n][k] = fd}

\* linkFd(): the lowest free number above fd.
LinkFd(n, fd, extFd) ==
  /\ IsOpen(extFd)
  /\ \E k \in Fds :
       /\ Lowest(k, Free(fd))
       /\ table' = [table EXCEPT ![k] = table[extFd]]
       /\ fdMap' = [fdMap EXCEPT ![n][k] = fd]

LinkFdThrows(fd, extFd) == ~IsOpen(extFd) \/ Free(fd) = {}

\* Mutant: only clears the map.
CloseFds_Forgets(n) == UNCHANGED table /\ fdMap' = [fdMap EXCEPT ![n] = NoLinks]

\* closeFds()
CloseFds(n) ==
  /\ table' = [k \in Fds |-> IF fdMap[n][k] # NoFd THEN Closed ELSE table[k]]
  /\ fdMap' = [fdMap EXCEPT ![n] = NoLinks]

\* The two lowest free numbers, as a pipe gets them.
OpensPipe(r, w) ==
  /\ Lowest(r, Free(-1)) /\ Lowest(w, Free(r))
  /\ table' = [table EXCEPT ![r] = <<pipes + 1, "r">>, ![w] = <<pipes + 1, "w">>]

\* A new pipe or connection for a startup, and where its ends are to be.
Makes(i, ends) == pipes' = pipes + 1 /\ made' = Append(made, [inst |-> i, at |-> ends])

Moves(n, f) == frame' = [frame EXCEPT ![n] = f]

-----------------------------------------------------------------------------
(* The client, which has the root only; it opens pipes with O_CLOEXEC *)

ClientPipe ==
  /\ Idling
  /\ client = {} /\ Sockets[root] = <<>> /\ inst < MaxInst /\ pipes < MaxPipes
  /\ \E r, w \in Fds : OpensPipe(r, w) /\ client' = {r, w}
  /\ Makes(0, {})
  /\ UNCHANGED <<fdMap, place, status, programs, asked>>

isReadable(k) == table[k][2] \in {"r", "rw"}
isWritable(k) == table[k][2] \in {"w", "rw"}

\* linkStdin(), linkStdout(), linkStderr(): a check, then linkFd().  The client
\* links one end of a pipe, and one pipe for each descriptor.
ClientLink(k, fd) ==
  /\ Idling
  /\ k \in client /\ table[k] \in Nat \X Ends
  /\ fd \notin asked /\ made[table[k][1]].at = {}
  /\ IF fd = 0 THEN isReadable(k) ELSE isWritable(k)
  /\ LinkFd(root, fd, k)
  /\ made' = [made EXCEPT ![table[k][1]] = [inst |-> inst + 1, at |-> {<<table[k][2], root, fd>>}]]
  /\ asked' = asked \cup {fd}
  /\ UNCHANGED <<client, place, status, programs, pipes>>

ClientClose(k) ==
  /\ Idling
  /\ k \in client
  /\ table' = [table EXCEPT ![k] = Closed]
  /\ client' = client \ {k}
  /\ UNCHANGED <<fdMap, place, status, programs, ghosts>>

-----------------------------------------------------------------------------
(* startup() of a launch node *)

Startup ==
  /\ Idling
  /\ Sockets[root] = <<>> /\ inst < MaxInst
  /\ inst' = inst + 1
  /\ cur' = root /\ Moves(root, Frame("link", NoFd, NoNode))
  /\ asked' = {}
  /\ UNCHANGED <<table, fdMap, client, root, garbled, exited, programs, pipes, made>>

\* acceptConnections(): the connection is linked before startup() is called.
Accept ==
  /\ Idling
  /\ Sockets[root] # <<>> /\ inst < MaxInst
  /\ inst' = inst + 1
  /\ \E k \in Fds :
       /\ Lowest(k, Free(-1))
       /\ table' = [table EXCEPT ![k] = <<pipes + 1, "rw">>]
       /\ Moves(root, Frame("socket", k, NoNode))
  /\ Makes(inst + 1, {<<"rw", Sockets[root][i].node, Sockets[root][i].fd>> :
                        i \in DOMAIN Sockets[root]})
  /\ cur' = root
  /\ UNCHANGED <<fdMap, client, root, garbled, exited, programs, asked>>

SocketLink(n) ==
  LET f == frame[n]
      s == Sockets[n][f.i]
  IN  /\ At(n, "socket")
      /\ f.i <= Len(Sockets[n])
      /\ LinkFd(s.node, s.fd, f.r)
      /\ Moves(n, [f EXCEPT !.i = @ + 1])
      /\ UNCHANGED <<client, cur, status, programs, ghosts>>

SocketClose(n) ==
  /\ At(n, "socket")
  /\ frame[n].i > Len(Sockets[n])
  /\ table' = [table EXCEPT ![frame[n].r] = Closed]
  /\ Moves(n, [frame[n] EXCEPT !.op = "link", !.i = 1])
  /\ UNCHANGED <<fdMap, client, cur, status, programs, ghosts>>

MakePipe(n) ==
  LET f == frame[n]
      l == Links[n][f.i]
  IN  /\ At(n, "link")
      /\ f.i <= Len(Links[n])
      /\ \E r, w \in Fds : OpensPipe(r, w) /\ Moves(n, [f EXCEPT !.op = "to", !.r = r, !.w = w])
      /\ Makes(inst, {<<"r", l.to, l.to_fd>>, <<"w", l.from, l.from_fd>>})
      /\ UNCHANGED <<fdMap, client, cur, status, programs, asked>>

\* The result of pipe2() is not looked at: when it fails, link[] holds whatever
\* was there.
MakePipeFails(n) ==
  LET f == frame[n]
  IN  /\ At(n, "link")
      /\ f.i <= Len(Links[n])
      /\ \A r \in Free(-1) : Free(-1) = {r}
      /\ \E r, w \in Fds \cup {NoFd} : Moves(n, [f EXCEPT !.op = "to", !.r = r, !.w = w])
      /\ garbled' = TRUE
      /\ UNCHANGED <<table, fdMap, client, cur, root, inst, exited, programs, ghosts>>

\* Mutant: swaps the ends.
LinkTo_Swapped(n) ==
  LET f == frame[n]
      l == Links[n][f.i]
  IN  /\ At(n, "to")
      /\ LinkFd(l.to, l.to_fd, f.w)
      /\ Moves(n, [f EXCEPT !.op = "from"])
      /\ UNCHANGED <<client, cur, status, programs, ghosts>>

LinkTo(n) ==
  LET f == frame[n]
      l == Links[n][f.i]
  IN  /\ At(n, "to")
      /\ LinkFd(l.to, l.to_fd, f.r)
      /\ Moves(n, [f EXCEPT !.op = "from"])
      /\ UNCHANGED <<client, cur, status, programs, ghosts>>

LinkFrom(n) ==
  LET f == frame[n]
      l == Links[n][f.i]
  IN  /\ At(n, "from")
      /\ LinkFd(l.from, l.from_fd, f.w)
      /\ Moves(n, [f EXCEPT !.op = "close"])
      /\ UNCHANGED <<client, cur, status, programs, ghosts>>

CloseEnds(n) ==
  LET f == frame[n]
  IN  /\ At(n, "close")
      /\ table' = [k \in Fds |-> IF k \in {f.r, f.w} THEN Closed ELSE table[k]]
      /\ Moves(n, [f EXCEPT !.op = "link", !.i = @ + 1])
      /\ UNCHANGED <<fdMap, client, cur, status, programs, ghosts>>

LinksMade(n) ==
  /\ At(n, "link")
  /\ frame[n].i > Len(Links[n])
  /\ Moves(n, [frame[n] EXCEPT !.op = "extern", !.i = 1])
  /\ UNCHANGED <<table, fdMap, client, cur, status, programs, ghosts>>

\* passFd(): the first link to the external descriptor, if there is one.
Externalize(n) ==
  LET f == frame[n]
      e == Externals[n][f.i]
      linked == Linked(n, e.external)
  IN  /\ At(n, "extern")
      /\ f.i <= Len(Externals[n])
      /\ \/ linked = {} /\ UNCHANGED <<table, fdMap>>
         \/ \E k \in Fds : Lowest(k, linked) /\ LinkFd(e.node, e.internal, k)
      /\ Moves(n, [f EXCEPT !.i = @ + 1])
      /\ UNCHANGED <<client, cur, status, programs, ghosts>>

ExternalsMade(n) ==
  /\ At(n, "extern")
  /\ frame[n].i > Len(Externals[n])
  /\ Moves(n, [frame[n] EXCEPT !.op = "subs", !.todo = Kids[n]])
  /\ UNCHANGED <<table, fdMap, client, cur, status, programs, ghosts>>

\* Mutant: nothing is closed on exec.
Image_Inherits(n) ==
  [fd \in Fds |->
    IF \E k \in Fds : Last(k, Linked(n, fd))
    THEN table[CHOOSE k \in Fds : Last(k, Linked(n, fd))]
    ELSE table[fd]]

\* overwriteFds() leaves the last link of each target (FdMap), and exec only what
\* is not close-on-exec, as every pipe and every link is.
Image(n) ==
  [fd \in Fds |->
    IF \E k \in Fds : Last(k, Linked(n, fd))
    THEN table[CHOOSE k \in Fds : Last(k, Linked(n, fd))]
    ELSE IF table[fd] = Tty /\ \A m \in Nodes : fdMap[m][fd] = NoFd THEN Tty ELSE Closed]

\* startup() of a program: fork().  The child gives up when dup2() fails.
StartLeaf(n, s) ==
  /\ At(n, "subs")
  /\ s \in Leaves /\ Lowest(s, frame[n].todo)
  /\ image' = [image EXCEPT ![<<s, inst>>] = Image(s)]
  /\ running' = IF \A k \in Fds : fdMap[s][k] # NoFd => IsOpen(k)
                THEN running \cup {<<s, inst>>} ELSE running
  /\ CloseFds(s)
  /\ Moves(n, [frame[n] EXCEPT !.todo = @ \ {s}])
  /\ UNCHANGED <<client, cur, status, ghosts>>

StartLaunch(n, s) ==
  /\ At(n, "subs")
  /\ s \in Launches /\ Lowest(s, frame[n].todo)
  /\ frame' = [frame EXCEPT ![n].todo = @ \ {s}, ![s] = Frame("link", NoFd, n)]
  /\ cur' = s
  /\ UNCHANGED <<table, fdMap, client, status, programs, ghosts>>

Returns(n) ==
  /\ At(n, "subs")
  /\ frame[n].todo = {}
  /\ CloseFds(n)
  /\ cur' = frame[n].up /\ Moves(n, Idle)
  /\ UNCHANGED <<client, status, programs, ghosts>>

\* linkFd() or fork() fails.  main()'s catch(...) ends the launcher, and what it
\* has started goes on.
Throws(n) ==
  LET f == frame[n]
  IN  /\ \/ At(n, "socket") /\ f.i <= Len(Sockets[n]) /\ LinkFdThrows(Sockets[n][f.i].fd, f.r)
         \/ At(n, "to") /\ LinkFdThrows(Links[n][f.i].to_fd, f.r)
         \/ At(n, "from") /\ LinkFdThrows(Links[n][f.i].from_fd, f.w)
         \/ /\ At(n, "extern") /\ f.i <= Len(Externals[n])
            /\ \E k \in Fds : /\ Lowest(k, Linked(n, Externals[n][f.i].external))
                             /\ LinkFdThrows(Externals[n][f.i].internal, k)
         \/ At(n, "subs") /\ \E s \in Leaves : Lowest(s, f.todo)
      /\ exited' = TRUE /\ cur' = NoNode
      /\ table' = [k \in Fds |-> Closed]
      /\ client' = {}
      /\ UNCHANGED <<fdMap, frame, root, inst, garbled, programs, ghosts>>

-----------------------------------------------------------------------------
(* The programs *)

Holds(descriptors, p, ends) ==
  \E k \in Fds : descriptors[k] \in Nat \X Ends /\ descriptors[k][1] = p /\ descriptors[k][2] \in ends

\* Somebody holds the end of a pipe that it reads from.
Fed(q) ==
  \E p \in 1 .. pipes :
    /\ Holds(image[q], p, {"r"})
    /\ Holds(table, p, {"w"}) \/ \E o \in running : Holds(image[o], p, {"w"})

End(q) ==
  /\ q \in running
  /\ running' = running \ {q}
  /\ UNCHANGED <<table, fdMap, client, place, status, image, ghosts>>

\* It exits by itself, or it has read all that there is.
ProgramExits(q) == Fed(q) /\ End(q)
ProgramSeesEnd(q) == ~Fed(q) /\ End(q)

-----------------------------------------------------------------------------
Main ==
  \E n \in Launches :
    \/ SocketLink(n) \/ SocketClose(n)
    \/ MakePipe(n) \/ MakePipeFails(n) \/ LinkTo(n) \/ LinkFrom(n) \/ CloseEnds(n) \/ LinksMade(n)
    \/ Externalize(n) \/ ExternalsMade(n)
    \/ \E s \in Nodes : StartLeaf(n, s) \/ StartLaunch(n, s)
    \/ Returns(n)
    \/ Throws(n)

Client ==
  \/ ClientPipe \/ Startup \/ Accept
  \/ \E k \in Fds : ClientClose(k) \/ \E fd \in ClientLinks : ClientLink(k, fd)

Processes == Leaves \X (1 .. MaxInst)
Stopped == (exited \/ (cur = NoNode /\ inst = MaxInst)) /\ running = {} /\ UNCHANGED vars

Next ==
  \/ Main
  \/ Client
  \/ \E q \in Processes : ProgramExits(q) \/ ProgramSeesEnd(q)
  \/ Stopped

\* The launcher goes on, the client closes what it opened, and of the programs
\* whose inputs have ended one ends.
Fairness ==
  /\ WF_vars(Main)
  /\ WF_vars(\E k \in Fds : ClientClose(k))
  /\ WF_vars(\E q \in Processes : ProgramSeesEnd(q))

Spec == Init /\ [][Next]_vars
FairSpec == Spec /\ Fairness

-----------------------------------------------------------------------------
(* Properties *)

Ops == {"idle", "socket", "link", "to", "from", "close", "extern", "subs"}
Frames == [op : Ops, i : Nat \ {0}, r : Fds \cup {NoFd}, w : Fds \cup {NoFd},
           todo : SUBSET Nodes, up : Launches \cup {NoNode}]

\* The table, the maps and the frames have their types; a link is above the
\* descriptor it is for, as linkFd() promises (Node.cxx:120-122).
TypeOK ==
  /\ table \in [Fds -> Files \cup {Closed}]
  /\ fdMap \in [Nodes -> [Fds -> Nat \cup {NoFd}]]
  /\ \A n \in Nodes, k \in Fds : fdMap[n][k] < k
  /\ client \subseteq Fds
  /\ frame \in [Launches -> Frames]
  /\ \A n \in Launches : frame[n].todo \subseteq Kids[n]
  /\ cur \in Launches \cup {NoNode} /\ root \in Roots
  /\ inst \in 0 .. MaxInst /\ garbled \in BOOLEAN /\ exited \in BOOLEAN
  /\ running \subseteq Processes
  /\ image \in [Processes -> [Fds -> Files \cup {Closed}]]
  /\ pipes \in Nat
  /\ made \in Seq([inst : Nat, at : SUBSET (Ends \X Nodes \X Nat)]) /\ Len(made) = pipes
  /\ asked \subseteq ClientLinks

\* An externalization passes on what is linked to a descriptor of its launch node
\* to one of a sub-node.
Externalizations ==
  UNION {{[from |-> <<n, Externals[n][i].external>>,
           to |-> <<Externals[n][i].node, Externals[n][i].internal>>] :
             i \in DOMAIN Externals[n]} : n \in Launches}
Passed == {x.from : x \in Externalizations} \cup {x.to : x \in Externalizations}

\* The sets of descriptors that no externalization leads out of.
Onward == {S \in SUBSET Passed : \A x \in Externalizations : x.from \in S => x.to \in S}

\* A node's descriptor stands for another one through any number of externalizations.
Leads(a, b) == a = b \/ ({a, b} \subseteq Passed /\ \A S \in Onward : a \in S => b \in S)

\* A program holds an end of a pipe at a descriptor when, and only when, the pipe
\* was made by the startup that started the program and the document leads that
\* end there, through however many launch nodes (LaunchNode.cxx:24-37).
Wired ==
  ~garbled =>
    \A q \in running, k \in Fds, p \in 1 .. pipes, e \in Ends :
      image[q][k] = <<p, e>> <=>
        /\ made[p].inst = q[2]
        /\ \E a \in made[p].at : a[1] = e /\ Leads(<<a[2], a[3]>>, <<q[1], k>>)

\* What the startup() of a launch node links, and to which descriptor of a sub-node.
Tasks(n) ==
  ({"socket"} \X DOMAIN Sockets[n]) \cup ({"to", "from"} \X DOMAIN Links[n])
    \cup ({"extern"} \X DOMAIN Externals[n])

Target(n, t) ==
  CASE t[1] = "socket" -> <<Sockets[n][t[2]].node, Sockets[n][t[2]].fd>>
    [] t[1] = "to" -> <<Links[n][t[2]].to, Links[n][t[2]].to_fd>>
    [] t[1] = "from" -> <<Links[n][t[2]].from, Links[n][t[2]].from_fd>>
    [] t[1] = "extern" -> <<Externals[n][t[2]].node, Externals[n][t[2]].internal>>

\* The document names no descriptor of a node twice.
OneSource == \A n \in Launches : \A s, t \in Tasks(n) : Target(n, s) = Target(n, t) => s = t

\* Once startup() has returned, the launcher keeps no descriptor of it: what is
\* open was inherited, is the client's, or is linked for the next one
\* (LaunchNode.cxx:30-31, Node.cxx:87).
Released ==
  Idling =>
    \A k \in Fds :
      IsOpen(k) => k \in Stdio \cup client \/ fdMap[root][k] \in asked

\* The programs of a startup all come to an end when their inputs do: nobody else,
\* the launcher and programs of other startups included, keeps a pipe to one of
\* them open (LaunchNode.cxx:27, 30-31, Node.cxx:87, 131).
AllEnd ==
  \A i \in 1 .. MaxInst :
    LET left == {q \in running : q[2] = i}
    IN  left # {} ~> left = {} \/ garbled
=============================================================================
