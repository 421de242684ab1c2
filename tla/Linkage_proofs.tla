---------------------------- MODULE Linkage_proofs ----------------------------
(***************************************************************************)
(* Proofs of the type invariant of Linkage and of Released, for every      *)
(* document, descriptor limit and client.                                  *)
(***************************************************************************)
EXTENDS Linkage, TLAPS

-----------------------------------------------------------------------------
(* The inductive invariant *)

Active(n) == frame[n].op # "idle"

\* The launch nodes whose startup() has begun and not returned are on one path
\* from the root down to the one that executes.
Chain ==
  /\ cur = NoNode => exited \/ \A n \in Launches : ~Active(n)
  /\ cur # NoNode => Active(cur) /\ ~exited
  /\ ~exited => \A n \in Launches : Active(n) =>
       /\ IF n = root THEN frame[n].up = NoNode
          ELSE frame[n].up \in Launches /\ n \in Kids[frame[n].up] /\ Active(frame[n].up)
       /\ \A m \in Launches : Active(m) /\ m # n => Depth[m] # Depth[n]
       /\ n # cur => Depth[n] < Depth[cur]

\* startup() of m is still to come, or has begun.
ToStart(m) ==
  \/ m \in Launches /\ Active(m)
  \/ \E n \in Launches :
       m \in Kids[n] /\ Active(n) /\ (frame[n].op = "subs" => m \in frame[n].todo)

\* What is linked to a node will be closed by its startup().
Pending ==
  ~exited =>
    \A m \in Nodes, k \in Fds :
      fdMap[m][k] # NoFd =>
        \/ cur # NoNode /\ ToStart(m)
        \/ cur = NoNode /\ m = root /\ fdMap[m][k] \in asked

\* The number is a local variable of the startup() that executes.
Local(k) ==
  /\ cur # NoNode
  /\ \/ frame[cur].op = "socket" /\ k = frame[cur].r
     \/ frame[cur].op \in {"to", "from", "close"} /\ k \in {frame[cur].r, frame[cur].w}

Accounted ==
  \A k \in Fds :
    table[k] # Closed =>
      k \in Stdio \cup client \/ Local(k) \/ \E m \in Nodes : fdMap[m][k] # NoFd

IInv == TypeOK /\ Chain /\ Pending /\ Accounted

-----------------------------------------------------------------------------
(* linkFd() and closeFds() *)

\* The values of a table, a map, a frame.
Tables == [Fds -> Files \cup {Closed}]
Maps == [Nodes -> [Fds -> Nat \cup {NoFd}]]
Above == \A n \in Nodes, k \in Fds : fdMap[n][k] < k

\* linkFd() adds one link, above the descriptor it is for.
LEMMA LinkFdAdds ==
  ASSUME TypeOK, NEW n \in Nodes, NEW fd \in Nat, NEW extFd, LinkFd(n, fd, extFd)
  PROVE  /\ table' \in Tables /\ fdMap' \in Maps /\ Above'
         /\ \A m \in Nodes, k \in Fds :
              fdMap'[m][k] = fdMap[m][k] \/ (m = n /\ fdMap'[m][k] = fd)
         /\ \A k \in Fds :
              table'[k] = table[k] \/ fdMap'[n][k] # NoFd
<1>1. PICK k \in Fds : /\ Lowest(k, Free(fd))
                       /\ table' = [table EXCEPT ![k] = table[extFd]]
                       /\ fdMap' = [fdMap EXCEPT ![n][k] = fd]
  BY DEF LinkFd
<1>2. k > fd /\ k \in Nat
  BY <1>1, DocumentAssumption DEF Lowest, Free, Fds
<1>3. extFd \in Fds
  BY DEF LinkFd, IsOpen
<1>4. table' \in Tables
  BY <1>1, <1>3 DEF TypeOK, Tables
<1>5. fdMap' \in Maps
  BY <1>1 DEF TypeOK, Maps
<1>6. Above'
  BY <1>1, <1>2 DEF TypeOK, Above
<1>7. \A m \in Nodes, j \in Fds :
         fdMap'[m][j] = fdMap[m][j] \/ (m = n /\ fdMap'[m][j] = fd)
  BY <1>1 DEF TypeOK
<1>8. \A j \in Fds : table'[j] = table[j] \/ fdMap'[n][j] # NoFd
  BY <1>1, <1>2 DEF TypeOK, NoFd
<1> QED
  BY <1>4, <1>5, <1>6, <1>7, <1>8

\* closeFds() closes all that is linked to the node and nothing else.
LEMMA CloseFdsCloses ==
  ASSUME TypeOK, NEW n \in Nodes, CloseFds(n)
  PROVE  /\ table' \in Tables /\ fdMap' \in Maps /\ Above'
         /\ \A m \in Nodes, k \in Fds :
              fdMap'[m][k] # NoFd => m # n /\ fdMap'[m][k] = fdMap[m][k]
         /\ \A m \in Nodes, k \in Fds : m # n => fdMap'[m][k] = fdMap[m][k]
         /\ \A k \in Fds :
              table'[k] # Closed => table'[k] = table[k] /\ fdMap[n][k] = NoFd
<1>1. table' \in Tables
  BY DEF CloseFds, TypeOK, Tables
<1>2. fdMap' = [fdMap EXCEPT ![n] = NoLinks] /\ NoLinks \in [Fds -> Nat \cup {NoFd}]
  BY DEF CloseFds, NoLinks
<1>3. \A k \in Fds : NoLinks[k] = NoFd /\ NoFd < k
  BY DocumentAssumption DEF NoLinks, NoFd, Fds
<1>4. fdMap' \in Maps
  BY <1>2 DEF TypeOK, Maps
<1>5. Above'
  BY <1>2, <1>3 DEF TypeOK, Above
<1>6. \A m \in Nodes, k \in Fds : fdMap'[m][k] # NoFd => m # n /\ fdMap'[m][k] = fdMap[m][k]
  BY <1>2, <1>3 DEF TypeOK
<1>7. \A m \in Nodes, k \in Fds : m # n => fdMap'[m][k] = fdMap[m][k]
  BY <1>2 DEF TypeOK
<1>8. \A k \in Fds : table'[k] # Closed => table'[k] = table[k] /\ fdMap[n][k] = NoFd
  BY DEF CloseFds
<1> QED
  BY <1>1, <1>4, <1>5, <1>6, <1>7, <1>8

\* The frame of a startup() that goes on.
LEMMA MovesType ==
  ASSUME TypeOK, NEW n \in Launches, NEW f \in Frames, f.todo \subseteq Kids[n], Moves(n, f)
  PROVE  /\ frame' \in [Launches -> Frames]
         /\ \A m \in Launches : frame'[m].todo \subseteq Kids[m]
  BY DEF TypeOK, Moves

LEMMA FrameAt ==
  ASSUME TypeOK, NEW n \in Launches
  PROVE  /\ frame[n] \in Frames /\ frame[n].todo \subseteq Kids[n]
         /\ frame[n].i \in Nat \ {0} /\ frame[n].i + 1 \in Nat \ {0}
  BY DEF TypeOK, Frames

LEMMA FrameType ==
  ASSUME NEW op \in Ops, NEW r \in Fds \cup {NoFd}, NEW up \in Launches \cup {NoNode}
  PROVE  /\ Frame(op, r, up) \in Frames /\ Frame(op, r, up).todo = {}
         /\ Frame(op, r, up).op = op /\ Frame(op, r, up).r = r /\ Frame(op, r, up).up = up
  BY DEF Frame, Frames

\* A step of what the document says.
LEMMA DocumentType ==
  ASSUME NEW n \in Launches, NEW i \in Nat \ {0}
  PROVE  /\ i <= Len(Links[n]) =>
              Links[n][i] \in [to : Kids[n], to_fd : Nat, from : Kids[n], from_fd : Nat]
         /\ i <= Len(Externals[n]) =>
              Externals[n][i] \in [external : Nat, node : Kids[n], internal : Nat]
         /\ i <= Len(Sockets[n]) => Sockets[n][i] \in [node : Kids[n], fd : Nat]
         /\ Kids[n] \subseteq Nodes
<1>1. /\ Links[n] \in Seq([to : Kids[n], to_fd : Nat, from : Kids[n], from_fd : Nat])
      /\ Externals[n] \in Seq([external : Nat, node : Kids[n], internal : Nat])
      /\ Sockets[n] \in Seq([node : Kids[n], fd : Nat])
  BY DocumentAssumption
<1>2. ASSUME NEW S, NEW s \in Seq(S), i <= Len(s)
      PROVE  s[i] \in S
  BY <1>2
<1>3. Kids[n] \subseteq Nodes
  BY DocumentAssumption
<1> QED
  BY <1>1, <1>2, <1>3

-----------------------------------------------------------------------------
(* Types *)

\* A step that goes on with the same frame at another place, or for the next i.
LEMMA FrameMoves ==
  ASSUME TypeOK, NEW n \in Launches, NEW op \in Ops
  PROVE  /\ [frame[n] EXCEPT !.op = op] \in Frames
         /\ [frame[n] EXCEPT !.op = op, !.i = @ + 1] \in Frames
         /\ [frame[n] EXCEPT !.i = @ + 1] \in Frames
         /\ [frame[n] EXCEPT !.op = op].todo = frame[n].todo
         /\ [frame[n] EXCEPT !.op = op, !.i = @ + 1].todo = frame[n].todo
         /\ [frame[n] EXCEPT !.i = @ + 1].todo = frame[n].todo
  BY FrameAt DEF Frames

\* linkFd() as one step of a startup().
LEMMA LinkStepType ==
  ASSUME TypeOK, NEW n \in Launches, NEW m \in Kids[n], NEW fd \in Nat, NEW extFd, NEW f \in Frames,
         LinkFd(m, fd, extFd), Moves(n, f), f.todo = frame[n].todo,
         UNCHANGED <<client, cur, status, programs, ghosts>>
  PROVE  TypeOK'
<1>1. m \in Nodes /\ f.todo \subseteq Kids[n]
  BY DocumentType, FrameAt, DocumentAssumption
<1>2. table' \in Tables /\ fdMap' \in Maps /\ Above'
  BY <1>1, LinkFdAdds
<1>3. frame' \in [Launches -> Frames] /\ \A o \in Launches : frame'[o].todo \subseteq Kids[o]
  BY <1>1, MovesType
<1> QED
  BY <1>2, <1>3 DEF TypeOK, Tables, Maps, Above, status, programs, ghosts

LEMMA InitType == Init => TypeOK
<1> SUFFICES ASSUME Init PROVE TypeOK
  OBVIOUS
<1>1. table \in [Fds -> Files \cup {Closed}]
  BY DEF Init, Files
<1>2. NoLinks \in [Fds -> Nat \cup {NoFd}] /\ \A k \in Fds : NoLinks[k] < k
  BY DocumentAssumption DEF NoLinks, NoFd, Fds
<1>3. fdMap \in [Nodes -> [Fds -> Nat \cup {NoFd}]] /\ \A n \in Nodes, k \in Fds : fdMap[n][k] < k
  BY <1>2 DEF Init
<1>4. Idle \in Frames /\ Idle.todo = {}
  BY FrameType DEF Idle, Ops
<1>5. frame \in [Launches -> Frames] /\ \A n \in Launches : frame[n].todo \subseteq Kids[n]
  BY <1>4 DEF Init
<1>6. made \in Seq([inst : Nat, at : SUBSET (Ends \X Nodes \X Nat)]) /\ Len(made) = pipes /\ pipes \in Nat
  BY DEF Init
<1>7. inst \in 0 .. MaxInst
  BY DocumentAssumption DEF Init
<1>8. image \in [Processes -> [Fds -> Files \cup {Closed}]]
  BY DEF Init, Processes
<1> QED
  BY <1>1, <1>3, <1>5, <1>6, <1>7, <1>8 DEF Init, TypeOK

\* A pipe or connection is made.
LEMMA MakesType ==
  ASSUME TypeOK, NEW i \in Nat, NEW ends \in SUBSET (Ends \X Nodes \X Nat), Makes(i, ends)
  PROVE  /\ pipes' \in Nat
         /\ made' \in Seq([inst : Nat, at : SUBSET (Ends \X Nodes \X Nat)]) /\ Len(made') = pipes'
  BY DEF TypeOK, Makes

LEMMA PipeType ==
  ASSUME TypeOK, NEW r \in Fds, NEW w \in Fds, OpensPipe(r, w)
  PROVE  table' \in Tables
<1>1. <<pipes + 1, "r">> \in Files /\ <<pipes + 1, "w">> \in Files
  BY DEF TypeOK, Files, Ends
<1> QED
  BY <1>1 DEF TypeOK, OpensPipe, Tables

\* What a program is started with.
LEMMA ImageType ==
  ASSUME TypeOK, NEW n \in Nodes
  PROVE  Image(n) \in [Fds -> Files \cup {Closed}]
<1> SUFFICES ASSUME NEW fd \in Fds
             PROVE  Image(n)[fd] \in Files \cup {Closed}
  BY DEF Image
<1>1. CASE \E k \in Fds : Last(k, Linked(n, fd))
  BY <1>1 DEF Image, TypeOK
<1>2. CASE ~\E k \in Fds : Last(k, Linked(n, fd))
  BY <1>2 DEF Image, Files
<1> QED
  BY <1>1, <1>2

\* Where a frame is within the document, and that a startup() is counted.
Within ==
  /\ \A n \in Launches : frame[n].op \in {"to", "from", "close"} => frame[n].i <= Len(Links[n])
  /\ cur # NoNode => inst # 0

LEMMA WithinNext ==
  ASSUME TypeOK, TypeOK', Within, [Next]_vars
  PROVE  Within'
<1> USE DEF place, status, programs, ghosts
<1>0. frame \in [Launches -> Frames] /\ inst \in Nat /\ NoNode \notin Launches
  BY DocumentAssumption DEF TypeOK, Nodes
<1>2. CASE UNCHANGED <<frame, cur, inst>>
  BY <1>2 DEF Within
<1>3. ASSUME NEW n \in Launches, SocketLink(n) \/ Externalize(n) PROVE Within'
  <2>1. Moves(n, [frame[n] EXCEPT !.i = @ + 1]) /\ frame[n].op \in {"socket", "extern"}
        /\ UNCHANGED <<cur, inst>>
    BY <1>3 DEF SocketLink, Externalize, At
  <2>2. frame'[n].op \in {"socket", "extern"} /\ \A m \in Launches : m # n => frame'[m] = frame[m]
    BY <1>0, <2>1 DEF Moves, Frames
  <2> QED
    BY <2>1, <2>2 DEF Within
<1>4. ASSUME NEW n \in Launches, SocketClose(n) \/ LinksMade(n) \/ ExternalsMade(n) \/ CloseEnds(n)
      PROVE  Within'
  <2>1. /\ \A m \in Launches : m # n => frame'[m] = frame[m]
        /\ frame'[n].op \in {"link", "extern", "subs"}
        /\ UNCHANGED <<cur, inst>>
    <3>1. CASE SocketClose(n)
      BY <1>0, <3>1 DEF SocketClose, Moves, Frames
    <3>2. CASE LinksMade(n)
      BY <1>0, <3>2 DEF LinksMade, Moves, Frames
    <3>3. CASE ExternalsMade(n)
      BY <1>0, <3>3 DEF ExternalsMade, Moves, Frames
    <3>4. CASE CloseEnds(n)
      BY <1>0, <3>4 DEF CloseEnds, Moves, Frames
    <3> QED
      BY <1>4, <3>1, <3>2, <3>3, <3>4
  <2> QED
    BY <2>1 DEF Within
<1>5. ASSUME NEW n \in Launches, MakePipe(n) \/ MakePipeFails(n) PROVE Within'
  <2>1. /\ \A m \in Launches : m # n => frame'[m] = frame[m]
        /\ frame'[n].i = frame[n].i /\ frame[n].i <= Len(Links[n])
        /\ UNCHANGED <<cur, inst>>
    <3>1. PICK r, w \in Fds \cup {NoFd} : Moves(n, [frame[n] EXCEPT !.op = "to", !.r = r, !.w = w])
      BY <1>5 DEF MakePipe, MakePipeFails
    <3>2. [frame[n] EXCEPT !.op = "to", !.r = r, !.w = w].i = frame[n].i
      BY <1>0 DEF Frames
    <3>3. frame[n].i <= Len(Links[n]) /\ UNCHANGED <<cur, inst>>
      BY <1>5 DEF MakePipe, MakePipeFails
    <3> QED
      BY <1>0, <3>1, <3>2, <3>3 DEF Moves
  <2> QED
    BY <2>1 DEF Within
<1>6. ASSUME NEW n \in Launches, LinkTo(n) \/ LinkFrom(n) PROVE Within'
  <2>1. /\ \A m \in Launches : m # n => frame'[m] = frame[m]
        /\ frame'[n].i = frame[n].i /\ frame[n].op \in {"to", "from", "close"}
        /\ UNCHANGED <<cur, inst>>
    BY <1>0, <1>6 DEF LinkTo, LinkFrom, At, Moves, Frames
  <2> QED
    BY <2>1 DEF Within
<1>7. ASSUME NEW n \in Launches, NEW s \in Nodes, StartLeaf(n, s) PROVE Within'
  <2>1. /\ \A m \in Launches : m # n => frame'[m] = frame[m]
        /\ frame'[n].i = frame[n].i /\ frame'[n].op = frame[n].op
        /\ UNCHANGED <<cur, inst>>
    BY <1>0, <1>7 DEF StartLeaf, Moves, Frames
  <2> QED
    BY <2>1 DEF Within
<1>8. ASSUME NEW n \in Launches, NEW s \in Nodes, StartLaunch(n, s) PROVE Within'
  <2>1. /\ \A m \in Launches : m # s => frame'[m].op = frame[m].op /\ frame'[m].i = frame[m].i
        /\ s \in Launches => frame'[s].op = "link"
        /\ inst' = inst /\ cur = n
    BY <1>0, <1>8 DEF StartLaunch, Frames, Frame, At
  <2> QED
    BY <1>0, <2>1 DEF Within
<1>9. ASSUME NEW n \in Launches, Returns(n) PROVE Within'
  <2>1. /\ \A m \in Launches : m # n => frame'[m] = frame[m]
        /\ frame'[n].op = "idle"
        /\ inst' = inst /\ cur = n
    BY <1>0, <1>9 DEF Returns, Moves, Idle, Frame, At
  <2> QED
    BY <1>0, <2>1 DEF Within
<1>10. ASSUME NEW n \in Launches, Throws(n) PROVE Within'
  BY <1>10 DEF Throws, Within
<1>11. CASE Startup \/ Accept
  <2>1. /\ root \in Launches
        /\ \A m \in Launches : m # root => frame'[m] = frame[m]
        /\ frame'[root].op \in {"link", "socket"}
        /\ inst' = inst + 1
    BY <1>0, <1>11, DocumentAssumption DEF Startup, Accept, Moves, Frame, TypeOK
  <2> QED
    BY <1>0, <2>1 DEF Within
<1>12. CASE ClientPipe \/ \E k \in Fds : ClientClose(k) \/ \E fd \in ClientLinks : ClientLink(k, fd)
  BY <1>2, <1>12 DEF ClientPipe, ClientClose, ClientLink
<1>13. CASE UNCHANGED vars \/ Stopped \/ \E q \in Processes : ProgramExits(q) \/ ProgramSeesEnd(q)
  BY <1>2, <1>13 DEF vars, Stopped, ProgramExits, ProgramSeesEnd, End
<1> QED
  BY <1>3, <1>4, <1>5, <1>6, <1>7, <1>8, <1>9, <1>10, <1>11, <1>12, <1>13 DEF Next, Main, Client

\* One step per action.
LEMMA TypeNext == TypeOK /\ Within /\ [Next]_vars => TypeOK'
<1> SUFFICES ASSUME TypeOK, Within, [Next]_vars PROVE TypeOK'
  OBVIOUS
<1> USE DEF place, status, programs, ghosts
<1>1. CASE UNCHANGED vars
  BY <1>1 DEF TypeOK, vars
<1>2. ASSUME NEW n \in Launches, SocketLink(n) PROVE TypeOK'
  <2>1. Sockets[n][frame[n].i] \in [node : Kids[n], fd : Nat]
    BY <1>2, FrameAt, DocumentType DEF SocketLink
  <2>2. [frame[n] EXCEPT !.i = @ + 1] \in Frames
        /\ [frame[n] EXCEPT !.i = @ + 1].todo = frame[n].todo
    BY FrameMoves DEF Ops
  <2> QED
    BY <1>2, <2>1, <2>2, LinkStepType DEF SocketLink
<1>3. ASSUME NEW n \in Launches, SocketClose(n) PROVE TypeOK'
  <2>1. frame' \in [Launches -> Frames] /\ \A o \in Launches : frame'[o].todo \subseteq Kids[o]
    <3>1. "link" \in Ops /\ 1 \in Nat \ {0} /\ frame[n] \in Frames
      BY FrameAt DEF Ops
    <3>2. [frame[n] EXCEPT !.op = "link", !.i = 1] \in Frames
      BY <3>1 DEF Frames
    <3>3. [frame[n] EXCEPT !.op = "link", !.i = 1].todo = frame[n].todo
      BY <3>1 DEF Frames
    <3> QED
      BY <1>3, <3>2, <3>3, MovesType, FrameAt DEF SocketClose
  <2>2. table' \in Tables
    BY <1>3 DEF SocketClose, TypeOK, Tables
  <2> QED
    BY <1>3, <2>1, <2>2 DEF SocketClose, TypeOK, Tables
<1>4. ASSUME NEW n \in Launches, MakePipe(n) PROVE TypeOK'
  <2>1. Links[n][frame[n].i] \in [to : Kids[n], to_fd : Nat, from : Kids[n], from_fd : Nat]
    BY <1>4, FrameAt, DocumentType DEF MakePipe
  <2> DEFINE l == Links[n][frame[n].i]
  <2>2. {<<"r", l.to, l.to_fd>>, <<"w", l.from, l.from_fd>>} \in SUBSET (Ends \X Nodes \X Nat)
    BY <2>1, DocumentAssumption DEF Ends
  <2>3. /\ pipes' \in Nat
        /\ made' \in Seq([inst : Nat, at : SUBSET (Ends \X Nodes \X Nat)]) /\ Len(made') = pipes'
    <3>1. inst \in Nat
      BY DocumentAssumption DEF TypeOK
    <3> QED
      BY <1>4, <2>2, <3>1, MakesType DEF MakePipe
  <2>4. PICK r, w \in Fds : /\ OpensPipe(r, w)
                            /\ Moves(n, [frame[n] EXCEPT !.op = "to", !.r = r, !.w = w])
    BY <1>4 DEF MakePipe
  <2>5. table' \in Tables
    BY <2>4, PipeType
  <2>6. [frame[n] EXCEPT !.op = "to", !.r = r, !.w = w] \in Frames
        /\ [frame[n] EXCEPT !.op = "to", !.r = r, !.w = w].todo = frame[n].todo
    BY FrameAt DEF Frames, Ops
  <2>7. frame' \in [Launches -> Frames] /\ \A o \in Launches : frame'[o].todo \subseteq Kids[o]
    BY <2>4, <2>6, MovesType, FrameAt
  <2> QED
    BY <1>4, <2>3, <2>5, <2>7 DEF MakePipe, TypeOK, Tables
<1>5. ASSUME NEW n \in Launches, MakePipeFails(n) PROVE TypeOK'
  <2>1. PICK r, w \in Fds \cup {NoFd} : Moves(n, [frame[n] EXCEPT !.op = "to", !.r = r, !.w = w])
    BY <1>5 DEF MakePipeFails
  <2>2. [frame[n] EXCEPT !.op = "to", !.r = r, !.w = w] \in Frames
        /\ [frame[n] EXCEPT !.op = "to", !.r = r, !.w = w].todo = frame[n].todo
    BY FrameAt DEF Frames, Ops
  <2>3. frame' \in [Launches -> Frames] /\ \A o \in Launches : frame'[o].todo \subseteq Kids[o]
    BY <2>1, <2>2, MovesType, FrameAt
  <2> QED
    BY <1>5, <2>3 DEF MakePipeFails, TypeOK
<1>6. ASSUME NEW n \in Launches, LinkTo(n) \/ LinkFrom(n) PROVE TypeOK'
  <2>1. frame[n].i <= Len(Links[n])
    BY <1>6 DEF LinkTo, LinkFrom, At, Within
  <2>2. Links[n][frame[n].i] \in [to : Kids[n], to_fd : Nat, from : Kids[n], from_fd : Nat]
    BY <2>1, FrameAt, DocumentType
  <2>3. /\ [frame[n] EXCEPT !.op = "from"] \in Frames
        /\ [frame[n] EXCEPT !.op = "from"].todo = frame[n].todo
        /\ [frame[n] EXCEPT !.op = "close"] \in Frames
        /\ [frame[n] EXCEPT !.op = "close"].todo = frame[n].todo
    BY FrameMoves DEF Ops
  <2>4. CASE LinkTo(n)
    BY <2>4, <2>2, <2>3, LinkStepType DEF LinkTo
  <2>5. CASE LinkFrom(n)
    BY <2>5, <2>2, <2>3, LinkStepType DEF LinkFrom
  <2> QED
    BY <1>6, <2>4, <2>5
<1>7. ASSUME NEW n \in Launches, CloseEnds(n) PROVE TypeOK'
  <2>1. frame' \in [Launches -> Frames] /\ \A o \in Launches : frame'[o].todo \subseteq Kids[o]
    BY <1>7, MovesType, FrameMoves, FrameAt DEF CloseEnds, Ops
  <2>2. table' \in Tables
    BY <1>7 DEF CloseEnds, TypeOK, Tables
  <2> QED
    BY <1>7, <2>1, <2>2 DEF CloseEnds, TypeOK, Tables
<1>8. ASSUME NEW n \in Launches, LinksMade(n) \/ ExternalsMade(n) PROVE TypeOK'
  <2>1. /\ [frame[n] EXCEPT !.op = "extern", !.i = 1] \in Frames
        /\ [frame[n] EXCEPT !.op = "extern", !.i = 1].todo = frame[n].todo
        /\ [frame[n] EXCEPT !.op = "subs", !.todo = Kids[n]] \in Frames
        /\ [frame[n] EXCEPT !.op = "subs", !.todo = Kids[n]].todo = Kids[n]
    <3>1. Kids[n] \in SUBSET Nodes /\ "extern" \in Ops /\ "subs" \in Ops
      BY DocumentAssumption DEF Ops
    <3>2. [frame[n] EXCEPT !.op = "extern", !.i = 1] \in Frames
      <4>1. frame[n] \in Frames /\ 1 \in Nat \ {0}
        BY FrameAt
      <4> QED
        BY <3>1, <4>1 DEF Frames
    <3>4. [frame[n] EXCEPT !.op = "extern", !.i = 1].todo = frame[n].todo
      BY FrameAt DEF Frames
    <3>3. [frame[n] EXCEPT !.op = "subs", !.todo = Kids[n]] \in Frames
          /\ [frame[n] EXCEPT !.op = "subs", !.todo = Kids[n]].todo = Kids[n]
      BY <3>1, FrameAt DEF Frames
    <3> QED
      BY <3>2, <3>3, <3>4
  <2>2. frame' \in [Launches -> Frames] /\ \A o \in Launches : frame'[o].todo \subseteq Kids[o]
    BY <1>8, <2>1, MovesType, FrameAt DEF LinksMade, ExternalsMade
  <2> QED
    BY <1>8, <2>2 DEF LinksMade, ExternalsMade, TypeOK
<1>9. ASSUME NEW n \in Launches, Externalize(n) PROVE TypeOK'
  <2> DEFINE e == Externals[n][frame[n].i]
             f == [frame[n] EXCEPT !.i = @ + 1]
  <2>1. e \in [external : Nat, node : Kids[n], internal : Nat]
    BY <1>9, FrameAt, DocumentType DEF Externalize
  <2>2. f \in Frames /\ f.todo = frame[n].todo /\ Moves(n, f)
    BY <1>9, FrameMoves DEF Externalize, Ops
  <2>3. CASE UNCHANGED <<table, fdMap>>
    <3>1. frame' \in [Launches -> Frames] /\ \A o \in Launches : frame'[o].todo \subseteq Kids[o]
      BY <2>2, MovesType, FrameAt
    <3> QED
      BY <1>9, <2>3, <3>1 DEF Externalize, TypeOK
  <2>4. ASSUME NEW k \in Fds, LinkFd(e.node, e.internal, k) PROVE TypeOK'
    BY <1>9, <2>1, <2>2, <2>4, LinkStepType DEF Externalize
  <2> QED
    BY <1>9, <2>3, <2>4 DEF Externalize
<1>10. ASSUME NEW n \in Launches, NEW s \in Nodes, StartLeaf(n, s) PROVE TypeOK'
  <2>1. inst \in 1 .. MaxInst
    BY <1>10, DocumentAssumption DEF StartLeaf, At, Within, TypeOK, Nodes
  <2>2. <<s, inst>> \in Processes
    BY <1>10, <2>1 DEF StartLeaf, Processes
  <2>3. image' \in [Processes -> [Fds -> Files \cup {Closed}]] /\ running' \subseteq Processes
    BY <1>10, <2>2, ImageType DEF StartLeaf, TypeOK
  <2>4. table' \in Tables /\ fdMap' \in Maps /\ Above'
    BY <1>10, CloseFdsCloses DEF StartLeaf
  <2>5. [frame[n] EXCEPT !.todo = @ \ {s}] \in Frames
        /\ [frame[n] EXCEPT !.todo = @ \ {s}].todo \subseteq Kids[n]
    BY FrameAt DEF Frames
  <2>6. frame' \in [Launches -> Frames] /\ \A o \in Launches : frame'[o].todo \subseteq Kids[o]
    BY <1>10, <2>5, MovesType DEF StartLeaf
  <2> QED
    BY <1>10, <2>3, <2>4, <2>6 DEF StartLeaf, TypeOK, Tables, Maps, Above
<1>11. ASSUME NEW n \in Launches, NEW s \in Nodes, StartLaunch(n, s) PROVE TypeOK'
  <2>1. Frame("link", NoFd, n) \in Frames /\ Frame("link", NoFd, n).todo = {}
    BY FrameType DEF Ops
  <2>2. [frame[n] EXCEPT !.todo = @ \ {s}] \in Frames
        /\ [frame[n] EXCEPT !.todo = @ \ {s}].todo \subseteq Kids[n]
    BY FrameAt DEF Frames
  <2>3. frame' \in [Launches -> Frames] /\ \A o \in Launches : frame'[o].todo \subseteq Kids[o]
    BY <1>11, <2>1, <2>2 DEF StartLaunch, TypeOK
  <2> QED
    BY <1>11, <2>3 DEF StartLaunch, TypeOK
<1>12. ASSUME NEW n \in Launches, Returns(n) PROVE TypeOK'
  <2>1. n \in Nodes /\ frame[n].up \in Launches \cup {NoNode}
    BY FrameAt DEF Nodes, Frames
  <2>2. table' \in Tables /\ fdMap' \in Maps /\ Above'
    BY <1>12, <2>1, CloseFdsCloses DEF Returns
  <2>3. Idle \in Frames /\ Idle.todo = {}
    BY FrameType DEF Idle, Ops
  <2>4. frame' \in [Launches -> Frames] /\ \A o \in Launches : frame'[o].todo \subseteq Kids[o]
    BY <1>12, <2>3, MovesType DEF Returns
  <2> QED
    BY <1>12, <2>1, <2>2, <2>4 DEF Returns, TypeOK, Tables, Maps, Above
<1>13. ASSUME NEW n \in Launches, Throws(n) PROVE TypeOK'
  BY <1>13 DEF Throws, TypeOK
<1>14. CASE ClientPipe
  <2>1. table' \in Tables /\ client' \subseteq Fds
    BY <1>14, PipeType DEF ClientPipe
  <2>2. /\ pipes' \in Nat
        /\ made' \in Seq([inst : Nat, at : SUBSET (Ends \X Nodes \X Nat)]) /\ Len(made') = pipes'
    BY <1>14, MakesType DEF ClientPipe
  <2> QED
    BY <1>14, <2>1, <2>2 DEF ClientPipe, TypeOK, Tables
<1>15. ASSUME NEW k \in Fds, NEW fd \in ClientLinks, ClientLink(k, fd) PROVE TypeOK'
  <2>1. root \in Nodes /\ fd \in Nat
    <3>1. root \in Roots /\ Roots \subseteq Launches /\ ClientLinks \subseteq {0, 1, 2}
      BY DocumentAssumption DEF TypeOK
    <3> QED
      BY <3>1 DEF Nodes
  <2>2. table' \in Tables /\ fdMap' \in Maps /\ Above'
    BY <1>15, <2>1, LinkFdAdds DEF ClientLink
  <2>3. [inst |-> inst + 1, at |-> {<<table[k][2], root, fd>>}]
          \in [inst : Nat, at : SUBSET (Ends \X Nodes \X Nat)]
    BY <1>15, <2>1, DocumentAssumption DEF ClientLink, TypeOK
  <2>4. made' \in Seq([inst : Nat, at : SUBSET (Ends \X Nodes \X Nat)]) /\ Len(made') = pipes'
    <3> DEFINE S == [inst : Nat, at : SUBSET (Ends \X Nodes \X Nat)]
    <3>1. made' = [made EXCEPT ![table[k][1]] = [inst |-> inst + 1, at |-> {<<table[k][2], root, fd>>}]]
          /\ pipes' = pipes
      BY <1>15 DEF ClientLink
    <3>2. made \in [1 .. Len(made) -> S] /\ Len(made) = pipes /\ Len(made) \in Nat
      <4>1. made \in Seq(S) /\ Len(made) = pipes
        BY DEF TypeOK
      <4> HIDE DEF S
      <4> QED
        BY <4>1
    <3>3. made' \in [1 .. Len(made) -> S]
      BY <2>3, <3>1, <3>2
    <3>4. made' \in Seq(S) /\ Len(made') = Len(made)
      <4> HIDE DEF S
      <4> QED
        BY <3>2, <3>3
    <3> QED
      BY <3>1, <3>2, <3>4
  <2> QED
    BY <1>15, <2>2, <2>4 DEF ClientLink, TypeOK, Tables, Maps, Above
<1>16. ASSUME NEW k \in Fds, ClientClose(k) PROVE TypeOK'
  BY <1>16 DEF ClientClose, TypeOK
<1>17. CASE Startup
  <2>1. frame' \in [Launches -> Frames] /\ \A o \in Launches : frame'[o].todo \subseteq Kids[o]
    BY <1>17, MovesType, FrameType, DocumentAssumption DEF Startup, Ops, TypeOK
  <2>2. inst' \in 0 .. MaxInst
    BY <1>17, DocumentAssumption DEF Startup, TypeOK
  <2> QED
    BY <1>17, <2>1, <2>2, DocumentAssumption DEF Startup, TypeOK
<1>18. CASE Accept
  <2>1. PICK k \in Fds : /\ table' = [table EXCEPT ![k] = <<pipes + 1, "rw">>]
                         /\ Moves(root, Frame("socket", k, NoNode))
    BY <1>18 DEF Accept
  <2>2. root \in Launches
    BY DocumentAssumption DEF TypeOK
  <2>3. frame' \in [Launches -> Frames] /\ \A o \in Launches : frame'[o].todo \subseteq Kids[o]
    BY <2>1, <2>2, MovesType, FrameType DEF Ops
  <2>4. table' \in Tables
    <3>1. <<pipes + 1, "rw">> \in Files
      BY DEF TypeOK, Files, Ends
    <3> QED
      BY <2>1, <3>1 DEF TypeOK, Tables
  <2>5. inst' \in 0 .. MaxInst /\ inst + 1 \in Nat
    BY <1>18, DocumentAssumption DEF Accept, TypeOK
  <2>6. {<<"rw", Sockets[root][i].node, Sockets[root][i].fd>> : i \in DOMAIN Sockets[root]}
          \in SUBSET (Ends \X Nodes \X Nat)
    <3>1. \A i \in DOMAIN Sockets[root] : Sockets[root][i] \in [node : Kids[root], fd : Nat]
      <4> DEFINE S == [node : Kids[root], fd : Nat]
      <4>1. Sockets[root] \in Seq(S)
        BY <2>2, DocumentAssumption
      <4>2. \A i \in DOMAIN Sockets[root] : Sockets[root][i] \in S
        <5> HIDE DEF S
        <5> QED
          BY <4>1
      <4> QED
        BY <4>2
    <3>2. Kids[root] \subseteq Nodes
      BY <2>2, DocumentAssumption
    <3> QED
      BY <3>1, <3>2 DEF Ends
  <2>7. /\ pipes' \in Nat
        /\ made' \in Seq([inst : Nat, at : SUBSET (Ends \X Nodes \X Nat)]) /\ Len(made') = pipes'
    BY <1>18, <2>5, <2>6, MakesType DEF Accept
  <2> QED
    BY <1>18, <2>2, <2>3, <2>4, <2>5, <2>7 DEF Accept, TypeOK, Tables
<1>19. ASSUME NEW q \in Processes, ProgramExits(q) \/ ProgramSeesEnd(q) PROVE TypeOK'
  BY <1>19 DEF ProgramExits, ProgramSeesEnd, End, TypeOK
<1>20. CASE Stopped
  BY <1>20 DEF Stopped, TypeOK, vars
<1> QED
  BY <1>1, <1>2, <1>3, <1>4, <1>5, <1>6, <1>7, <1>8, <1>9, <1>10, <1>11, <1>12, <1>13, <1>14,
     <1>15, <1>16, <1>17, <1>18, <1>19, <1>20 DEF Next, Main, Client

\* The descriptor table, the nodes' maps and the frames keep their types, and every
\* link is above the descriptor it is for, in every document.
THEOREM TypeCorrect == Spec => []TypeOK
<1>1. Init => TypeOK /\ Within
  <2>1. Init => Within
    BY DEF Init, Within, Idle, Frame
  <2> QED
    BY <2>1, InitType
<1>2. TypeOK /\ Within /\ [Next]_vars => (TypeOK /\ Within)'
  BY TypeNext, WithinNext
<1> QED
  BY <1>1, <1>2, PTL DEF Spec

-----------------------------------------------------------------------------
(* The startups in progress *)

\* A step of the startup() of n that neither ends it nor begins another.
Advance(n) ==
  \/ SocketLink(n) \/ SocketClose(n)
  \/ MakePipe(n) \/ MakePipeFails(n) \/ LinkTo(n) \/ LinkFrom(n) \/ CloseEnds(n) \/ LinksMade(n)
  \/ Externalize(n) \/ ExternalsMade(n)
  \/ \E s \in Nodes : StartLeaf(n, s)

LEMMA AdvanceFrame ==
  ASSUME TypeOK, NEW n \in Launches, Advance(n)
  PROVE  /\ cur = n /\ Active(n)
         /\ UNCHANGED <<cur, root, exited, client, asked>>
         /\ \A m \in Launches : m # n => frame'[m] = frame[m]
         /\ frame'[n].op # "idle" /\ frame'[n].up = frame[n].up
<1> USE DEF place, status, programs, ghosts, Moves, At, Active, Frames
<1>0. frame \in [Launches -> Frames]
  BY DEF TypeOK
<1>1. CASE SocketLink(n)
  BY <1>0, <1>1 DEF SocketLink
<1>2. CASE SocketClose(n)
  BY <1>0, <1>2 DEF SocketClose
<1>3. CASE MakePipe(n)
  BY <1>0, <1>3 DEF MakePipe
<1>4. CASE MakePipeFails(n)
  BY <1>0, <1>4 DEF MakePipeFails
<1>5. CASE LinkTo(n) \/ LinkFrom(n)
  BY <1>0, <1>5 DEF LinkTo, LinkFrom
<1>6. CASE CloseEnds(n)
  BY <1>0, <1>6 DEF CloseEnds
<1>7. CASE LinksMade(n)
  BY <1>0, <1>7 DEF LinksMade
<1>8. CASE Externalize(n)
  BY <1>0, <1>8 DEF Externalize
<1>9. CASE ExternalsMade(n)
  BY <1>0, <1>9 DEF ExternalsMade
<1>10. ASSUME NEW s \in Nodes, StartLeaf(n, s)
       PROVE  /\ cur = n /\ Active(n)
              /\ UNCHANGED <<cur, root, exited, client, asked>>
              /\ \A m \in Launches : m # n => frame'[m] = frame[m]
              /\ frame'[n].op # "idle" /\ frame'[n].up = frame[n].up
  BY <1>0, <1>10 DEF StartLeaf
<1> QED
  BY <1>1, <1>2, <1>3, <1>4, <1>5, <1>6, <1>7, <1>8, <1>9, <1>10 DEF Advance

\* Steps of the client and the programs.
Elsewhere ==
  \/ UNCHANGED vars \/ Stopped
  \/ ClientPipe
  \/ \E k \in Fds : ClientClose(k) \/ \E fd \in ClientLinks : ClientLink(k, fd)
  \/ \E q \in Processes : ProgramExits(q) \/ ProgramSeesEnd(q)

LEMMA ElsewhereFrame ==
  ASSUME Elsewhere PROVE UNCHANGED <<frame, cur, root, exited>>
BY DEF Elsewhere, vars, Stopped, ClientPipe, ClientClose, ClientLink, ProgramExits, ProgramSeesEnd,
       End, place, status

LEMMA Steps ==
  ASSUME [Next]_vars
  PROVE  \/ Elsewhere \/ Startup \/ Accept
         \/ \E n \in Launches :
              \/ Advance(n) \/ Returns(n) \/ Throws(n)
              \/ \E s \in Nodes : StartLaunch(n, s)
BY DEF Next, Main, Client, Elsewhere, Advance

LEMMA DocumentTree ==
  /\ NoNode \notin Launches /\ Roots \subseteq Launches
  /\ \A n \in Nodes : Depth[n] \in Nat
  /\ \A n \in Roots : Depth[n] = 0
  /\ \A n \in Launches : \A m \in Kids[n] : m \in Nodes /\ Depth[m] = Depth[n] + 1
BY DocumentAssumption DEF Nodes

LEMMA ChainNext ==
  ASSUME TypeOK, Chain, [Next]_vars
  PROVE  Chain'
<1>0. /\ frame \in [Launches -> Frames] /\ root \in Roots /\ root \in Launches
      /\ cur \in Launches \cup {NoNode}
  BY DocumentTree DEF TypeOK
<1>1. CASE Elsewhere
  BY <1>1, ElsewhereFrame DEF Chain, Active
<1>2. ASSUME NEW n \in Launches, Advance(n) PROVE Chain'
  <2>1. /\ UNCHANGED <<cur, root, exited>>
        /\ \A m \in Launches : Active(m)' = Active(m) /\ frame'[m].up = frame[m].up
    BY <1>2, AdvanceFrame DEF Active
  <2>2. cur = n /\ ~exited /\ Active(n) /\ n # NoNode
    BY <1>2, AdvanceFrame, DocumentTree DEF Chain
  <2> QED
    BY <2>1, <2>2 DEF Chain
<1>3. CASE Startup \/ Accept
  <2>1. /\ cur = NoNode /\ ~exited /\ cur' = root /\ UNCHANGED <<root, exited>>
        /\ \A m \in Launches : m # root => frame'[m] = frame[m]
        /\ frame'[root].op # "idle" /\ frame'[root].up = NoNode
    BY <1>0, <1>3 DEF Startup, Accept, Idling, Moves, Frame
  <2>2. \A m \in Launches : Active(m)' => m = root
    BY <2>1 DEF Chain, Active
  <2> QED
    BY <1>0, <2>1, <2>2, DocumentTree DEF Chain, Active
<1>4. ASSUME NEW n \in Launches, NEW s \in Nodes, StartLaunch(n, s) PROVE Chain'
  <2>1. /\ cur = n /\ frame[n].op = "subs" /\ s \in Launches /\ s \in frame[n].todo
        /\ cur' = s /\ UNCHANGED <<root, exited>>
    BY <1>4 DEF StartLaunch, At, Lowest, status
  <2>2. s \in Kids[n] /\ Depth[s] = Depth[n] + 1 /\ Depth[n] \in Nat
    BY <2>1, FrameAt, DocumentTree DEF Nodes
  <2>3. ~exited /\ Active(n) /\ n # NoNode /\ s # n
    BY <2>1, <2>2, DocumentTree DEF Chain
  <2>4. \A m \in Launches : Active(m) => Depth[m] <= Depth[n]
    BY <2>1, <2>2, <2>3, DocumentTree DEF Chain, Nodes
  <2>5. ~Active(s) /\ s # root
    BY <1>0, <2>1, <2>2, <2>4, DocumentTree DEF TypeOK
  <2>6. /\ frame'[s].op = "link" /\ frame'[s].up = n
        /\ \A m \in Launches : m # s => frame'[m].op = frame[m].op /\ frame'[m].up = frame[m].up
    BY <1>0, <1>4, <2>1, <2>3 DEF StartLaunch, Frame, Frames
  <2>7. \A m \in Launches : Active(m)' <=> (m = s \/ Active(m))
    BY <2>6 DEF Active
  <2>8. ASSUME NEW m \in Launches, Active(m)'
        PROVE  /\ IF m = root THEN frame'[m].up = NoNode
                  ELSE frame'[m].up \in Launches /\ m \in Kids[frame'[m].up] /\ Active(frame[m].up)'
               /\ \A o \in Launches : Active(o)' /\ o # m => Depth[o] # Depth[m]
               /\ m # s => Depth[m] < Depth[s]
    <3>1. CASE m = s
      <4>1. Active(n)'
        BY <2>3, <2>7
      <4>2. \A o \in Launches : Active(o)' /\ o # s => Depth[o] # Depth[s]
        <5> SUFFICES ASSUME NEW o \in Launches, Active(o)', o # s PROVE Depth[o] # Depth[s]
          OBVIOUS
        <5>1. Depth[o] <= Depth[n] /\ Depth[o] \in Nat
          BY <2>4, <2>7, DocumentTree DEF Nodes
        <5> QED
          BY <2>2, <5>1
      <4> QED
        BY <3>1, <4>1, <4>2, <2>2, <2>5, <2>6
    <3>2. CASE m # s
      <4>1. Active(m) /\ frame'[m].up = frame[m].up
        BY <2>6, <2>7, <2>8, <3>2
      <4>2. IF m = root THEN frame'[m].up = NoNode
            ELSE frame'[m].up \in Launches /\ m \in Kids[frame'[m].up] /\ Active(frame[m].up)'
        BY <2>3, <2>7, <4>1 DEF Chain
      <4>3. Depth[m] < Depth[s]
        BY <2>2, <2>4, <4>1, DocumentTree DEF Nodes
      <4>4. \A o \in Launches : Active(o)' /\ o # m => Depth[o] # Depth[m]
        <5> SUFFICES ASSUME NEW o \in Launches, Active(o)', o # m PROVE Depth[o] # Depth[m]
          OBVIOUS
        <5>1. CASE o = s
          BY <4>3, <5>1, <2>2, DocumentTree DEF Nodes
        <5>2. CASE o # s
          BY <2>3, <2>7, <4>1, <5>2 DEF Chain
        <5> QED
          BY <5>1, <5>2
      <4> QED
        BY <4>2, <4>3, <4>4
    <3> QED
      BY <3>1, <3>2
  <2> QED
    BY <2>1, <2>3, <2>7, <2>8, DocumentTree DEF Chain
<1>5. ASSUME NEW n \in Launches, Returns(n) PROVE Chain'
  <2> DEFINE u == frame[n].up
  <2>1. /\ cur = n /\ cur' = u /\ UNCHANGED <<root, exited>>
        /\ \A m \in Launches : m # n => frame'[m] = frame[m]
        /\ frame'[n].op = "idle"
    BY <1>0, <1>5 DEF Returns, At, Moves, Idle, Frame, status
  <2>2. ~exited /\ Active(n) /\ n # NoNode
    BY <2>1, DocumentTree DEF Chain
  <2>3. IF n = root THEN u = NoNode
        ELSE u \in Launches /\ n \in Kids[u] /\ Active(u)
    BY <2>2 DEF Chain
  <2>4. \A m \in Launches : Active(m)' <=> (m # n /\ Active(m))
    BY <2>1 DEF Active
  <2>5. \A m \in Launches : Active(m) /\ m # n => Depth[m] < Depth[n]
    BY <2>1, <2>2 DEF Chain
  <2>6. \A m \in Launches : Depth[m] \in Nat
    BY DocumentTree DEF Nodes
  <2>7. CASE n = root
    <3>1. \A m \in Launches : ~Active(m)'
      BY <1>0, <2>4, <2>5, <2>6, <2>7, DocumentTree
    <3> QED
      BY <2>1, <2>3, <2>7, <3>1 DEF Chain
  <2>8. CASE n # root
    <3>1. u \in Launches /\ Active(u) /\ Depth[n] = Depth[u] + 1 /\ u # n /\ u # NoNode
      BY <2>3, <2>6, <2>8, DocumentTree
    <3>2. \A m \in Launches : Active(m)' /\ m # u => Depth[m] < Depth[u]
      <4> SUFFICES ASSUME NEW m \in Launches, Active(m)', m # u PROVE Depth[m] < Depth[u]
        OBVIOUS
      <4>1. Active(m) /\ Depth[m] < Depth[n]
        BY <2>4, <2>5
      <4>2. Depth[m] # Depth[u]
        BY <2>2, <3>1, <4>1 DEF Chain
      <4> QED
        BY <2>6, <3>1, <4>1, <4>2
    <3>3. ASSUME NEW m \in Launches, Active(m)'
          PROVE  /\ IF m = root THEN frame'[m].up = NoNode
                    ELSE frame'[m].up \in Launches /\ m \in Kids[frame'[m].up]
                         /\ Active(frame[m].up)'
                 /\ \A o \in Launches : Active(o)' /\ o # m => Depth[o] # Depth[m]
      <4>1. m # n /\ Active(m) /\ frame'[m].up = frame[m].up
        BY <2>1, <2>4, <3>3
      <4>2. Depth[m] < Depth[n]
        BY <2>5, <4>1
      <4>3. m # root => /\ frame[m].up \in Launches /\ m \in Kids[frame[m].up]
                        /\ Active(frame[m].up) /\ frame[m].up # n
        <5>1. m # root => frame[m].up \in Launches /\ m \in Kids[frame[m].up] /\ Active(frame[m].up)
          BY <2>2, <4>1 DEF Chain
        <5> QED
          BY <2>6, <4>2, <5>1, DocumentTree
      <4>4. \A o \in Launches : Active(o)' /\ o # m => Depth[o] # Depth[m]
        BY <2>2, <2>4, <4>1 DEF Chain
      <4>5. m = root => frame'[m].up = NoNode
        BY <2>2, <4>1 DEF Chain
      <4>6. m # root => Active(frame[m].up)'
        BY <2>4, <4>1, <4>3
      <4> QED
        BY <4>1, <4>3, <4>4, <4>5, <4>6
    <3>4. frame'[u].op # "idle" /\ cur' = u
      BY <2>1, <3>1 DEF Active
    <3>5. cur' # NoNode /\ ~exited' /\ root' = root
      BY <2>1, <2>2, <3>1
    <3>6. \A m \in Launches : Active(m)' /\ m # cur' => Depth[m] < Depth[cur']
      BY <3>2, <3>4
    <3>7. Active(cur)'
      BY <3>4 DEF Active
    <3> QED
      BY <3>3, <3>5, <3>6, <3>7 DEF Chain
  <2> QED
    BY <2>7, <2>8
<1>6. ASSUME NEW n \in Launches, Throws(n) PROVE Chain'
  BY <1>6 DEF Throws, Chain, Active, status
<1> QED
  BY <1>1, <1>2, <1>3, <1>4, <1>5, <1>6, Steps

-----------------------------------------------------------------------------
(* What is linked is closed by a startup *)

\* The links made by one step of a startup(), to a node that it is to start.
LEMMA AdvanceLinks ==
  ASSUME TypeOK, Within, NEW n \in Launches,
         SocketLink(n) \/ LinkTo(n) \/ LinkFrom(n) \/ Externalize(n)
  PROVE  /\ \/ UNCHANGED <<table, fdMap>>
            \/ \E m \in Kids[n], fd \in Nat, k \in Fds : LinkFd(m, fd, k)
         /\ frame'[n].op \notin {"idle", "subs"} /\ frame[n].op # "subs"
         /\ frame'[n].r = frame[n].r /\ frame'[n].w = frame[n].w
         /\ frame[n].op \in {"to", "from", "close"} => frame'[n].op \in {"to", "from", "close"}
         /\ frame[n].op = "socket" => frame'[n].op = "socket"
<1> DEFINE f == frame[n]
<1>0. /\ frame \in [Launches -> Frames] /\ f \in Frames
      /\ f.r \in Fds \cup {NoFd} /\ f.w \in Fds \cup {NoFd} /\ f.i \in Nat \ {0}
  BY FrameAt DEF TypeOK, Frames
<1>1. CASE SocketLink(n)
  <2>1. Sockets[n][f.i] \in [node : Kids[n], fd : Nat]
    BY <1>0, <1>1, DocumentType DEF SocketLink
  <2>2. f.r \in Fds /\ LinkFd(Sockets[n][f.i].node, Sockets[n][f.i].fd, f.r)
    BY <1>1 DEF SocketLink, LinkFd, IsOpen
  <2> QED
    BY <1>0, <1>1, <2>1, <2>2 DEF SocketLink, Moves, At, Frames
<1>2. CASE LinkTo(n)
  <2>1. Links[n][f.i] \in [to : Kids[n], to_fd : Nat, from : Kids[n], from_fd : Nat]
    BY <1>0, <1>2, DocumentType DEF LinkTo, At, Within
  <2>2. f.r \in Fds /\ LinkFd(Links[n][f.i].to, Links[n][f.i].to_fd, f.r)
    BY <1>2 DEF LinkTo, LinkFd, IsOpen
  <2> QED
    BY <1>0, <1>2, <2>1, <2>2 DEF LinkTo, Moves, At, Frames
<1>3. CASE LinkFrom(n)
  <2>1. Links[n][f.i] \in [to : Kids[n], to_fd : Nat, from : Kids[n], from_fd : Nat]
    BY <1>0, <1>3, DocumentType DEF LinkFrom, At, Within
  <2>2. f.w \in Fds /\ LinkFd(Links[n][f.i].from, Links[n][f.i].from_fd, f.w)
    BY <1>3 DEF LinkFrom, LinkFd, IsOpen
  <2> QED
    BY <1>0, <1>3, <2>1, <2>2 DEF LinkFrom, Moves, At, Frames
<1>4. CASE Externalize(n)
  <2> DEFINE e == Externals[n][f.i]
  <2>1. e \in [external : Nat, node : Kids[n], internal : Nat]
    BY <1>0, <1>4, DocumentType DEF Externalize
  <2>2. UNCHANGED <<table, fdMap>> \/ \E k \in Fds : LinkFd(e.node, e.internal, k)
    BY <1>4 DEF Externalize
  <2>3. UNCHANGED <<table, fdMap>> \/ \E m \in Kids[n], fd \in Nat, k \in Fds : LinkFd(m, fd, k)
    BY <2>1, <2>2
  <2>4. Moves(n, [f EXCEPT !.i = @ + 1]) /\ f.op = "extern"
    BY <1>4 DEF Externalize, At
  <2> QED
    BY <1>0, <2>3, <2>4 DEF Moves, Frames
<1> QED
  BY <1>1, <1>2, <1>3, <1>4

\* What linkFd() leaves of the accounts.
LEMMA LinkFdAccounts ==
  ASSUME TypeOK, NEW n \in Nodes, NEW fd \in Nat, NEW extFd, LinkFd(n, fd, extFd)
  PROVE  /\ \A m \in Nodes, k \in Fds : fdMap[m][k] # NoFd => fdMap'[m][k] # NoFd
         /\ \A k \in Fds :
              table'[k] # Closed => table[k] # Closed \/ \E m \in Nodes : fdMap'[m][k] # NoFd
<1>1. fd # NoFd
  BY DEF NoFd
<1> QED
  BY <1>1, LinkFdAdds

LEMMA PendingNext ==
  ASSUME IInv, Within, TypeOK', [Next]_vars
  PROVE  Pending'
<1>0. /\ frame \in [Launches -> Frames] /\ frame' \in [Launches -> Frames]
      /\ root \in Launches /\ root \in Nodes /\ Launches \subseteq Nodes
      /\ cur \in Launches \cup {NoNode} /\ NoNode \notin Launches
      /\ TypeOK /\ Chain /\ Pending
  BY DocumentTree DEF IInv, TypeOK, Nodes
\* A startup() goes on, and its frame still waits for those that it was to start.
<1>1. ASSUME NEW n \in Launches, Advance(n),
             frame'[n].op # "subs" \/ frame'[n].todo = Kids[n]
      PROVE  \A m \in Nodes : ToStart(m) \/ m \in Kids[n] => ToStart(m)'
  <2>1. /\ Active(n) /\ frame'[n].op # "idle"
        /\ \A m \in Launches : m # n => frame'[m] = frame[m]
    BY <1>0, <1>1, AdvanceFrame
  <2>2. \A m \in Launches : Active(m) => Active(m)'
    BY <2>1 DEF Active
  <2>3. \A m \in Kids[n] : ToStart(m)'
    BY <1>1, <2>1 DEF ToStart, Active
  <2>4. ASSUME NEW m \in Nodes, NEW o \in Launches, o # n,
               m \in Kids[o], Active(o), frame[o].op = "subs" => m \in frame[o].todo
        PROVE  ToStart(m)'
    BY <2>1, <2>2, <2>4 DEF ToStart
  <2>5. ASSUME NEW m \in Launches, Active(m)
        PROVE  ToStart(m)'
    BY <2>2, <2>5 DEF ToStart
  <2> QED
    BY <2>3, <2>4, <2>5 DEF ToStart
<1>2. ASSUME NEW n \in Launches, Advance(n), UNCHANGED fdMap,
             frame'[n].op # "subs" \/ frame'[n].todo = Kids[n]
      PROVE  Pending'
  <2>1. cur = n /\ cur' = cur /\ exited' = exited
    BY <1>0, <1>2, AdvanceFrame
  <2> QED
    BY <1>0, <1>1, <1>2, <2>1 DEF Pending
<1>3. ASSUME NEW n \in Launches, SocketLink(n) \/ LinkTo(n) \/ LinkFrom(n) \/ Externalize(n)
      PROVE  Pending'
  <2>1. Advance(n) /\ frame'[n].op # "subs"
    BY <1>0, <1>3, AdvanceLinks DEF Advance
  <2>2. CASE UNCHANGED <<table, fdMap>>
    BY <1>2, <2>1, <2>2
  <2>3. ASSUME NEW m \in Kids[n], NEW fd \in Nat, NEW e \in Fds, LinkFd(m, fd, e)
        PROVE  Pending'
    <3>1. m \in Nodes /\ ToStart(m)'
      BY <1>1, <2>1, DocumentTree
    <3>2. \A o \in Nodes, k \in Fds : fdMap'[o][k] = fdMap[o][k] \/ o = m
      BY <1>0, <2>3, <3>1, LinkFdAdds
    <3>3. cur = n /\ cur' = cur /\ exited' = exited
      BY <1>0, <2>1, AdvanceFrame
    <3> QED
      BY <1>0, <1>1, <2>1, <3>1, <3>2, <3>3 DEF Pending
  <2> QED
    BY <1>0, <1>3, <2>2, <2>3, AdvanceLinks
<1>4. ASSUME NEW n \in Launches,
             SocketClose(n) \/ MakePipe(n) \/ MakePipeFails(n) \/ CloseEnds(n) \/ LinksMade(n)
               \/ ExternalsMade(n)
      PROVE  Pending'
  <2>1. Advance(n) /\ UNCHANGED fdMap
    BY <1>4 DEF Advance, SocketClose, MakePipe, MakePipeFails, CloseEnds, LinksMade, ExternalsMade
  <2>2. frame'[n].op # "subs" \/ frame'[n].todo = Kids[n]
    <3> USE DEF Moves, Frames
    <3>1. CASE SocketClose(n)
      BY <1>0, <3>1 DEF SocketClose
    <3>2. CASE MakePipe(n)
      BY <1>0, <3>2 DEF MakePipe
    <3>3. CASE MakePipeFails(n)
      BY <1>0, <3>3 DEF MakePipeFails
    <3>4. CASE CloseEnds(n)
      BY <1>0, <3>4 DEF CloseEnds
    <3>5. CASE LinksMade(n)
      BY <1>0, <3>5 DEF LinksMade
    <3>6. CASE ExternalsMade(n)
      BY <1>0, <3>6 DEF ExternalsMade
    <3> QED
      BY <1>4, <3>1, <3>2, <3>3, <3>4, <3>5, <3>6
  <2> QED
    BY <1>2, <2>1, <2>2
<1>5. ASSUME NEW n \in Launches, NEW s \in Nodes, StartLeaf(n, s) PROVE Pending'
  <2>1. Advance(n) /\ CloseFds(s) /\ frame[n].op = "subs"
    BY <1>5 DEF Advance, StartLeaf, At
  <2>2. /\ cur = n /\ cur' = cur /\ exited' = exited /\ Active(n)
        /\ \A m \in Launches : m # n => frame'[m] = frame[m]
        /\ frame'[n].op # "idle"
    BY <1>0, <2>1, AdvanceFrame
  <2>3. frame'[n].todo = frame[n].todo \ {s}
    BY <1>0, <1>5 DEF StartLeaf, Moves, Frames
  <2>4. \A m \in Nodes, k \in Fds : fdMap'[m][k] # NoFd => m # s /\ fdMap'[m][k] = fdMap[m][k]
    BY <1>0, <2>1, CloseFdsCloses
  <2>5. \A m \in Launches : Active(m) => Active(m)'
    BY <2>2 DEF Active
  <2>6. ASSUME NEW m \in Nodes, m # s, ToStart(m) PROVE ToStart(m)'
    <3>1. CASE m \in Launches /\ Active(m)
      BY <2>5, <3>1 DEF ToStart
    <3>2. ASSUME NEW o \in Launches, m \in Kids[o], Active(o),
                 frame[o].op = "subs" => m \in frame[o].todo
          PROVE  ToStart(m)'
      <4>1. CASE o = n
        BY <2>1, <2>3, <2>5, <2>6, <3>2, <4>1 DEF ToStart
      <4>2. CASE o # n
        BY <2>2, <2>5, <3>2, <4>2 DEF ToStart
      <4> QED
        BY <4>1, <4>2
    <3> QED
      BY <2>6, <3>1, <3>2 DEF ToStart
  <2> QED
    BY <1>0, <2>2, <2>4, <2>6 DEF Pending
<1>6. ASSUME NEW n \in Launches, NEW s \in Nodes, StartLaunch(n, s) PROVE Pending'
  <2>1. /\ cur = n /\ frame[n].op = "subs" /\ s \in Launches
        /\ cur' = s /\ exited' = exited /\ fdMap' = fdMap /\ n # NoNode
    BY <1>0, <1>6 DEF StartLaunch, At, status
  <2>2. s # n
    <3>1. s \in Kids[n]
      BY <1>0, <1>6, FrameAt DEF StartLaunch, Lowest
    <3> QED
      BY <3>1, DocumentTree DEF Nodes
  <2>3. /\ frame'[s].op = "link" /\ frame'[n].op = frame[n].op /\ frame'[n].todo = frame[n].todo \ {s}
        /\ \A m \in Launches : m # s /\ m # n => frame'[m] = frame[m]
    BY <1>0, <1>6, <2>1, <2>2 DEF StartLaunch, Frame, Frames
  <2>4. \A m \in Launches : Active(m) \/ m = s => Active(m)'
    BY <2>1, <2>3 DEF Active
  <2>5. ASSUME NEW m \in Nodes, ToStart(m) PROVE ToStart(m)'
    <3>1. CASE m \in Launches /\ (Active(m) \/ m = s)
      BY <2>4, <3>1 DEF ToStart
    <3>2. ASSUME m # s, NEW o \in Launches, m \in Kids[o], Active(o),
                 frame[o].op = "subs" => m \in frame[o].todo
          PROVE  ToStart(m)'
      <4>1. CASE o = n
        BY <2>1, <2>3, <2>4, <3>2, <4>1 DEF ToStart
      <4>2. CASE o = s
        BY <2>3, <2>4, <3>2, <4>2 DEF ToStart
      <4>3. CASE o # n /\ o # s
        BY <2>3, <2>4, <3>2, <4>3 DEF ToStart
      <4> QED
        BY <4>1, <4>2, <4>3
    <3> QED
      BY <2>1, <2>5, <3>1, <3>2 DEF ToStart
  <2> QED
    BY <1>0, <2>1, <2>5 DEF Pending
<1>7. ASSUME NEW n \in Launches, Returns(n) PROVE Pending'
  <2>1. /\ cur = n /\ frame[n].op = "subs" /\ frame[n].todo = {} /\ CloseFds(n)
        /\ cur' = frame[n].up /\ exited' = exited /\ n # NoNode
        /\ \A m \in Launches : m # n => frame'[m] = frame[m]
    BY <1>0, <1>7 DEF Returns, At, Moves, status
  <2>2. \A m \in Nodes, k \in Fds : fdMap'[m][k] # NoFd => m # n /\ fdMap'[m][k] = fdMap[m][k]
    BY <1>0, <2>1, CloseFdsCloses
  <2>3. \A m \in Launches : m # n /\ Active(m) => Active(m)'
    BY <2>1 DEF Active
  <2>4. ASSUME NEW m \in Nodes, m # n, ToStart(m) PROVE ToStart(m)' /\ \E o \in Launches : o # n /\ Active(o)
    <3>1. CASE m \in Launches /\ Active(m)
      BY <2>3, <2>4, <3>1 DEF ToStart
    <3>2. ASSUME NEW o \in Launches, m \in Kids[o], Active(o),
                 frame[o].op = "subs" => m \in frame[o].todo
          PROVE  ToStart(m)' /\ \E o_1 \in Launches : o_1 # n /\ Active(o_1)
      <4>1. o # n
        BY <2>1, <3>2
      <4> QED
        BY <2>1, <2>3, <3>2, <4>1 DEF ToStart
    <3> QED
      BY <2>4, <3>1, <3>2 DEF ToStart
  \* The root is the last to return.
  <2>5. ASSUME NEW o \in Launches, o # n, Active(o) PROVE cur' # NoNode
    <3>1. ~exited /\ Active(n)
      BY <1>0, <2>1 DEF Chain
    <3>2. Depth[o] < Depth[n] /\ Depth[o] \in Nat /\ Depth[n] \in Nat
      BY <1>0, <2>1, <2>5, <3>1, DocumentTree DEF Chain
    <3>3. n # root
      BY <3>2, DocumentTree, <1>0 DEF TypeOK
    <3> QED
      BY <1>0, <2>1, <3>1, <3>3 DEF Chain
  <2> QED
    BY <1>0, <2>1, <2>2, <2>4, <2>5 DEF Pending
<1>8. CASE Startup \/ Accept
  <2>1. /\ cur = NoNode /\ cur' = root /\ UNCHANGED <<root, exited, fdMap>>
        /\ frame'[root].op # "idle"
    BY <1>0, <1>8 DEF Startup, Accept, Idling, Moves, Frame
  <2>2. ToStart(root)'
    BY <1>0, <2>1 DEF ToStart, Active
  <2> QED
    BY <1>0, <2>1, <2>2 DEF Pending
<1>9. ASSUME NEW n \in Launches, Throws(n) PROVE Pending'
  BY <1>9 DEF Throws, Pending
<1>10. CASE Elsewhere
  <2>1. UNCHANGED <<frame, cur, root, exited>>
    BY <1>10, ElsewhereFrame
  <2>2. \A m \in Nodes : ToStart(m)' <=> ToStart(m)
    BY <2>1 DEF ToStart, Active
  <2>3. CASE \E k \in Fds : \E fd \in ClientLinks : ClientLink(k, fd)
    <3>1. PICK k \in Fds, fd \in ClientLinks : ClientLink(k, fd)
      BY <2>3
    <3>2. fd \in Nat /\ cur = NoNode /\ LinkFd(root, fd, k) /\ asked' = asked \cup {fd}
      BY <3>1, DocumentAssumption DEF ClientLink, Idling
    <3>3. \A m \in Nodes, j \in Fds :
            fdMap'[m][j] = fdMap[m][j] \/ (m = root /\ fdMap'[m][j] = fd)
      BY <1>0, <3>2, LinkFdAdds
    <3> QED
      BY <1>0, <2>1, <2>2, <3>2, <3>3 DEF Pending
  <2>4. CASE UNCHANGED <<fdMap, asked>>
    BY <1>0, <2>1, <2>2, <2>4 DEF Pending
  <2>5. \/ \E k \in Fds : \E fd \in ClientLinks : ClientLink(k, fd)
        \/ UNCHANGED <<fdMap, asked>>
    BY <1>10 DEF Elsewhere, vars, Stopped, ClientPipe, ClientClose, ProgramExits, ProgramSeesEnd,
                 End, ghosts
  <2> QED
    BY <2>3, <2>4, <2>5
<1> QED
  BY <1>3, <1>4, <1>5, <1>6, <1>7, <1>8, <1>9, <1>10, Steps DEF Advance

-----------------------------------------------------------------------------
(* Every open number has an owner *)

LEMMA AccountedNext ==
  ASSUME IInv, Within, [Next]_vars
  PROVE  Accounted'
<1>0. /\ frame \in [Launches -> Frames] /\ table \in Tables
      /\ root \in Launches /\ root \in Nodes /\ Launches \subseteq Nodes
      /\ cur \in Launches \cup {NoNode} /\ NoNode \notin Launches
      /\ TypeOK /\ Chain /\ Accounted
  BY DocumentTree DEF IInv, TypeOK, Nodes, Tables
\* A startup() goes on and adds nothing that is not its own.
<1>1. ASSUME NEW n \in Launches, Advance(n),
             \A m \in Nodes, k \in Fds : fdMap[m][k] # NoFd => fdMap'[m][k] # NoFd \/ table'[k] = Closed,
             \A k \in Fds : table'[k] # Closed =>
               \/ table[k] # Closed /\ (Local(k) => Local(k)')
               \/ Local(k)'
               \/ \E m \in Nodes : fdMap'[m][k] # NoFd
      PROVE  Accounted'
  <2>1. client' = client
    BY <1>0, <1>1, AdvanceFrame
  <2> QED
    BY <1>0, <1>1, <2>1 DEF Accounted
<1>2. ASSUME NEW n \in Launches, SocketLink(n) \/ LinkTo(n) \/ LinkFrom(n) \/ Externalize(n)
      PROVE  Accounted'
  <2>1. Advance(n)
    BY <1>2 DEF Advance
  <2>2. /\ cur = n /\ cur' = cur /\ cur # NoNode
    BY <1>0, <2>1, AdvanceFrame
  <2>3. \A k \in Fds : Local(k) => Local(k)'
    BY <1>0, <1>2, <2>2, AdvanceLinks DEF Local
  <2>4. CASE UNCHANGED <<table, fdMap>>
    BY <1>1, <2>1, <2>3, <2>4
  <2>5. ASSUME NEW m \in Kids[n], NEW fd \in Nat, NEW e \in Fds, LinkFd(m, fd, e)
        PROVE  Accounted'
    <3>1. m \in Nodes
      BY DocumentTree
    <3> QED
      BY <1>0, <1>1, <2>1, <2>3, <2>5, <3>1, LinkFdAccounts
  <2> QED
    BY <1>0, <1>2, <2>4, <2>5, AdvanceLinks
<1>3. ASSUME NEW n \in Launches, SocketClose(n) PROVE Accounted'
  <2>1. Advance(n) /\ fdMap' = fdMap /\ cur = n /\ frame[n].op = "socket" /\ cur # NoNode
    BY <1>0, <1>3 DEF Advance, SocketClose, At
  <2>2. \A k \in Fds : table'[k] # Closed => table[k] # Closed /\ k # frame[n].r
    BY <1>0, <1>3 DEF SocketClose, Tables
  <2>3. \A k \in Fds : Local(k) => k = frame[n].r
    BY <2>1 DEF Local
  <2> QED
    BY <1>1, <2>1, <2>2, <2>3
<1>4. ASSUME NEW n \in Launches, MakePipe(n) PROVE Accounted'
  <2>1. Advance(n) /\ fdMap' = fdMap /\ cur = n /\ frame[n].op = "link" /\ cur' = n /\ cur # NoNode
    BY <1>0, <1>4 DEF Advance, MakePipe, At
  <2>2. PICK r, w \in Fds : OpensPipe(r, w) /\ Moves(n, [frame[n] EXCEPT !.op = "to", !.r = r, !.w = w])
    BY <1>4 DEF MakePipe
  <2>3. frame'[n].op = "to" /\ frame'[n].r = r /\ frame'[n].w = w
    BY <1>0, <2>2 DEF Moves, Frames
  <2>4. \A k \in Fds : k \in {r, w} => Local(k)'
    BY <1>0, <2>1, <2>3 DEF Local
  <2>5. \A k \in Fds : k \notin {r, w} => table'[k] = table[k]
    BY <1>0, <2>2 DEF OpensPipe, Tables
  <2>6. \A k \in Fds : ~Local(k)
    BY <2>1 DEF Local
  <2> QED
    BY <1>1, <2>1, <2>4, <2>5, <2>6
<1>5. ASSUME NEW n \in Launches, MakePipeFails(n) \/ LinksMade(n) \/ ExternalsMade(n) PROVE Accounted'
  <2>1. Advance(n) /\ fdMap' = fdMap /\ table' = table /\ cur = n /\ frame[n].op \in {"link", "extern"}
    BY <1>5 DEF Advance, MakePipeFails, LinksMade, ExternalsMade, At
  <2>2. \A k \in Fds : ~Local(k)
    BY <2>1 DEF Local
  <2> QED
    BY <1>1, <2>1, <2>2
<1>6. ASSUME NEW n \in Launches, CloseEnds(n) PROVE Accounted'
  <2>1. Advance(n) /\ fdMap' = fdMap /\ cur = n /\ frame[n].op = "close"
    BY <1>6 DEF Advance, CloseEnds, At
  <2>2. \A k \in Fds : table'[k] # Closed => table[k] # Closed /\ k \notin {frame[n].r, frame[n].w}
    BY <1>6 DEF CloseEnds
  <2>3. \A k \in Fds : Local(k) => k \in {frame[n].r, frame[n].w}
    BY <2>1 DEF Local
  <2> QED
    BY <1>1, <2>1, <2>2, <2>3
\* closeFds() takes out what it closes, at a point where there are no locals.
<1>7. ASSUME NEW n \in Nodes, CloseFds(n), client' = client, \A k \in Fds : ~Local(k)
      PROVE  Accounted'
  <2>1. \A k \in Fds : table'[k] # Closed => table[k] # Closed /\ fdMap[n][k] = NoFd
    BY <1>0, <1>7, CloseFdsCloses
  <2>2. \A m \in Nodes, k \in Fds : m # n => fdMap'[m][k] = fdMap[m][k]
    BY <1>0, <1>7, CloseFdsCloses
  <2> QED
    BY <1>0, <1>7, <2>1, <2>2 DEF Accounted
<1>8. ASSUME NEW n \in Launches, Returns(n) \/ \E s \in Nodes : StartLeaf(n, s)
      PROVE  Accounted'
  <2>1. cur = n /\ frame[n].op = "subs" /\ client' = client /\ \E s \in Nodes : CloseFds(s)
    BY <1>0, <1>8 DEF Returns, StartLeaf, At
  <2>2. \A k \in Fds : ~Local(k)
    BY <2>1 DEF Local
  <2> QED
    BY <1>7, <2>1, <2>2
<1>9. ASSUME NEW n \in Launches, NEW s \in Nodes, StartLaunch(n, s) PROVE Accounted'
  <2>1. cur = n /\ frame[n].op = "subs" /\ UNCHANGED <<table, fdMap, client>>
    BY <1>9 DEF StartLaunch, At
  <2>2. \A k \in Fds : ~Local(k)
    BY <2>1 DEF Local
  <2> QED
    BY <1>0, <2>1, <2>2 DEF Accounted
<1>10. CASE Startup
  <2>1. cur = NoNode /\ UNCHANGED <<table, fdMap, client>>
    BY <1>10 DEF Startup, Idling
  <2> QED
    BY <1>0, <2>1 DEF Accounted, Local
<1>11. CASE Accept
  <2>1. PICK k \in Fds : /\ table' = [table EXCEPT ![k] = <<pipes + 1, "rw">>]
                         /\ Moves(root, Frame("socket", k, NoNode))
    BY <1>11 DEF Accept
  <2>2. cur = NoNode /\ cur' = root /\ UNCHANGED <<fdMap, client>>
        /\ frame'[root].op = "socket" /\ frame'[root].r = k
    BY <1>0, <1>11, <2>1 DEF Accept, Idling, Moves, Frame
  <2>3. Local(k)'
    BY <1>0, <2>2 DEF Local
  <2>4. \A j \in Fds : j # k => table'[j] = table[j]
    BY <1>0, <2>1 DEF Tables
  <2> QED
    BY <1>0, <2>2, <2>3, <2>4 DEF Accounted, Local
<1>12. ASSUME NEW n \in Launches, Throws(n) PROVE Accounted'
  BY <1>12 DEF Throws, Accounted
<1>13. CASE Elsewhere
  <2>1. \A k \in Fds : Local(k)' <=> Local(k)
    BY <1>13, ElsewhereFrame DEF Local
  <2>2. CASE UNCHANGED <<table, fdMap, client>>
    BY <1>0, <2>1, <2>2 DEF Accounted
  <2>3. CASE ClientPipe
    <3>1. PICK r, w \in Fds : OpensPipe(r, w) /\ client' = {r, w}
      BY <2>3 DEF ClientPipe
    <3>2. \A k \in Fds : k \notin {r, w} => table'[k] = table[k]
      BY <1>0, <3>1 DEF OpensPipe, Tables
    <3>3. client = {} /\ fdMap' = fdMap
      BY <2>3 DEF ClientPipe
    <3> QED
      BY <1>0, <2>1, <3>1, <3>2, <3>3 DEF Accounted
  <2>4. ASSUME NEW j \in Fds, ClientClose(j) PROVE Accounted'
    <3>1. \A k \in Fds : table'[k] # Closed => table[k] # Closed /\ k # j
      BY <1>0, <2>4 DEF ClientClose, Tables
    <3>2. client' = client \ {j} /\ fdMap' = fdMap
      BY <2>4 DEF ClientClose
    <3> QED
      BY <1>0, <2>1, <3>1, <3>2 DEF Accounted
  <2>5. ASSUME NEW j \in Fds, NEW fd \in ClientLinks, ClientLink(j, fd) PROVE Accounted'
    <3>1. fd \in Nat /\ LinkFd(root, fd, j) /\ client' = client
      BY <2>5, DocumentAssumption DEF ClientLink
    <3>2. /\ \A m \in Nodes, k \in Fds : fdMap[m][k] # NoFd => fdMap'[m][k] # NoFd
          /\ \A k \in Fds :
               table'[k] # Closed => table[k] # Closed \/ \E m \in Nodes : fdMap'[m][k] # NoFd
      BY <1>0, <3>1, LinkFdAccounts
    <3> QED
      BY <1>0, <2>1, <3>1, <3>2 DEF Accounted
  <2> QED
    BY <1>13, <2>2, <2>3, <2>4, <2>5
    DEF Elsewhere, vars, Stopped, ProgramExits, ProgramSeesEnd, End
<1> QED
  BY <1>2, <1>3, <1>4, <1>5, <1>6, <1>8, <1>9, <1>10, <1>11, <1>12, <1>13, Steps DEF Advance

\* The invariant always holds.
LEMMA Invariant == Spec => [](IInv /\ Within)
<1>1. Init => IInv /\ Within
  <2> SUFFICES ASSUME Init PROVE IInv /\ Within
    OBVIOUS
  <2>1. \A n \in Launches : ~Active(n)
    BY DEF Init, Active, Idle, Frame
  <2>2. Chain /\ Within
    BY <2>1 DEF Init, Chain, Within, Idle, Frame
  <2>3. \A m \in Nodes, k \in Fds : fdMap[m][k] = NoFd
    BY DEF Init, NoLinks
  <2>4. Pending
    BY <2>3 DEF Pending
  <2>5. Accounted
    BY DEF Init, Accounted
  <2> QED
    BY <2>2, <2>4, <2>5, InitType DEF IInv
<1>2. IInv /\ Within /\ [Next]_vars => (IInv /\ Within)'
  <2> SUFFICES ASSUME IInv, Within, [Next]_vars PROVE (IInv /\ Within)'
    OBVIOUS
  <2>1. TypeOK /\ Chain /\ Pending
    BY DEF IInv
  <2>2. TypeOK'
    BY <2>1, TypeNext
  <2>3. Within' /\ Chain' /\ Pending' /\ Accounted'
    BY <2>1, <2>2, WithinNext, ChainNext, PendingNext, AccountedNext
  <2> QED
    BY <2>2, <2>3 DEF IInv
<1> QED
  BY <1>1, <1>2, PTL DEF Spec

\* Whatever the document, however deep, and whatever the client links: when no
\* startup() executes, no descriptor is open but those that the launcher
\* inherited, that the client holds, or that are linked for the next startup.
THEOREM NothingKept == Spec => []Released
<1>1. IInv => Released
  <2> SUFFICES ASSUME IInv, Idling, NEW k \in Fds, IsOpen(k)
               PROVE  k \in Stdio \cup client \/ fdMap[root][k] \in asked
    BY DEF Released
  <2>1. cur = NoNode /\ ~exited /\ table[k] # Closed
    BY DEF Idling, IsOpen
  <2>2. ~Local(k)
    BY <2>1 DEF Local
  <2>3. CASE \E m \in Nodes : fdMap[m][k] # NoFd
    BY <2>1, <2>3 DEF IInv, Pending
  <2> QED
    BY <2>1, <2>2, <2>3 DEF IInv, Accounted
<1> QED
  BY <1>1, Invariant, PTL
=============================================================================
