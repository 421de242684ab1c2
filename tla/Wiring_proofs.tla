---------------------------- MODULE Wiring_proofs ----------------------------
(***************************************************************************)
(* Proofs of Wired of Linkage: where the ends of the pipes of a document   *)
(* arrive, for every document.                                             *)
(***************************************************************************)
EXTENDS Linkage_proofs

-----------------------------------------------------------------------------
(* The document *)

\* The nodes inside a node, itself included.
Inside(x) ==
  {m \in Nodes : \A S \in SUBSET Nodes :
     x \in S /\ (\A g \in S \cap Launches : Kids[g] \subseteq S) => m \in S}

LEMMA InsideSelf == ASSUME NEW x \in Nodes PROVE x \in Inside(x)
BY DEF Inside

LEMMA InsideNodes == ASSUME NEW x PROVE Inside(x) \subseteq Nodes
BY DEF Inside

\* The sub-nodes of what is inside are inside.
LEMMA InsideKids ==
  ASSUME NEW x, NEW g \in Launches, g \in Inside(x), NEW m \in Kids[g]
  PROVE  m \in Inside(x)
<1>1. m \in Nodes
  BY DocumentTree
<1>2. ASSUME NEW S \in SUBSET Nodes, x \in S, \A h \in S \cap Launches : Kids[h] \subseteq S
      PROVE  m \in S
  <2>1. g \in S
    BY <1>2 DEF Inside
  <2> QED
    BY <1>2, <2>1
<1> QED
  BY <1>1, <1>2 DEF Inside

\* What is inside is inside by way of the node that it is a sub-node of.
LEMMA InsideUp ==
  ASSUME NEW x \in Nodes, NEW m \in Inside(x), m # x
  PROVE  \E g \in Launches : g \in Inside(x) /\ m \in Kids[g]
<1> SUFFICES ASSUME \A g \in Launches : g \in Inside(x) => m \notin Kids[g]
             PROVE  FALSE
  OBVIOUS
<1> DEFINE S == Inside(x) \ {m}
<1>1. S \in SUBSET Nodes /\ x \in S
  BY InsideNodes, InsideSelf
<1>2. \A g \in S \cap Launches : Kids[g] \subseteq S
  BY InsideKids
<1>3. m \in S
  BY <1>1, <1>2 DEF Inside
<1> QED
  BY <1>3

\* A node is a sub-node of one launch node at most, a root of none.
LEMMA OneParent ==
  /\ \A m, g, h : g \in Launches /\ h \in Launches /\ m \in Kids[g] /\ m \in Kids[h] => g = h
  /\ \A g \in Launches : \A m \in Kids[g] : m \notin Roots /\ m # g
<1>1. \A g, h \in Launches : g # h => Kids[g] \cap Kids[h] = {}
  BY DocumentAssumption
<1>2. \A g \in Launches : \A m \in Kids[g] : Depth[m] = Depth[g] + 1 /\ Depth[g] \in Nat
  BY DocumentTree DEF Nodes
<1>3. \A g \in Launches : \A m \in Kids[g] : m \notin Roots /\ m # g
  BY <1>2, DocumentTree
<1> QED
  BY <1>1, <1>3

LEMMA InsideParent ==
  ASSUME NEW x \in Nodes, NEW g \in Launches, NEW m \in Kids[g], m \in Inside(x), m # x
  PROVE  g \in Inside(x)
BY InsideUp, OneParent

\* A root is inside nothing else.
LEMMA RootOutside ==
  ASSUME NEW x \in Nodes, NEW r \in Roots, r \in Inside(x)
  PROVE  r = x
BY InsideUp, OneParent

\* What is inside a node is inside what that node is inside of, and deeper.
LEMMA InsideInside ==
  ASSUME NEW x \in Nodes, NEW y \in Inside(x)
  PROVE  Inside(y) \subseteq Inside(x) /\ Depth[y] >= Depth[x]
<1>1. Inside(y) \subseteq Inside(x)
  <2>1. \A g \in Inside(x) \cap Launches : Kids[g] \subseteq Inside(x)
    BY InsideKids
  <2>2. Inside(x) \in SUBSET Nodes
    BY InsideNodes
  <2> QED
    BY <2>1, <2>2 DEF Inside
<1>2. Depth[y] >= Depth[x]
  <2> DEFINE S == {m \in Nodes : Depth[m] >= Depth[x]}
  <2>1. x \in S
    BY DocumentTree
  <2>2. \A g \in S \cap Launches : Kids[g] \subseteq S
    BY DocumentTree DEF Nodes
  <2>3. y \in S
    BY <2>1, <2>2 DEF Inside
  <2> QED
    BY <2>3
<1> QED
  BY <1>1, <1>2

\* A launch node is not inside its sub-nodes.
LEMMA ParentOutside ==
  ASSUME NEW g \in Launches, NEW m \in Kids[g]
  PROVE  g \notin Inside(m)
<1>1. m \in Nodes /\ g \in Nodes /\ Depth[m] = Depth[g] + 1 /\ Depth[g] \in Nat
  BY DocumentTree DEF Nodes
<1> QED
  BY <1>1, InsideInside

\* The externalizations of a launch node.
External(n, i) ==
  [from |-> <<n, Externals[n][i].external>>, to |-> <<Externals[n][i].node, Externals[n][i].internal>>]

LEMMA ExternalType ==
  ASSUME NEW n \in Launches, NEW i \in DOMAIN Externals[n]
  PROVE  /\ External(n, i) \in Externalizations
         /\ Externals[n][i].external \in Nat /\ Externals[n][i].internal \in Nat
         /\ Externals[n][i].node \in Kids[n]
<1>1. Externals[n] \in Seq([external : Nat, node : Kids[n], internal : Nat])
  BY DocumentAssumption
<1>2. Externals[n][i] \in [external : Nat, node : Kids[n], internal : Nat]
  <2> DEFINE S == [external : Nat, node : Kids[n], internal : Nat]
  <2> HIDE DEF S
  <2>1. Externals[n] \in Seq(S)
    BY <1>1 DEF S
  <2>2. Externals[n][i] \in S
    BY <2>1
  <2> QED
    BY <2>2 DEF S
<1>3. External(n, i) \in Externalizations
  BY DEF External, Externalizations
<1> QED
  BY <1>2, <1>3

LEMMA ExternalizationsAre ==
  ASSUME NEW x \in Externalizations
  PROVE  \E n \in Launches : \E i \in DOMAIN Externals[n] : x = External(n, i)
BY DEF Externalizations, External

\* What leads to the external descriptor leads to the internal one.
LEMMA LeadsOn ==
  ASSUME NEW a, NEW x \in Externalizations, Leads(a, x.from)
  PROVE  Leads(a, x.to)
<1>1. x.from \in Passed /\ x.to \in Passed
  BY DEF Passed
<1>2. \A S \in Onward : x.from \in S => x.to \in S
  BY DEF Onward
<1> QED
  BY <1>1, <1>2 DEF Leads

\* And only what leads to an external descriptor leads anywhere.
LEMMA LeadsBack ==
  ASSUME NEW a, NEW b, Leads(a, b), a # b
  PROVE  \E x \in Externalizations : x.to = b /\ Leads(a, x.from)
<1> SUFFICES ASSUME \A x \in Externalizations : Leads(a, x.from) => x.to # b
             PROVE  FALSE
  OBVIOUS
<1>1. a \in Passed /\ b \in Passed /\ \A S \in Onward : a \in S => b \in S
  BY DEF Leads
<1> DEFINE S == {c \in Passed : Leads(a, c) /\ c # b}
<1>2. a \in S
  BY <1>1 DEF Leads
<1>3. \A x \in Externalizations : x.from \in S => x.to \in S
  BY LeadsOn DEF Passed
<1>4. S \in Onward
  BY <1>3 DEF Onward
<1> QED
  BY <1>1, <1>2, <1>4

\* It leads only to nodes inside.
LEMMA LeadsInside ==
  ASSUME NEW x \in Nodes, NEW c, NEW m, NEW d, Leads(<<x, c>>, <<m, d>>)
  PROVE  m \in Inside(x)
<1>1. CASE <<x, c>> = <<m, d>>
  BY <1>1, InsideSelf
<1>2. CASE <<x, c>> # <<m, d>>
  <2> DEFINE S == {b \in Passed : b[1] \in Inside(x)}
  <2>1. <<x, c>> \in S
    BY <1>2, InsideSelf DEF Leads
  <2>2. ASSUME NEW y \in Externalizations, y.from \in S PROVE y.to \in S
    <3>1. PICK n \in Launches : \E i \in DOMAIN Externals[n] : y = External(n, i)
      BY ExternalizationsAre
    <3>2. PICK i \in DOMAIN Externals[n] : y = External(n, i)
      BY <3>1
    <3>3. n \in Inside(x) /\ y.to[1] \in Kids[n]
      BY <2>2, <3>2, ExternalType DEF External
    <3> QED
      BY <3>3, InsideKids DEF Passed
  <2>3. S \in Onward
    BY <2>2 DEF Onward
  <2>4. <<m, d>> \in S
    BY <1>2, <2>1, <2>3 DEF Leads
  <2> QED
    BY <2>4
<1> QED
  BY <1>1, <1>2

LEMMA TaskType ==
  ASSUME NEW n \in Launches, NEW t \in Tasks(n)
  PROVE  /\ Target(n, t)[1] \in Kids[n] /\ Target(n, t)[2] \in Nat
         /\ Target(n, t) = <<Target(n, t)[1], Target(n, t)[2]>>
         /\ t = <<t[1], t[2]>> /\ t[1] \in {"socket", "to", "from", "extern"}
         /\ t[2] \in Nat \ {0}
         /\ t[1] = "socket" => t[2] <= Len(Sockets[n])
         /\ t[1] \in {"to", "from"} => t[2] <= Len(Links[n])
         /\ t[1] = "extern" => t[2] <= Len(Externals[n])
<1>1. ASSUME NEW S, NEW s \in Seq(S), NEW i \in DOMAIN s
      PROVE  i \in Nat \ {0} /\ i <= Len(s)
  BY <1>1
<1>2. /\ Links[n] \in Seq([to : Kids[n], to_fd : Nat, from : Kids[n], from_fd : Nat])
      /\ Externals[n] \in Seq([external : Nat, node : Kids[n], internal : Nat])
      /\ Sockets[n] \in Seq([node : Kids[n], fd : Nat])
  BY DocumentAssumption
<1>3. CASE t[1] = "socket"
  <2>1. t = <<"socket", t[2]>> /\ t[2] \in DOMAIN Sockets[n]
    BY <1>3 DEF Tasks
  <2>2. t[2] \in Nat \ {0} /\ t[2] <= Len(Sockets[n])
    BY <1>1, <1>2, <2>1
  <2>3. Sockets[n][t[2]] \in [node : Kids[n], fd : Nat]
    BY <2>2, DocumentType
  <2>4. Target(n, t) = <<Sockets[n][t[2]].node, Sockets[n][t[2]].fd>>
    BY <1>3 DEF Target
  <2> QED
    BY <1>3, <2>1, <2>2, <2>3, <2>4
<1>4. CASE t[1] = "to"
  <2>1. t = <<"to", t[2]>> /\ t[2] \in DOMAIN Links[n]
    BY <1>4 DEF Tasks
  <2>2. t[2] \in Nat \ {0} /\ t[2] <= Len(Links[n])
    BY <1>1, <1>2, <2>1
  <2>3. Links[n][t[2]] \in [to : Kids[n], to_fd : Nat, from : Kids[n], from_fd : Nat]
    BY <2>2, DocumentType
  <2>4. Target(n, t) = <<Links[n][t[2]].to, Links[n][t[2]].to_fd>>
    BY <1>4 DEF Target
  <2> QED
    BY <1>4, <2>1, <2>2, <2>3, <2>4
<1>5. CASE t[1] = "from"
  <2>1. t = <<"from", t[2]>> /\ t[2] \in DOMAIN Links[n]
    BY <1>5 DEF Tasks
  <2>2. t[2] \in Nat \ {0} /\ t[2] <= Len(Links[n])
    BY <1>1, <1>2, <2>1
  <2>3. Links[n][t[2]] \in [to : Kids[n], to_fd : Nat, from : Kids[n], from_fd : Nat]
    BY <2>2, DocumentType
  <2>4. Target(n, t) = <<Links[n][t[2]].from, Links[n][t[2]].from_fd>>
    BY <1>5 DEF Target
  <2> QED
    BY <1>5, <2>1, <2>2, <2>3, <2>4
<1>6. CASE t[1] = "extern"
  <2>1. t = <<"extern", t[2]>> /\ t[2] \in DOMAIN Externals[n]
    BY <1>6 DEF Tasks
  <2>2. t[2] \in Nat \ {0} /\ t[2] <= Len(Externals[n])
    BY <1>1, <1>2, <2>1
  <2>3. Externals[n][t[2]] \in [external : Nat, node : Kids[n], internal : Nat]
    BY <2>2, DocumentType
  <2>4. Target(n, t) = <<Externals[n][t[2]].node, Externals[n][t[2]].internal>>
    BY <1>6 DEF Target
  <2> QED
    BY <1>6, <2>1, <2>2, <2>3, <2>4
<1> QED
  BY <1>3, <1>4, <1>5, <1>6 DEF Tasks

\* The tasks by their places in the document.
LEMMA TaskAt ==
  ASSUME NEW n \in Launches, NEW i \in Nat \ {0}
  PROVE  /\ i <= Len(Sockets[n]) =>
              /\ <<"socket", i>> \in Tasks(n)
              /\ Target(n, <<"socket", i>>) = <<Sockets[n][i].node, Sockets[n][i].fd>>
         /\ i <= Len(Links[n]) =>
              /\ <<"to", i>> \in Tasks(n) /\ <<"from", i>> \in Tasks(n)
              /\ Target(n, <<"to", i>>) = <<Links[n][i].to, Links[n][i].to_fd>>
              /\ Target(n, <<"from", i>>) = <<Links[n][i].from, Links[n][i].from_fd>>
         /\ i <= Len(Externals[n]) =>
              /\ <<"extern", i>> \in Tasks(n) /\ i \in DOMAIN Externals[n]
              /\ Target(n, <<"extern", i>>) = <<Externals[n][i].node, Externals[n][i].internal>>
<1>1. ASSUME NEW S, NEW s \in Seq(S), i <= Len(s)
      PROVE  i \in DOMAIN s
  BY <1>1
<1>2. /\ Links[n] \in Seq([to : Kids[n], to_fd : Nat, from : Kids[n], from_fd : Nat])
      /\ Externals[n] \in Seq([external : Nat, node : Kids[n], internal : Nat])
      /\ Sockets[n] \in Seq([node : Kids[n], fd : Nat])
  BY DocumentAssumption
<1>3. /\ i <= Len(Sockets[n]) => i \in DOMAIN Sockets[n]
      /\ i <= Len(Links[n]) => i \in DOMAIN Links[n]
      /\ i <= Len(Externals[n]) => i \in DOMAIN Externals[n]
  BY <1>1, <1>2
<1>4. /\ Target(n, <<"socket", i>>) = <<Sockets[n][i].node, Sockets[n][i].fd>>
      /\ Target(n, <<"to", i>>) = <<Links[n][i].to, Links[n][i].to_fd>>
      /\ Target(n, <<"from", i>>) = <<Links[n][i].from, Links[n][i].from_fd>>
      /\ Target(n, <<"extern", i>>) = <<Externals[n][i].node, Externals[n][i].internal>>
  BY DEF Target
<1> QED
  BY <1>3, <1>4 DEF Tasks

-----------------------------------------------------------------------------
(* Where a pipe arrives *)

\* The document leads the end e of pipe p to a descriptor of a node.
Arrives(m, fd, p, e) == \E a \in made[p].at : a[1] = e /\ Leads(<<a[2], a[3]>>, <<m, fd>>)

LEMMA MadeType ==
  ASSUME TypeOK, NEW p \in 1 .. pipes
  PROVE  /\ made[p].inst \in Nat /\ p \in Nat \ {0}
         /\ \A a \in made[p].at : /\ a[1] \in Ends /\ a[2] \in Nodes /\ a[3] \in Nat
                                  /\ a = <<a[1], a[2], a[3]>>
<1> DEFINE S == [inst : Nat, at : SUBSET (Ends \X Nodes \X Nat)]
<1>1. made \in Seq(S) /\ Len(made) = pipes /\ pipes \in Nat
  BY DEF TypeOK
<1>2. made[p] \in S
  <2> HIDE DEF S
  <2> QED
    BY <1>1
<1> QED
  BY <1>1, <1>2

LEMMA ArrivesOn ==
  ASSUME NEW n \in Launches, NEW i \in DOMAIN Externals[n], NEW p, NEW e,
         Arrives(n, Externals[n][i].external, p, e)
  PROVE  Arrives(Externals[n][i].node, Externals[n][i].internal, p, e)
BY ExternalType, LeadsOn DEF Arrives, External

\* A pipe arrives at a sub-node because one of its ends is to be there, or by an
\* externalization of the launch node.
LEMMA ArrivesBack ==
  ASSUME TypeOK, NEW n \in Launches, NEW m \in Kids[n], NEW fd, NEW p \in 1 .. pipes, NEW e,
         Arrives(m, fd, p, e)
  PROVE  \/ <<e, m, fd>> \in made[p].at
         \/ \E i \in DOMAIN Externals[n] :
              /\ Externals[n][i].node = m /\ Externals[n][i].internal = fd
              /\ Arrives(n, Externals[n][i].external, p, e)
<1>1. PICK a \in made[p].at : a[1] = e /\ Leads(<<a[2], a[3]>>, <<m, fd>>)
  BY DEF Arrives
<1>2. a = <<a[1], a[2], a[3]>>
  BY MadeType
<1>3. CASE <<a[2], a[3]>> = <<m, fd>>
  BY <1>1, <1>2, <1>3
<1>4. CASE <<a[2], a[3]>> # <<m, fd>>
  <2>1. PICK x \in Externalizations : x.to = <<m, fd>> /\ Leads(<<a[2], a[3]>>, x.from)
    BY <1>1, <1>4, LeadsBack
  <2>2. PICK g \in Launches : \E i \in DOMAIN Externals[g] : x = External(g, i)
    BY ExternalizationsAre
  <2>3. PICK i \in DOMAIN Externals[g] : x = External(g, i)
    BY <2>2
  <2>4. Externals[g][i].node = m /\ Externals[g][i].internal = fd
        /\ x.from = <<g, Externals[g][i].external>>
    BY <2>1, <2>3 DEF External
  <2>5. g = n
    BY <2>4, ExternalType, OneParent
  <2> QED
    BY <1>1, <2>1, <2>4, <2>5 DEF Arrives
<1> QED
  BY <1>3, <1>4

\* Nothing is passed on to the root.
LEMMA ArrivesRoot ==
  ASSUME TypeOK, NEW fd, NEW p \in 1 .. pipes, NEW e, Arrives(root, fd, p, e)
  PROVE  <<e, root, fd>> \in made[p].at
<1>1. PICK a \in made[p].at : a[1] = e /\ Leads(<<a[2], a[3]>>, <<root, fd>>)
  BY DEF Arrives
<1>2. a = <<a[1], a[2], a[3]>>
  BY MadeType
<1>3. ASSUME <<a[2], a[3]>> # <<root, fd>> PROVE FALSE
  <2>1. PICK x \in Externalizations : x.to = <<root, fd>>
    BY <1>1, <1>3, LeadsBack
  <2>2. PICK g \in Launches : \E i \in DOMAIN Externals[g] : x = External(g, i)
    BY ExternalizationsAre
  <2>3. root \in Kids[g]
    BY <2>1, <2>2, ExternalType DEF External
  <2> QED
    BY <2>3, OneParent DEF TypeOK
<1> QED
  BY <1>1, <1>2, <1>3

\* A pipe arrives inside the nodes that its ends are to be at.
LEMMA ArrivesInside ==
  ASSUME TypeOK, NEW m, NEW fd, NEW p \in 1 .. pipes, NEW e, Arrives(m, fd, p, e)
  PROVE  \E a \in made[p].at : a[1] = e /\ a[2] \in Nodes /\ m \in Inside(a[2])
BY MadeType, LeadsInside DEF Arrives

-----------------------------------------------------------------------------
(* Who is to be started *)

\* Neither has the launcher ended nor has a pipe2() failed.
Fine == ~exited /\ ~garbled

\* The startup() of n is to start x.
Waits(n, x) == Active(n) /\ x \in Kids[n] /\ (frame[n].op = "subs" => x \in frame[n].todo)
Ahead(x) == \E n \in Launches : Waits(n, x)

\* A step of the startup() of n that starts nothing.
Stays(n) ==
  /\ cur = n /\ cur' = n /\ Active(n) /\ Active(n)'
  /\ \A m \in Launches : m # n => frame'[m] = frame[m]
  /\ \A x \in Nodes : Waits(n, x)' <=> Waits(n, x)

\* It is at another place then.
Goes(n, op, i) ==
  /\ Stays(n)
  /\ frame'[n].op = op /\ frame'[n].i = i
  /\ frame'[n].r = frame[n].r /\ frame'[n].w = frame[n].w

rest == <<root, inst, garbled, exited, running, image, asked>>

LEMMA StaysAhead ==
  ASSUME NEW n \in Launches, Stays(n)
  PROVE  /\ \A m \in Launches : Active(m)' <=> Active(m)
         /\ \A m \in Launches, x \in Nodes : Waits(m, x)' <=> Waits(m, x)
         /\ \A x \in Nodes : Ahead(x)' <=> Ahead(x)
<1>1. \A m \in Launches : Active(m)' <=> Active(m)
  BY DEF Stays, Active
<1>2. \A m \in Launches, x \in Nodes : Waits(m, x)' <=> Waits(m, x)
  BY DEF Stays, Active, Waits
<1> QED
  BY <1>1, <1>2 DEF Ahead

LEMMA GoesOn ==
  ASSUME TypeOK, NEW n \in Launches, NEW f \in Frames, Moves(n, f), cur = n, cur' = n,
         frame[n].op \notin {"idle", "subs"},
         f.op \notin {"idle", "subs"} \/ (f.op = "subs" /\ f.todo = Kids[n])
  PROVE  Stays(n) /\ frame'[n] = f
<1>1. frame'[n] = f /\ \A m \in Launches : m # n => frame'[m] = frame[m]
  BY DEF TypeOK, Moves
<1>2. Active(n) /\ Active(n)'
  BY <1>1 DEF Active
<1> QED
  BY <1>1, <1>2 DEF Stays, Waits

LEMMA SocketLinkDoes ==
  ASSUME TypeOK, NEW n \in Launches, SocketLink(n)
  PROVE  /\ Goes(n, "socket", frame[n].i + 1) /\ frame[n].op = "socket"
         /\ frame[n].i <= Len(Sockets[n])
         /\ LinkFd(Sockets[n][frame[n].i].node, Sockets[n][frame[n].i].fd, frame[n].r)
         /\ UNCHANGED <<client, rest, pipes, made>>
<1> DEFINE f == [frame[n] EXCEPT !.i = @ + 1]
<1>1. frame[n] \in Frames /\ f \in Frames
  BY FrameAt, FrameMoves DEF Ops
<1>2. frame[n].op = "socket" /\ Moves(n, f) /\ cur = n /\ cur' = n
  BY DEF SocketLink, At
<1>3. f.op = "socket" /\ f.i = frame[n].i + 1 /\ f.r = frame[n].r /\ f.w = frame[n].w
  BY <1>1, <1>2 DEF Frames
<1>4. Stays(n) /\ frame'[n] = f
  BY <1>1, <1>2, <1>3, GoesOn
<1> QED
  BY <1>2, <1>3, <1>4 DEF SocketLink, Goes, rest, status, programs, ghosts

LEMMA SocketCloseDoes ==
  ASSUME TypeOK, NEW n \in Launches, SocketClose(n)
  PROVE  /\ Goes(n, "link", 1) /\ frame[n].op = "socket" /\ frame[n].i > Len(Sockets[n])
         /\ table' = [table EXCEPT ![frame[n].r] = Closed]
         /\ UNCHANGED <<fdMap, client, rest, pipes, made>>
<1> DEFINE f == [frame[n] EXCEPT !.op = "link", !.i = 1]
<1>1. frame[n] \in Frames
  BY FrameAt
<1>2. frame[n].op = "socket" /\ Moves(n, f) /\ cur = n /\ cur' = n
  BY DEF SocketClose, At
<1>3. /\ f.op = "link" /\ f.i = 1 /\ f.r = frame[n].r /\ f.w = frame[n].w
      /\ f \in Frames
  <2>1. "link" \in Ops /\ 1 \in Nat \ {0}
    BY DEF Ops
  <2> QED
    BY <1>1, <2>1 DEF Frames
<1>4. Stays(n) /\ frame'[n] = f
  BY <1>2, <1>3, GoesOn
<1> QED
  BY <1>2, <1>3, <1>4 DEF SocketClose, Goes, rest, status, programs, ghosts

LEMMA MakePipeDoes ==
  ASSUME TypeOK, NEW n \in Launches, MakePipe(n)
  PROVE  /\ Stays(n) /\ frame[n].op = "link" /\ frame[n].i <= Len(Links[n])
         /\ frame'[n].op = "to" /\ frame'[n].i = frame[n].i
         /\ frame'[n].r \in Fds /\ frame'[n].w \in Fds
         /\ OpensPipe(frame'[n].r, frame'[n].w)
         /\ Makes(inst, {<<"r", Links[n][frame[n].i].to, Links[n][frame[n].i].to_fd>>,
                         <<"w", Links[n][frame[n].i].from, Links[n][frame[n].i].from_fd>>})
         /\ UNCHANGED <<fdMap, client, rest>>
<1>1. PICK r, w \in Fds : OpensPipe(r, w) /\ Moves(n, [frame[n] EXCEPT !.op = "to", !.r = r, !.w = w])
  BY DEF MakePipe
<1> DEFINE f == [frame[n] EXCEPT !.op = "to", !.r = r, !.w = w]
<1>2. frame[n] \in Frames /\ "to" \in Ops
  BY FrameAt DEF Ops
<1>3. f \in Frames /\ f.op = "to" /\ f.i = frame[n].i /\ f.r = r /\ f.w = w
  BY <1>2 DEF Frames
<1>4. frame[n].op = "link" /\ cur = n /\ cur' = n
  BY DEF MakePipe, At
<1>5. Stays(n) /\ frame'[n] = f
  BY <1>1, <1>3, <1>4, GoesOn
<1> QED
  BY <1>1, <1>3, <1>4, <1>5 DEF MakePipe, rest, status, programs

LEMMA LinkToDoes ==
  ASSUME TypeOK, Within, NEW n \in Launches, LinkTo(n)
  PROVE  /\ Goes(n, "from", frame[n].i) /\ frame[n].op = "to" /\ frame[n].i <= Len(Links[n])
         /\ LinkFd(Links[n][frame[n].i].to, Links[n][frame[n].i].to_fd, frame[n].r)
         /\ UNCHANGED <<client, rest, pipes, made>>
<1> DEFINE f == [frame[n] EXCEPT !.op = "from"]
<1>1. frame[n] \in Frames /\ f \in Frames
  BY FrameAt, FrameMoves DEF Ops
<1>2. frame[n].op = "to" /\ Moves(n, f) /\ cur = n /\ cur' = n
  BY DEF LinkTo, At
<1>3. f.op = "from" /\ f.i = frame[n].i /\ f.r = frame[n].r /\ f.w = frame[n].w
  BY <1>1 DEF Frames
<1>4. Stays(n) /\ frame'[n] = f
  BY <1>1, <1>2, <1>3, GoesOn
<1> QED
  BY <1>2, <1>3, <1>4 DEF LinkTo, Within, Goes, rest, status, programs, ghosts

LEMMA LinkFromDoes ==
  ASSUME TypeOK, Within, NEW n \in Launches, LinkFrom(n)
  PROVE  /\ Goes(n, "close", frame[n].i) /\ frame[n].op = "from" /\ frame[n].i <= Len(Links[n])
         /\ LinkFd(Links[n][frame[n].i].from, Links[n][frame[n].i].from_fd, frame[n].w)
         /\ UNCHANGED <<client, rest, pipes, made>>
<1> DEFINE f == [frame[n] EXCEPT !.op = "close"]
<1>1. frame[n] \in Frames /\ f \in Frames
  BY FrameAt, FrameMoves DEF Ops
<1>2. frame[n].op = "from" /\ Moves(n, f) /\ cur = n /\ cur' = n
  BY DEF LinkFrom, At
<1>3. f.op = "close" /\ f.i = frame[n].i /\ f.r = frame[n].r /\ f.w = frame[n].w
  BY <1>1 DEF Frames
<1>4. Stays(n) /\ frame'[n] = f
  BY <1>1, <1>2, <1>3, GoesOn
<1> QED
  BY <1>2, <1>3, <1>4 DEF LinkFrom, Within, Goes, rest, status, programs, ghosts

LEMMA CloseEndsDoes ==
  ASSUME TypeOK, Within, NEW n \in Launches, CloseEnds(n)
  PROVE  /\ Goes(n, "link", frame[n].i + 1) /\ frame[n].op = "close" /\ frame[n].i <= Len(Links[n])
         /\ table' = [k \in Fds |-> IF k \in {frame[n].r, frame[n].w} THEN Closed ELSE table[k]]
         /\ UNCHANGED <<fdMap, client, rest, pipes, made>>
<1> DEFINE f == [frame[n] EXCEPT !.op = "link", !.i = @ + 1]
<1>1. frame[n] \in Frames /\ f \in Frames
  BY FrameAt, FrameMoves DEF Ops
<1>2. frame[n].op = "close" /\ Moves(n, f) /\ cur = n /\ cur' = n
  BY DEF CloseEnds, At
<1>3. f.op = "link" /\ f.i = frame[n].i + 1 /\ f.r = frame[n].r /\ f.w = frame[n].w
  BY <1>1 DEF Frames
<1>4. Stays(n) /\ frame'[n] = f
  BY <1>1, <1>2, <1>3, GoesOn
<1> QED
  BY <1>2, <1>3, <1>4 DEF CloseEnds, Within, Goes, rest, status, programs, ghosts

LEMMA LinksMadeDoes ==
  ASSUME TypeOK, NEW n \in Launches, LinksMade(n)
  PROVE  /\ Goes(n, "extern", 1) /\ frame[n].op = "link" /\ frame[n].i > Len(Links[n])
         /\ UNCHANGED <<table, fdMap, client, rest, pipes, made>>
<1> DEFINE f == [frame[n] EXCEPT !.op = "extern", !.i = 1]
<1>1. frame[n] \in Frames
  BY FrameAt
<1>2. frame[n].op = "link" /\ Moves(n, f) /\ cur = n /\ cur' = n
  BY DEF LinksMade, At
<1>3. /\ f.op = "extern" /\ f.i = 1 /\ f.r = frame[n].r /\ f.w = frame[n].w
      /\ f \in Frames
  <2>1. "extern" \in Ops /\ 1 \in Nat \ {0}
    BY DEF Ops
  <2> QED
    BY <1>1, <2>1 DEF Frames
<1>4. Stays(n) /\ frame'[n] = f
  BY <1>2, <1>3, GoesOn
<1> QED
  BY <1>2, <1>3, <1>4 DEF LinksMade, Goes, rest, status, programs, ghosts

LEMMA ExternalizeDoes ==
  ASSUME TypeOK, NEW n \in Launches, Externalize(n)
  PROVE  /\ Goes(n, "extern", frame[n].i + 1) /\ frame[n].op = "extern"
         /\ frame[n].i <= Len(Externals[n])
         /\ \/ /\ Linked(n, Externals[n][frame[n].i].external) = {}
               /\ UNCHANGED <<table, fdMap>>
            \/ \E k \in Fds :
                 /\ fdMap[n][k] = Externals[n][frame[n].i].external
                 /\ LinkFd(Externals[n][frame[n].i].node, Externals[n][frame[n].i].internal, k)
         /\ UNCHANGED <<client, rest, pipes, made>>
<1> DEFINE f == [frame[n] EXCEPT !.i = @ + 1]
<1>1. frame[n] \in Frames /\ f \in Frames
  BY FrameAt, FrameMoves DEF Ops
<1>2. frame[n].op = "extern" /\ Moves(n, f) /\ cur = n /\ cur' = n
  BY DEF Externalize, At
<1>3. f.op = "extern" /\ f.i = frame[n].i + 1 /\ f.r = frame[n].r /\ f.w = frame[n].w
  BY <1>1, <1>2 DEF Frames
<1>4. Stays(n) /\ frame'[n] = f
  BY <1>1, <1>2, <1>3, GoesOn
<1>5. \/ /\ Linked(n, Externals[n][frame[n].i].external) = {}
         /\ UNCHANGED <<table, fdMap>>
      \/ \E k \in Fds :
           /\ fdMap[n][k] = Externals[n][frame[n].i].external
           /\ LinkFd(Externals[n][frame[n].i].node, Externals[n][frame[n].i].internal, k)
  BY DEF Externalize, Lowest, Linked
<1> QED
  BY <1>2, <1>3, <1>4, <1>5 DEF Externalize, Goes, rest, status, programs, ghosts

LEMMA ExternalsMadeDoes ==
  ASSUME TypeOK, NEW n \in Launches, ExternalsMade(n)
  PROVE  /\ Goes(n, "subs", frame[n].i) /\ frame[n].op = "extern" /\ frame[n].i > Len(Externals[n])
         /\ UNCHANGED <<table, fdMap, client, rest, pipes, made>>
<1> DEFINE f == [frame[n] EXCEPT !.op = "subs", !.todo = Kids[n]]
<1>1. frame[n] \in Frames /\ Kids[n] \in SUBSET Nodes
  BY FrameAt, DocumentTree
<1>2. frame[n].op = "extern" /\ Moves(n, f) /\ cur = n /\ cur' = n
  BY DEF ExternalsMade, At
<1>3. /\ f.op = "subs" /\ f.i = frame[n].i /\ f.r = frame[n].r /\ f.w = frame[n].w
      /\ f.todo = Kids[n] /\ f \in Frames
  <2>1. "subs" \in Ops
    BY DEF Ops
  <2> QED
    BY <1>1, <2>1 DEF Frames
<1>4. Stays(n) /\ frame'[n] = f
  BY <1>2, <1>3, GoesOn
<1> QED
  BY <1>2, <1>3, <1>4 DEF ExternalsMade, Goes, rest, status, programs, ghosts

LEMMA StartLeafDoes ==
  ASSUME TypeOK, NEW n \in Launches, NEW s \in Nodes, StartLeaf(n, s)
  PROVE  /\ cur = n /\ cur' = n /\ frame[n].op = "subs" /\ frame'[n].op = "subs"
         /\ s \in Leaves /\ Waits(n, s) /\ CloseFds(s)
         /\ \A m \in Launches : m # n => frame'[m] = frame[m]
         /\ \A m \in Launches : Active(m)' <=> Active(m)
         /\ \A m \in Launches, x \in Nodes : Waits(m, x)' <=> Waits(m, x) /\ x # s
         /\ image' = [image EXCEPT ![<<s, inst>>] = Image(s)]
         /\ running' \subseteq running \cup {<<s, inst>>}
         /\ UNCHANGED <<client, root, inst, garbled, exited, asked, pipes, made>>
<1>1. frame[n] \in Frames /\ frame \in [Launches -> Frames]
  BY FrameAt DEF TypeOK
<1>2. cur = n /\ cur' = n /\ frame[n].op = "subs" /\ s \in frame[n].todo /\ s \in Leaves
      /\ Moves(n, [frame[n] EXCEPT !.todo = @ \ {s}])
  BY DEF StartLeaf, At, Lowest
<1>3. frame'[n].op = "subs" /\ frame'[n].todo = frame[n].todo \ {s}
      /\ \A m \in Launches : m # n => frame'[m] = frame[m]
  BY <1>1, <1>2 DEF Moves, Frames
<1>4. \A m \in Launches : Active(m)' <=> Active(m)
  BY <1>2, <1>3 DEF Active
<1>5. Waits(n, s)
  BY <1>2, FrameAt DEF Waits, Active
<1>6. ASSUME NEW m \in Launches, NEW x \in Nodes PROVE Waits(m, x)' <=> Waits(m, x) /\ x # s
  <2>1. CASE m = n
    BY <1>2, <1>3, <1>4, <2>1 DEF Waits
  <2>2. CASE m # n
    <3>1. Waits(m, x) => x # s
      BY <1>5, <2>2, OneParent DEF Waits
    <3> QED
      BY <1>3, <1>4, <2>2, <3>1 DEF Waits
  <2> QED
    BY <2>1, <2>2
<1>7. running' \subseteq running \cup {<<s, inst>>}
  BY DEF StartLeaf
<1> QED
  BY <1>2, <1>3, <1>4, <1>5, <1>6, <1>7 DEF StartLeaf, status, ghosts

\* Whoever waits is the only one, and has nobody below it that has begun.
LEMMA StartLaunchDoes ==
  ASSUME IInv, NEW n \in Launches, NEW s \in Nodes, StartLaunch(n, s)
  PROVE  /\ cur = n /\ cur' = s /\ frame[n].op = "subs" /\ s \in Launches /\ s # n
         /\ Waits(n, s) /\ ~Active(s)
         /\ frame'[s].op = "link" /\ frame'[s].i = 1
         /\ \A m \in Launches : m # s => frame'[m].op = frame[m].op /\ frame'[m].i = frame[m].i
         /\ \A m \in Launches : Active(m)' <=> Active(m) \/ m = s
         /\ \A m \in Launches, x \in Nodes :
              Waits(m, x)' <=> (m # s /\ Waits(m, x) /\ x # s) \/ (m = s /\ x \in Kids[s])
         /\ UNCHANGED <<table, fdMap, client, rest, pipes, made>>
<1>1. frame[n] \in Frames /\ frame \in [Launches -> Frames] /\ TypeOK /\ Chain
  BY FrameAt DEF IInv, TypeOK
<1>2. cur = n /\ cur' = s /\ frame[n].op = "subs" /\ s \in frame[n].todo /\ s \in Launches
  BY DEF StartLaunch, At, Lowest
<1>3. s \in Kids[n] /\ s # n /\ Depth[s] = Depth[n] + 1 /\ Depth[n] \in Nat
  BY <1>1, <1>2, FrameAt, DocumentTree, OneParent DEF Nodes
<1>4. /\ frame'[s].op = "link" /\ frame'[s].i = 1
      /\ frame'[n].op = "subs" /\ frame'[n].i = frame[n].i /\ frame'[n].todo = frame[n].todo \ {s}
      /\ \A m \in Launches : m # n /\ m # s => frame'[m] = frame[m]
  BY <1>1, <1>2, <1>3 DEF StartLaunch, Frame, Frames
<1>5. ~exited /\ Active(n) /\ n # NoNode
  BY <1>1, <1>2, DocumentTree DEF Chain
<1>6. ~Active(s)
  <2>1. Active(s) => Depth[s] < Depth[n]
    BY <1>1, <1>2, <1>3, <1>5 DEF Chain
  <2> QED
    BY <1>3, <2>1
<1>7. \A m \in Launches : Active(m)' <=> Active(m) \/ m = s
  BY <1>2, <1>4 DEF Active
<1>8. Waits(n, s)
  BY <1>2, <1>3, <1>5 DEF Waits
<1>9. ASSUME NEW m \in Launches, NEW x \in Nodes
      PROVE  Waits(m, x)' <=> (m # s /\ Waits(m, x) /\ x # s) \/ (m = s /\ x \in Kids[s])
  <2>1. CASE m = s
    BY <1>4, <1>7, <2>1 DEF Waits
  <2>2. CASE m = n
    BY <1>2, <1>3, <1>4, <1>7, <2>2 DEF Waits
  <2>3. CASE m # s /\ m # n
    <3>1. Waits(m, x) => x # s
      BY <1>8, <2>3, OneParent DEF Waits
    <3> QED
      BY <1>4, <1>7, <2>3, <3>1 DEF Waits
  <2> QED
    BY <2>1, <2>2, <2>3
<1>10. UNCHANGED <<table, fdMap, client, rest, pipes, made>>
  BY DEF StartLaunch, rest, status, programs, ghosts
<1> QED
  BY <1>2, <1>3, <1>4, <1>6, <1>7, <1>8, <1>9, <1>10

LEMMA ReturnsDoes ==
  ASSUME IInv, NEW n \in Launches, Returns(n)
  PROVE  /\ cur = n /\ cur' = frame[n].up /\ frame[n].op = "subs" /\ Active(n) /\ ~exited
         /\ n = root => cur' = NoNode
         /\ n # root => cur' \in Launches /\ cur' # n /\ n \in Kids[cur']
         /\ \A m \in Launches : m # n => frame'[m] = frame[m]
         /\ \A m \in Launches : Active(m)' <=> Active(m) /\ m # n
         /\ \A m \in Launches, x \in Nodes : Waits(m, x)' <=> Waits(m, x)
         /\ CloseFds(n)
         /\ UNCHANGED <<client, rest, pipes, made>>
<1>1. frame \in [Launches -> Frames] /\ TypeOK /\ Chain
  BY DEF IInv, TypeOK
<1>2. cur = n /\ cur' = frame[n].up /\ frame[n].op = "subs" /\ frame[n].todo = {} /\ Moves(n, Idle)
      /\ CloseFds(n)
  BY DEF Returns, At
<1>3. frame'[n].op = "idle" /\ \A m \in Launches : m # n => frame'[m] = frame[m]
  BY <1>1, <1>2 DEF Moves, Idle, Frame
<1>4. Active(n) /\ ~exited
  BY <1>1, <1>2, DocumentTree DEF Chain
<1>5. \A m \in Launches : Active(m)' <=> Active(m) /\ m # n
  BY <1>3 DEF Active
<1>6. \A m \in Launches, x \in Nodes : Waits(m, x)' <=> Waits(m, x)
  BY <1>2, <1>3, <1>5 DEF Waits
<1>7. /\ n = root => cur' = NoNode
      /\ n # root => cur' \in Launches /\ n \in Kids[cur']
  BY <1>1, <1>2, <1>4 DEF Chain
<1>8. n # root => cur' # n
  BY <1>7, OneParent
<1> QED
  BY <1>2, <1>3, <1>4, <1>5, <1>6, <1>7, <1>8 DEF Returns, rest, status, programs, ghosts

\* The startup() of the root, with a connection of a socket node or without.
LEMMA BeginsDoes ==
  ASSUME IInv, Startup \/ Accept
  PROVE  /\ cur = NoNode /\ cur' = root /\ ~exited /\ inst' = inst + 1 /\ inst \in Nat
         /\ root \in Launches /\ root \in Roots /\ root \in Nodes /\ NoNode \notin Launches
         /\ \A m \in Launches : ~Active(m) /\ (Active(m)' <=> m = root)
         /\ \A m \in Launches, x \in Nodes :
              ~Waits(m, x) /\ (Waits(m, x)' <=> m = root /\ x \in Kids[root])
         /\ frame'[root].op \in {"link", "socket"} /\ frame'[root].i = 1
         /\ UNCHANGED <<fdMap, client, root, garbled, exited, running, image>>
<1>1. frame \in [Launches -> Frames] /\ TypeOK /\ Chain /\ root \in Roots /\ root \in Launches
      /\ inst \in Nat /\ NoNode \notin Launches
  BY DocumentTree, DocumentAssumption DEF IInv, TypeOK
<1>2. cur = NoNode /\ ~exited /\ cur' = root /\ inst' = inst + 1
  BY DEF Startup, Accept, Idling
<1>3. \A m \in Launches : ~Active(m)
  BY <1>1, <1>2 DEF Chain
<1>4. PICK op, r : op \in {"link", "socket"} /\ Moves(root, Frame(op, r, NoNode))
  BY DEF Startup, Accept
<1>5. /\ frame'[root].op \in {"link", "socket"} /\ frame'[root].i = 1
      /\ \A m \in Launches : m # root => frame'[m] = frame[m]
  BY <1>1, <1>4 DEF Moves, Frame
<1>6. \A m \in Launches : Active(m)' <=> m = root
  BY <1>1, <1>3, <1>5 DEF Active
<1>7. \A m \in Launches, x \in Nodes : ~Waits(m, x) /\ (Waits(m, x)' <=> m = root /\ x \in Kids[root])
  BY <1>3, <1>5, <1>6 DEF Waits
<1>8. UNCHANGED <<fdMap, client, root, garbled, exited, running, image>>
  BY DEF Startup, Accept, programs
<1> QED
  BY <1>1, <1>2, <1>3, <1>5, <1>6, <1>7, <1>8 DEF Nodes

\* The steps of the programs, and no step at all, leave the descriptors alone.
Beside == running' \subseteq running /\ UNCHANGED <<table, fdMap, client, place, status, image, ghosts>>

\* A step after which all is fine.
LEMMA FineSteps ==
  ASSUME TypeOK, [Next]_vars, Fine'
  PROVE  /\ Fine
         /\ \/ \E n \in Launches :
                 \/ SocketLink(n) \/ SocketClose(n) \/ MakePipe(n) \/ LinkTo(n) \/ LinkFrom(n)
                 \/ CloseEnds(n) \/ LinksMade(n) \/ Externalize(n) \/ ExternalsMade(n)
                 \/ \E s \in Nodes : StartLeaf(n, s) \/ StartLaunch(n, s)
                 \/ Returns(n)
            \/ ClientPipe \/ Startup \/ Accept
            \/ \E k \in Fds : ClientClose(k) \/ \E fd \in ClientLinks : ClientLink(k, fd)
            \/ Beside
<1>1. \A n \in Launches : ~MakePipeFails(n) /\ ~Throws(n)
  BY DEF MakePipeFails, Throws, Fine
<1>2. CASE \E n \in Launches :
             \/ SocketLink(n) \/ SocketClose(n) \/ MakePipe(n) \/ LinkTo(n) \/ LinkFrom(n)
             \/ CloseEnds(n) \/ LinksMade(n) \/ Externalize(n) \/ ExternalsMade(n)
             \/ \E s \in Nodes : StartLeaf(n, s) \/ StartLaunch(n, s)
             \/ Returns(n)
  <2>1. UNCHANGED <<garbled, exited>>
    BY <1>2 DEF SocketLink, SocketClose, MakePipe, LinkTo, LinkFrom, CloseEnds, LinksMade,
                Externalize, ExternalsMade, StartLeaf, StartLaunch, Returns, status
  <2> QED
    BY <1>2, <2>1 DEF Fine
<1>3. CASE \/ ClientPipe \/ Startup \/ Accept
           \/ \E k \in Fds : ClientClose(k) \/ \E fd \in ClientLinks : ClientLink(k, fd)
  <2>1. UNCHANGED <<garbled, exited>>
    BY <1>3 DEF ClientPipe, Startup, Accept, ClientClose, ClientLink, status
  <2> QED
    BY <1>3, <2>1 DEF Fine
<1>4. CASE UNCHANGED vars \/ Stopped \/ \E q \in Processes : ProgramExits(q) \/ ProgramSeesEnd(q)
  <2>1. Beside
    BY <1>4 DEF Beside, vars, Stopped, ProgramExits, ProgramSeesEnd, End, programs
  <2> QED
    BY <2>1 DEF Beside, status, Fine
<1> QED
  BY <1>1, <1>2, <1>3, <1>4 DEF Next, Main, Client

\* The steps of a startup() between the start of one node and that of the next.
Wires(n) ==
  \/ SocketLink(n) \/ SocketClose(n) \/ MakePipe(n) \/ LinkTo(n) \/ LinkFrom(n)
  \/ CloseEnds(n) \/ LinksMade(n) \/ Externalize(n) \/ ExternalsMade(n)

LEMMA WiresStays ==
  ASSUME TypeOK, Within, NEW n \in Launches, Wires(n)
  PROVE  Stays(n) /\ UNCHANGED rest
BY SocketLinkDoes, SocketCloseDoes, MakePipeDoes, LinkToDoes, LinkFromDoes, CloseEndsDoes,
   LinksMadeDoes, ExternalizeDoes, ExternalsMadeDoes DEF Wires, Goes

LEMMA BesideDoes ==
  ASSUME \/ ClientPipe \/ Beside
         \/ \E k \in Fds : ClientClose(k) \/ \E fd \in ClientLinks : ClientLink(k, fd)
  PROVE  UNCHANGED <<frame, cur, root, inst, garbled, exited, image>> /\ running' \subseteq running
BY DEF ClientPipe, Beside, ClientClose, ClientLink, place, status, programs

-----------------------------------------------------------------------------
(* The launch nodes above the one that executes are starting their sub-nodes *)

Below == \A n \in Launches : Active(n) /\ n # cur => frame[n].op = "subs"

LEMMA BelowNext ==
  ASSUME IInv, Within, Below, Fine', [Next]_vars
  PROVE  Below'
<1>0. TypeOK
  BY DEF IInv
<1>1. ASSUME NEW n \in Launches, Wires(n) PROVE Below'
  <2>1. Stays(n)
    BY <1>0, <1>1, WiresStays
  <2> QED
    BY <2>1, StaysAhead DEF Below, Stays
<1>2. ASSUME NEW n \in Launches, NEW s \in Nodes, StartLeaf(n, s) PROVE Below'
  BY <1>0, <1>2, StartLeafDoes DEF Below
<1>3. ASSUME NEW n \in Launches, NEW s \in Nodes, StartLaunch(n, s) PROVE Below'
  BY <1>3, StartLaunchDoes DEF Below
<1>4. ASSUME NEW n \in Launches, Returns(n) PROVE Below'
  BY <1>4, ReturnsDoes DEF Below
<1>5. CASE Startup \/ Accept
  BY <1>5, BeginsDoes DEF Below
<1>6. CASE \/ ClientPipe \/ Beside
           \/ \E k \in Fds : ClientClose(k) \/ \E fd \in ClientLinks : ClientLink(k, fd)
  BY <1>6, BesideDoes DEF Below, Active
<1> QED
  BY <1>0, <1>1, <1>2, <1>3, <1>4, <1>5, <1>6, FineSteps DEF Wires

-----------------------------------------------------------------------------
(* What is still to be started is apart from what has been *)

Past == \A q \in running : q[2] <= inst

Apart ==
  \A x \in Nodes : Ahead(x) =>
    /\ \A n \in Launches : Active(n) => n \notin Inside(x)
    /\ \A q \in running : q[2] = inst => q[1] \notin Inside(x)

LEMMA ApartNext ==
  ASSUME IInv, Within, Past, Apart, Fine', [Next]_vars
  PROVE  Apart'
<1>0. TypeOK
  BY DEF IInv
<1>1. ASSUME NEW n \in Launches, Wires(n) PROVE Apart'
  <2>1. Stays(n) /\ UNCHANGED rest
    BY <1>0, <1>1, WiresStays
  <2> QED
    BY <2>1, StaysAhead DEF Apart, rest
<1>2. ASSUME NEW n \in Launches, NEW s \in Nodes, StartLeaf(n, s) PROVE Apart'
  <2>1. SUFFICES ASSUME NEW x \in Nodes, Ahead(x)'
                 PROVE  /\ \A m \in Launches : Active(m)' => m \notin Inside(x)
                        /\ \A q \in running' : q[2] = inst' => q[1] \notin Inside(x)
    BY DEF Apart
  <2>2. Ahead(x) /\ x # s
    BY <1>0, <1>2, <2>1, StartLeafDoes DEF Ahead
  <2>3. s \notin Inside(x)
    <3>1. Active(n) /\ s \in Kids[n]
      BY <1>0, <1>2, StartLeafDoes DEF Waits
    <3> QED
      BY <2>2, <3>1, InsideParent DEF Apart
  <2>4. \A q \in running' : q[2] = inst' => q[1] \notin Inside(x)
    <3>1. running' \subseteq running \cup {<<s, inst>>} /\ inst' = inst
      BY <1>0, <1>2, StartLeafDoes
    <3>2. <<s, inst>>[1] = s
      OBVIOUS
    <3> QED
      BY <2>2, <2>3, <3>1, <3>2 DEF Apart
  <2> QED
    BY <1>0, <1>2, <2>2, <2>4, StartLeafDoes DEF Apart
<1>3. ASSUME NEW n \in Launches, NEW s \in Nodes, StartLaunch(n, s) PROVE Apart'
  <2>1. SUFFICES ASSUME NEW x \in Nodes, Ahead(x)'
                 PROVE  /\ \A m \in Launches : Active(m)' => m \notin Inside(x)
                        /\ \A q \in running' : q[2] = inst' => q[1] \notin Inside(x)
    BY DEF Apart
  <2>2. /\ Waits(n, s) /\ Ahead(s) /\ s \in Launches /\ Active(n) /\ s \in Kids[n]
        /\ \A m \in Launches : Active(m)' <=> Active(m) \/ m = s
        /\ UNCHANGED <<running, inst>>
    BY <1>3, StartLaunchDoes DEF rest, Waits, Ahead
  <2>3. CASE x \in Kids[s]
    <3>1. x \in Inside(s)
      BY <2>2, <2>3, InsideKids, InsideSelf
    <3>2. Inside(x) \subseteq Inside(s) /\ s \notin Inside(x)
      BY <2>2, <2>3, <3>1, InsideInside, ParentOutside
    <3> QED
      BY <2>2, <3>2 DEF Apart
  <2>4. CASE x \notin Kids[s]
    <3>1. Ahead(x) /\ x # s
      BY <1>3, <2>1, <2>4, StartLaunchDoes DEF Ahead
    <3>2. s \notin Inside(x)
      BY <2>2, <3>1, InsideParent DEF Apart
    <3> QED
      BY <2>2, <3>1, <3>2 DEF Apart
  <2> QED
    BY <2>3, <2>4
<1>4. ASSUME NEW n \in Launches, Returns(n) PROVE Apart'
  <2>1. \A x \in Nodes : Ahead(x)' <=> Ahead(x)
    BY <1>4, ReturnsDoes DEF Ahead
  <2> QED
    BY <1>4, <2>1, ReturnsDoes DEF Apart, rest
<1>5. CASE Startup \/ Accept
  <2>1. \A x \in Nodes : Ahead(x)' => x \in Kids[root]
    BY <1>5, BeginsDoes DEF Ahead
  <2>2. \A q \in running' : q[2] # inst'
    BY <1>0, <1>5, BeginsDoes DEF Past, TypeOK, Processes
  <2> QED
    BY <1>5, <2>1, <2>2, BeginsDoes, ParentOutside DEF Apart
<1>6. CASE \/ ClientPipe \/ Beside
           \/ \E k \in Fds : ClientClose(k) \/ \E fd \in ClientLinks : ClientLink(k, fd)
  <2>1. UNCHANGED <<frame, inst>> /\ running' \subseteq running
    BY <1>6, BesideDoes
  <2>2. \A x \in Nodes : Ahead(x)' <=> Ahead(x)
    BY <2>1 DEF Ahead, Waits, Active
  <2> QED
    BY <2>1, <2>2 DEF Apart, Active
<1> QED
  BY <1>0, <1>1, <1>2, <1>3, <1>4, <1>5, <1>6, FineSteps DEF Wires

-----------------------------------------------------------------------------
(* linkFd() and where what it links comes from *)

LEMMA LinkFdFresh ==
  ASSUME TypeOK, NEW n \in Nodes, NEW fd \in Nat, NEW x, LinkFd(n, fd, x)
  PROVE  /\ x \in Fds /\ table[x] # Closed /\ fd # NoFd
         /\ \E k \in Fds :
              /\ table[k] = Closed /\ k # x
              /\ table'[k] = table[x] /\ \A j \in Fds : j # k => table'[j] = table[j]
              /\ fdMap'[n][k] = fd
              /\ \A m \in Nodes, j \in Fds : m # n \/ j # k => fdMap'[m][j] = fdMap[m][j]
<1>1. PICK k \in Fds : /\ Lowest(k, Free(fd))
                       /\ table' = [table EXCEPT ![k] = table[x]]
                       /\ fdMap' = [fdMap EXCEPT ![n][k] = fd]
  BY DEF LinkFd
<1>2. x \in Fds /\ table[x] # Closed /\ table[k] = Closed
  BY <1>1 DEF LinkFd, IsOpen, Lowest, Free
<1>3. table'[k] = table[x] /\ \A j \in Fds : j # k => table'[j] = table[j]
  BY <1>1 DEF TypeOK
<1>4. fdMap'[n][k] = fd /\ \A m \in Nodes, j \in Fds : m # n \/ j # k => fdMap'[m][j] = fdMap[m][j]
  BY <1>1 DEF TypeOK
<1>5. fd # NoFd
  BY DEF NoFd
<1> QED
  BY <1>2, <1>3, <1>4, <1>5

\* A pipe takes two numbers that are free.
LEMMA OpensPipeFresh ==
  ASSUME TypeOK, NEW r \in Fds, NEW w \in Fds, OpensPipe(r, w)
  PROVE  /\ r # w /\ table[r] = Closed /\ table[w] = Closed
         /\ table'[r] = <<pipes + 1, "r">> /\ table'[w] = <<pipes + 1, "w">>
         /\ \A k \in Fds : k # r /\ k # w => table'[k] = table[k]
<1>1. table[r] = Closed /\ table[w] = Closed /\ w > r
  BY DEF OpensPipe, Lowest, Free
<1>2. r # w
  BY <1>1, DocumentAssumption DEF Fds
<1> QED
  BY <1>1, <1>2 DEF OpensPipe, TypeOK

\* closeFds() closes what is linked to the node, and nothing else.
LEMMA CloseFdsExactly ==
  ASSUME TypeOK, NEW n \in Nodes, CloseFds(n)
  PROVE  /\ \A k \in Fds : table'[k] = IF fdMap[n][k] # NoFd THEN Closed ELSE table[k]
         /\ \A k \in Fds : fdMap'[n][k] = NoFd
         /\ \A m \in Nodes, k \in Fds : m # n => fdMap'[m][k] = fdMap[m][k]
<1>1. \A k \in Fds : NoLinks[k] = NoFd
  BY DEF NoLinks
<1> QED
  BY <1>1 DEF CloseFds, TypeOK

\* What the table refers to after a step it referred to before, or it is new.
LEMMA TableFrom ==
  ASSUME TypeOK, Within, [Next]_vars
  PROVE  /\ pipes \in Nat /\ pipes' \in {pipes, pipes + 1}
         /\ \A k \in Fds :
              \/ table'[k] = Closed
              \/ \E j \in Fds : table'[k] = table[j]
              \/ pipes' = pipes + 1 /\ \E e \in Ends : table'[k] = <<pipes + 1, e>>
<1> DEFINE From ==
      \A k \in Fds :
        \/ table'[k] = Closed
        \/ \E j \in Fds : table'[k] = table[j]
        \/ pipes' = pipes + 1 /\ \E e \in Ends : table'[k] = <<pipes + 1, e>>
<1>0. pipes \in Nat /\ root \in Nodes
  BY DocumentTree DEF TypeOK, Nodes
<1>1. ASSUME UNCHANGED <<table, pipes>>
      PROVE  pipes' = pipes /\ From
  BY <1>1
<1>2. ASSUME NEW m \in Nodes, NEW fd \in Nat, NEW x, LinkFd(m, fd, x), pipes' = pipes
      PROVE  From
  BY <1>2, LinkFdFresh
<1>3. ASSUME NEW n \in Launches, SocketLink(n) \/ LinkTo(n) \/ LinkFrom(n) \/ Externalize(n)
      PROVE  pipes' = pipes /\ From
  <2>1. pipes' = pipes
    BY <1>3 DEF SocketLink, LinkTo, LinkFrom, Externalize, ghosts
  <2>2. CASE UNCHANGED <<table, fdMap>>
    BY <1>1, <2>1, <2>2
  <2>3. ASSUME NEW m \in Kids[n], NEW fd \in Nat, NEW k \in Fds, LinkFd(m, fd, k) PROVE From
    BY <1>2, <2>1, <2>3, DocumentTree
  <2> QED
    BY <1>3, <2>1, <2>2, <2>3, AdvanceLinks
<1>4. ASSUME NEW r \in Fds, NEW w \in Fds, OpensPipe(r, w), pipes' = pipes + 1
      PROVE  From
  BY <1>4, OpensPipeFresh DEF Ends
<1>5. ASSUME NEW n \in Launches, MakePipe(n) PROVE pipes' = pipes + 1 /\ From
  <2>1. pipes' = pipes + 1
    BY <1>5 DEF MakePipe, Makes
  <2> QED
    BY <1>4, <1>5, <2>1 DEF MakePipe
<1>6. CASE ClientPipe
  <2>1. pipes' = pipes + 1
    BY <1>6 DEF ClientPipe, Makes
  <2> QED
    BY <1>0, <1>4, <1>6, <2>1 DEF ClientPipe
<1>7. CASE Accept
  <2>1. pipes' = pipes + 1
    BY <1>7 DEF Accept, Makes
  <2>2. PICK k \in Fds : table' = [table EXCEPT ![k] = <<pipes + 1, "rw">>]
    BY <1>7 DEF Accept
  <2>3. \A j \in Fds : table'[j] = IF j = k THEN <<pipes + 1, "rw">> ELSE table[j]
    BY <2>2 DEF TypeOK
  <2> QED
    BY <1>0, <2>1, <2>3 DEF Ends
<1>8. ASSUME NEW n \in Launches, SocketClose(n) PROVE pipes' = pipes /\ From
  <2>1. pipes' = pipes /\ table' = [table EXCEPT ![frame[n].r] = Closed]
    BY <1>8 DEF SocketClose, ghosts
  <2>2. \A k \in Fds : table'[k] = IF k = frame[n].r THEN Closed ELSE table[k]
    BY <2>1 DEF TypeOK
  <2> QED
    BY <2>1, <2>2
<1>9. ASSUME NEW n \in Launches, CloseEnds(n) PROVE pipes' = pipes /\ From
  BY <1>9 DEF CloseEnds, ghosts
<1>10. ASSUME NEW m \in Nodes, CloseFds(m), pipes' = pipes PROVE From
  BY <1>10, CloseFdsExactly
<1>11. ASSUME NEW n \in Launches, Returns(n) \/ \E s \in Nodes : StartLeaf(n, s)
       PROVE  pipes' = pipes /\ From
  <2>1. pipes' = pipes /\ \E m \in Nodes : CloseFds(m)
    BY <1>11 DEF Returns, StartLeaf, ghosts, Nodes
  <2> QED
    BY <1>10, <2>1
<1>12. ASSUME NEW k \in Fds, ClientClose(k) PROVE pipes' = pipes /\ From
  <2>1. \A j \in Fds : table'[j] = IF j = k THEN Closed ELSE table[j]
    BY <1>12 DEF ClientClose, TypeOK
  <2> QED
    BY <1>12, <2>1 DEF ClientClose, ghosts
<1>13. ASSUME NEW k \in Fds, NEW fd \in ClientLinks, ClientLink(k, fd) PROVE pipes' = pipes /\ From
  <2>1. fd \in Nat /\ LinkFd(root, fd, k) /\ pipes' = pipes
    BY <1>13, DocumentAssumption DEF ClientLink
  <2> QED
    BY <1>0, <1>2, <2>1
<1>14. ASSUME NEW n \in Launches, Throws(n) PROVE pipes' = pipes /\ From
  BY <1>14 DEF Throws, ghosts
<1>15. ASSUME NEW n \in Launches,
              MakePipeFails(n) \/ LinksMade(n) \/ ExternalsMade(n) \/ \E s \in Nodes : StartLaunch(n, s)
       PROVE  pipes' = pipes /\ From
  <2>1. UNCHANGED <<table, pipes>>
    BY <1>15 DEF MakePipeFails, LinksMade, ExternalsMade, StartLaunch, ghosts
  <2> QED
    BY <1>1, <2>1
<1>16. CASE UNCHANGED vars \/ Stopped \/ Startup
            \/ \E q \in Processes : ProgramExits(q) \/ ProgramSeesEnd(q)
  <2>1. UNCHANGED <<table, pipes>>
    BY <1>16 DEF vars, Stopped, Startup, ProgramExits, ProgramSeesEnd, End, ghosts
  <2> QED
    BY <1>0, <1>1, <2>1
<1>17. pipes' \in {pipes, pipes + 1} /\ From
  BY <1>3, <1>5, <1>6, <1>7, <1>8, <1>9, <1>11, <1>12, <1>13, <1>14, <1>15, <1>16, Steps
  DEF Elsewhere, Advance
<1> QED
  BY <1>0, <1>17

-----------------------------------------------------------------------------
(* Numbers of pipes and of startups *)

\* The startup that is executed, or else the next one.
Now == IF cur = NoNode THEN inst + 1 ELSE inst

TableKnown == \A k \in Fds, p \in Nat, e \in Ends : table[k] = <<p, e>> => p \in 1 .. pipes
ImageKnown ==
  \A q \in Processes, k \in Fds, p \in Nat, e \in Ends : image[q][k] = <<p, e>> => p \in 1 .. pipes
MadeThen == \A p \in 1 .. pipes : made[p].inst <= Now

Numbers == TableKnown /\ ImageKnown /\ Past /\ MadeThen

\* No pipe is free, and none is the launcher's terminal.
LEMMA PipesDiffer ==
  \A p \in Nat, e \in Ends : <<p, e>> # Closed /\ <<p, e>> # Tty /\ <<p, e>> \in Files
BY DocumentAssumption DEF Files

LEMMA TableKnownNext ==
  ASSUME TypeOK, Within, TableKnown, [Next]_vars
  PROVE  TableKnown'
<1> SUFFICES ASSUME NEW k \in Fds, NEW p \in Nat, NEW e \in Ends, table'[k] = <<p, e>>
             PROVE  p \in 1 .. pipes'
  BY DEF TableKnown
<1>1. pipes \in Nat /\ pipes' \in {pipes, pipes + 1}
  BY TableFrom
<1>2. CASE \E j \in Fds : table'[k] = table[j]
  <2>1. p \in 1 .. pipes
    BY <1>2 DEF TableKnown
  <2> QED
    BY <1>1, <2>1
<1>3. CASE pipes' = pipes + 1 /\ \E d \in Ends : table'[k] = <<pipes + 1, d>>
  <2>1. p = pipes + 1
    BY <1>3
  <2> QED
    BY <1>1, <1>3, <2>1
<1>4. table'[k] # Closed
  BY PipesDiffer
<1> QED
  BY <1>2, <1>3, <1>4, TableFrom

\* What a program is started with.
LEMMA ImageIs ==
  ASSUME TypeOK, NEW s \in Nodes, NEW fd \in Fds
  PROVE  \/ \E k \in Fds : Last(k, Linked(s, fd)) /\ Image(s)[fd] = table[k]
         \/ (\A k \in Fds : ~Last(k, Linked(s, fd))) /\ Image(s)[fd] \in {Tty, Closed}
<1>1. CASE \E k \in Fds : Last(k, Linked(s, fd))
  <2>1. \E k \in Fds : k = CHOOSE j \in Fds : Last(j, Linked(s, fd)) /\ Last(k, Linked(s, fd))
    BY <1>1
  <2>2. Image(s)[fd] = table[CHOOSE j \in Fds : Last(j, Linked(s, fd))]
    BY <1>1 DEF Image
  <2>3. Last(CHOOSE j \in Fds : Last(j, Linked(s, fd)), Linked(s, fd))
        /\ (CHOOSE j \in Fds : Last(j, Linked(s, fd))) \in Fds
    BY <1>1
  <2> QED
    BY <2>2, <2>3
<1>2. CASE \A k \in Fds : ~Last(k, Linked(s, fd))
  BY <1>2 DEF Image
<1> QED
  BY <1>1, <1>2

\* Only the start of a program changes an image.
LEMMA ImageStays ==
  ASSUME [Next]_vars, \A n \in Launches, s \in Nodes : ~StartLeaf(n, s)
  PROVE  image' = image /\ running' \subseteq running
<1>1. ASSUME NEW n \in Launches PROVE Returns(n) \/ Throws(n) => UNCHANGED programs
  BY DEF Returns, Throws
<1>2. ASSUME NEW n \in Launches, NEW s \in Nodes PROVE StartLaunch(n, s) => UNCHANGED programs
  BY DEF StartLaunch
<1>3. ASSUME NEW n \in Launches
      PROVE  Wires(n) \/ MakePipeFails(n) => UNCHANGED programs
  BY DEF Wires, SocketLink, SocketClose, MakePipe, MakePipeFails, LinkTo, LinkFrom, CloseEnds,
         LinksMade, Externalize, ExternalsMade
<1>4. Startup \/ Accept \/ ClientPipe => UNCHANGED programs
  BY DEF Startup, Accept, ClientPipe
<1>5. ASSUME NEW k \in Fds, NEW fd \in ClientLinks
      PROVE  ClientClose(k) \/ ClientLink(k, fd) => UNCHANGED programs
  BY DEF ClientClose, ClientLink
<1>6. ASSUME NEW k \in Fds PROVE ClientClose(k) => UNCHANGED programs
  BY DEF ClientClose
<1>7. \A q \in Processes : ProgramExits(q) \/ ProgramSeesEnd(q) => image' = image /\ running' \subseteq running
  BY DEF ProgramExits, ProgramSeesEnd, End
<1>8. UNCHANGED vars \/ Stopped => UNCHANGED programs
  BY DEF vars, Stopped
<1>9. UNCHANGED programs => image' = image /\ running' \subseteq running
  BY DEF programs
<1> QED
  BY <1>1, <1>2, <1>3, <1>4, <1>5, <1>6, <1>7, <1>8, <1>9 DEF Next, Main, Client, Wires

LEMMA ImageKnownNext ==
  ASSUME TypeOK, Within, TableKnown, ImageKnown, [Next]_vars
  PROVE  ImageKnown'
<1>1. pipes \in Nat /\ pipes' \in {pipes, pipes + 1}
  BY TableFrom
<1>2. 1 .. pipes \subseteq 1 .. pipes'
  BY <1>1
<1>3. ASSUME NEW n \in Launches, NEW s \in Nodes, StartLeaf(n, s) PROVE ImageKnown'
  <2>1. SUFFICES ASSUME NEW q \in Processes, NEW k \in Fds, NEW p \in Nat, NEW e \in Ends,
                        image'[q][k] = <<p, e>>
                 PROVE  p \in 1 .. pipes
    BY <1>2 DEF ImageKnown
  <2>2. image' = [image EXCEPT ![<<s, inst>>] = Image(s)]
    BY <1>3, StartLeafDoes
  <2>3. CASE image'[q] = image[q]
    BY <2>1, <2>3 DEF ImageKnown
  <2>4. CASE image'[q] = Image(s)
    <3>1. \E j \in Fds : Image(s)[k] = table[j]
      BY <2>1, <2>4, ImageIs, PipesDiffer
    <3> QED
      BY <2>1, <2>4, <3>1 DEF TableKnown
  <2>5. image'[q] = image[q] \/ image'[q] = Image(s)
    BY <2>2 DEF TypeOK
  <2> QED
    BY <2>3, <2>4, <2>5
<1>4. CASE \A n \in Launches, s \in Nodes : ~StartLeaf(n, s)
  BY <1>2, <1>4, ImageStays DEF ImageKnown
<1> QED
  BY <1>3, <1>4

\* A pipe or connection is recorded after the others.
LEMMA MakesDoes ==
  ASSUME TypeOK, NEW i \in Nat, NEW ends \in SUBSET (Ends \X Nodes \X Nat), Makes(i, ends)
  PROVE  /\ pipes \in Nat /\ pipes' = pipes + 1
         /\ made'[pipes + 1] = [inst |-> i, at |-> ends]
         /\ \A p \in 1 .. pipes : made'[p] = made[p]
<1> DEFINE S == [inst : Nat, at : SUBSET (Ends \X Nodes \X Nat)]
           x == [inst |-> i, at |-> ends]
<1>1. made \in Seq(S) /\ Len(made) = pipes /\ pipes \in Nat /\ x \in S
  BY DEF TypeOK
<1>2. made' = Append(made, x) /\ pipes' = pipes + 1
  BY DEF Makes
<1> HIDE DEF S, x
<1>3. made'[pipes + 1] = x /\ \A p \in 1 .. pipes : made'[p] = made[p]
  BY <1>1, <1>2
<1> QED
  BY <1>1, <1>2, <1>3 DEF x

\* The ends of a new pipe of a linkage, and those of a connection.
LinkEnds(l) == {<<"r", l.to, l.to_fd>>, <<"w", l.from, l.from_fd>>}
SocketEnds(n) == {<<"rw", Sockets[n][i].node, Sockets[n][i].fd>> : i \in DOMAIN Sockets[n]}

LEMMA LinkEndsType ==
  ASSUME NEW n \in Launches, NEW i \in Nat \ {0}, i <= Len(Links[n])
  PROVE  /\ LinkEnds(Links[n][i]) \in SUBSET (Ends \X Nodes \X Nat)
         /\ Links[n][i].to \in Kids[n] /\ Links[n][i].from \in Kids[n]
         /\ Links[n][i].to_fd \in Nat /\ Links[n][i].from_fd \in Nat
<1>1. Links[n][i] \in [to : Kids[n], to_fd : Nat, from : Kids[n], from_fd : Nat]
  BY DocumentType
<1>2. Kids[n] \subseteq Nodes
  BY DocumentTree
<1> QED
  BY <1>1, <1>2 DEF LinkEnds, Ends

LEMMA LinkEndsAre ==
  ASSUME NEW l, NEW a \in LinkEnds(l)
  PROVE  a = <<"r", l.to, l.to_fd>> \/ a = <<"w", l.from, l.from_fd>>
BY DEF LinkEnds

LEMMA SocketEndsType ==
  ASSUME NEW n \in Launches
  PROVE  /\ SocketEnds(n) \in SUBSET (Ends \X Nodes \X Nat)
         /\ \A a \in SocketEnds(n) : a[2] \in Kids[n]
<1>1. ASSUME NEW i \in DOMAIN Sockets[n] PROVE Sockets[n][i] \in [node : Kids[n], fd : Nat]
  <2> DEFINE S == [node : Kids[n], fd : Nat]
  <2>1. Sockets[n] \in Seq(S)
    BY DocumentAssumption
  <2>2. Sockets[n][i] \in S
    <3> HIDE DEF S
    <3> QED
      BY <2>1
  <2> QED
    BY <2>2
<1>2. Kids[n] \subseteq Nodes
  BY DocumentTree
<1> QED
  BY <1>1, <1>2 DEF SocketEnds, Ends

LEMMA MakePipeMakes ==
  ASSUME TypeOK, NEW n \in Launches, MakePipe(n)
  PROVE  /\ pipes \in Nat /\ pipes' = pipes + 1 /\ inst \in Nat
         /\ made'[pipes + 1] = [inst |-> inst, at |-> LinkEnds(Links[n][frame[n].i])]
         /\ \A p \in 1 .. pipes : made'[p] = made[p]
<1>1. Makes(inst, LinkEnds(Links[n][frame[n].i])) /\ frame[n].i <= Len(Links[n])
  BY MakePipeDoes DEF LinkEnds
<1>2. frame[n].i \in Nat \ {0} /\ inst \in Nat
  BY FrameAt, DocumentAssumption DEF TypeOK
<1> QED
  BY <1>1, <1>2, LinkEndsType, MakesDoes

LEMMA AcceptMakes ==
  ASSUME IInv, Accept
  PROVE  /\ pipes \in Nat /\ pipes' = pipes + 1
         /\ made'[pipes + 1] = [inst |-> inst + 1, at |-> SocketEnds(root)]
         /\ \A p \in 1 .. pipes : made'[p] = made[p]
<1>1. Makes(inst + 1, SocketEnds(root))
  BY DEF Accept, SocketEnds
<1>2. inst + 1 \in Nat /\ root \in Launches /\ TypeOK
  BY BeginsDoes DEF IInv
<1> QED
  BY <1>1, <1>2, SocketEndsType, MakesDoes

LEMMA ClientPipeMakes ==
  ASSUME TypeOK, ClientPipe
  PROVE  /\ pipes \in Nat /\ pipes' = pipes + 1
         /\ made'[pipes + 1] = [inst |-> 0, at |-> {}]
         /\ \A p \in 1 .. pipes : made'[p] = made[p]
  BY MakesDoes DEF ClientPipe

LEMMA ClientLinkDoes ==
  ASSUME TypeOK, TableKnown, NEW k \in Fds, NEW fd \in ClientLinks, ClientLink(k, fd)
  PROVE  /\ k \in client /\ fd \in Nat /\ fd \notin asked /\ asked' = asked \cup {fd}
         /\ cur = NoNode /\ LinkFd(root, fd, k) /\ inst \in Nat
         /\ UNCHANGED <<client, frame, cur, root, inst, garbled, exited, running, image, pipes>>
         /\ \E p \in 1 .. pipes, e \in Ends :
              /\ table[k] = <<p, e>> /\ made[p].at = {}
              /\ made'[p] = [inst |-> inst + 1, at |-> {<<e, root, fd>>}]
              /\ \A o \in 1 .. pipes : o # p => made'[o] = made[o]
<1>1. table[k] \in Nat \X Ends
  BY DEF ClientLink
<1>2. PICK p \in Nat, e \in Ends : table[k] = <<p, e>>
  BY <1>1
<1>3. p \in 1 .. pipes
  BY <1>2 DEF TableKnown
<1>4. made' = [made EXCEPT ![p] = [inst |-> inst + 1, at |-> {<<e, root, fd>>}]] /\ made[p].at = {}
  BY <1>2 DEF ClientLink
<1>5. DOMAIN made = 1 .. pipes
  <2> DEFINE S == [inst : Nat, at : SUBSET (Ends \X Nodes \X Nat)]
  <2>1. made \in Seq(S) /\ Len(made) = pipes
    BY DEF TypeOK
  <2> HIDE DEF S
  <2> QED
    BY <2>1
<1>6. made'[p] = [inst |-> inst + 1, at |-> {<<e, root, fd>>}]
      /\ \A o \in 1 .. pipes : o # p => made'[o] = made[o]
  BY <1>3, <1>4, <1>5
<1>7. fd \in Nat /\ inst \in Nat
  <2>1. fd \in {0, 1, 2}
    BY DocumentAssumption
  <2>2. MaxInst \in Nat /\ inst \in 0 .. MaxInst
    BY DocumentAssumption DEF TypeOK
  <2> QED
    BY <2>1, <2>2
<1> QED
  BY <1>2, <1>3, <1>4, <1>6, <1>7 DEF ClientLink, Idling, place, status, programs

\* The startups are counted; between two of them the next one counts.
LEMMA InstNext ==
  ASSUME IInv, Within, [Next]_vars
  PROVE  /\ inst \in Nat /\ inst' \in {inst, inst + 1} /\ Now \in Nat /\ Now' \in Nat /\ Now' >= Now
         /\ ~(Startup \/ Accept) => inst' = inst
<1>0. inst \in Nat /\ TypeOK
  BY DocumentAssumption DEF IInv, TypeOK
<1>1. CASE Startup \/ Accept
  BY <1>0, <1>1, BeginsDoes DEF Now
<1>2. ASSUME inst' = inst, cur = NoNode => cur' = NoNode
      PROVE  inst' \in {inst, inst + 1} /\ Now \in Nat /\ Now' \in Nat /\ Now' >= Now
  BY <1>0, <1>2 DEF Now
<1>3. ASSUME ~(Startup \/ Accept) PROVE inst' = inst /\ (cur = NoNode => cur' = NoNode)
  <2>1. ASSUME Elsewhere PROVE inst' = inst /\ cur' = cur
    BY <2>1 DEF Elsewhere, vars, Stopped, ClientPipe, ClientClose, ClientLink, ProgramExits,
                ProgramSeesEnd, End, place, status
  <2>2. ASSUME NEW n \in Launches, Advance(n) PROVE inst' = inst /\ cur' = cur
    BY <2>2 DEF Advance, SocketLink, SocketClose, MakePipe, MakePipeFails, LinkTo, LinkFrom,
                CloseEnds, LinksMade, Externalize, ExternalsMade, StartLeaf, status
  <2>3. ASSUME NEW n \in Launches, Returns(n) \/ Throws(n) \/ \E s \in Nodes : StartLaunch(n, s)
        PROVE  inst' = inst /\ (cur = NoNode => cur' = NoNode)
    BY <2>3, DocumentTree DEF Returns, Throws, StartLaunch, At, status
  <2> QED
    BY <1>3, <2>1, <2>2, <2>3, Steps
<1> QED
  BY <1>0, <1>1, <1>2, <1>3

\* Only these steps record anything about pipes.
LEMMA MadeStays ==
  ASSUME [Next]_vars, ~ClientPipe, ~Accept, \A n \in Launches : ~MakePipe(n),
         \A k \in Fds, fd \in ClientLinks : ~ClientLink(k, fd)
  PROVE  UNCHANGED <<pipes, made>>
<1>1. ASSUME Elsewhere PROVE UNCHANGED <<pipes, made>>
  BY <1>1 DEF Elsewhere, vars, Stopped, ClientClose, ProgramExits, ProgramSeesEnd, End, ghosts
<1>2. ASSUME NEW n \in Launches, Advance(n) PROVE UNCHANGED <<pipes, made>>
  BY <1>2 DEF Advance, SocketLink, SocketClose, MakePipeFails, LinkTo, LinkFrom,
              CloseEnds, LinksMade, Externalize, ExternalsMade, StartLeaf, ghosts
<1>3. ASSUME NEW n \in Launches, Returns(n) \/ Throws(n) \/ \E s \in Nodes : StartLaunch(n, s)
      PROVE  UNCHANGED <<pipes, made>>
  BY <1>3 DEF Returns, Throws, StartLaunch, ghosts
<1>4. Startup => UNCHANGED <<pipes, made>>
  BY DEF Startup
<1> QED
  BY <1>1, <1>2, <1>3, <1>4, Steps

LEMMA MadeThenNext ==
  ASSUME IInv, Within, TableKnown, MadeThen, [Next]_vars
  PROVE  MadeThen'
<1>0. TypeOK /\ inst \in Nat /\ Now \in Nat /\ Now' \in Nat /\ Now' >= Now
  BY InstNext DEF IInv
<1>1. \A p \in 1 .. pipes : made[p].inst <= Now' /\ made[p].inst \in Nat
  <2> SUFFICES ASSUME NEW p \in 1 .. pipes PROVE made[p].inst <= Now' /\ made[p].inst \in Nat
    OBVIOUS
  <2>1. made[p].inst <= Now /\ made[p].inst \in Nat
    BY <1>0, MadeType DEF MadeThen
  <2> QED
    BY <1>0, <2>1
<1>2. ASSUME pipes \in Nat, pipes' = pipes + 1, \A p \in 1 .. pipes : made'[p] = made[p],
             made'[pipes + 1].inst <= Now'
      PROVE  MadeThen'
  <2>1. \A p \in 1 .. pipes + 1 : p \in 1 .. pipes \/ p = pipes + 1
    BY <1>2
  <2> QED
    BY <1>1, <1>2, <2>1 DEF MadeThen
<1>3. ASSUME NEW n \in Launches, MakePipe(n) PROVE MadeThen'
  <2>1. made'[pipes + 1].inst = inst /\ Now' >= inst
    <3>1. made'[pipes + 1] = [inst |-> inst, at |-> LinkEnds(Links[n][frame[n].i])]
      BY <1>0, <1>3, MakePipeMakes
    <3>2. inst' = inst
      BY <1>3 DEF MakePipe, status
    <3> QED
      BY <1>0, <3>1, <3>2 DEF Now
  <2> QED
    BY <1>0, <1>2, <1>3, <2>1, MakePipeMakes
<1>4. CASE ClientPipe
  BY <1>0, <1>2, <1>4, ClientPipeMakes
<1>5. CASE Accept
  <2>1. Now' = inst + 1
    BY <1>5, BeginsDoes DEF Now
  <2> QED
    BY <1>0, <1>2, <1>5, <2>1, AcceptMakes
<1>6. ASSUME NEW k \in Fds, NEW fd \in ClientLinks, ClientLink(k, fd) PROVE MadeThen'
  <2>1. PICK p \in 1 .. pipes, e \in Ends :
          /\ made'[p] = [inst |-> inst + 1, at |-> {<<e, root, fd>>}]
          /\ \A o \in 1 .. pipes : o # p => made'[o] = made[o]
    BY <1>0, <1>6, ClientLinkDoes
  <2>2. Now' = inst + 1 /\ pipes' = pipes
    BY <1>0, <1>6, ClientLinkDoes DEF Now
  <2> QED
    BY <1>0, <1>1, <2>1, <2>2 DEF MadeThen
<1>7. CASE UNCHANGED <<pipes, made>>
  BY <1>1, <1>7 DEF MadeThen
<1> QED
  BY <1>3, <1>4, <1>5, <1>6, <1>7, MadeStays

LEMMA NumbersNext ==
  ASSUME IInv, Within, Numbers, [Next]_vars
  PROVE  Numbers'
<1>0. TypeOK /\ TableKnown /\ ImageKnown /\ Past /\ MadeThen
  BY DEF IInv, Numbers
<1>1. Past'
  <2>1. inst \in Nat /\ inst' \in {inst, inst + 1} /\ running \subseteq Processes
    BY <1>0, InstNext DEF TypeOK
  <2>2. ASSUME NEW n \in Launches, NEW s \in Nodes, StartLeaf(n, s) PROVE Past'
    <3>1. running' \subseteq running \cup {<<s, inst>>} /\ inst' = inst
      BY <1>0, <2>2, StartLeafDoes
    <3>2. <<s, inst>>[2] <= inst
      BY <2>1
    <3> QED
      BY <1>0, <3>1, <3>2 DEF Past
  <2>3. CASE \A n \in Launches, s \in Nodes : ~StartLeaf(n, s)
    <3>1. running' \subseteq running
      BY <2>3, ImageStays
    <3>2. \A q \in running : q[2] \in Nat /\ q[2] <= inst
      BY <1>0, <2>1, DocumentAssumption DEF Past, Processes
    <3> QED
      BY <2>1, <3>1, <3>2 DEF Past
  <2> QED
    BY <2>2, <2>3
<1> QED
  BY <1>0, <1>1, TableKnownNext, ImageKnownNext, MadeThenNext DEF Numbers

-----------------------------------------------------------------------------
(* Who has a descriptor, and what is linked *)

\* The local variables of startup() are the ends of the last pipe or connection.
Locals ==
  cur # NoNode =>
    LET f == frame[cur]
    IN  /\ f.op = "socket" =>
             /\ f.r \in Fds /\ table[f.r] = <<pipes, "rw">>
             /\ pipes # 0 /\ made[pipes] = [inst |-> inst, at |-> SocketEnds(cur)]
        /\ f.op \in {"to", "from", "close"} =>
             /\ f.r \in Fds /\ f.w \in Fds /\ f.r # f.w
             /\ table[f.r] = <<pipes, "r">> /\ table[f.w] = <<pipes, "w">>
             /\ pipes # 0 /\ made[pipes] = [inst |-> inst, at |-> LinkEnds(Links[cur][f.i])]

\* A number is the client's, a local variable or one node's link.
Holders ==
  /\ \A k \in client : table[k] # Closed /\ ~Local(k)
  /\ \A m \in Nodes, k \in Fds : fdMap[m][k] # NoFd =>
       /\ k \notin client /\ ~Local(k)
       /\ \A o \in Nodes : o # m => fdMap[o][k] = NoFd

\* A link is to an end of a pipe of this startup which the document leads there.
LinkTrue(m, k) ==
  \E p \in 1 .. pipes, e \in Ends :
    table[k] = <<p, e>> /\ made[p].inst = Now /\ Arrives(m, fdMap[m][k], p, e)
LinksTrue == \A m \in Nodes, k \in Fds : fdMap[m][k] # NoFd => LinkTrue(m, k)

\* What a step leaves alone of what is recorded.
Records == pipes' \in Nat /\ pipes' >= pipes /\ \A p \in 1 .. pipes : made[p].at # {} => made'[p] = made[p]

LEMMA LinkTrueStays ==
  ASSUME TypeOK, NEW m \in Nodes, NEW k \in Fds, LinkTrue(m, k), Records, Now' = Now,
         table'[k] = table[k], fdMap'[m][k] = fdMap[m][k]
  PROVE  LinkTrue(m, k)' /\ table[k] # Closed
<1>1. PICK p \in 1 .. pipes, e \in Ends :
        table[k] = <<p, e>> /\ made[p].inst = Now /\ Arrives(m, fdMap[m][k], p, e)
  BY DEF LinkTrue
<1>2. made'[p] = made[p]
  BY <1>1 DEF Records, Arrives
<1>3. p \in 1 .. pipes' /\ p \in Nat
  BY DEF Records, TypeOK
<1>4. \E a \in made'[p].at : a[1] = e /\ Leads(<<a[2], a[3]>>, <<m, fdMap[m][k]>>)
  BY <1>1, <1>2 DEF Arrives
<1>5. table'[k] = <<p, e>> /\ made'[p].inst = Now'
  BY <1>1, <1>2
<1>6. \E a \in made'[p].at : a[1] = e /\ Leads(<<a[2], a[3]>>, <<m, fdMap'[m][k]>>)
  BY <1>4
<1>7. table[k] # Closed
  BY <1>1, <1>3, PipesDiffer
<1> QED
  BY <1>3, <1>5, <1>6, <1>7 DEF LinkTrue, Arrives

\* A linked number is open.
LEMMA LinkedOpen ==
  ASSUME TypeOK, LinksTrue, NEW m \in Nodes, NEW k \in Fds, fdMap[m][k] # NoFd
  PROVE  table[k] # Closed
<1>1. PICK p \in 1 .. pipes, e \in Ends : table[k] = <<p, e>>
  BY DEF LinksTrue, LinkTrue
<1>2. p \in Nat
  BY DEF TypeOK
<1> QED
  BY <1>1, <1>2, PipesDiffer

\* A step that makes no link keeps those that stay.
LEMMA LinksStay ==
  ASSUME TypeOK, Holders, LinksTrue, Records, Now' = Now, client' \subseteq client,
         \A m \in Nodes, k \in Fds : fdMap'[m][k] = fdMap[m][k] \/ fdMap'[m][k] = NoFd,
         \A k \in client' : table'[k] = table[k] /\ ~Local(k)',
         \A m \in Nodes, k \in Fds : fdMap'[m][k] # NoFd => table'[k] = table[k] /\ ~Local(k)'
  PROVE  Holders' /\ LinksTrue'
<1>1. \A k \in client' : table'[k] # Closed
  BY DEF Holders
<1>2. ASSUME NEW m \in Nodes, NEW k \in Fds, fdMap'[m][k] # NoFd
      PROVE  k \notin client' /\ \A o \in Nodes : o # m => fdMap'[o][k] = NoFd
  BY <1>2 DEF Holders
<1>3. ASSUME NEW m \in Nodes, NEW k \in Fds, fdMap'[m][k] # NoFd PROVE LinkTrue(m, k)'
  BY <1>3, LinkTrueStays DEF LinksTrue
<1> QED
  BY <1>1, <1>2, <1>3 DEF Holders, LinksTrue

\* linkFd() makes one more.
LEMMA LinksMore ==
  ASSUME TypeOK, Holders, LinksTrue, Records, Now' = Now, client' = client,
         NEW m \in Nodes, NEW fd \in Nat, NEW x, LinkFd(m, fd, x),
         NEW p \in 1 .. pipes', NEW e \in Ends, table[x] = <<p, e>>,
         made'[p].inst = Now', Arrives(m, fd, p, e)',
         \A k \in Fds : Local(k)' => Local(k) /\ table[k] # Closed
  PROVE  /\ Holders' /\ LinksTrue'
         /\ \A k \in Fds : table[k] # Closed => table'[k] = table[k]
<1>1. PICK k \in Fds :
        /\ table[k] = Closed /\ table'[k] = table[x]
        /\ \A j \in Fds : j # k => table'[j] = table[j]
        /\ fdMap'[m][k] = fd /\ fd # NoFd
        /\ \A o \in Nodes, j \in Fds : o # m \/ j # k => fdMap'[o][j] = fdMap[o][j]
  BY LinkFdFresh
<1>2. k \notin client /\ ~Local(k)' /\ \A o \in Nodes : fdMap[o][k] = NoFd
  BY <1>1, LinkedOpen DEF Holders
<1>3. ASSUME NEW j \in client' PROVE table'[j] # Closed /\ ~Local(j)'
  BY <1>1, <1>2, <1>3 DEF Holders, TypeOK
<1>4. ASSUME NEW o \in Nodes, NEW j \in Fds, fdMap'[o][j] # NoFd
      PROVE  j \notin client' /\ ~Local(j)' /\ \A y \in Nodes : y # o => fdMap'[y][j] = NoFd
  <2>1. CASE j = k
    BY <1>1, <1>2, <1>4, <2>1
  <2>2. CASE j # k
    BY <1>1, <1>4, <2>2 DEF Holders
  <2> QED
    BY <2>1, <2>2
<1>5. ASSUME NEW o \in Nodes, NEW j \in Fds, fdMap'[o][j] # NoFd PROVE LinkTrue(o, j)'
  <2>1. CASE j = k
    <3>1. o = m
      BY <1>1, <1>2, <1>5, <2>1
    <3>2. table'[k] = <<p, e>> /\ fdMap'[m][k] = fd
      BY <1>1
    <3>3. \E a \in made'[p].at : a[1] = e /\ Leads(<<a[2], a[3]>>, <<m, fdMap'[m][k]>>)
      BY <3>2 DEF Arrives
    <3> QED
      BY <2>1, <3>1, <3>2, <3>3 DEF LinkTrue, Arrives
  <2>2. CASE j # k
    BY <1>1, <1>5, <2>2, LinkTrueStays DEF LinksTrue
  <2> QED
    BY <2>1, <2>2
<1> QED
  BY <1>1, <1>3, <1>4, <1>5 DEF Holders, LinksTrue

\* What the local variables refer to is open, and is where it should be.
LEMMA LocalsOpen ==
  ASSUME TypeOK, Locals
  PROVE  \A k \in Fds : Local(k) => table[k] # Closed
<1>1. cur # NoNode => cur \in Launches
  BY DEF TypeOK
<1>2. pipes \in Nat
  BY DEF TypeOK
<1>3. \A e \in {"r", "w", "rw"} : <<pipes, e>> # Closed
  BY <1>2, PipesDiffer DEF Ends
<1> QED
  BY <1>1, <1>3 DEF Locals, Local

\* They stay as they are while startup() makes links.
LEMMA LocalsStay ==
  ASSUME TypeOK, Locals, NEW n \in Launches, Stays(n), UNCHANGED <<inst, pipes, made>>,
         frame'[n].r = frame[n].r, frame'[n].w = frame[n].w,
         \/ frame'[n].op = "socket" /\ frame[n].op = "socket"
         \/ /\ frame'[n].op \in {"from", "close"} /\ frame[n].op \in {"to", "from"}
            /\ frame'[n].i = frame[n].i
         \/ frame'[n].op \notin {"socket", "to", "from", "close"}
  PROVE  /\ \A k \in Fds : Local(k)' => Local(k) /\ table[k] # Closed
         /\ (\A k \in Fds : table[k] # Closed => table'[k] = table[k]) => Locals'
<1>1. cur = n /\ cur' = n /\ n # NoNode
  BY DocumentAssumption DEF Stays, Nodes
<1>2. \A k \in Fds : Local(k)' => Local(k) /\ table[k] # Closed
  BY <1>1, LocalsOpen DEF Local
<1>3. ASSUME \A k \in Fds : table[k] # Closed => table'[k] = table[k] PROVE Locals'
  <2>1. CASE frame'[n].op = "socket" /\ frame[n].op = "socket"
    <3>1. frame[n].r \in Fds /\ table[frame[n].r] = <<pipes, "rw">> /\ pipes # 0
          /\ made[pipes] = [inst |-> inst, at |-> SocketEnds(n)] /\ Local(frame[n].r)
      BY <1>1, <2>1 DEF Locals, Local
    <3>2. table'[frame[n].r] = table[frame[n].r]
      BY <1>3, <3>1, LocalsOpen
    <3> QED
      BY <1>1, <2>1, <3>1, <3>2 DEF Locals
  <2>2. CASE /\ frame'[n].op \in {"from", "close"} /\ frame[n].op \in {"to", "from"}
             /\ frame'[n].i = frame[n].i
    <3>1. /\ frame[n].r \in Fds /\ frame[n].w \in Fds /\ frame[n].r # frame[n].w
          /\ table[frame[n].r] = <<pipes, "r">> /\ table[frame[n].w] = <<pipes, "w">>
          /\ pipes # 0 /\ made[pipes] = [inst |-> inst, at |-> LinkEnds(Links[n][frame[n].i])]
          /\ Local(frame[n].r) /\ Local(frame[n].w)
      BY <1>1, <2>2 DEF Locals, Local
    <3>2. table'[frame[n].r] = table[frame[n].r] /\ table'[frame[n].w] = table[frame[n].w]
      BY <1>3, <3>1, LocalsOpen
    <3> QED
      BY <1>1, <2>2, <3>1, <3>2 DEF Locals
  <2>3. CASE frame'[n].op \notin {"socket", "to", "from", "close"}
    BY <1>1, <2>3 DEF Locals
  <2> QED
    BY <2>1, <2>2, <2>3
<1> QED
  BY <1>2, <1>3

Hands == Locals /\ Holders /\ LinksTrue

\* A link that startup() makes is to one of its local variables, or to what is
\* linked to its own node.
LEMMA HandsLink ==
  ASSUME IInv, Within, Hands, NEW n \in Launches,
         SocketLink(n) \/ LinkTo(n) \/ LinkFrom(n) \/ Externalize(n)
  PROVE  Hands'
<1>0. TypeOK /\ Locals /\ Holders /\ LinksTrue
  BY DEF IInv, Hands
<1>1. frame[n].i \in Nat \ {0} /\ n # NoNode /\ pipes \in Nat /\ n \in Nodes
  BY <1>0, FrameAt, DocumentAssumption DEF TypeOK, Nodes
<1>2. /\ Stays(n) /\ UNCHANGED <<client, rest, pipes, made>>
      /\ frame'[n].r = frame[n].r /\ frame'[n].w = frame[n].w
      /\ \/ frame'[n].op = "socket" /\ frame[n].op = "socket"
         \/ /\ frame'[n].op \in {"from", "close"} /\ frame[n].op \in {"to", "from"}
            /\ frame'[n].i = frame[n].i
         \/ frame'[n].op \notin {"socket", "to", "from", "close"}
  BY <1>0, SocketLinkDoes, LinkToDoes, LinkFromDoes, ExternalizeDoes DEF Goes
<1>3. cur = n /\ cur' = n /\ Now' = Now /\ Now = inst /\ Records /\ UNCHANGED <<inst, pipes, made>>
  BY <1>1, <1>2 DEF Stays, Now, Records, rest
<1>4. /\ \A k \in Fds : Local(k)' => Local(k) /\ table[k] # Closed
      /\ (\A k \in Fds : table[k] # Closed => table'[k] = table[k]) => Locals'
  BY <1>0, <1>2, <1>3, LocalsStay
<1>5. ASSUME NEW m \in Nodes, NEW fd \in Nat, NEW x, LinkFd(m, fd, x),
             NEW p \in 1 .. pipes, NEW e \in Ends, table[x] = <<p, e>>,
             made[p].inst = Now, Arrives(m, fd, p, e)
      PROVE  Hands'
  <2>1. p \in 1 .. pipes' /\ made'[p].inst = Now'
    BY <1>3, <1>5
  <2>2. Arrives(m, fd, p, e)'
    BY <1>3, <1>5 DEF Arrives
  <2>3. client' = client
    BY <1>2
  <2>4. /\ Holders' /\ LinksTrue'
        /\ \A k \in Fds : table[k] # Closed => table'[k] = table[k]
    BY <1>0, <1>3, <1>4, <1>5, <2>1, <2>2, <2>3, LinksMore
  <2> QED
    BY <1>4, <2>4 DEF Hands
<1>6. \A a : Leads(a, a)
  BY DEF Leads
<1>7. CASE SocketLink(n)
  <2> DEFINE s == Sockets[n][frame[n].i]
  <2>1. /\ frame[n].op = "socket" /\ frame[n].i <= Len(Sockets[n]) /\ LinkFd(s.node, s.fd, frame[n].r)
    BY <1>0, <1>7, SocketLinkDoes
  <2>2. /\ table[frame[n].r] = <<pipes, "rw">> /\ pipes # 0
        /\ made[pipes] = [inst |-> inst, at |-> SocketEnds(n)]
    BY <1>0, <1>1, <1>3, <2>1 DEF Locals
  <2>3. s \in [node : Kids[n], fd : Nat] /\ frame[n].i \in DOMAIN Sockets[n]
    <3>2. Sockets[n] \in Seq([node : Kids[n], fd : Nat])
      BY DocumentAssumption
    <3>3. frame[n].i \in DOMAIN Sockets[n]
      <4> DEFINE S == [node : Kids[n], fd : Nat]
      <4> HIDE DEF S
      <4>1. Sockets[n] \in Seq(S)
        BY <3>2 DEF S
      <4> QED
        BY <1>1, <2>1, <4>1
    <3> QED
      BY <1>1, <2>1, <3>3, DocumentType
  <2>4. s.node \in Nodes /\ s.fd \in Nat
    BY <2>3, DocumentTree
  <2>5. Arrives(s.node, s.fd, pipes, "rw")
    <3>1. <<"rw", s.node, s.fd>> \in made[pipes].at
      BY <2>2, <2>3 DEF SocketEnds
    <3> QED
      BY <1>6, <3>1 DEF Arrives
  <2>6. pipes \in 1 .. pipes /\ made[pipes].inst = Now /\ "rw" \in Ends
    BY <1>1, <1>3, <2>2 DEF Ends
  <2> QED
    BY <1>5, <2>1, <2>2, <2>4, <2>5, <2>6
<1>8. ASSUME LinkTo(n) \/ LinkFrom(n) PROVE Hands'
  <2> DEFINE l == Links[n][frame[n].i]
  <2>1. /\ frame[n].op \in {"to", "from"} /\ frame[n].i <= Len(Links[n])
        /\ \/ LinkFd(l.to, l.to_fd, frame[n].r)
           \/ LinkFd(l.from, l.from_fd, frame[n].w)
    BY <1>0, <1>8, LinkToDoes, LinkFromDoes
  <2>2. /\ table[frame[n].r] = <<pipes, "r">> /\ table[frame[n].w] = <<pipes, "w">> /\ pipes # 0
        /\ made[pipes] = [inst |-> inst, at |-> LinkEnds(l)]
    BY <1>0, <1>1, <1>3, <2>1 DEF Locals
  <2>3. /\ l.to \in Nodes /\ l.to_fd \in Nat /\ l.from \in Nodes /\ l.from_fd \in Nat
    BY <1>1, <2>1, LinkEndsType, DocumentTree
  <2>4. Arrives(l.to, l.to_fd, pipes, "r") /\ Arrives(l.from, l.from_fd, pipes, "w")
    <3>1. <<"r", l.to, l.to_fd>> \in made[pipes].at /\ <<"w", l.from, l.from_fd>> \in made[pipes].at
      BY <2>2 DEF LinkEnds
    <3> QED
      BY <1>6, <3>1 DEF Arrives
  <2>5. pipes \in 1 .. pipes /\ made[pipes].inst = Now /\ "r" \in Ends /\ "w" \in Ends
    BY <1>1, <1>3, <2>2 DEF Ends
  <2>6. CASE LinkFd(l.to, l.to_fd, frame[n].r)
    BY <1>5, <2>2, <2>3, <2>4, <2>5, <2>6
  <2>7. CASE LinkFd(l.from, l.from_fd, frame[n].w)
    BY <1>5, <2>2, <2>3, <2>4, <2>5, <2>7
  <2> QED
    BY <2>1, <2>6, <2>7
<1>9. CASE Externalize(n)
  <2> DEFINE x == Externals[n][frame[n].i]
  <2>1. /\ frame[n].op = "extern" /\ frame[n].i <= Len(Externals[n])
        /\ \/ UNCHANGED <<table, fdMap>>
           \/ \E k \in Fds : fdMap[n][k] = x.external /\ LinkFd(x.node, x.internal, k)
    BY <1>0, <1>9, ExternalizeDoes
  <2>2. frame[n].i \in DOMAIN Externals[n]
    BY <1>1, <2>1, TaskAt
  <2>3. x.external \in Nat /\ x.internal \in Nat /\ x.node \in Nodes
    BY <2>2, ExternalType, DocumentTree
  <2>4. CASE UNCHANGED <<table, fdMap>>
    <3>1. frame'[n].op = "extern"
      BY <1>0, <1>9, ExternalizeDoes DEF Goes
    <3>2. \A k \in Fds : ~Local(k)'
      BY <1>3, <3>1 DEF Local
    <3>3. client' \subseteq Fds /\ client' = client
      BY <1>0, <1>2 DEF TypeOK
    <3>4. Holders' /\ LinksTrue'
      BY <1>0, <1>3, <2>4, <3>2, <3>3, LinksStay
    <3> QED
      BY <1>4, <2>4, <3>4 DEF Hands
  <2>5. ASSUME NEW k \in Fds, fdMap[n][k] = x.external, LinkFd(x.node, x.internal, k) PROVE Hands'
    <3>1. fdMap[n][k] # NoFd
      BY <2>3, <2>5 DEF NoFd
    <3>2. PICK p \in 1 .. pipes, e \in Ends :
            table[k] = <<p, e>> /\ made[p].inst = Now /\ Arrives(n, x.external, p, e)
      BY <1>0, <1>1, <2>5, <3>1 DEF LinksTrue, LinkTrue
    <3>3. Arrives(x.node, x.internal, p, e)
      BY <2>2, <3>2, ArrivesOn
    <3> QED
      BY <1>5, <2>3, <2>5, <3>2, <3>3
  <2> QED
    BY <2>1, <2>4, <2>5
<1> QED
  BY <1>7, <1>8, <1>9

LEMMA HandsClose ==
  ASSUME IInv, Within, Hands, NEW n \in Launches,
         SocketClose(n) \/ CloseEnds(n) \/ LinksMade(n) \/ ExternalsMade(n)
  PROVE  Hands'
<1>0. TypeOK /\ Locals /\ Holders /\ LinksTrue /\ pipes \in Nat /\ n # NoNode
  BY DocumentAssumption DEF IInv, Hands, TypeOK, Nodes
<1>1. /\ Stays(n) /\ UNCHANGED <<fdMap, client, rest, pipes, made>>
      /\ frame'[n].op \in {"link", "extern", "subs"}
  BY <1>0, SocketCloseDoes, CloseEndsDoes, LinksMadeDoes, ExternalsMadeDoes DEF Goes
<1>2. cur = n /\ cur' = n /\ Now' = Now /\ Records
  BY <1>0, <1>1 DEF Stays, Now, Records, rest
<1>3. (\A k \in Fds : ~Local(k)') /\ Locals'
  BY <1>0, <1>1, <1>2 DEF Local, Locals
<1>4. \A k \in Fds : ~Local(k) => table'[k] = table[k]
  <2>1. CASE SocketClose(n)
    <3>1. /\ frame[n].op = "socket" /\ table' = [table EXCEPT ![frame[n].r] = Closed]
      BY <1>0, <2>1, SocketCloseDoes
    <3> QED
      BY <1>0, <1>2, <3>1 DEF Local, TypeOK
  <2>2. CASE CloseEnds(n)
    <3>1. /\ frame[n].op = "close"
          /\ table' = [k \in Fds |-> IF k \in {frame[n].r, frame[n].w} THEN Closed ELSE table[k]]
      BY <1>0, <2>2, CloseEndsDoes
    <3> QED
      BY <1>0, <1>2, <3>1 DEF Local
  <2>3. CASE LinksMade(n) \/ ExternalsMade(n)
    BY <1>0, <2>3, LinksMadeDoes, ExternalsMadeDoes
  <2> QED
    BY <2>1, <2>2, <2>3
<1>5. \A k \in client' : table'[k] = table[k] /\ ~Local(k)'
  BY <1>0, <1>1, <1>3, <1>4 DEF Holders, TypeOK
<1>6. \A m \in Nodes, k \in Fds : fdMap'[m][k] # NoFd => table'[k] = table[k] /\ ~Local(k)'
  BY <1>0, <1>1, <1>3, <1>4 DEF Holders
<1>7. Holders' /\ LinksTrue'
  BY <1>0, <1>1, <1>2, <1>5, <1>6, LinksStay
<1> QED
  BY <1>3, <1>7 DEF Hands

LEMMA HandsPipe ==
  ASSUME IInv, Within, Hands, NEW n \in Launches, MakePipe(n)
  PROVE  Hands'
<1>0. TypeOK /\ Locals /\ Holders /\ LinksTrue /\ pipes \in Nat /\ n # NoNode
  BY DocumentAssumption DEF IInv, Hands, TypeOK, Nodes
<1> DEFINE r == frame'[n].r
           w == frame'[n].w
<1>1. /\ Stays(n) /\ UNCHANGED <<fdMap, client, rest>>
      /\ frame'[n].op = "to" /\ frame'[n].i = frame[n].i /\ r \in Fds /\ w \in Fds
      /\ OpensPipe(r, w)
  BY <1>0, MakePipeDoes
<1>2. /\ r # w /\ table[r] = Closed /\ table[w] = Closed
      /\ table'[r] = <<pipes + 1, "r">> /\ table'[w] = <<pipes + 1, "w">>
      /\ \A k \in Fds : k # r /\ k # w => table'[k] = table[k]
  <2> HIDE DEF r, w
  <2> QED
    BY <1>0, <1>1, OpensPipeFresh
<1>3. /\ pipes' = pipes + 1
      /\ made'[pipes + 1] = [inst |-> inst, at |-> LinkEnds(Links[n][frame[n].i])]
      /\ \A p \in 1 .. pipes : made'[p] = made[p]
  BY <1>0, MakePipeMakes
<1>4. cur = n /\ cur' = n /\ Now' = Now /\ inst' = inst /\ Records
  BY <1>0, <1>1, <1>3 DEF Stays, Now, Records, rest
<1>5. \A k \in Fds : Local(k)' <=> k \in {r, w}
  BY <1>0, <1>1, <1>4 DEF Local
<1>6. Locals'
  BY <1>0, <1>1, <1>2, <1>3, <1>4 DEF Locals
<1>7. \A k \in Fds : table[k] # Closed => table'[k] = table[k] /\ ~Local(k)'
  BY <1>2, <1>5
<1>8. \A k \in client' : table'[k] = table[k] /\ ~Local(k)'
  BY <1>0, <1>1, <1>7 DEF Holders, TypeOK
<1>9. \A m \in Nodes, k \in Fds : fdMap'[m][k] # NoFd => table'[k] = table[k] /\ ~Local(k)'
  BY <1>0, <1>1, <1>7, LinkedOpen
<1>10. Holders' /\ LinksTrue'
  BY <1>0, <1>1, <1>4, <1>8, <1>9, LinksStay
<1> QED
  BY <1>6, <1>10 DEF Hands

\* The start of a sub-node, and the return of startup(), close its links.
LEMMA HandsStart ==
  ASSUME IInv, IInv', Below, Hands, NEW n \in Launches,
         Returns(n) \/ \E s \in Nodes : StartLeaf(n, s) \/ StartLaunch(n, s)
  PROVE  Hands'
<1>0. TypeOK /\ Locals /\ Holders /\ LinksTrue /\ pipes \in Nat /\ n # NoNode /\ n \in Nodes
  BY DocumentAssumption DEF IInv, Hands, TypeOK, Nodes
<1>1. /\ UNCHANGED <<client, pipes, made, inst>>
      /\ cur' # NoNode => cur' \in Launches /\ frame'[cur'].op \in {"link", "subs"}
  <2>1. ASSUME NEW s \in Nodes, StartLeaf(n, s)
        PROVE  /\ UNCHANGED <<client, pipes, made, inst>>
               /\ cur' \in Launches /\ frame'[cur'].op \in {"link", "subs"}
    BY <1>0, <2>1, StartLeafDoes
  <2>2. ASSUME NEW s \in Nodes, StartLaunch(n, s)
        PROVE  /\ UNCHANGED <<client, pipes, made, inst>>
               /\ cur' \in Launches /\ frame'[cur'].op \in {"link", "subs"}
    BY <2>2, StartLaunchDoes DEF rest
  <2>3. CASE Returns(n)
    <3>1. /\ UNCHANGED <<client, pipes, made, inst>> /\ cur = n
          /\ n = root => cur' = NoNode
          /\ n # root => cur' \in Launches /\ cur' # n /\ n \in Kids[cur']
          /\ \A m \in Launches : m # n => frame'[m] = frame[m]
          /\ \A m \in Launches : Active(m)' <=> Active(m) /\ m # n
      BY <2>3, ReturnsDoes DEF rest
    <3>2. ASSUME cur' # NoNode PROVE cur' \in Launches /\ frame'[cur'].op # "idle" /\ cur' # n
      <4>1. frame'[cur'].op # "idle"
        BY <3>2, DocumentTree DEF IInv, Chain, Active
      <4> QED
        BY <3>1, <3>2, <4>1
    <3>3. ASSUME cur' # NoNode PROVE frame'[cur'].op = "subs"
      BY <3>1, <3>2, <3>3 DEF Below, Active
    <3> QED
      BY <3>1, <3>2, <3>3
  <2> QED
    BY <2>1, <2>2, <2>3
<1>2. (\A k \in Fds : ~Local(k)') /\ Locals' /\ Records
  BY <1>0, <1>1 DEF Local, Locals, Records
<1>3. ASSUME NEW s \in Nodes, CloseFds(s), Now' = Now PROVE Hands'
  <2>1. /\ \A k \in Fds : table'[k] = IF fdMap[s][k] # NoFd THEN Closed ELSE table[k]
        /\ \A k \in Fds : fdMap'[s][k] = NoFd
        /\ \A m \in Nodes, k \in Fds : m # s => fdMap'[m][k] = fdMap[m][k]
    BY <1>0, <1>3, CloseFdsExactly
  <2>2. \A k \in client' : table'[k] = table[k] /\ ~Local(k)'
    BY <1>0, <1>1, <1>2, <2>1 DEF Holders, TypeOK
  <2>3. \A m \in Nodes, k \in Fds : fdMap'[m][k] # NoFd => table'[k] = table[k] /\ ~Local(k)'
    BY <1>0, <1>2, <2>1 DEF Holders
  <2>4. \A m \in Nodes, k \in Fds : fdMap'[m][k] = fdMap[m][k] \/ fdMap'[m][k] = NoFd
    BY <2>1
  <2>5. client' \subseteq client
    BY <1>1
  <2>6. Holders' /\ LinksTrue'
    BY <1>0, <1>2, <1>3, <2>2, <2>3, <2>4, <2>5, LinksStay
  <2> QED
    BY <1>2, <2>6 DEF Hands
<1>4. ASSUME NEW s \in Nodes, StartLeaf(n, s) PROVE Hands'
  <2>1. CloseFds(s) /\ Now' = Now
    BY <1>0, <1>4, StartLeafDoes DEF Now
  <2> QED
    BY <1>3, <2>1
<1>5. ASSUME NEW s \in Nodes, StartLaunch(n, s) PROVE Hands'
  <2>1. UNCHANGED <<table, fdMap, client>> /\ cur = n /\ cur' = s /\ s # NoNode
    BY <1>5, StartLaunchDoes, DocumentAssumption DEF rest
  <2>2. Now' = Now
    BY <1>0, <1>1, <2>1 DEF Now
  <2>3. client' = client /\ client \subseteq Fds
    BY <1>0, <1>1 DEF TypeOK
  <2>4. Holders' /\ LinksTrue'
    BY <1>0, <1>2, <2>1, <2>2, <2>3, LinksStay
  <2> QED
    BY <1>2, <2>4 DEF Hands
<1>6. CASE Returns(n)
  <2>1. CloseFds(n) /\ cur = n /\ (n = root => cur' = NoNode) /\ (n # root => cur' \in Launches)
        /\ ~exited /\ exited' = exited
    BY <1>6, ReturnsDoes DEF rest
  <2>2. CASE n # root
    <3>1. Now' = Now
      BY <1>0, <1>1, <2>1, <2>2, DocumentTree DEF Now
    <3> QED
      BY <1>0, <1>3, <2>1, <3>1
  <2>3. CASE n = root
    <3>1. \A m \in Nodes, k \in Fds : fdMap'[m][k] = NoFd
      <4>1. \A m \in Nodes, k \in Fds : fdMap'[m][k] # NoFd => m = root'
        BY <2>1, <2>3 DEF IInv, Pending
      <4>2. root' = root
        BY <1>6 DEF Returns, status
      <4> QED
        BY <1>0, <2>1, <2>3, <4>1, <4>2, CloseFdsExactly
    <3>2. \A k \in client : table'[k] = table[k]
      BY <1>0, <2>1, CloseFdsExactly DEF Holders, TypeOK
    <3>3. client' = client /\ client \subseteq Fds
      BY <1>0, <1>1 DEF TypeOK
    <3>4. Holders' /\ LinksTrue'
      BY <1>0, <1>2, <3>1, <3>2, <3>3 DEF Holders, LinksTrue
    <3> QED
      BY <1>2, <3>4 DEF Hands
  <2> QED
    BY <2>2, <2>3
<1> QED
  BY <1>4, <1>5, <1>6

\* The steps of the client, the calls of startup() included.
LEMMA HandsBegin ==
  ASSUME IInv, Hands, Startup \/ Accept
  PROVE  Hands'
<1>0. TypeOK /\ Locals /\ Holders /\ LinksTrue /\ pipes \in Nat
  BY DEF IInv, Hands, TypeOK
<1>1. /\ cur = NoNode /\ cur' = root /\ inst' = inst + 1 /\ inst \in Nat /\ root # NoNode
      /\ root' = root /\ UNCHANGED <<fdMap, client>> /\ client \subseteq Fds
  BY <1>0, BeginsDoes, DocumentTree DEF TypeOK
<1>2. Now' = Now
  BY <1>1 DEF Now
<1>3. CASE Startup
  <2>1. UNCHANGED <<table, pipes, made>> /\ frame'[root].op = "link"
    <3>1. Moves(root, Frame("link", NoFd, NoNode)) /\ UNCHANGED <<table, pipes, made>>
      BY <1>3 DEF Startup
    <3>2. root \in Launches /\ frame \in [Launches -> Frames]
      BY <1>0, BeginsDoes DEF TypeOK
    <3> QED
      BY <3>1, <3>2 DEF Moves, Frame
  <2>2. (\A k \in Fds : ~Local(k)') /\ Locals' /\ Records
    BY <1>0, <1>1, <2>1 DEF Local, Locals, Records
  <2>3. Holders' /\ LinksTrue'
    BY <1>0, <1>1, <1>2, <2>1, <2>2, LinksStay
  <2> QED
    BY <2>2, <2>3 DEF Hands
<1>4. CASE Accept
  <2>1. PICK k \in Fds : /\ Lowest(k, Free(-1))
                         /\ table' = [table EXCEPT ![k] = <<pipes + 1, "rw">>]
                         /\ Moves(root, Frame("socket", k, NoNode))
    BY <1>4 DEF Accept
  <2>2. table[k] = Closed /\ table'[k] = <<pipes + 1, "rw">> /\ \A j \in Fds : j # k => table'[j] = table[j]
    BY <1>0, <2>1 DEF Lowest, Free, TypeOK
  <2>3. frame'[root].op = "socket" /\ frame'[root].r = k
    <3>1. root \in Launches /\ frame \in [Launches -> Frames]
      BY <1>0, BeginsDoes, <1>4 DEF TypeOK
    <3> QED
      BY <2>1, <3>1 DEF Moves, Frame
  <2>4. /\ pipes' = pipes + 1
        /\ made'[pipes + 1] = [inst |-> inst + 1, at |-> SocketEnds(root)]
        /\ \A p \in 1 .. pipes : made'[p] = made[p]
    BY <1>4, AcceptMakes
  <2>5. (\A j \in Fds : Local(j)' <=> j = k) /\ Locals' /\ Records
    BY <1>0, <1>1, <2>2, <2>3, <2>4 DEF Local, Locals, Records
  <2>6. \A j \in Fds : table[j] # Closed => table'[j] = table[j] /\ ~Local(j)'
    BY <2>2, <2>5
  <2>7. \A j \in client' : table'[j] = table[j] /\ ~Local(j)'
    BY <1>0, <1>1, <2>6 DEF Holders
  <2>8. \A m \in Nodes, j \in Fds : fdMap'[m][j] # NoFd => table'[j] = table[j] /\ ~Local(j)'
    BY <1>0, <1>1, <2>6, LinkedOpen
  <2>9. Holders' /\ LinksTrue'
    BY <1>0, <1>1, <1>2, <2>5, <2>7, <2>8, LinksStay
  <2> QED
    BY <2>5, <2>9 DEF Hands
<1> QED
  BY <1>3, <1>4

LEMMA HandsClient ==
  ASSUME IInv, TableKnown, Hands,
         \/ ClientPipe \/ Beside
         \/ \E k \in Fds : ClientClose(k) \/ \E fd \in ClientLinks : ClientLink(k, fd)
  PROVE  Hands'
<1>0. TypeOK /\ Locals /\ Holders /\ LinksTrue /\ pipes \in Nat /\ client \subseteq Fds /\ inst \in Nat
  BY DocumentAssumption DEF IInv, Hands, TypeOK
<1>1. /\ UNCHANGED <<frame, cur, inst>> /\ Now' = Now /\ \A k \in Fds : Local(k)' <=> Local(k)
  BY BesideDoes DEF Now, Local
<1>2. ASSUME cur = NoNode PROVE (\A k \in Fds : ~Local(k)') /\ Locals'
  BY <1>1, <1>2 DEF Local, Locals
<1>3. CASE Beside
  <2>1. UNCHANGED <<table, fdMap, client, pipes, made>>
    BY <1>3 DEF Beside, ghosts
  <2>2. Records /\ Locals'
    BY <1>0, <1>1, <2>1 DEF Records, Locals
  <2>3. Holders'
    BY <1>0, <1>1, <2>1 DEF Holders
  <2>4. LinksTrue'
    BY <1>0, <1>1, <2>1, <2>2, LinkTrueStays DEF LinksTrue
  <2> QED
    BY <2>2, <2>3, <2>4 DEF Hands
<1>4. CASE ClientPipe
  <2>1. PICK r \in Fds, w \in Fds : OpensPipe(r, w) /\ client' = {r, w}
    BY <1>4 DEF ClientPipe
  <2>2. /\ table[r] = Closed /\ table[w] = Closed
        /\ table'[r] = <<pipes + 1, "r">> /\ table'[w] = <<pipes + 1, "w">>
        /\ \A k \in Fds : k # r /\ k # w => table'[k] = table[k]
    BY <1>0, <2>1, OpensPipeFresh
  <2>3. cur = NoNode /\ fdMap' = fdMap
    BY <1>4 DEF ClientPipe, Idling
  <2>4. Records
    BY <1>0, <1>4, ClientPipeMakes DEF Records
  <2>5. \A m \in Nodes, k \in Fds : fdMap[m][k] # NoFd => k # r /\ k # w /\ table'[k] = table[k]
    BY <1>0, <2>2, LinkedOpen
  <2>6. LinksTrue'
    BY <1>0, <1>1, <2>3, <2>4, <2>5, LinkTrueStays DEF LinksTrue
  <2>7. table'[r] # Closed /\ table'[w] # Closed
    <3>1. pipes + 1 \in Nat /\ "r" \in Ends /\ "w" \in Ends
      BY <1>0 DEF Ends
    <3> QED
      BY <2>2, <3>1, PipesDiffer
  <2>8. Holders'
    BY <1>0, <1>2, <2>1, <2>3, <2>5, <2>7 DEF Holders
  <2> QED
    BY <1>2, <2>3, <2>6, <2>8 DEF Hands
<1>5. ASSUME NEW k \in Fds, ClientClose(k) PROVE Hands'
  <2>1. /\ cur = NoNode /\ k \in client /\ client' = client \ {k} /\ UNCHANGED <<fdMap, pipes, made>>
        /\ \A j \in Fds : j # k => table'[j] = table[j]
    BY <1>0, <1>5 DEF ClientClose, Idling, ghosts, TypeOK
  <2>2. Records
    BY <1>0, <2>1 DEF Records
  <2>3. \A j \in client' : table'[j] = table[j] /\ ~Local(j)'
    BY <1>0, <1>2, <2>1
  <2>4. \A m \in Nodes, j \in Fds : fdMap'[m][j] # NoFd => table'[j] = table[j] /\ ~Local(j)'
    BY <1>0, <1>2, <2>1 DEF Holders
  <2>5. client' \subseteq client
    BY <2>1
  <2>6. \A m \in Nodes, j \in Fds : fdMap'[m][j] = fdMap[m][j] \/ fdMap'[m][j] = NoFd
    BY <2>1
  <2>7. Holders' /\ LinksTrue'
    BY <1>0, <1>1, <2>2, <2>3, <2>4, <2>5, <2>6, LinksStay
  <2> QED
    BY <1>2, <2>1, <2>7 DEF Hands
<1>6. ASSUME NEW k \in Fds, NEW fd \in ClientLinks, ClientLink(k, fd) PROVE Hands'
  <2>0. TypeOK
    BY <1>0
  <2>1. /\ fd \in Nat /\ cur = NoNode /\ LinkFd(root, fd, k) /\ client' = client /\ pipes' = pipes
    BY <2>0, <1>6, ClientLinkDoes
  <2>2. \E p \in 1 .. pipes, e \in Ends :
          /\ table[k] = <<p, e>> /\ made[p].at = {}
          /\ made'[p] = [inst |-> inst + 1, at |-> {<<e, root, fd>>}]
          /\ \A o \in 1 .. pipes : o # p => made'[o] = made[o]
    BY <2>0, <1>6, ClientLinkDoes
  <2>3. PICK p \in 1 .. pipes, e \in Ends :
          /\ table[k] = <<p, e>> /\ made[p].at = {}
          /\ made'[p] = [inst |-> inst + 1, at |-> {<<e, root, fd>>}]
          /\ \A o \in 1 .. pipes : o # p => made'[o] = made[o]
    BY <2>2
  <2>4. Records /\ p \in 1 .. pipes' /\ made'[p].inst = Now'
    BY <1>0, <1>1, <2>1, <2>3 DEF Records, Now
  <2>5. PICK m \in Nodes : m = root
    BY <1>0, DocumentTree DEF TypeOK, Nodes
  <2>6. Arrives(m, fd, p, e)'
    <3>1. <<e, m, fd>> \in made'[p].at
      BY <2>3, <2>5
    <3>2. \A a : Leads(a, a)
      BY DEF Leads
    <3> QED
      BY <3>1, <3>2 DEF Arrives
  <2>7. \A j \in Fds : Local(j)' => Local(j) /\ table[j] # Closed
    BY <1>2, <2>1
  <2>8. Holders' /\ LinksTrue'
    <3>1. LinkFd(m, fd, k) /\ fd \in Nat /\ client' = client /\ Now' = Now /\ table[k] = <<p, e>>
      BY <1>1, <2>1, <2>3, <2>5
    <3> QED
      BY <1>0, <2>4, <2>6, <2>7, <3>1, LinksMore
  <2> QED
    BY <1>2, <2>1, <2>8 DEF Hands
<1> QED
  BY <1>3, <1>4, <1>5, <1>6

LEMMA HandsNext ==
  ASSUME IInv, IInv', Within, TableKnown, Below, Hands, Fine', [Next]_vars
  PROVE  Hands'
<1>1. TypeOK
  BY DEF IInv
<1> QED
  BY <1>1, FineSteps, HandsLink, HandsClose, HandsPipe, HandsStart, HandsBegin, HandsClient

\* In the beginning nobody has anything.
LEMMA HandsInit == Init => Below /\ Past /\ Apart /\ Numbers /\ Hands
<1> SUFFICES ASSUME Init PROVE Below /\ Past /\ Apart /\ Numbers /\ Hands
  OBVIOUS
<1>1. /\ frame = [n \in Launches |-> Idle] /\ cur = NoNode /\ running = {} /\ client = {}
      /\ pipes = 0 /\ fdMap = [n \in Nodes |-> NoLinks]
      /\ table = [k \in Fds |-> IF k \in Stdio THEN Tty ELSE Closed]
      /\ image = [q \in Leaves \X (1 .. MaxInst) |-> [k \in Fds |-> Closed]]
  BY DEF Init
<1>2. \A n \in Launches : ~Active(n)
  BY <1>1 DEF Active, Idle, Frame
<1>3. Below /\ Past /\ Apart
  BY <1>1, <1>2 DEF Below, Past, Apart, Ahead, Waits
<1>4. TableKnown
  BY <1>1, PipesDiffer DEF TableKnown
<1>5. ImageKnown
  BY <1>1, PipesDiffer DEF ImageKnown, Processes
<1>6. MadeThen
  BY <1>1 DEF MadeThen
<1>7. \A m \in Nodes, k \in Fds : fdMap[m][k] = NoFd
  BY <1>1 DEF NoLinks
<1>8. Hands
  BY <1>1, <1>7 DEF Hands, Locals, Holders, LinksTrue
<1> QED
  BY <1>3, <1>4, <1>5, <1>6, <1>8 DEF Numbers

-----------------------------------------------------------------------------
(* What a program holds *)

\* It is led there, from a pipe of the startup that started the program.
ImagesTrue ==
  \A q \in running, k \in Fds, p \in 1 .. pipes, e \in Ends :
    image[q][k] = <<p, e>> => made[p].inst = q[2] /\ Arrives(q[1], k, p, e)

LEMMA RecordsNext ==
  ASSUME IInv, Within, TableKnown, [Next]_vars
  PROVE  Records
<1>0. TypeOK /\ pipes \in Nat
  BY DEF IInv, TypeOK
<1>1. ASSUME NEW k \in Fds, NEW fd \in ClientLinks, ClientLink(k, fd) PROVE Records
  <2>0. TypeOK
    BY <1>0
  <2>1. pipes' = pipes
    BY <2>0, <1>1, ClientLinkDoes
  <2>2. \E p \in 1 .. pipes, e \in Ends :
          /\ table[k] = <<p, e>> /\ made[p].at = {}
          /\ made'[p] = [inst |-> inst + 1, at |-> {<<e, root, fd>>}]
          /\ \A o \in 1 .. pipes : o # p => made'[o] = made[o]
    BY <2>0, <1>1, ClientLinkDoes
  <2> QED
    BY <1>0, <2>1, <2>2 DEF Records
<1>2. CASE ClientPipe \/ Accept \/ \E n \in Launches : MakePipe(n)
  <2>1. pipes' = pipes + 1 /\ \A p \in 1 .. pipes : made'[p] = made[p]
    BY <1>0, <1>2, ClientPipeMakes, AcceptMakes, MakePipeMakes
  <2> QED
    BY <1>0, <2>1 DEF Records
<1>3. CASE UNCHANGED <<pipes, made>>
  BY <1>0, <1>3 DEF Records
<1> QED
  BY <1>1, <1>2, <1>3, MadeStays

\* The program that starts gets what is linked to it.
LEMMA ImageTrue ==
  ASSUME TypeOK, LinksTrue, NEW s \in Nodes, NEW k \in Fds, NEW p \in 1 .. pipes, NEW e \in Ends,
         Image(s)[k] = <<p, e>>
  PROVE  made[p].inst = Now /\ Arrives(s, k, p, e)
<1>1. p \in Nat /\ k # NoFd
  BY DocumentAssumption DEF TypeOK, Fds, NoFd
<1>2. PICK j \in Fds : Last(j, Linked(s, k)) /\ table[j] = <<p, e>>
  BY <1>1, ImageIs, PipesDiffer
<1>3. fdMap[s][j] = k
  BY <1>2 DEF Last, Linked
<1>4. PICK o \in 1 .. pipes, d \in Ends :
        table[j] = <<o, d>> /\ made[o].inst = Now /\ Arrives(s, fdMap[s][j], o, d)
  BY <1>1, <1>3 DEF LinksTrue, LinkTrue
<1>5. o = p /\ d = e
  BY <1>2, <1>4
<1> QED
  BY <1>3, <1>4, <1>5

LEMMA ImagesTrueNext ==
  ASSUME IInv, Within, TableKnown, ImageKnown, LinksTrue, ImagesTrue, [Next]_vars
  PROVE  ImagesTrue'
<1>0. TypeOK /\ Records
  BY RecordsNext DEF IInv
<1> SUFFICES ASSUME NEW q \in running', NEW k \in Fds, NEW p \in 1 .. pipes', NEW e \in Ends,
                    image'[q][k] = <<p, e>>
             PROVE  made'[p].inst = q[2] /\ Arrives(q[1], k, p, e)'
  BY DEF ImagesTrue
<1>1. ASSUME q \in running, image'[q] = image[q]
      PROVE  made'[p].inst = q[2] /\ Arrives(q[1], k, p, e)'
  <2>1. q \in Processes /\ p \in Nat
    BY <1>0, <1>1 DEF TypeOK, Records
  <2>2. p \in 1 .. pipes
    BY <1>1, <2>1 DEF ImageKnown
  <2>3. made[p].inst = q[2] /\ Arrives(q[1], k, p, e)
    BY <1>1, <2>2 DEF ImagesTrue
  <2>4. made'[p] = made[p]
    BY <1>0, <2>2, <2>3 DEF Arrives, Records
  <2> QED
    BY <2>3, <2>4 DEF Arrives
<1>2. ASSUME NEW n \in Launches, NEW s \in Nodes, StartLeaf(n, s)
      PROVE  made'[p].inst = q[2] /\ Arrives(q[1], k, p, e)'
  <2>1. /\ image' = [image EXCEPT ![<<s, inst>>] = Image(s)] /\ cur = n
        /\ running' \subseteq running \cup {<<s, inst>>} /\ UNCHANGED <<pipes, made>>
    BY <1>0, <1>2, StartLeafDoes
  <2>2. CASE q # <<s, inst>>
    BY <1>0, <1>1, <2>1, <2>2 DEF TypeOK
  <2>3. CASE q = <<s, inst>>
    <3>1. q \in Processes
      BY <1>0, <2>1, <2>3, TypeNext DEF TypeOK
    <3>2. Image(s)[k] = <<p, e>>
      BY <1>0, <2>1, <2>3, <3>1 DEF TypeOK
    <3>3. p \in 1 .. pipes
      BY <2>1
    <3>4. made[p].inst = Now /\ Arrives(s, k, p, e)
      BY <1>0, <3>2, <3>3, ImageTrue
    <3>5. Now = inst
      BY <2>1, DocumentAssumption DEF Now, Nodes
    <3> QED
      BY <2>1, <2>3, <3>4, <3>5 DEF Arrives
  <2> QED
    BY <2>2, <2>3
<1>3. CASE \A n \in Launches, s \in Nodes : ~StartLeaf(n, s)
  BY <1>1, <1>3, ImageStays
<1> QED
  BY <1>2, <1>3

-----------------------------------------------------------------------------
(* Which links have been made *)

\* A startup() that is at f has made the link t.
Behind(f, t) ==
  CASE t[1] = "socket" -> f.op = "socket" => t[2] < f.i
    [] t[1] = "to" -> \/ f.op \in {"link", "to"} /\ t[2] < f.i
                      \/ f.op \in {"from", "close"} /\ t[2] <= f.i
                      \/ f.op \in {"extern", "subs"}
    [] t[1] = "from" -> \/ f.op \in {"link", "to", "from"} /\ t[2] < f.i
                        \/ f.op = "close" /\ t[2] <= f.i
                        \/ f.op \in {"extern", "subs"}
    [] t[1] = "extern" -> \/ f.op = "extern" /\ t[2] < f.i
                          \/ f.op = "subs"

LEMMA BehindCases ==
  ASSUME NEW f, NEW t
  PROVE  /\ t[1] = "socket" => (Behind(f, t) <=> (f.op = "socket" => t[2] < f.i))
         /\ t[1] = "to" =>
              (Behind(f, t) <=> ((f.op \in {"link", "to"} /\ t[2] < f.i)
                                 \/ (f.op \in {"from", "close"} /\ t[2] <= f.i)
                                 \/ f.op \in {"extern", "subs"}))
         /\ t[1] = "from" =>
              (Behind(f, t) <=> ((f.op \in {"link", "to", "from"} /\ t[2] < f.i)
                                 \/ (f.op = "close" /\ t[2] <= f.i)
                                 \/ f.op \in {"extern", "subs"}))
         /\ t[1] = "extern" =>
              (Behind(f, t) <=> ((f.op = "extern" /\ t[2] < f.i) \/ f.op = "subs"))
BY DEF Behind

\* The other steps of startup() make none.
LEMMA OthersBehind ==
  ASSUME TypeOK, Within, NEW n \in Launches, NEW t \in Tasks(n),
         SocketClose(n) \/ MakePipe(n) \/ CloseEnds(n) \/ LinksMade(n) \/ ExternalsMade(n)
  PROVE  Behind(frame'[n], t) <=> Behind(frame[n], t)
<1>1. /\ frame[n].i \in Nat \ {0} /\ t[2] \in Nat \ {0}
      /\ t[1] \in {"socket", "to", "from", "extern"}
      /\ t[1] = "socket" => t[2] <= Len(Sockets[n])
      /\ t[1] \in {"to", "from"} => t[2] <= Len(Links[n])
      /\ t[1] = "extern" => t[2] <= Len(Externals[n])
  BY FrameAt, TaskType
<1>2. Len(Sockets[n]) \in Nat /\ Len(Links[n]) \in Nat /\ Len(Externals[n]) \in Nat
  <2>1. ASSUME NEW S, NEW s \in Seq(S) PROVE Len(s) \in Nat
    BY <2>1
  <2>2. /\ Links[n] \in Seq([to : Kids[n], to_fd : Nat, from : Kids[n], from_fd : Nat])
        /\ Externals[n] \in Seq([external : Nat, node : Kids[n], internal : Nat])
        /\ Sockets[n] \in Seq([node : Kids[n], fd : Nat])
    BY DocumentAssumption
  <2> QED
    BY <2>1, <2>2
<1>3. CASE SocketClose(n)
  <2>1. frame[n].op = "socket" /\ frame[n].i > Len(Sockets[n])
        /\ frame'[n].op = "link" /\ frame'[n].i = 1
    BY <1>3, SocketCloseDoes DEF Goes
  <2> QED
    BY <1>1, <1>2, <2>1, BehindCases
<1>4. CASE MakePipe(n)
  <2>1. frame[n].op = "link" /\ frame'[n].op = "to" /\ frame'[n].i = frame[n].i
    BY <1>4, MakePipeDoes
  <2> QED
    BY <1>1, <2>1, BehindCases
<1>5. CASE CloseEnds(n)
  <2>1. frame[n].op = "close" /\ frame'[n].op = "link" /\ frame'[n].i = frame[n].i + 1
    BY <1>5, CloseEndsDoes DEF Goes
  <2> QED
    BY <1>1, <2>1, BehindCases
<1>6. CASE LinksMade(n)
  <2>1. frame[n].op = "link" /\ frame[n].i > Len(Links[n])
        /\ frame'[n].op = "extern" /\ frame'[n].i = 1
    BY <1>6, LinksMadeDoes DEF Goes
  <2> QED
    BY <1>1, <1>2, <2>1, BehindCases
<1>7. CASE ExternalsMade(n)
  <2>1. frame[n].op = "extern" /\ frame[n].i > Len(Externals[n]) /\ frame'[n].op = "subs"
    BY <1>7, ExternalsMadeDoes DEF Goes
  <2> QED
    BY <1>1, <1>2, <2>1, BehindCases
<1> QED
  BY <1>3, <1>4, <1>5, <1>6, <1>7

\* What the link t of n is made from: a local variable, or what is linked to n.
Source(n, t, x) ==
  CASE t[1] = "socket" -> frame[n].op = "socket" /\ x = frame[n].r
    [] t[1] = "to" -> frame[n].op = "to" /\ t[2] = frame[n].i /\ x = frame[n].r
    [] t[1] = "from" -> frame[n].op = "from" /\ t[2] = frame[n].i /\ x = frame[n].w
    [] t[1] = "extern" ->
         x \in Fds /\ frame[n].op = "extern" /\ fdMap[n][x] = Externals[n][t[2]].external

\* A step that makes a link makes one that was not made before.
LEMMA LinkBehind ==
  ASSUME TypeOK, Within, NEW n \in Launches,
         SocketLink(n) \/ LinkTo(n) \/ LinkFrom(n) \/ Externalize(n)
  PROVE  \E t \in Tasks(n) :
           /\ ~Behind(frame[n], t)
           /\ \A s \in Tasks(n) : Behind(frame'[n], s) <=> Behind(frame[n], s) \/ s = t
           /\ \/ \E x : Source(n, t, x) /\ LinkFd(Target(n, t)[1], Target(n, t)[2], x)
              \/ /\ t[1] = "extern" /\ UNCHANGED <<table, fdMap>>
                 /\ Linked(n, Externals[n][t[2]].external) = {}
<1>1. frame[n].i \in Nat \ {0}
  BY FrameAt
<1>2. \A s \in Tasks(n) : s = <<s[1], s[2]>> /\ s[2] \in Nat \ {0} /\ s[1] \in {"socket", "to", "from", "extern"}
  BY TaskType
<1>3. CASE SocketLink(n)
  <2> DEFINE t == <<"socket", frame[n].i>>
  <2>1. /\ frame[n].op = "socket" /\ frame[n].i <= Len(Sockets[n])
        /\ frame'[n].op = "socket" /\ frame'[n].i = frame[n].i + 1
        /\ LinkFd(Sockets[n][frame[n].i].node, Sockets[n][frame[n].i].fd, frame[n].r)
    BY <1>3, SocketLinkDoes DEF Goes
  <2>2. t \in Tasks(n) /\ LinkFd(Target(n, t)[1], Target(n, t)[2], frame[n].r)
    <3>1. t \in Tasks(n) /\ Target(n, t) = <<Sockets[n][frame[n].i].node, Sockets[n][frame[n].i].fd>>
      BY <1>1, <2>1, TaskAt
    <3> QED
      BY <2>1, <3>1
  <2>3. ~Behind(frame[n], t)
    BY <1>1, <2>1, BehindCases
  <2>4. ASSUME NEW s \in Tasks(n) PROVE Behind(frame'[n], s) <=> Behind(frame[n], s) \/ s = t
    BY <1>1, <1>2, <2>1, BehindCases
  <2>5. Source(n, t, frame[n].r)
    BY <2>1 DEF Source
  <2> QED
    BY <2>2, <2>3, <2>4, <2>5
<1>4. CASE LinkTo(n)
  <2> DEFINE t == <<"to", frame[n].i>>
  <2>1. /\ frame[n].op = "to" /\ frame[n].i <= Len(Links[n])
        /\ frame'[n].op = "from" /\ frame'[n].i = frame[n].i
        /\ LinkFd(Links[n][frame[n].i].to, Links[n][frame[n].i].to_fd, frame[n].r)
    BY <1>4, LinkToDoes DEF Goes
  <2>2. t \in Tasks(n) /\ LinkFd(Target(n, t)[1], Target(n, t)[2], frame[n].r)
    <3>1. t \in Tasks(n) /\ Target(n, t) = <<Links[n][frame[n].i].to, Links[n][frame[n].i].to_fd>>
      BY <1>1, <2>1, TaskAt
    <3> QED
      BY <2>1, <3>1
  <2>3. ~Behind(frame[n], t)
    BY <1>1, <2>1, BehindCases
  <2>4. ASSUME NEW s \in Tasks(n) PROVE Behind(frame'[n], s) <=> Behind(frame[n], s) \/ s = t
    BY <1>1, <1>2, <2>1, BehindCases
  <2>5. Source(n, t, frame[n].r)
    BY <2>1 DEF Source
  <2> QED
    BY <2>2, <2>3, <2>4, <2>5
<1>5. CASE LinkFrom(n)
  <2> DEFINE t == <<"from", frame[n].i>>
  <2>1. /\ frame[n].op = "from" /\ frame[n].i <= Len(Links[n])
        /\ frame'[n].op = "close" /\ frame'[n].i = frame[n].i
        /\ LinkFd(Links[n][frame[n].i].from, Links[n][frame[n].i].from_fd, frame[n].w)
    BY <1>5, LinkFromDoes DEF Goes
  <2>2. t \in Tasks(n) /\ LinkFd(Target(n, t)[1], Target(n, t)[2], frame[n].w)
    <3>1. t \in Tasks(n) /\ Target(n, t) = <<Links[n][frame[n].i].from, Links[n][frame[n].i].from_fd>>
      BY <1>1, <2>1, TaskAt
    <3> QED
      BY <2>1, <3>1
  <2>3. ~Behind(frame[n], t)
    BY <1>1, <2>1, BehindCases
  <2>4. ASSUME NEW s \in Tasks(n) PROVE Behind(frame'[n], s) <=> Behind(frame[n], s) \/ s = t
    BY <1>1, <1>2, <2>1, BehindCases
  <2>5. Source(n, t, frame[n].w)
    BY <2>1 DEF Source
  <2> QED
    BY <2>2, <2>3, <2>4, <2>5
<1>6. CASE Externalize(n)
  <2> DEFINE t == <<"extern", frame[n].i>>
  <2>1. /\ frame[n].op = "extern" /\ frame[n].i <= Len(Externals[n])
        /\ frame'[n].op = "extern" /\ frame'[n].i = frame[n].i + 1
        /\ \/ /\ Linked(n, Externals[n][frame[n].i].external) = {}
              /\ UNCHANGED <<table, fdMap>>
           \/ \E k \in Fds :
                /\ fdMap[n][k] = Externals[n][frame[n].i].external
                /\ LinkFd(Externals[n][frame[n].i].node, Externals[n][frame[n].i].internal, k)
    BY <1>6, ExternalizeDoes DEF Goes
  <2>2. /\ t \in Tasks(n)
        /\ Target(n, t) = <<Externals[n][frame[n].i].node, Externals[n][frame[n].i].internal>>
    BY <1>1, <2>1, TaskAt
  <2>3. ~Behind(frame[n], t)
    BY <1>1, <2>1, BehindCases
  <2>4. ASSUME NEW s \in Tasks(n) PROVE Behind(frame'[n], s) <=> Behind(frame[n], s) \/ s = t
    BY <1>1, <1>2, <2>1, BehindCases
  <2>5. ASSUME NEW k \in Fds, fdMap[n][k] = Externals[n][frame[n].i].external PROVE Source(n, t, k)
    BY <2>1, <2>5 DEF Source
  <2>6. CASE /\ Linked(n, Externals[n][frame[n].i].external) = {}
             /\ UNCHANGED <<table, fdMap>>
    BY <2>2, <2>3, <2>4, <2>6
  <2>7. CASE \E k \in Fds :
               /\ fdMap[n][k] = Externals[n][frame[n].i].external
               /\ LinkFd(Externals[n][frame[n].i].node, Externals[n][frame[n].i].internal, k)
    BY <2>2, <2>3, <2>4, <2>5, <2>7
  <2> QED
    BY <2>1, <2>6, <2>7
<1> QED
  BY <1>3, <1>4, <1>5, <1>6

\* What a link step adds.
LEMMA LinkAdds ==
  ASSUME IInv, Within, Hands, NEW n \in Launches,
         SocketLink(n) \/ LinkTo(n) \/ LinkFrom(n) \/ Externalize(n)
  PROVE  \E t \in Tasks(n), m \in Kids[n], fd \in Nat :
           /\ Target(n, t) = <<m, fd>> /\ ~Behind(frame[n], t)
           /\ \A s \in Tasks(n) : Behind(frame'[n], s) <=> Behind(frame[n], s) \/ s = t
           /\ \A o \in Nodes, k \in Fds :
                fdMap[o][k] # NoFd => fdMap'[o][k] = fdMap[o][k] /\ table'[k] = table[k]
           /\ \/ \E k \in Fds, x \in Fds :
                   /\ Source(n, t, x) /\ fdMap'[m][k] = fd /\ table'[k] = table[x]
                   /\ \A o \in Nodes, j \in Fds : o # m \/ j # k => fdMap'[o][j] = fdMap[o][j]
              \/ /\ t[1] = "extern" /\ UNCHANGED <<table, fdMap>>
                 /\ Linked(n, Externals[n][t[2]].external) = {}
<1>0. TypeOK /\ LinksTrue
  BY DEF IInv, Hands
<1>1. PICK t \in Tasks(n) :
        /\ ~Behind(frame[n], t)
        /\ \A s \in Tasks(n) : Behind(frame'[n], s) <=> Behind(frame[n], s) \/ s = t
        /\ \/ \E x : Source(n, t, x) /\ LinkFd(Target(n, t)[1], Target(n, t)[2], x)
           \/ /\ t[1] = "extern" /\ UNCHANGED <<table, fdMap>>
              /\ Linked(n, Externals[n][t[2]].external) = {}
  BY <1>0, LinkBehind
<1>2. PICK m \in Kids[n], fd \in Nat : Target(n, t) = <<m, fd>>
  BY TaskType
<1>3. m \in Nodes
  BY DocumentTree
<1>4. CASE UNCHANGED <<table, fdMap>> /\ t[1] = "extern" /\ Linked(n, Externals[n][t[2]].external) = {}
  BY <1>1, <1>2, <1>4
<1>5. ASSUME NEW x, Source(n, t, x), LinkFd(m, fd, x)
      PROVE  /\ \A o \in Nodes, k \in Fds :
                  fdMap[o][k] # NoFd => fdMap'[o][k] = fdMap[o][k] /\ table'[k] = table[k]
             /\ x \in Fds
             /\ \E k \in Fds :
                  /\ fdMap'[m][k] = fd /\ table'[k] = table[x]
                  /\ \A o \in Nodes, j \in Fds : o # m \/ j # k => fdMap'[o][j] = fdMap[o][j]
  <2>1. x \in Fds
    BY <1>0, <1>3, <1>5, LinkFdFresh
  <2>2. PICK k \in Fds :
          /\ table[k] = Closed /\ table'[k] = table[x]
          /\ \A j \in Fds : j # k => table'[j] = table[j]
          /\ fdMap'[m][k] = fd
          /\ \A o \in Nodes, j \in Fds : o # m \/ j # k => fdMap'[o][j] = fdMap[o][j]
    BY <1>0, <1>3, <1>5, LinkFdFresh
  <2>3. \A o \in Nodes : fdMap[o][k] = NoFd
    BY <1>0, <2>2, LinkedOpen
  <2> QED
    BY <2>1, <2>2, <2>3
<1>6. ASSUME NEW x, Source(n, t, x), LinkFd(Target(n, t)[1], Target(n, t)[2], x)
      PROVE  LinkFd(m, fd, x)
  BY <1>2, <1>6
<1> QED
  BY <1>1, <1>2, <1>4, <1>5, <1>6

\* The other steps, the client's links aside, only take links away.
Fewer ==
  \A o \in Nodes, k \in Fds :
    fdMap'[o][k] # NoFd => fdMap'[o][k] = fdMap[o][k] /\ table'[k] = table[k]

LEMMA OthersFewer ==
  ASSUME IInv, Within, Hands, Fine', [Next]_vars,
         \A n \in Launches : ~(SocketLink(n) \/ LinkTo(n) \/ LinkFrom(n) \/ Externalize(n)),
         \A k \in Fds, fd \in ClientLinks : ~ClientLink(k, fd)
  PROVE  Fewer
<1>0. TypeOK /\ Locals /\ Holders /\ LinksTrue
  BY DEF IInv, Hands
<1>1. ASSUME fdMap' = fdMap, \A k \in Fds : table[k] # Closed => table'[k] = table[k]
      PROVE  Fewer
  BY <1>0, <1>1, LinkedOpen DEF Fewer
<1>2. ASSUME NEW s \in Nodes, CloseFds(s) PROVE Fewer
  BY <1>0, <1>2, CloseFdsExactly DEF Fewer, Holders
<1>3. ASSUME NEW n \in Launches, SocketClose(n) PROVE Fewer
  <2>1. /\ frame[n].op = "socket" /\ cur = n /\ fdMap' = fdMap
        /\ table' = [table EXCEPT ![frame[n].r] = Closed]
    BY <1>0, <1>3, SocketCloseDoes DEF Goes, Stays
  <2>2. \A k \in Fds : k # frame[n].r => table'[k] = table[k]
    BY <1>0, <2>1 DEF TypeOK
  <2>3. Local(frame[n].r)
    BY <2>1, DocumentAssumption DEF Local, Nodes
  <2> QED
    BY <1>0, <2>1, <2>2, <2>3 DEF Fewer, Holders
<1>4. ASSUME NEW n \in Launches, CloseEnds(n) PROVE Fewer
  <2>1. /\ frame[n].op = "close" /\ cur = n /\ fdMap' = fdMap
        /\ table' = [k \in Fds |-> IF k \in {frame[n].r, frame[n].w} THEN Closed ELSE table[k]]
    BY <1>0, <1>4, CloseEndsDoes DEF Goes, Stays
  <2>2. \A k \in Fds : k \notin {frame[n].r, frame[n].w} => table'[k] = table[k]
    BY <2>1
  <2>3. Local(frame[n].r) /\ Local(frame[n].w)
    BY <2>1, DocumentAssumption DEF Local, Nodes
  <2> QED
    BY <1>0, <2>1, <2>2, <2>3 DEF Fewer, Holders
<1>5. ASSUME NEW n \in Launches, MakePipe(n) PROVE Fewer
  <2> DEFINE r == frame'[n].r
             w == frame'[n].w
  <2>1. r \in Fds /\ w \in Fds /\ OpensPipe(r, w) /\ fdMap' = fdMap
    BY <1>0, <1>5, MakePipeDoes
  <2> HIDE DEF r, w
  <2> QED
    BY <1>0, <1>1, <2>1, OpensPipeFresh
<1>6. CASE ClientPipe
  BY <1>0, <1>1, <1>6, OpensPipeFresh DEF ClientPipe
<1>7. CASE Accept
  <2>1. PICK k \in Fds : Lowest(k, Free(-1)) /\ table' = [table EXCEPT ![k] = <<pipes + 1, "rw">>]
    BY <1>7 DEF Accept
  <2>2. table[k] = Closed /\ \A j \in Fds : j # k => table'[j] = table[j]
    BY <1>0, <2>1 DEF Lowest, Free, TypeOK
  <2>3. fdMap' = fdMap
    BY <1>7 DEF Accept
  <2> QED
    BY <1>1, <2>2, <2>3
<1>8. ASSUME NEW n \in Launches, LinksMade(n) \/ ExternalsMade(n) PROVE Fewer
  BY <1>1, <1>8 DEF LinksMade, ExternalsMade
<1>9. ASSUME NEW n \in Launches, NEW s \in Nodes, StartLeaf(n, s) PROVE Fewer
  BY <1>0, <1>2, <1>9, StartLeafDoes
<1>10. ASSUME NEW n \in Launches, NEW s \in Nodes, StartLaunch(n, s) PROVE Fewer
  BY <1>1, <1>10 DEF StartLaunch
<1>11. ASSUME NEW n \in Launches, Returns(n) PROVE Fewer
  <2>1. n \in Nodes /\ CloseFds(n)
    BY <1>11 DEF Returns, Nodes
  <2> QED
    BY <1>2, <2>1
<1>12. CASE Startup
  BY <1>1, <1>12 DEF Startup
<1>13. ASSUME NEW k \in Fds, ClientClose(k) PROVE Fewer
  <2>1. k \in client /\ fdMap' = fdMap /\ \A j \in Fds : j # k => table'[j] = table[j]
    BY <1>0, <1>13 DEF ClientClose, TypeOK
  <2> QED
    BY <1>0, <2>1 DEF Fewer, Holders
<1>14. CASE Beside
  BY <1>1, <1>14 DEF Beside
<1> QED
  BY <1>0, <1>3, <1>4, <1>5, <1>6, <1>7, <1>8, <1>9, <1>10, <1>11, <1>12, <1>13, <1>14, FineSteps

-----------------------------------------------------------------------------
(* What is linked to the sub-nodes of an active launch node, it has linked *)

SourceDone ==
  \A n \in Launches, m \in Nodes, k \in Fds :
    Active(n) /\ m \in Kids[n] /\ fdMap[m][k] # NoFd =>
      \E t \in Tasks(n) : Behind(frame[n], t) /\ Target(n, t) = <<m, fdMap[m][k]>>

\* A step makes the links of the node that executes, and of that one only.
LEMMA BehindStays ==
  ASSUME IInv, Within, Hands, Fine', [Next]_vars, NEW n \in Launches, Active(n), Active(n)',
         NEW t \in Tasks(n), Behind(frame[n], t)
  PROVE  Behind(frame'[n], t)
<1>0. TypeOK
  BY DEF IInv
<1>1. ASSUME frame'[n].op = frame[n].op, frame'[n].i = frame[n].i
      PROVE  Behind(frame'[n], t)
  BY <1>1, TaskType, BehindCases
<1>2. ASSUME NEW o \in Launches, Wires(o), o # n PROVE Behind(frame'[n], t)
  BY <1>0, <1>1, <1>2, WiresStays DEF Stays
<1>3. ASSUME Wires(n) PROVE Behind(frame'[n], t)
  <2>1. CASE SocketClose(n) \/ MakePipe(n) \/ CloseEnds(n) \/ LinksMade(n) \/ ExternalsMade(n)
    BY <1>0, <2>1, OthersBehind
  <2>2. CASE SocketLink(n) \/ LinkTo(n) \/ LinkFrom(n) \/ Externalize(n)
    BY <1>0, <2>2, LinkBehind
  <2> QED
    BY <1>3, <2>1, <2>2 DEF Wires
<1>4. ASSUME NEW o \in Launches, NEW s \in Nodes, StartLeaf(o, s) PROVE Behind(frame'[n], t)
  <2>1. CASE o # n
    BY <1>0, <1>1, <1>4, <2>1, StartLeafDoes
  <2>2. CASE o = n
    <3>1. frame[n].op = "subs" /\ frame'[n].op = "subs"
      BY <1>0, <1>4, <2>2, StartLeafDoes
    <3> QED
      BY <3>1, TaskType, BehindCases
  <2> QED
    BY <2>1, <2>2
<1>5. ASSUME NEW o \in Launches, NEW s \in Nodes, StartLaunch(o, s) PROVE Behind(frame'[n], t)
  BY <1>1, <1>5, StartLaunchDoes
<1>6. ASSUME NEW o \in Launches, Returns(o) PROVE Behind(frame'[n], t)
  BY <1>1, <1>6, ReturnsDoes
<1>7. CASE Startup \/ Accept
  BY <1>7, BeginsDoes
<1>8. CASE \/ ClientPipe \/ Beside
           \/ \E k \in Fds : ClientClose(k) \/ \E fd \in ClientLinks : ClientLink(k, fd)
  BY <1>1, <1>8, BesideDoes
<1> QED
  BY <1>0, <1>2, <1>3, <1>4, <1>5, <1>6, <1>7, <1>8, FineSteps DEF Wires

\* Nothing is linked to the sub-nodes of a launch node that is not active.
LEMMA IdleKids ==
  ASSUME IInv, Apart, Fine, NEW n \in Launches, ~Active(n), NEW m \in Kids[n], NEW k \in Fds,
         Ahead(n) \/ cur = NoNode
  PROVE  fdMap[m][k] = NoFd
<1> SUFFICES ASSUME fdMap[m][k] # NoFd PROVE FALSE
  OBVIOUS
<1>1. m \in Nodes /\ n \in Nodes
  BY DocumentTree DEF Nodes
<1>2. CASE cur = NoNode
  <2>1. m = root
    BY <1>1, <1>2 DEF IInv, Pending, Fine
  <2> QED
    BY <2>1, OneParent DEF IInv, TypeOK
<1>3. CASE cur # NoNode /\ Ahead(n)
  <2>1. ToStart(m)
    BY <1>1, <1>3 DEF IInv, Pending, Fine
  <2>2. m \in Inside(n)
    BY <1>1, InsideSelf, InsideKids
  <2>3. ~(m \in Launches /\ Active(m))
    BY <1>1, <1>3, <2>2 DEF Apart
  <2> QED
    BY <2>1, <2>3, OneParent DEF ToStart
<1> QED
  BY <1>2, <1>3

\* When a launch node becomes active, it was ahead or nothing was active.
LEMMA BecomesActive ==
  ASSUME IInv, Within, Fine', [Next]_vars, NEW n \in Launches, ~Active(n), Active(n)'
  PROVE  /\ Ahead(n) \/ cur = NoNode
         /\ \/ \E o \in Launches, s \in Nodes : StartLaunch(o, s)
            \/ Startup \/ Accept
<1>0. TypeOK /\ n \in Nodes
  BY DEF IInv, Nodes
<1>1. ASSUME NEW o \in Launches, Wires(o) PROVE FALSE
  <2>1. Stays(o)
    BY <1>0, <1>1, WiresStays
  <2> QED
    BY <2>1, StaysAhead
<1>2. ASSUME NEW o \in Launches, NEW s \in Nodes, StartLeaf(o, s) PROVE FALSE
  BY <1>0, <1>2, StartLeafDoes
<1>3. ASSUME NEW o \in Launches, NEW s \in Nodes, StartLaunch(o, s) PROVE Ahead(n)
  BY <1>3, StartLaunchDoes DEF Ahead
<1>4. ASSUME NEW o \in Launches, Returns(o) PROVE FALSE
  BY <1>4, ReturnsDoes
<1>5. Startup \/ Accept => cur = NoNode
  BY BeginsDoes
<1>6. CASE \/ ClientPipe \/ Beside
           \/ \E k \in Fds : ClientClose(k) \/ \E fd \in ClientLinks : ClientLink(k, fd)
  BY <1>6, BesideDoes DEF Active
<1> QED
  BY <1>0, <1>1, <1>2, <1>3, <1>4, <1>5, <1>6, FineSteps DEF Wires

LEMMA SourceDoneNext ==
  ASSUME IInv, Within, Hands, Apart, SourceDone, Fine, Fine', [Next]_vars
  PROVE  SourceDone'
<1>0. TypeOK
  BY DEF IInv
<1> SUFFICES ASSUME NEW n \in Launches, NEW m \in Nodes, NEW k \in Fds,
                    Active(n)', m \in Kids[n], fdMap'[m][k] # NoFd
             PROVE  \E t \in Tasks(n) : Behind(frame'[n], t) /\ Target(n, t) = <<m, fdMap'[m][k]>>
  BY DEF SourceDone
<1>1. ASSUME Active(n), fdMap'[m][k] = fdMap[m][k]
      PROVE  \E t \in Tasks(n) : Behind(frame'[n], t) /\ Target(n, t) = <<m, fdMap'[m][k]>>
  <2>1. PICK t \in Tasks(n) : Behind(frame[n], t) /\ Target(n, t) = <<m, fdMap[m][k]>>
    BY <1>1 DEF SourceDone
  <2>2. Behind(frame'[n], t)
    BY <1>1, <2>1, BehindStays
  <2> QED
    BY <1>1, <2>1, <2>2
<1>2. ASSUME NEW o \in Launches, SocketLink(o) \/ LinkTo(o) \/ LinkFrom(o) \/ Externalize(o)
      PROVE  \E t \in Tasks(n) : Behind(frame'[n], t) /\ Target(n, t) = <<m, fdMap'[m][k]>>
  <2>1. PICK t \in Tasks(o), x \in Kids[o], fd \in Nat :
           /\ Target(o, t) = <<x, fd>> /\ ~Behind(frame[o], t)
           /\ \A s \in Tasks(o) : Behind(frame'[o], s) <=> Behind(frame[o], s) \/ s = t
           /\ \A y \in Nodes, j \in Fds :
                fdMap[y][j] # NoFd => fdMap'[y][j] = fdMap[y][j] /\ table'[j] = table[j]
           /\ \/ \E j \in Fds, z \in Fds :
                   /\ Source(o, t, z) /\ fdMap'[x][j] = fd /\ table'[j] = table[z]
                   /\ \A y \in Nodes, h \in Fds : y # x \/ h # j => fdMap'[y][h] = fdMap[y][h]
              \/ /\ t[1] = "extern" /\ UNCHANGED <<table, fdMap>>
                 /\ Linked(o, Externals[o][t[2]].external) = {}
    BY <1>2, LinkAdds
  <2>2. Active(n)
    <3>1. Stays(o)
      BY <1>0, <1>2, WiresStays DEF Wires
    <3> QED
      BY <3>1, StaysAhead
  <2>3. CASE fdMap'[m][k] = fdMap[m][k]
    BY <1>1, <2>2, <2>3
  <2>4. CASE fdMap'[m][k] # fdMap[m][k]
    <3>1. m = x /\ fdMap'[m][k] = fd
      BY <2>1, <2>4
    <3>2. n = o
      BY <3>1, OneParent
    <3> QED
      BY <2>1, <3>1, <3>2
  <2> QED
    BY <2>3, <2>4
<1>3. CASE \A o \in Launches : ~(SocketLink(o) \/ LinkTo(o) \/ LinkFrom(o) \/ Externalize(o))
  <2>1. CASE Active(n) /\ \A j \in Fds, fd \in ClientLinks : ~ClientLink(j, fd)
    <3>1. fdMap'[m][k] = fdMap[m][k]
      BY <1>3, <2>1, OthersFewer DEF Fewer
    <3> QED
      BY <1>1, <2>1, <3>1
  <2>2. CASE ~Active(n)
    <3>1. /\ Ahead(n) \/ cur = NoNode
          /\ \/ \E o \in Launches, s \in Nodes : StartLaunch(o, s)
             \/ Startup \/ Accept
      BY <2>2, BecomesActive
    <3>2. fdMap'[m][k] = fdMap[m][k]
      BY <3>1 DEF StartLaunch, Startup, Accept
    <3> QED
      BY <2>2, <3>1, <3>2, IdleKids
  <2>3. ASSUME NEW j \in Fds, NEW fd \in ClientLinks, ClientLink(j, fd) PROVE FALSE
    <3>1. cur = NoNode /\ frame' = frame
      BY <2>3 DEF ClientLink, Idling, place
    <3> QED
      BY <3>1 DEF IInv, Chain, Fine, Active
  <2> QED
    BY <2>1, <2>2, <2>3
<1> QED
  BY <1>2, <1>3

\* A descriptor of a node is linked once.
Unique ==
  \A m \in Nodes, j \in Fds, k \in Fds : fdMap[m][j] # NoFd /\ fdMap[m][j] = fdMap[m][k] => j = k

LEMMA UniqueNext ==
  ASSUME OneSource, IInv, Within, Hands, TableKnown, SourceDone, Unique, Fine, Fine', [Next]_vars
  PROVE  Unique'
<1>0. TypeOK
  BY DEF IInv
<1>1. ASSUME NEW x \in Nodes, NEW fd \in Nat, NEW i \in Fds, \A j \in Fds : fdMap[x][j] # fd,
             fdMap'[x][i] = fd,
             \A y \in Nodes, h \in Fds : y # x \/ h # i => fdMap'[y][h] = fdMap[y][h]
      PROVE  Unique'
  BY <1>1 DEF Unique
<1>2. ASSUME NEW o \in Launches, SocketLink(o) \/ LinkTo(o) \/ LinkFrom(o) \/ Externalize(o)
      PROVE  Unique'
  <2>1. PICK t \in Tasks(o), x \in Kids[o], fd \in Nat :
           /\ Target(o, t) = <<x, fd>> /\ ~Behind(frame[o], t)
           /\ \/ \E j \in Fds, z \in Fds :
                   /\ Source(o, t, z) /\ fdMap'[x][j] = fd /\ table'[j] = table[z]
                   /\ \A y \in Nodes, h \in Fds : y # x \/ h # j => fdMap'[y][h] = fdMap[y][h]
              \/ /\ t[1] = "extern" /\ UNCHANGED <<table, fdMap>>
                 /\ Linked(o, Externals[o][t[2]].external) = {}
    BY <1>2, LinkAdds
  <2>2. \A j \in Fds : fdMap[x][j] # fd
    <3> SUFFICES ASSUME NEW j \in Fds, fdMap[x][j] = fd PROVE FALSE
      OBVIOUS
    <3>1. Active(o) /\ x \in Nodes /\ fd # NoFd
      BY <1>0, <1>2, WiresStays, DocumentTree DEF Wires, Stays, NoFd
    <3>2. PICK s \in Tasks(o) : Behind(frame[o], s) /\ Target(o, s) = <<x, fd>>
      BY <3>1 DEF SourceDone
    <3> QED
      BY <2>1, <3>2 DEF OneSource
  <2>3. CASE UNCHANGED <<table, fdMap>>
    BY <2>3 DEF Unique
  <2>4. x \in Nodes
    BY DocumentTree
  <2> QED
    BY <1>1, <2>1, <2>2, <2>3, <2>4
<1>3. ASSUME NEW k \in Fds, NEW fd \in ClientLinks, ClientLink(k, fd) PROVE Unique'
  <2>1. fd \in Nat /\ fd \notin asked /\ cur = NoNode /\ LinkFd(root, fd, k)
    BY <1>0, <1>3, ClientLinkDoes
  <2>2. root \in Nodes /\ fd # NoFd
    BY <1>0, <2>1, DocumentTree DEF TypeOK, Nodes, NoFd
  <2>3. \A j \in Fds : fdMap[root][j] # fd
    BY <2>1, <2>2 DEF IInv, Pending, Fine
  <2>4. \E j \in Fds :
          /\ fdMap'[root][j] = fd
          /\ \A y \in Nodes, h \in Fds : y # root \/ h # j => fdMap'[y][h] = fdMap[y][h]
    BY <1>0, <2>1, <2>2, LinkFdFresh
  <2> QED
    BY <1>1, <2>1, <2>2, <2>3, <2>4
<1>4. CASE /\ \A o \in Launches : ~(SocketLink(o) \/ LinkTo(o) \/ LinkFrom(o) \/ Externalize(o))
           /\ \A j \in Fds, fd \in ClientLinks : ~ClientLink(j, fd)
  <2>1. Fewer
    BY <1>4, OthersFewer
  <2> QED
    BY <2>1 DEF Fewer, Unique
<1> QED
  BY <1>2, <1>3, <1>4

-----------------------------------------------------------------------------
(* Where the ends of a pipe are to be *)

\* The startup() that executes makes links to the pipe.
Making(n, p) == n = cur /\ p = pipes /\ frame[n].op \in {"socket", "to", "from"}

\* One of the links of n is that of an end to be at a.
Meant(n, p, a) ==
  \E t \in Tasks(n) :
    /\ t[1] # "extern" /\ Target(n, t) = <<a[2], a[3]>>
    /\ Behind(frame[n], t) \/ Making(n, p)

\* The startup() of n has begun, if it is to.
Begun(n) == \A x \in Nodes : Ahead(x) => n \notin Inside(x)

Placed(p, a) ==
  \E n \in Launches :
    /\ cur # NoNode /\ a[2] \in Kids[n]
    /\ Begun(n)
    /\ Active(n) => Meant(n, p, a)

Origin == \A p \in 1 .. pipes : made[p].inst = Now => \A a \in made[p].at : a[2] = root \/ Placed(p, a)

\* What is to be started was, or is inside of what was.
LEMMA AheadFrom ==
  ASSUME IInv, Within, Fine', [Next]_vars, cur # NoNode, NEW x \in Nodes, Ahead(x)'
  PROVE  \E y \in Nodes : Ahead(y) /\ x \in Inside(y)
<1>0. TypeOK /\ x \in Inside(x)
  BY InsideSelf DEF IInv
<1>1. ASSUME NEW o \in Launches, Wires(o) PROVE Ahead(x)
  BY <1>0, <1>1, WiresStays, StaysAhead
<1>2. ASSUME NEW o \in Launches, NEW s \in Nodes, StartLeaf(o, s) PROVE Ahead(x)
  BY <1>0, <1>2, StartLeafDoes DEF Ahead
<1>3. ASSUME NEW o \in Launches, NEW s \in Nodes, StartLaunch(o, s)
      PROVE  \E y \in Nodes : Ahead(y) /\ x \in Inside(y)
  <2>1. PICK m \in Launches : Waits(m, x)'
    BY DEF Ahead
  <2>2. Waits(m, x) \/ (m = s /\ x \in Kids[s])
    BY <1>3, <2>1, StartLaunchDoes
  <2>3. Ahead(s) /\ s \in Launches
    BY <1>3, StartLaunchDoes DEF Ahead
  <2>4. x \in Kids[s] => x \in Inside(s)
    BY <2>3, InsideSelf, InsideKids
  <2> QED
    BY <1>0, <2>2, <2>3, <2>4 DEF Ahead
<1>4. ASSUME NEW o \in Launches, Returns(o) PROVE Ahead(x)
  BY <1>4, ReturnsDoes DEF Ahead
<1>5. CASE Startup \/ Accept
  BY <1>5, BeginsDoes
<1>6. CASE \/ ClientPipe \/ Beside
           \/ \E k \in Fds : ClientClose(k) \/ \E fd \in ClientLinks : ClientLink(k, fd)
  <2>1. frame' = frame
    BY <1>6, BesideDoes
  <2>2. Ahead(x)
    BY <2>1 DEF Ahead, Waits, Active
  <2> QED
    BY <1>0, <2>2
<1> QED
  BY <1>0, <1>1, <1>2, <1>3, <1>4, <1>5, <1>6, FineSteps DEF Wires

LEMMA BegunStays ==
  ASSUME IInv, Within, Fine', [Next]_vars, cur # NoNode, NEW n \in Launches, Begun(n)
  PROVE  Begun(n)'
<1> SUFFICES ASSUME NEW x \in Nodes, Ahead(x)' PROVE n \notin Inside(x)
  BY DEF Begun
<1>1. PICK y \in Nodes : Ahead(y) /\ x \in Inside(y)
  BY AheadFrom
<1> QED
  BY <1>1, InsideInside DEF Begun

\* While the startup() lasts, the number of the startup is the same.
LEMMA NowLasts ==
  ASSUME IInv, Within, [Next]_vars, Now' = Now, cur # NoNode
  PROVE  cur' # NoNode
<1>1. inst \in Nat /\ (~(Startup \/ Accept) => inst' = inst)
  BY InstNext
<1>2. ~(Startup \/ Accept)
  BY BeginsDoes
<1> QED
  BY <1>1, <1>2 DEF Now

\* What startup() makes a pipe for it links to it.
LEMMA MakingDone ==
  ASSUME IInv, Within, Hands, Fine', [Next]_vars, NEW n \in Launches, NEW p \in 1 .. pipes,
         Making(n, p), NEW a \in made[p].at, Meant(n, p, a)
  PROVE  Meant(n, p, a)'
<1>0. TypeOK /\ Locals /\ cur = n /\ n # NoNode /\ pipes \in Nat /\ p = pipes
  BY DocumentAssumption DEF IInv, Hands, Making, Nodes, TypeOK
<1>1. frame[n].op \in {"socket", "to", "from"}
  BY DEF Making
<1>2. ASSUME cur' = n, pipes' = pipes, frame'[n].op \in {"socket", "to", "from"} PROVE Meant(n, p, a)'
  <2>1. PICK t \in Tasks(n) : t[1] # "extern" /\ Target(n, t) = <<a[2], a[3]>>
    BY DEF Meant
  <2>2. Making(n, p)'
    BY <1>0, <1>2 DEF Making
  <2> QED
    BY <2>1, <2>2 DEF Meant
<1>3. ASSUME NEW t \in Tasks(n), t[1] # "extern", Target(n, t) = <<a[2], a[3]>>, Behind(frame'[n], t)
      PROVE  Meant(n, p, a)'
  BY <1>3 DEF Meant
<1>4. CASE SocketLink(n)
  BY <1>0, <1>2, <1>4, SocketLinkDoes DEF Goes, Stays
<1>5. CASE LinkTo(n)
  BY <1>0, <1>2, <1>5, LinkToDoes DEF Goes, Stays
<1>6. CASE Beside
  BY <1>0, <1>1, <1>2, <1>6 DEF Beside, place, ghosts
<1>7. CASE SocketClose(n)
  <2>1. frame[n].op = "socket" /\ frame'[n].op = "link"
    BY <1>0, <1>7, SocketCloseDoes DEF Goes
  <2>2. made[p] = [inst |-> inst, at |-> SocketEnds(n)]
    BY <1>0, <2>1 DEF Locals
  <2>3. PICK i \in DOMAIN Sockets[n] : a = <<"rw", Sockets[n][i].node, Sockets[n][i].fd>>
    BY <2>2 DEF SocketEnds
  <2> DEFINE t == <<"socket", i>>
  <2>4. t \in Tasks(n) /\ Target(n, t) = <<a[2], a[3]>>
    BY <2>3 DEF Tasks, Target
  <2>5. Behind(frame'[n], t)
    BY <2>1, BehindCases
  <2> QED
    BY <1>3, <2>4, <2>5
<1>8. CASE LinkFrom(n)
  <2>1. frame[n].op = "from" /\ frame'[n].op = "close" /\ frame'[n].i = frame[n].i
        /\ frame[n].i <= Len(Links[n]) /\ frame[n].i \in Nat \ {0}
    BY <1>0, <1>8, LinkFromDoes, FrameAt DEF Goes
  <2>2. made[p] = [inst |-> inst, at |-> LinkEnds(Links[n][frame[n].i])]
    BY <1>0, <2>1 DEF Locals
  <2> DEFINE l == Links[n][frame[n].i]
  <2>3. a = <<"r", l.to, l.to_fd>> \/ a = <<"w", l.from, l.from_fd>>
    <3>1. a \in LinkEnds(l)
      BY <2>2
    <3> QED
      BY <3>1, LinkEndsAre
  <2>4. CASE a = <<"r", l.to, l.to_fd>>
    <3> DEFINE t == <<"to", frame[n].i>>
    <3>1. t \in Tasks(n) /\ Target(n, t) = <<a[2], a[3]>>
      BY <2>1, <2>4, TaskAt
    <3>2. Behind(frame'[n], t)
      BY <2>1, BehindCases
    <3> QED
      BY <1>3, <3>1, <3>2
  <2>5. CASE a = <<"w", l.from, l.from_fd>>
    <3> DEFINE t == <<"from", frame[n].i>>
    <3>1. t \in Tasks(n) /\ Target(n, t) = <<a[2], a[3]>>
      BY <2>1, <2>5, TaskAt
    <3>2. Behind(frame'[n], t)
      BY <2>1, BehindCases
    <3> QED
      BY <1>3, <3>1, <3>2
  <2> QED
    BY <2>3, <2>4, <2>5
<1>9. \/ SocketLink(n) \/ SocketClose(n) \/ LinkTo(n) \/ LinkFrom(n) \/ Beside
  <2>1. ASSUME NEW o \in Launches,
               \/ SocketLink(o) \/ SocketClose(o) \/ LinkTo(o) \/ LinkFrom(o)
        PROVE  o = n
    BY <1>0, <2>1 DEF SocketLink, SocketClose, LinkTo, LinkFrom, At
  <2>2. ASSUME NEW o \in Launches,
               \/ MakePipe(o) \/ CloseEnds(o) \/ LinksMade(o) \/ Externalize(o) \/ ExternalsMade(o)
               \/ \E s \in Nodes : StartLeaf(o, s) \/ StartLaunch(o, s)
               \/ Returns(o)
        PROVE  FALSE
    BY <1>0, <1>1, <2>2 DEF MakePipe, CloseEnds, LinksMade, Externalize, ExternalsMade, StartLeaf,
                            StartLaunch, Returns, At
  <2>3. ~(\/ ClientPipe \/ Startup \/ Accept
          \/ \E k \in Fds : ClientClose(k) \/ \E fd \in ClientLinks : ClientLink(k, fd))
    BY <1>0 DEF ClientPipe, Startup, Accept, ClientClose, ClientLink, Idling
  <2> QED
    BY <1>0, <2>1, <2>2, <2>3, FineSteps
<1> QED
  BY <1>4, <1>5, <1>6, <1>7, <1>8, <1>9

LEMMA PlacedStays ==
  ASSUME IInv, Within, Hands, Fine', [Next]_vars, Now' = Now, NEW p \in 1 .. pipes,
         NEW a \in made[p].at, Placed(p, a)
  PROVE  Placed(p, a)'
<1>1. PICK n \in Launches : /\ cur # NoNode /\ a[2] \in Kids[n]
                            /\ Begun(n)
                            /\ Active(n) => Meant(n, p, a)
  BY DEF Placed
<1>2. cur' # NoNode /\ Begun(n)'
  BY <1>1, NowLasts, BegunStays
<1>3. ASSUME Active(n)' PROVE Meant(n, p, a)'
  <2>1. Active(n)
    <3>1. ASSUME ~Active(n) PROVE FALSE
      <4>1. Ahead(n)
        BY <1>1, <1>3, <3>1, BecomesActive
      <4> QED
        BY <1>1, <4>1, InsideSelf DEF Begun, Nodes
    <3> QED
      BY <3>1
  <2>2. CASE Making(n, p)
    <3>1. p = pipes
      BY <2>2 DEF Making
    <3> QED
      BY <1>1, <2>1, <2>2, <3>1, MakingDone
  <2>3. CASE ~Making(n, p)
    <3>1. PICK t \in Tasks(n) : t[1] # "extern" /\ Target(n, t) = <<a[2], a[3]>> /\ Behind(frame[n], t)
      BY <1>1, <2>1, <2>3 DEF Meant
    <3>2. Behind(frame'[n], t)
      BY <1>3, <2>1, <3>1, BehindStays
    <3> QED
      BY <3>1, <3>2 DEF Meant
  <2> QED
    BY <2>2, <2>3
<1> QED
  BY <1>1, <1>2, <1>3 DEF Placed

\* A pipe was there before the step, or is new, or is one that the client links.
LEMMA OldOrNew ==
  ASSUME IInv, Within, TableKnown, [Next]_vars, NEW p \in 1 .. pipes'
  PROVE  \/ p \in 1 .. pipes /\ made'[p] = made[p]
         \/ \E n \in Launches :
              MakePipe(n) /\ p = pipes' /\ made'[p] = [inst |-> inst, at |-> LinkEnds(Links[n][frame[n].i])]
         \/ Accept /\ p = pipes' /\ made'[p] = [inst |-> inst + 1, at |-> SocketEnds(root)]
         \/ made'[p].at = {}
         \/ \E k \in Fds, fd \in ClientLinks, e \in Ends :
              /\ ClientLink(k, fd) /\ p \in 1 .. pipes /\ table[k] = <<p, e>>
              /\ made'[p] = [inst |-> inst + 1, at |-> {<<e, root, fd>>}]
<1>0. TypeOK /\ pipes \in Nat
  BY DEF IInv, TypeOK
<1>1. ASSUME pipes' = pipes + 1 PROVE p \in 1 .. pipes \/ p = pipes + 1
  BY <1>0, <1>1
<1>2. ASSUME NEW n \in Launches, MakePipe(n)
      PROVE  \/ p \in 1 .. pipes /\ made'[p] = made[p]
             \/ p = pipes' /\ made'[p] = [inst |-> inst, at |-> LinkEnds(Links[n][frame[n].i])]
  BY <1>0, <1>1, <1>2, MakePipeMakes
<1>3. CASE Accept
  BY <1>0, <1>1, <1>3, AcceptMakes
<1>4. CASE ClientPipe
  BY <1>0, <1>1, <1>4, ClientPipeMakes
<1>5. ASSUME NEW k \in Fds, NEW fd \in ClientLinks, ClientLink(k, fd)
      PROVE  \/ p \in 1 .. pipes /\ made'[p] = made[p]
             \/ \E e \in Ends :
                  /\ p \in 1 .. pipes /\ table[k] = <<p, e>>
                  /\ made'[p] = [inst |-> inst + 1, at |-> {<<e, root, fd>>}]
  <2>0. TypeOK
    BY <1>0
  <2>1. pipes' = pipes
    BY <2>0, <1>5, ClientLinkDoes
  <2>2. \E q \in 1 .. pipes, e \in Ends :
          /\ table[k] = <<q, e>> /\ made[q].at = {}
          /\ made'[q] = [inst |-> inst + 1, at |-> {<<e, root, fd>>}]
          /\ \A o \in 1 .. pipes : o # q => made'[o] = made[o]
    BY <2>0, <1>5, ClientLinkDoes
  <2> QED
    BY <2>1, <2>2
<1>6. CASE UNCHANGED <<pipes, made>>
  BY <1>6
<1>7. CASE \E n \in Launches : MakePipe(n)
  BY <1>2, <1>7
<1>8. CASE \E k \in Fds, fd \in ClientLinks : ClientLink(k, fd)
  BY <1>5, <1>8
<1>9. \/ UNCHANGED <<pipes, made>> \/ ClientPipe \/ Accept
      \/ \E n \in Launches : MakePipe(n)
      \/ \E k \in Fds, fd \in ClientLinks : ClientLink(k, fd)
  BY MadeStays
<1> QED
  BY <1>3, <1>4, <1>6, <1>7, <1>8, <1>9

\* A pipe of the startup that is executed is one of the startup that was.
LEMMA NowSame ==
  ASSUME IInv, Within, MadeThen, [Next]_vars, NEW p \in 1 .. pipes, made[p].inst = Now'
  PROVE  made[p].inst = Now /\ Now' = Now
<1>1. Now \in Nat /\ Now' \in Nat /\ Now' >= Now
  BY InstNext
<1>2. made[p].inst <= Now
  BY DEF MadeThen
<1> QED
  BY <1>1, <1>2

LEMMA OriginNext ==
  ASSUME IInv, IInv', Within, Hands, TableKnown, MadeThen, Apart', Origin, Fine', [Next]_vars
  PROVE  Origin'
<1>0. TypeOK /\ pipes \in Nat
  BY DEF IInv, TypeOK
<1> SUFFICES ASSUME NEW p \in 1 .. pipes', made'[p].inst = Now', NEW a \in made'[p].at
             PROVE  a[2] = root' \/ Placed(p, a)'
  BY DEF Origin
<1>1. CASE p \in 1 .. pipes /\ made'[p] = made[p]
  <2>1. made[p].inst = Now /\ Now' = Now
    BY <1>1, NowSame
  <2>2. a[2] = root \/ Placed(p, a)
    BY <1>1, <2>1 DEF Origin
  <2>3. CASE Placed(p, a)
    BY <1>1, <2>1, <2>3, PlacedStays
  <2>4. root' = root
    <3>1. ASSUME NEW n \in Launches, Wires(n) PROVE root' = root
      BY <1>0, <3>1, WiresStays DEF rest
    <3>2. ASSUME NEW n \in Launches, NEW s \in Nodes, StartLeaf(n, s) \/ StartLaunch(n, s) PROVE root' = root
      BY <3>2 DEF StartLeaf, StartLaunch, status
    <3>3. ASSUME NEW n \in Launches, Returns(n) PROVE root' = root
      BY <3>3 DEF Returns, status
    <3>4. CASE \/ ClientPipe \/ Beside
               \/ \E k \in Fds : ClientClose(k) \/ \E fd \in ClientLinks : ClientLink(k, fd)
      BY <3>4, BesideDoes
    <3>5. CASE Startup \/ Accept
      BY <3>5 DEF Startup, Accept
    <3> QED
      BY <1>0, <3>1, <3>2, <3>3, <3>4, <3>5, FineSteps DEF Wires
  <2> QED
    BY <2>2, <2>3, <2>4
<1>2. ASSUME NEW n \in Launches, cur' = n, Active(n)', a[2] \in Kids[n], Meant(n, p, a)'
      PROVE  Placed(p, a)'
  <2>1. Begun(n)'
    BY <1>2 DEF Apart, Begun
  <2>2. cur' # NoNode
    BY <1>2, DocumentTree
  <2> QED
    BY <1>2, <2>1, <2>2 DEF Placed
<1>3. ASSUME NEW n \in Launches, cur' = n, p = pipes', frame'[n].op \in {"socket", "to", "from"},
             NEW t \in Tasks(n), t[1] # "extern", Target(n, t) = <<a[2], a[3]>>
      PROVE  Meant(n, p, a)'
  <2>1. Making(n, p)'
    BY <1>3 DEF Making
  <2> QED
    BY <1>3, <2>1 DEF Meant
<1>4. ASSUME NEW n \in Launches, MakePipe(n), p = pipes',
             made'[p] = [inst |-> inst, at |-> LinkEnds(Links[n][frame[n].i])]
      PROVE  Placed(p, a)'
  <2> DEFINE l == Links[n][frame[n].i]
  <2>1. /\ Stays(n) /\ frame'[n].op = "to" /\ frame[n].i <= Len(Links[n]) /\ frame[n].i \in Nat \ {0}
    BY <1>0, <1>4, MakePipeDoes, FrameAt
  <2>2. cur' = n /\ Active(n)'
    BY <2>1 DEF Stays
  <2>3. a = <<"r", l.to, l.to_fd>> \/ a = <<"w", l.from, l.from_fd>>
    <3>1. a \in LinkEnds(l)
      BY <1>4
    <3> QED
      BY <3>1, LinkEndsAre
  <2>4. l.to \in Kids[n] /\ l.from \in Kids[n]
    BY <2>1, LinkEndsType
  <2>5. /\ <<"to", frame[n].i>> \in Tasks(n) /\ <<"from", frame[n].i>> \in Tasks(n)
        /\ Target(n, <<"to", frame[n].i>>) = <<l.to, l.to_fd>>
        /\ Target(n, <<"from", frame[n].i>>) = <<l.from, l.from_fd>>
    BY <2>1, TaskAt
  <2>6. \E t \in Tasks(n) : t[1] # "extern" /\ Target(n, t) = <<a[2], a[3]>>
    BY <2>3, <2>5
  <2>7. Meant(n, p, a)'
    BY <1>3, <1>4, <2>1, <2>2, <2>6
  <2> QED
    BY <1>2, <2>2, <2>3, <2>4, <2>7
<1>5. ASSUME Accept, p = pipes', made'[p] = [inst |-> inst + 1, at |-> SocketEnds(root)]
      PROVE  Placed(p, a)'
  <2>1. PICK n \in Launches : n = root
    BY <1>5, BeginsDoes
  <2>2. cur' = n /\ Active(n)'
    BY <1>5, <2>1, BeginsDoes
  <2>3. frame'[n].op = "socket"
    <3>1. \E k \in Fds : Moves(root, Frame("socket", k, NoNode))
      BY <1>5 DEF Accept
    <3> QED
      BY <1>0, <2>1, <3>1 DEF Moves, Frame, TypeOK
  <2>4. PICK i \in DOMAIN Sockets[n] : a = <<"rw", Sockets[n][i].node, Sockets[n][i].fd>>
    BY <1>5, <2>1 DEF SocketEnds
  <2>5. a[2] \in Kids[n]
    BY <1>5, <2>1, SocketEndsType
  <2>6. <<"socket", i>> \in Tasks(n) /\ Target(n, <<"socket", i>>) = <<a[2], a[3]>>
    BY <2>4 DEF Tasks, Target
  <2>7. Meant(n, p, a)'
    BY <1>3, <1>5, <2>2, <2>3, <2>6
  <2> QED
    BY <1>2, <2>2, <2>5, <2>7
<1>6. ASSUME NEW k \in Fds, NEW fd \in ClientLinks, NEW e \in Ends, ClientLink(k, fd),
             made'[p] = [inst |-> inst + 1, at |-> {<<e, root, fd>>}]
      PROVE  a[2] = root'
  BY <1>0, <1>6, BesideDoes
<1> QED
  BY <1>1, <1>4, <1>5, <1>6, OldOrNew

-----------------------------------------------------------------------------
(* What arrives at a node is linked to it *)

Carries(m, fd, p, e) == \E k \in Fds : fdMap[m][k] = fd /\ table[k] = <<p, e>>

\* All links to the node have been made, as far as they are made before it starts.
InPlace(m) == IF cur = NoNode THEN m = root ELSE m \in Launches /\ Active(m)

\* All links to a descriptor of a sub-node of n have been made.
Done(n, m, fd) == \A t \in Tasks(n) : Target(n, t) = <<m, fd>> => Behind(frame[n], t)

Carried ==
  \A p \in 1 .. pipes : made[p].inst = Now => \A e \in Ends, fd \in Nat :
    /\ \A m \in Nodes : InPlace(m) /\ Arrives(m, fd, p, e) => Carries(m, fd, p, e)
    /\ \A n \in Launches, m \in Nodes :
         Waits(n, m) /\ Arrives(m, fd, p, e) /\ Done(n, m, fd) => Carries(m, fd, p, e)

\* The links to m stay.
Kept(m) == \A k \in Fds : fdMap[m][k] # NoFd => fdMap'[m][k] = fdMap[m][k] /\ table'[k] = table[k]

LEMMA CarriesStays ==
  ASSUME NEW m \in Nodes, NEW fd \in Nat, NEW p, NEW e, Carries(m, fd, p, e), Kept(m)
  PROVE  Carries(m, fd, p, e)'
<1>1. fd # NoFd
  BY DEF NoFd
<1> QED
  BY <1>1 DEF Carries, Kept

\* Links are taken only from what has been started.
LEMMA KeptNext ==
  ASSUME IInv, Within, Hands, TableKnown, Apart, Fine', [Next]_vars, Now' = Now,
         NEW m \in Nodes, InPlace(m)' \/ Ahead(m)'
  PROVE  Kept(m)
<1>0. TypeOK /\ LinksTrue /\ m \in Inside(m)
  BY InsideSelf DEF IInv, Hands
<1>1. ASSUME NEW o \in Launches, SocketLink(o) \/ LinkTo(o) \/ LinkFrom(o) \/ Externalize(o)
      PROVE  Kept(m)
  <2>1. \A y \in Nodes, k \in Fds :
          fdMap[y][k] # NoFd => fdMap'[y][k] = fdMap[y][k] /\ table'[k] = table[k]
    BY <1>1, LinkAdds
  <2> QED
    BY <2>1 DEF Kept
<1>2. ASSUME NEW k \in Fds, NEW fd \in ClientLinks, ClientLink(k, fd) PROVE Kept(m)
  <2>1. fd \in Nat /\ LinkFd(root, fd, k) /\ root \in Nodes
    BY <1>0, <1>2, ClientLinkDoes, DocumentTree DEF TypeOK, Nodes
  <2>2. PICK r \in Nodes : r = root
    BY <2>1
  <2>3. LinkFd(r, fd, k)
    BY <2>1, <2>2
  <2>4. \E j \in Fds :
          /\ table[j] = Closed /\ \A i \in Fds : i # j => table'[i] = table[i]
          /\ \A y \in Nodes, i \in Fds : y # r \/ i # j => fdMap'[y][i] = fdMap[y][i]
    BY <1>0, <2>1, <2>3, LinkFdFresh
  <2> QED
    BY <1>0, <2>4, LinkedOpen DEF Kept
<1>3. ASSUME Fewer, fdMap'[m] = fdMap[m] PROVE Kept(m)
  BY <1>3 DEF Fewer, Kept
<1>4. CASE /\ \A o \in Launches : ~(SocketLink(o) \/ LinkTo(o) \/ LinkFrom(o) \/ Externalize(o))
           /\ \A k \in Fds, fd \in ClientLinks : ~ClientLink(k, fd)
  <2>1. Fewer
    BY <1>4, OthersFewer
  <2>2. ASSUME NEW s \in Nodes, s # m, CloseFds(s) PROVE Kept(m)
    <3>1. \A k \in Fds : fdMap'[m][k] = fdMap[m][k]
      BY <1>0, <2>2, CloseFdsExactly
    <3> QED
      BY <2>1, <3>1 DEF Fewer, Kept
  <2>3. ASSUME NEW o \in Launches, NEW s \in Nodes, StartLeaf(o, s) PROVE Kept(m)
    <3>1. ~Ahead(s)' /\ CloseFds(s) /\ s \in Leaves /\ cur' = o
      BY <1>0, <2>3, StartLeafDoes DEF Ahead
    <3>2. ~InPlace(s)'
      BY <3>1, DocumentAssumption DEF InPlace, Nodes
    <3>3. s # m
      BY <3>1, <3>2
    <3> QED
      BY <2>2, <3>1, <3>3
  <2>4. ASSUME NEW o \in Launches, Returns(o) PROVE Kept(m)
    <3>1. /\ cur = o /\ Active(o) /\ CloseFds(o) /\ o \in Nodes /\ o # NoNode
          /\ \A y \in Launches : Active(y)' <=> Active(y) /\ y # o
          /\ \A y \in Launches, x \in Nodes : Waits(y, x)' <=> Waits(y, x)
      BY <2>4, ReturnsDoes, DocumentAssumption DEF Nodes
    <3>2. ~Ahead(o)
      BY <3>1, InsideSelf DEF Apart
    <3>3. ~Ahead(o)'
      BY <3>1, <3>2 DEF Ahead
    <3>4. cur' # NoNode
      BY <3>1, NowLasts
    <3>5. ~InPlace(o)'
      BY <3>1, <3>4 DEF InPlace
    <3>6. o # m
      BY <3>3, <3>5
    <3> QED
      BY <2>2, <3>1, <3>6
  <2>5. ASSUME NEW o \in Launches,
               \/ SocketClose(o) \/ MakePipe(o) \/ CloseEnds(o) \/ LinksMade(o) \/ ExternalsMade(o)
               \/ \E s \in Nodes : StartLaunch(o, s)
        PROVE  Kept(m)
    <3>1. fdMap' = fdMap
      BY <2>5 DEF SocketClose, MakePipe, CloseEnds, LinksMade, ExternalsMade, StartLaunch
    <3> QED
      BY <1>3, <2>1, <3>1
  <2>6. CASE ClientPipe \/ Startup \/ Accept \/ Beside \/ \E k \in Fds : ClientClose(k)
    <3>1. fdMap' = fdMap
      BY <2>6 DEF ClientPipe, Startup, Accept, Beside, ClientClose
    <3> QED
      BY <1>3, <2>1, <3>1
  <2> QED
    BY <1>0, <1>4, <2>3, <2>4, <2>5, <2>6, FineSteps
<1> QED
  BY <1>1, <1>2, <1>4

\* Only a link step gets a task behind.
LEMMA BehindNew ==
  ASSUME IInv, Within, Fine', [Next]_vars, NEW n \in Launches, Active(n), Active(n)',
         NEW t \in Tasks(n), ~Behind(frame[n], t), Behind(frame'[n], t)
  PROVE  SocketLink(n) \/ LinkTo(n) \/ LinkFrom(n) \/ Externalize(n)
<1>0. TypeOK
  BY DEF IInv
<1> SUFFICES ASSUME ~(SocketLink(n) \/ LinkTo(n) \/ LinkFrom(n) \/ Externalize(n))
             PROVE  FALSE
  OBVIOUS
<1>1. ASSUME frame'[n].op = frame[n].op, frame'[n].i = frame[n].i PROVE FALSE
  BY <1>1, TaskType, BehindCases
<1>2. ASSUME NEW o \in Launches, Wires(o), o # n PROVE FALSE
  BY <1>0, <1>1, <1>2, WiresStays DEF Stays
<1>3. ASSUME Wires(n) PROVE FALSE
  BY <1>0, <1>3, OthersBehind DEF Wires
<1>4. ASSUME NEW o \in Launches, NEW s \in Nodes, StartLeaf(o, s) PROVE FALSE
  <2>1. CASE o # n
    BY <1>0, <1>1, <1>4, <2>1, StartLeafDoes
  <2>2. CASE o = n
    <3>1. frame[n].op = "subs" /\ frame'[n].op = "subs"
      BY <1>0, <1>4, <2>2, StartLeafDoes
    <3> QED
      BY <3>1, TaskType, BehindCases
  <2> QED
    BY <2>1, <2>2
<1>5. ASSUME NEW o \in Launches, NEW s \in Nodes, StartLaunch(o, s) PROVE FALSE
  BY <1>1, <1>5, StartLaunchDoes
<1>6. ASSUME NEW o \in Launches, Returns(o) PROVE FALSE
  BY <1>1, <1>6, ReturnsDoes
<1>7. CASE Startup \/ Accept
  BY <1>7, BeginsDoes
<1>8. CASE \/ ClientPipe \/ Beside
           \/ \E k \in Fds : ClientClose(k) \/ \E fd \in ClientLinks : ClientLink(k, fd)
  BY <1>1, <1>8, BesideDoes
<1> QED
  BY <1>0, <1>2, <1>3, <1>4, <1>5, <1>6, <1>7, <1>8, FineSteps DEF Wires

\* A launch node waits for others when it becomes active, and then only.
LEMMA WaitsNew ==
  ASSUME IInv, Within, Fine', [Next]_vars, NEW n \in Launches, NEW m \in Nodes,
         ~Waits(n, m), Waits(n, m)'
  PROVE  ~Active(n) /\ Active(n)' /\ m \in Kids[n] /\ frame'[n].op \in {"link", "socket"}
<1>0. TypeOK
  BY DEF IInv
<1>1. ASSUME NEW o \in Launches, Wires(o) PROVE FALSE
  <2>1. Stays(o)
    BY <1>0, <1>1, WiresStays
  <2> QED
    BY <2>1, StaysAhead
<1>2. ASSUME NEW o \in Launches, NEW s \in Nodes, StartLeaf(o, s) PROVE FALSE
  BY <1>0, <1>2, StartLeafDoes
<1>3. ASSUME NEW o \in Launches, NEW s \in Nodes, StartLaunch(o, s)
      PROVE  ~Active(n) /\ Active(n)' /\ m \in Kids[n] /\ frame'[n].op \in {"link", "socket"}
  BY <1>3, StartLaunchDoes
<1>4. ASSUME NEW o \in Launches, Returns(o) PROVE FALSE
  BY <1>4, ReturnsDoes
<1>5. CASE Startup \/ Accept
  BY <1>5, BeginsDoes
<1>6. CASE \/ ClientPipe \/ Beside
           \/ \E k \in Fds : ClientClose(k) \/ \E fd \in ClientLinks : ClientLink(k, fd)
  <2>1. frame' = frame
    BY <1>6, BesideDoes
  <2> QED
    BY <2>1 DEF Waits, Active
<1> QED
  BY <1>0, <1>1, <1>2, <1>3, <1>4, <1>5, <1>6, FineSteps DEF Wires

\* A node is in place when it becomes active, the root before.
LEMMA InPlaceNew ==
  ASSUME IInv, Within, Fine', [Next]_vars, Now' = Now, NEW m \in Nodes, ~InPlace(m), InPlace(m)'
  PROVE  \E n \in Launches : Waits(n, m) /\ frame[n].op = "subs"
<1>0. TypeOK
  BY DEF IInv
<1>1. CASE cur = NoNode
  <2>1. m # root
    BY <1>1 DEF InPlace
  <2>2. ASSUME NEW n \in Launches PROVE cur # n
    BY <1>1, DocumentAssumption DEF Nodes
  <2>3. CASE Startup \/ Accept
    <3>1. cur' = root /\ root # NoNode /\ \A o \in Launches : Active(o)' <=> o = root
      BY <2>3, BeginsDoes
    <3> QED
      BY <2>1, <3>1 DEF InPlace
  <2>4. CASE \/ ClientPipe \/ Beside
             \/ \E k \in Fds : ClientClose(k) \/ \E fd \in ClientLinks : ClientLink(k, fd)
    BY <1>1, <2>1, <2>4, BesideDoes DEF InPlace
  <2>5. ASSUME NEW o \in Launches,
               \/ Wires(o) \/ Returns(o) \/ \E s \in Nodes : StartLeaf(o, s) \/ StartLaunch(o, s)
        PROVE  FALSE
    BY <2>2, <2>5 DEF Wires, SocketLink, SocketClose, MakePipe, LinkTo, LinkFrom, CloseEnds,
       LinksMade, Externalize, ExternalsMade, Returns, StartLeaf, StartLaunch, At
  <2> QED
    BY <1>0, <2>3, <2>4, <2>5, FineSteps DEF Wires
<1>2. CASE cur # NoNode
  <2>1. m \in Launches /\ Active(m)' /\ ~Active(m)
    BY <1>2, NowLasts DEF InPlace
  <2>2. \E o \in Launches, s \in Nodes : StartLaunch(o, s)
    BY <1>2, <2>1, BecomesActive, BeginsDoes
  <2>3. PICK o \in Launches, s \in Nodes : StartLaunch(o, s)
    BY <2>2
  <2> QED
    BY <2>1, <2>3, StartLaunchDoes
<1> QED
  BY <1>1, <1>2

\* The link that is made last is the one that the document wants.
LEMMA LinkCarries ==
  ASSUME OneSource, IInv, Within, Hands, Unique, Origin, Carried,
         NEW n \in Launches, SocketLink(n) \/ LinkTo(n) \/ LinkFrom(n) \/ Externalize(n),
         NEW t \in Tasks(n), ~Behind(frame[n], t), Behind(frame'[n], t),
         NEW m \in Nodes, NEW fd \in Nat, Target(n, t) = <<m, fd>>,
         NEW p \in 1 .. pipes, NEW e \in Ends, made[p].inst = Now, Arrives(m, fd, p, e)
  PROVE  Carries(m, fd, p, e)'
<1>0. TypeOK /\ Locals /\ Stays(n) /\ cur = n /\ n # NoNode /\ Active(n) /\ n \in Nodes
  BY WiresStays, DocumentAssumption DEF IInv, Hands, Wires, Stays, Nodes
<1>1. /\ \/ \E k \in Fds, x \in Fds : Source(n, t, x) /\ fdMap'[m][k] = fd /\ table'[k] = table[x]
         \/ t[1] = "extern" /\ Linked(n, Externals[n][t[2]].external) = {}
      /\ m \in Kids[n]
  <2>1. PICK s \in Tasks(n), x \in Kids[n], d \in Nat :
           /\ Target(n, s) = <<x, d>>
           /\ \A y \in Tasks(n) : Behind(frame'[n], y) <=> Behind(frame[n], y) \/ y = s
           /\ \/ \E k \in Fds, z \in Fds : Source(n, s, z) /\ fdMap'[x][k] = d /\ table'[k] = table[z]
              \/ s[1] = "extern" /\ Linked(n, Externals[n][s[2]].external) = {}
    BY LinkAdds
  <2>2. s = t
    BY <2>1
  <2> QED
    BY <2>1, <2>2
<1>2. ASSUME NEW x \in Fds, Source(n, t, x), NEW k \in Fds, fdMap'[m][k] = fd,
             table'[k] = table[x], table[x] = <<p, e>>
      PROVE  Carries(m, fd, p, e)'
  BY <1>2 DEF Carries
<1>3. CASE <<e, m, fd>> \in made[p].at
  <2>1. m # root
    BY <1>1, OneParent DEF IInv, TypeOK
  <2>2. PICK a \in made[p].at : a = <<e, m, fd>>
    BY <1>3
  <2>3. Placed(p, a)
    BY <2>1, <2>2 DEF Origin
  <2>4. Meant(n, p, a)
    BY <1>0, <1>1, <2>2, <2>3, OneParent DEF Placed
  <2>5. PICK s \in Tasks(n) : /\ s[1] # "extern" /\ Target(n, s) = <<m, fd>>
                              /\ Behind(frame[n], s) \/ Making(n, p)
    BY <2>2, <2>4 DEF Meant
  <2>6. s = t
    BY <2>5 DEF OneSource
  <2>7. p = pipes /\ t[1] # "extern" /\ t[1] \in {"socket", "to", "from", "extern"} /\ t = <<t[1], t[2]>>
    BY <2>5, <2>6, TaskType DEF Making
  <2>8. PICK k \in Fds, x \in Fds : Source(n, t, x) /\ fdMap'[m][k] = fd /\ table'[k] = table[x]
    BY <1>1, <2>7
  <2>9. CASE t[1] = "socket"
    <3>1. frame[n].op = "socket" /\ x = frame[n].r
      BY <2>8, <2>9 DEF Source
    <3>2. table[x] = <<p, "rw">> /\ made[p].at = SocketEnds(n)
      BY <1>0, <2>7, <3>1 DEF Locals
    <3>3. e = "rw"
      BY <1>3, <3>2 DEF SocketEnds
    <3> QED
      BY <1>2, <2>8, <3>2, <3>3
  <2>10. ASSUME t[1] \in {"to", "from"}
         PROVE  /\ frame[n].op = t[1] /\ t[2] = frame[n].i
                /\ frame[n].i \in Nat \ {0} /\ frame[n].i <= Len(Links[n])
                /\ made[p].at = LinkEnds(Links[n][frame[n].i])
                /\ t[1] = "to" => x = frame[n].r
                /\ t[1] = "from" => x = frame[n].w
                /\ table[frame[n].r] = <<p, "r">> /\ table[frame[n].w] = <<p, "w">>
    <3>1. /\ frame[n].op = t[1] /\ t[2] = frame[n].i
          /\ t[1] = "to" => x = frame[n].r
          /\ t[1] = "from" => x = frame[n].w
      BY <2>8, <2>10 DEF Source
    <3>2. /\ made[p] = [inst |-> inst, at |-> LinkEnds(Links[n][frame[n].i])]
          /\ table[frame[n].r] = <<p, "r">> /\ table[frame[n].w] = <<p, "w">>
      BY <1>0, <2>7, <2>10, <3>1 DEF Locals
    <3>3. frame[n].i \in Nat \ {0} /\ frame[n].i <= Len(Links[n])
      BY <2>10, <3>1, TaskType
    <3> QED
      BY <3>1, <3>2, <3>3
  <2> DEFINE l == Links[n][frame[n].i]
  <2>11. ASSUME t[1] \in {"to", "from"}
         PROVE  /\ <<"to", frame[n].i>> \in Tasks(n) /\ <<"from", frame[n].i>> \in Tasks(n)
                /\ Target(n, <<"to", frame[n].i>>) = <<l.to, l.to_fd>>
                /\ Target(n, <<"from", frame[n].i>>) = <<l.from, l.from_fd>>
                /\ <<e, m, fd>> = <<"r", l.to, l.to_fd>> \/ <<e, m, fd>> = <<"w", l.from, l.from_fd>>
    BY <1>3, <2>10, <2>11, TaskAt DEF LinkEnds
  <2>12. CASE t[1] = "to"
    <3>1. t = <<"to", frame[n].i>>
      BY <2>7, <2>10, <2>12
    <3>2. e = "r"
      <4>1. ASSUME <<e, m, fd>> = <<"w", l.from, l.from_fd>> PROVE FALSE
        <5>1. Target(n, <<"from", frame[n].i>>) = Target(n, t)
          BY <2>11, <2>12, <4>1
        <5>2. <<"from", frame[n].i>> = t
          BY <2>11, <2>12, <5>1 DEF OneSource
        <5> QED
          BY <3>1, <5>2
      <4> QED
        BY <2>11, <2>12, <4>1
    <3> QED
      BY <1>2, <2>8, <2>10, <2>12, <3>2
  <2>13. CASE t[1] = "from"
    <3>1. t = <<"from", frame[n].i>>
      BY <2>7, <2>10, <2>13
    <3>2. e = "w"
      <4>1. ASSUME <<e, m, fd>> = <<"r", l.to, l.to_fd>> PROVE FALSE
        <5>1. Target(n, <<"to", frame[n].i>>) = Target(n, t)
          BY <2>11, <2>13, <4>1
        <5>2. <<"to", frame[n].i>> = t
          BY <2>11, <2>13, <5>1 DEF OneSource
        <5> QED
          BY <3>1, <5>2
      <4> QED
        BY <2>11, <2>13, <4>1
    <3> QED
      BY <1>2, <2>8, <2>10, <2>13, <3>2
  <2> QED
    BY <2>7, <2>9, <2>12, <2>13
<1>4. ASSUME NEW i \in DOMAIN Externals[n], Externals[n][i].node = m, Externals[n][i].internal = fd,
             Arrives(n, Externals[n][i].external, p, e)
      PROVE  Carries(m, fd, p, e)'
  <2> DEFINE s == <<"extern", i>>
  <2>1. s \in Tasks(n) /\ Target(n, s) = <<m, fd>>
    BY <1>4 DEF Tasks, Target
  <2>2. s = t
    BY <2>1 DEF OneSource
  <2>3. t[1] = "extern" /\ t[2] = i
    BY <2>2
  <2>4. Externals[n][i].external \in Nat /\ Externals[n][i].external # NoFd
    BY ExternalType DEF NoFd
  <2>5. InPlace(n)
    BY <1>0 DEF InPlace
  <2>6. Carries(n, Externals[n][i].external, p, e)
    BY <1>0, <1>4, <2>4, <2>5 DEF Carried
  <2>7. PICK j \in Fds : fdMap[n][j] = Externals[n][i].external /\ table[j] = <<p, e>>
    BY <2>6 DEF Carries
  <2>8. Linked(n, Externals[n][t[2]].external) # {}
    BY <2>3, <2>7 DEF Linked
  <2>9. PICK k \in Fds, x \in Fds : Source(n, t, x) /\ fdMap'[m][k] = fd /\ table'[k] = table[x]
    BY <1>1, <2>8
  <2>10. fdMap[n][x] = Externals[n][i].external
    BY <2>3, <2>9 DEF Source
  <2>11. x = j
    BY <1>0, <2>4, <2>7, <2>10 DEF Unique
  <2> QED
    BY <1>2, <2>7, <2>9, <2>11
<1> QED
  BY <1>0, <1>1, <1>3, <1>4, ArrivesBack

\* What leads to a sub-node leads there by way of the launch node, or starts there.
LEMMA LeadsKid ==
  ASSUME NEW a, NEW n \in Launches, NEW m \in Kids[n], NEW fd, Leads(a, <<m, fd>>)
  PROVE  a = <<m, fd>> \/ \E d : Leads(a, <<n, d>>)
<1>1. CASE a # <<m, fd>>
  <2>1. PICK x \in Externalizations : x.to = <<m, fd>> /\ Leads(a, x.from)
    BY <1>1, LeadsBack
  <2>2. PICK g \in Launches : \E i \in DOMAIN Externals[g] : x = External(g, i)
    BY ExternalizationsAre
  <2>3. PICK i \in DOMAIN Externals[g] : x = External(g, i)
    BY <2>2
  <2>4. Externals[g][i].node = m /\ x.from = <<g, Externals[g][i].external>>
    BY <2>1, <2>3 DEF External
  <2>5. g = n
    BY <2>4, ExternalType, OneParent
  <2> QED
    BY <2>1, <2>4, <2>5
<1> QED
  BY <1>1

\* Nothing leads to a root but what starts there.
LEMMA LeadsRoot ==
  ASSUME NEW a, NEW r \in Roots, NEW fd, Leads(a, <<r, fd>>)
  PROVE  a = <<r, fd>>
<1> SUFFICES ASSUME a # <<r, fd>> PROVE FALSE
  OBVIOUS
<1>1. PICK x \in Externalizations : x.to = <<r, fd>>
  BY LeadsBack
<1>2. PICK g \in Launches : \E i \in DOMAIN Externals[g] : x = External(g, i)
  BY ExternalizationsAre
<1>3. r \in Kids[g]
  BY <1>1, <1>2, ExternalType DEF External
<1> QED
  BY <1>3, OneParent

\* An end that is to be at a sub-node that is ahead arrives at what is ahead only.
LEMMA EndAhead ==
  ASSUME Apart', NEW g \in Launches, Active(g)', NEW x \in Kids[g], Waits(g, x)', NEW c,
         NEW m, NEW fd, Leads(<<x, c>>, <<m, fd>>)
  PROVE  /\ ~(m \in Launches /\ Active(m)')
         /\ \A q \in running' : q[2] = inst' => q[1] # m
         /\ \A n \in Launches : Waits(n, m)' => n = g /\ m = x /\ fd = c
<1>1. x \in Nodes /\ Ahead(x)' /\ m \in Inside(x)
  BY LeadsInside, DocumentTree DEF Ahead
<1>2. ASSUME NEW n \in Launches, Waits(n, m)' PROVE n = g /\ m = x /\ fd = c
  <2>1. Active(n)' /\ m \in Kids[n]
    BY <1>2 DEF Waits
  <2>2. n \notin Inside(x) /\ g \notin Inside(x)
    BY <1>1, <2>1 DEF Apart
  <2>3. m = x
    BY <1>1, <2>1, <2>2, InsideParent
  <2>4. n = g
    BY <2>1, <2>3, OneParent
  <2>5. <<x, c>> = <<m, fd>>
    BY <1>1, <2>1, <2>2, LeadsKid, LeadsInside
  <2> QED
    BY <2>3, <2>4, <2>5
<1> QED
  BY <1>1, <1>2 DEF Apart

\* A pipe or connection that startup() makes is still to be linked, everywhere.
LEMMA NewPipe ==
  ASSUME IInv, Within, Apart', NEW p \in 1 .. pipes', NEW g \in Launches,
         \/ /\ MakePipe(g)
            /\ made'[p] = [inst |-> inst, at |-> LinkEnds(Links[g][frame[g].i])]
         \/ /\ Accept /\ g = root
            /\ made'[p] = [inst |-> inst + 1, at |-> SocketEnds(g)],
         NEW m, NEW fd, NEW e, Arrives(m, fd, p, e)'
  PROVE  /\ ~InPlace(m)'
         /\ \A q \in running' : q[2] = inst' => q[1] # m
         /\ \A n \in Launches : Waits(n, m)' => ~Done(n, m, fd)'
<1>0. TypeOK
  BY DEF IInv
<1>1. PICK a \in made'[p].at : a[1] = e /\ Leads(<<a[2], a[3]>>, <<m, fd>>)
  BY DEF Arrives
<1>2. /\ cur' = g /\ Active(g)' /\ a[2] \in Kids[g] /\ frame'[g].op # "subs"
      /\ \E t \in Tasks(g) : Target(g, t) = <<a[2], a[3]>> /\ ~Behind(frame'[g], t)
  <2>1. CASE /\ MakePipe(g)
             /\ made'[p] = [inst |-> inst, at |-> LinkEnds(Links[g][frame[g].i])]
    <3> DEFINE l == Links[g][frame[g].i]
    <3>1. /\ Stays(g) /\ frame'[g].op = "to" /\ frame'[g].i = frame[g].i
          /\ frame[g].i <= Len(Links[g]) /\ frame[g].i \in Nat \ {0}
      BY <1>0, <2>1, MakePipeDoes, FrameAt
    <3>2. a = <<"r", l.to, l.to_fd>> \/ a = <<"w", l.from, l.from_fd>>
      <4>1. a \in LinkEnds(l)
        BY <1>1, <2>1
      <4> QED
        BY <4>1, LinkEndsAre
    <3>3. l.to \in Kids[g] /\ l.from \in Kids[g]
      BY <3>1, LinkEndsType
    <3>4. /\ <<"to", frame[g].i>> \in Tasks(g) /\ <<"from", frame[g].i>> \in Tasks(g)
          /\ Target(g, <<"to", frame[g].i>>) = <<l.to, l.to_fd>>
          /\ Target(g, <<"from", frame[g].i>>) = <<l.from, l.from_fd>>
      BY <3>1, TaskAt
    <3>5. ~Behind(frame'[g], <<"to", frame[g].i>>) /\ ~Behind(frame'[g], <<"from", frame[g].i>>)
      BY <3>1, BehindCases
    <3>6. cur' = g /\ Active(g)' /\ a[2] \in Kids[g] /\ frame'[g].op # "subs"
      BY <3>1, <3>2, <3>3 DEF Stays
    <3>7. \E t \in Tasks(g) : Target(g, t) = <<a[2], a[3]>> /\ ~Behind(frame'[g], t)
      BY <3>2, <3>4, <3>5
    <3> QED
      BY <3>6, <3>7
  <2>2. CASE Accept /\ g = root /\ made'[p] = [inst |-> inst + 1, at |-> SocketEnds(g)]
    <3>1. \E k \in Fds : Moves(root, Frame("socket", k, NoNode))
      BY <2>2 DEF Accept
    <3>2. frame'[g].op = "socket" /\ frame'[g].i = 1
      BY <1>0, <2>2, <3>1 DEF Moves, Frame, TypeOK
    <3>3. cur' = g /\ Active(g)'
      BY <2>2, BeginsDoes
    <3>4. PICK i \in DOMAIN Sockets[g] : a = <<"rw", Sockets[g][i].node, Sockets[g][i].fd>>
      BY <1>1, <2>2 DEF SocketEnds
    <3>5. a[2] \in Kids[g]
      BY <1>1, <2>2, SocketEndsType
    <3> DEFINE t == <<"socket", i>>
    <3>6. t \in Tasks(g) /\ Target(g, t) = <<a[2], a[3]>>
      BY <3>4 DEF Tasks, Target
    <3>7. t[2] \in Nat \ {0}
      BY <3>6, TaskType
    <3>8. ~Behind(frame'[g], t)
      BY <3>2, <3>7, BehindCases
    <3> QED
      BY <3>2, <3>3, <3>5, <3>6, <3>8
  <2> QED
    BY <2>1, <2>2
<1>3. Waits(g, a[2])'
  BY <1>2 DEF Waits
<1>4. /\ ~(m \in Launches /\ Active(m)')
      /\ \A q \in running' : q[2] = inst' => q[1] # m
      /\ \A n \in Launches : Waits(n, m)' => n = g /\ m = a[2] /\ fd = a[3]
  BY <1>1, <1>2, <1>3, EndAhead
<1>5. ~InPlace(m)'
  BY <1>2, <1>4, DocumentTree DEF InPlace
<1>6. ASSUME NEW n \in Launches, Waits(n, m)', Done(n, m, fd)' PROVE FALSE
  BY <1>2, <1>4, <1>6 DEF Done
<1> QED
  BY <1>4, <1>5, <1>6

LEMMA CarriedNext ==
  ASSUME OneSource, IInv, IInv', Within, Hands, TableKnown, MadeThen, Below, Apart, Apart', Unique,
         Origin, Carried, Fine', [Next]_vars
  PROVE  Carried'
<1>0. TypeOK
  BY DEF IInv
<1> SUFFICES ASSUME NEW p \in 1 .. pipes', made'[p].inst = Now', NEW e \in Ends, NEW fd \in Nat,
                    NEW m \in Nodes, Arrives(m, fd, p, e)',
                    InPlace(m)' \/ \E n \in Launches : Waits(n, m)' /\ Done(n, m, fd)'
             PROVE  Carries(m, fd, p, e)'
  BY DEF Carried
<1>1. CASE p \in 1 .. pipes /\ made'[p] = made[p]
  <2>1. made[p].inst = Now /\ Now' = Now
    BY <1>1, NowSame
  <2>2. Arrives(m, fd, p, e)
    BY <1>1 DEF Arrives
  <2>3. ASSUME Carries(m, fd, p, e) PROVE Carries(m, fd, p, e)'
    <3>1. InPlace(m)' \/ Ahead(m)'
      BY DEF Ahead
    <3>2. Kept(m)
      BY <2>1, <3>1, KeptNext
    <3> QED
      BY <2>3, <3>2, CarriesStays
  <2>4. CASE InPlace(m)
    BY <1>1, <2>1, <2>2, <2>3, <2>4 DEF Carried
  <2>5. CASE ~InPlace(m) /\ InPlace(m)'
    <3>1. PICK n \in Launches : Waits(n, m) /\ frame[n].op = "subs"
      BY <2>1, <2>5, InPlaceNew
    <3>2. Done(n, m, fd)
      BY <3>1, TaskType, BehindCases DEF Done
    <3> QED
      BY <1>1, <2>1, <2>2, <2>3, <3>1, <3>2 DEF Carried
  <2>6. ASSUME NEW n \in Launches, Waits(n, m)', Done(n, m, fd)' PROVE Carries(m, fd, p, e)'
    <3>0. m \in Kids[n]
      BY <2>6 DEF Waits
    <3>1. CASE Waits(n, m) /\ Done(n, m, fd)
      BY <1>1, <2>1, <2>2, <2>3, <3>1 DEF Carried
    <3>2. CASE Waits(n, m) /\ ~Done(n, m, fd)
      <4>1. PICK t \in Tasks(n) : Target(n, t) = <<m, fd>> /\ ~Behind(frame[n], t)
        BY <3>2 DEF Done
      <4>2. Behind(frame'[n], t)
        BY <2>6, <4>1 DEF Done
      <4>3. Active(n) /\ Active(n)'
        BY <2>6, <3>2 DEF Waits
      <4>4. SocketLink(n) \/ LinkTo(n) \/ LinkFrom(n) \/ Externalize(n)
        BY <4>1, <4>2, <4>3, BehindNew
      <4> QED
        BY <1>1, <2>1, <2>2, <4>1, <4>2, <4>4, LinkCarries
    <3>3. CASE ~Waits(n, m)
      <4>1. ~Active(n) /\ Active(n)' /\ frame'[n].op \in {"link", "socket"}
        BY <2>6, <3>3, WaitsNew
      <4>2. CASE <<e, m, fd>> \in made[p].at
        <5>1. m # root
          BY <1>0, <3>0, OneParent DEF TypeOK
        <5>2. PICK a \in made[p].at : a = <<e, m, fd>>
          BY <4>2
        <5>3. Placed(p, a)
          BY <1>1, <2>1, <5>1, <5>2 DEF Origin
        <5>4. cur # NoNode /\ Begun(n)
          BY <3>0, <5>2, <5>3, OneParent DEF Placed
        <5>5. Ahead(n)
          BY <4>1, <5>4, BecomesActive
        <5> QED
          BY <5>4, <5>5, InsideSelf DEF Begun, Nodes
      <4>3. ASSUME NEW i \in DOMAIN Externals[n],
                   Externals[n][i].node = m, Externals[n][i].internal = fd
            PROVE  FALSE
        <5> DEFINE t == <<"extern", i>>
        <5>1. t \in Tasks(n) /\ Target(n, t) = <<m, fd>>
          BY <4>3 DEF Tasks, Target
        <5>2. Behind(frame'[n], t)
          BY <2>6, <5>1 DEF Done
        <5> QED
          BY <4>1, <5>2, BehindCases
      <4> QED
        BY <1>0, <1>1, <2>2, <3>0, <4>2, <4>3, ArrivesBack
    <3> QED
      BY <3>1, <3>2, <3>3
  <2> QED
    BY <2>4, <2>5, <2>6
<1>2. ASSUME NEW g \in Launches, MakePipe(g),
             made'[p] = [inst |-> inst, at |-> LinkEnds(Links[g][frame[g].i])]
      PROVE  FALSE
  BY <1>2, NewPipe
<1>3. ASSUME Accept, made'[p] = [inst |-> inst + 1, at |-> SocketEnds(root)] PROVE FALSE
  <2>1. PICK g \in Launches : g = root
    BY <1>3, BeginsDoes
  <2> QED
    BY <1>3, <2>1, NewPipe
<1>4. CASE made'[p].at = {}
  BY <1>4 DEF Arrives
<1>5. ASSUME NEW k \in Fds, NEW d \in ClientLinks, NEW c \in Ends, ClientLink(k, d),
             table[k] = <<p, c>>, made'[p] = [inst |-> inst + 1, at |-> {<<c, root, d>>}]
      PROVE  Carries(m, fd, p, e)'
  <2>1. cur = NoNode /\ cur' = NoNode /\ root' = root /\ frame' = frame /\ exited' = exited
        /\ d \in Nat /\ LinkFd(root, d, k)
    BY <1>0, <1>5, ClientLinkDoes
  <2>2. \A n \in Launches : ~Waits(n, m)'
    <3>1. \A n \in Launches : ~Active(n)
      BY <2>1 DEF IInv, Chain, Fine
    <3> QED
      BY <2>1, <3>1 DEF Waits, Active
  <2>3. m = root
    BY <2>1, <2>2 DEF InPlace
  <2>4. PICK r \in Roots : r = root
    BY <1>0 DEF TypeOK
  <2>5. r \in Nodes
    BY <2>4, DocumentTree DEF Nodes
  <2>6. e = c /\ fd = d
    <3>1. e = c /\ Leads(<<r, d>>, <<r, fd>>)
      BY <1>5, <2>3, <2>4 DEF Arrives
    <3>2. <<r, d>> = <<r, fd>>
      BY <3>1, LeadsRoot
    <3> QED
      BY <3>1, <3>2
  <2>7. LinkFd(r, d, k)
    BY <2>1, <2>4
  <2>8. \E j \in Fds : fdMap'[r][j] = d /\ table'[j] = table[k]
    BY <1>0, <2>1, <2>5, <2>7, LinkFdFresh
  <2> QED
    BY <1>5, <2>3, <2>4, <2>6, <2>8 DEF Carries
<1> QED
  BY <1>1, <1>2, <1>3, <1>4, <1>5, OldOrNew

\* The program that starts gets all that arrives at it.
LEMMA ImageWhole ==
  ASSUME IInv, LinksTrue, Unique, Carried, NEW n \in Launches, NEW s \in Nodes,
         Waits(n, s), frame[n].op = "subs", NEW k \in Fds, NEW p \in 1 .. pipes, NEW e \in Ends,
         made[p].inst = Now, Arrives(s, k, p, e)
  PROVE  Image(s)[k] = <<p, e>>
<1>0. TypeOK /\ k \in Nat /\ k # NoFd
  BY DocumentAssumption DEF IInv, Fds, NoFd
<1>1. Done(n, s, k)
  BY TaskType, BehindCases DEF Done
<1>2. Carries(s, k, p, e)
  BY <1>0, <1>1 DEF Carried
<1>3. PICK j \in Fds : fdMap[s][j] = k /\ table[j] = <<p, e>>
  BY <1>2 DEF Carries
<1>4. \A i \in Linked(s, k) : i = j
  BY <1>0, <1>3 DEF Unique, Linked
<1>5. Last(j, Linked(s, k))
  BY <1>3, <1>4, DocumentAssumption DEF Last, Linked, Fds
<1>6. \A i \in Fds : Last(i, Linked(s, k)) => i = j
  BY <1>4 DEF Last
<1> QED
  BY <1>0, <1>3, <1>5, <1>6, ImageIs

\* A program holds all that is led to it of the startup that started it.
ImagesWhole ==
  \A q \in running, k \in Fds, p \in 1 .. pipes, e \in Ends :
    made[p].inst = q[2] /\ Arrives(q[1], k, p, e) => image[q][k] = <<p, e>>

LEMMA ImagesWholeNext ==
  ASSUME IInv, Within, Numbers, Apart', LinksTrue, Unique, Carried, ImagesWhole, [Next]_vars
  PROVE  ImagesWhole'
<1>0. /\ TypeOK /\ TableKnown /\ Past /\ inst \in Nat
      /\ \A q \in running : q[2] \in Nat /\ q[2] <= inst /\ q \in Processes
  BY InstNext, DocumentAssumption DEF IInv, Numbers, Past, TypeOK, Processes
<1> SUFFICES ASSUME NEW q \in running', NEW k \in Fds, NEW p \in 1 .. pipes', NEW e \in Ends,
                    made'[p].inst = q[2], Arrives(q[1], k, p, e)'
             PROVE  image'[q][k] = <<p, e>>
  BY DEF ImagesWhole
<1>1. ASSUME q \in running, image'[q] = image[q], p \in 1 .. pipes, made'[p] = made[p]
      PROVE  image'[q][k] = <<p, e>>
  <2>1. made[p].inst = q[2] /\ Arrives(q[1], k, p, e)
    BY <1>1 DEF Arrives
  <2> QED
    BY <1>1, <2>1 DEF ImagesWhole
<1>2. ASSUME NEW n \in Launches, NEW s \in Nodes, StartLeaf(n, s)
      PROVE  image'[q][k] = <<p, e>>
  <2>1. /\ image' = [image EXCEPT ![<<s, inst>>] = Image(s)] /\ cur = n
        /\ Waits(n, s) /\ frame[n].op = "subs"
        /\ running' \subseteq running \cup {<<s, inst>>} /\ UNCHANGED <<pipes, made>>
    BY <1>0, <1>2, StartLeafDoes
  <2>2. CASE q # <<s, inst>>
    <3>1. q \in running /\ image'[q] = image[q]
      BY <1>0, <2>1, <2>2 DEF TypeOK
    <3> QED
      BY <1>1, <2>1, <3>1
  <2>3. CASE q = <<s, inst>>
    <3>1. q \in Processes
      BY <1>0, <2>1, <2>3, TypeNext DEF TypeOK
    <3>2. Now = inst
      BY <2>1, DocumentAssumption DEF Now, Nodes
    <3>3. p \in 1 .. pipes /\ made[p].inst = Now /\ Arrives(s, k, p, e)
      BY <2>1, <2>3, <3>2 DEF Arrives
    <3>4. Image(s)[k] = <<p, e>>
      BY <2>1, <3>3, ImageWhole
    <3> QED
      BY <1>0, <2>1, <2>3, <3>1, <3>4 DEF TypeOK
  <2> QED
    BY <2>2, <2>3
<1>3. CASE \A n \in Launches, s \in Nodes : ~StartLeaf(n, s)
  <2>1. image' = image /\ q \in running
    BY <1>3, ImageStays
  <2>2. ASSUME made'[p].inst = inst + 1 PROVE FALSE
    <3>1. q[2] \in Nat /\ q[2] <= inst
      BY <1>0, <2>1
    <3>2. q[2] = inst + 1
      BY <2>2
    <3> QED
      BY <1>0, <3>1, <3>2
  <2>3. ASSUME NEW g \in Launches,
               \/ /\ MakePipe(g)
                  /\ made'[p] = [inst |-> inst, at |-> LinkEnds(Links[g][frame[g].i])]
               \/ /\ Accept /\ g = root
                  /\ made'[p] = [inst |-> inst + 1, at |-> SocketEnds(g)]
        PROVE  FALSE
    <3>1. \A o \in running' : o[2] = inst' => o[1] # q[1]
      BY <2>3, NewPipe
    <3>2. CASE MakePipe(g) /\ made'[p].inst = inst
      BY <3>1, <3>2 DEF MakePipe, status
    <3> QED
      BY <2>3, <2>2, <3>2
  <2>4. ASSUME Accept, made'[p] = [inst |-> inst + 1, at |-> SocketEnds(root)] PROVE FALSE
    <3>1. PICK g \in Launches : g = root
      BY <2>4, BeginsDoes
    <3> QED
      BY <2>3, <2>4, <3>1
  <2>5. CASE made'[p].at = {}
    BY <2>5 DEF Arrives
  <2>6. ASSUME NEW fd \in ClientLinks, NEW d \in Ends,
               made'[p] = [inst |-> inst + 1, at |-> {<<d, root, fd>>}]
        PROVE  FALSE
    BY <2>2, <2>6
  <2>7. CASE p \in 1 .. pipes /\ made'[p] = made[p]
    BY <1>1, <2>1, <2>7
  <2>8. \A g \in Launches :
          ~(MakePipe(g) /\ made'[p] = [inst |-> inst, at |-> LinkEnds(Links[g][frame[g].i])])
    BY <2>3
  <2>9. \A fd \in ClientLinks, d \in Ends : made'[p] # [inst |-> inst + 1, at |-> {<<d, root, fd>>}]
    BY <2>6
  <2> QED
    BY <1>0, <2>4, <2>5, <2>7, <2>8, <2>9, OldOrNew
<1> QED
  BY <1>2, <1>3

-----------------------------------------------------------------------------
(* The invariant *)

\* Once the launcher has ended, programs only end.
LEMMA ExitedSteps ==
  ASSUME IInv, [Next]_vars, exited'
  PROVE  running' \subseteq running /\ UNCHANGED <<garbled, image, pipes, made>>
<1>1. cur # NoNode => ~exited
  BY DEF IInv, Chain
<1>2. ASSUME NEW n \in Launches, Advance(n) PROVE FALSE
  BY <1>1, <1>2, AdvanceFrame, DocumentTree DEF IInv
<1>3. ASSUME NEW n \in Launches, Returns(n) \/ \E s \in Nodes : StartLaunch(n, s) PROVE FALSE
  BY <1>1, <1>3, DocumentTree DEF Returns, StartLaunch, At, status
<1>4. ASSUME NEW n \in Launches, Throws(n)
      PROVE  running' = running /\ UNCHANGED <<garbled, image, pipes, made>>
  BY <1>4 DEF Throws, programs, ghosts
<1>5. ~Startup /\ ~Accept /\ ~ClientPipe
  BY DEF Startup, Accept, ClientPipe, Idling, status
<1>6. \A k \in Fds, fd \in ClientLinks : ~ClientLink(k, fd) /\ ~ClientClose(k)
  BY DEF ClientLink, ClientClose, Idling, status
<1>7. \A k \in Fds : ~ClientClose(k)
  BY DEF ClientClose, Idling, status
<1>8. ASSUME UNCHANGED vars \/ Stopped \/ \E q \in Processes : ProgramExits(q) \/ ProgramSeesEnd(q)
      PROVE  running' \subseteq running /\ UNCHANGED <<garbled, image, pipes, made>>
  BY <1>8 DEF vars, Stopped, ProgramExits, ProgramSeesEnd, End, status, programs, ghosts
<1> QED
  BY <1>2, <1>3, <1>4, <1>5, <1>6, <1>7, <1>8, Steps DEF Elsewhere

\* What holds of every document.
Known ==
  /\ Numbers
  /\ Fine => Below /\ Apart /\ Hands /\ SourceDone /\ Origin
  /\ ~garbled => ImagesTrue

\* What holds of one that names no descriptor twice.
Whole ==
  /\ Fine => Unique /\ Carried
  /\ ~garbled => ImagesWhole

LEMMA KnownInit == Init => Known /\ Whole
<1> SUFFICES ASSUME Init PROVE Known /\ Whole
  OBVIOUS
<1>1. /\ frame = [n \in Launches |-> Idle] /\ running = {} /\ pipes = 0
      /\ fdMap = [n \in Nodes |-> NoLinks]
  BY DEF Init
<1>2. \A n \in Launches : ~Active(n)
  BY <1>1 DEF Active, Idle, Frame
<1>3. \A m \in Nodes, k \in Fds : fdMap[m][k] = NoFd
  BY <1>1 DEF NoLinks
<1>4. SourceDone /\ Unique
  BY <1>3 DEF SourceDone, Unique
<1>5. Origin /\ Carried
  BY <1>1 DEF Origin, Carried
<1>6. ImagesTrue /\ ImagesWhole
  BY <1>1 DEF ImagesTrue, ImagesWhole
<1> QED
  BY <1>4, <1>5, <1>6, HandsInit DEF Known, Whole

LEMMA KnownNext ==
  ASSUME IInv, IInv', Within, Known, [Next]_vars
  PROVE  Known'
<1>0. Numbers /\ Past /\ TableKnown /\ ImageKnown /\ MadeThen /\ TypeOK
  BY DEF Known, Numbers, IInv
<1>1. Numbers'
  BY <1>0, NumbersNext
<1>2. CASE Fine'
  <2>1. Fine
    BY <1>0, <1>2, FineSteps
  <2>2. Below /\ Apart /\ Hands /\ SourceDone /\ Origin /\ LinksTrue /\ ImagesTrue
    BY <2>1 DEF Known, Fine, Hands
  <2>3. Below' /\ Apart' /\ Hands'
    BY <1>0, <1>2, <2>2, BelowNext, ApartNext, HandsNext
  <2>4. SourceDone' /\ Origin' /\ ImagesTrue'
    BY <1>0, <1>2, <2>1, <2>2, <2>3, SourceDoneNext, OriginNext, ImagesTrueNext
  <2> QED
    BY <1>1, <2>3, <2>4 DEF Known
<1>3. CASE exited'
  <2>1. running' \subseteq running /\ UNCHANGED <<garbled, image, pipes, made>>
    BY <1>3, ExitedSteps
  <2>2. ASSUME ImagesTrue PROVE ImagesTrue'
    <3> SUFFICES ASSUME NEW q \in running', NEW k \in Fds, NEW p \in 1 .. pipes', NEW e \in Ends,
                        image'[q][k] = <<p, e>>
                 PROVE  made'[p].inst = q[2] /\ Arrives(q[1], k, p, e)'
      BY DEF ImagesTrue
    <3>1. q \in running /\ p \in 1 .. pipes /\ image[q][k] = <<p, e>>
      BY <2>1
    <3>2. made[p].inst = q[2] /\ Arrives(q[1], k, p, e)
      BY <2>2, <3>1 DEF ImagesTrue
    <3> QED
      BY <2>1, <3>2 DEF Arrives
  <2> QED
    BY <1>1, <1>3, <2>1, <2>2 DEF Known, Fine
<1>4. CASE garbled'
  BY <1>1, <1>4 DEF Known, Fine
<1> QED
  BY <1>2, <1>3, <1>4 DEF Fine

LEMMA WholeNext ==
  ASSUME OneSource, IInv, IInv', Within, Known, Known', Whole, [Next]_vars
  PROVE  Whole'
<1>0. Numbers /\ TableKnown /\ MadeThen /\ TypeOK
  BY DEF Known, Numbers, IInv
<1>1. CASE Fine'
  <2>1. Fine
    BY <1>0, <1>1, FineSteps
  <2>2. /\ Below /\ Apart /\ Hands /\ SourceDone /\ Origin /\ LinksTrue
        /\ Unique /\ Carried /\ ImagesWhole
    BY <2>1 DEF Known, Whole, Fine, Hands
  <2>3. Apart'
    BY <1>1 DEF Known
  <2>4. Unique' /\ Carried' /\ ImagesWhole'
    BY <1>0, <1>1, <2>1, <2>2, <2>3, UniqueNext, CarriedNext, ImagesWholeNext
  <2> QED
    BY <2>4 DEF Whole
<1>2. CASE exited'
  <2>1. running' \subseteq running /\ UNCHANGED <<garbled, image, pipes, made>>
    BY <1>2, ExitedSteps
  <2>2. ASSUME ImagesWhole PROVE ImagesWhole'
    BY <2>1, <2>2 DEF ImagesWhole, Arrives
  <2> QED
    BY <1>2, <2>1, <2>2 DEF Whole, Fine
<1>3. CASE garbled'
  BY <1>3 DEF Whole, Fine
<1> QED
  BY <1>1, <1>2, <1>3 DEF Fine

LEMMA KnownAlways == Spec => []Known
<1>1. Init => Known
  BY KnownInit
<1>2. IInv /\ IInv' /\ Within /\ Known /\ [Next]_vars => Known'
  BY KnownNext
<1> QED
  BY <1>1, <1>2, Invariant, PTL DEF Spec

\* The half of Wired that holds of every document, also of one that names a
\* descriptor twice: what a program holds of a pipe was made by the startup that
\* started it, and the linkages, socket linkages and externalizations lead that
\* end there; nothing leaks to it from another startup, another branch of the
\* document or the client (LaunchNode.cxx:24-37, Node.cxx:87, 118-146).
NoStrangers ==
  ~garbled =>
    \A q \in running, k \in Fds, p \in 1 .. pipes, e \in Ends :
      image[q][k] = <<p, e>> =>
        /\ made[p].inst = q[2]
        /\ \E a \in made[p].at : a[1] = e /\ Leads(<<a[2], a[3]>>, <<q[1], k>>)

\* No descriptor of a pipe reaches a program that the document does not lead it to.
THEOREM NothingLeaks == Spec => []NoStrangers
<1>1. Known => NoStrangers
  BY DEF Known, ImagesTrue, NoStrangers, Arrives
<1> QED
  BY <1>1, KnownAlways, PTL

\* Whatever the document, if it names no descriptor of a node twice: a program
\* holds an end of a pipe at a descriptor when, and only when, the pipe was made by
\* the startup that started it and the document leads that end there, through
\* however many launch nodes (LaunchNode.cxx:24-37).
THEOREM WiredRight == ASSUME OneSource PROVE Spec => []Wired
<1>1. Init => Whole
  BY KnownInit
<1>2. IInv /\ IInv' /\ Within /\ Known /\ Known' /\ Whole /\ [Next]_vars => Whole'
  BY WholeNext
<1>3. Known /\ Whole => Wired
  <2> SUFFICES ASSUME ImagesTrue, ImagesWhole,
                      NEW q \in running, NEW k \in Fds, NEW p \in 1 .. pipes, NEW e \in Ends
               PROVE  image[q][k] = <<p, e>> <=> made[p].inst = q[2] /\ Arrives(q[1], k, p, e)
    BY DEF Known, Whole, Wired, Arrives
  <2>1. image[q][k] = <<p, e>> => made[p].inst = q[2] /\ Arrives(q[1], k, p, e)
    BY DEF ImagesTrue
  <2>2. made[p].inst = q[2] /\ Arrives(q[1], k, p, e) => image[q][k] = <<p, e>>
    BY DEF ImagesWhole
  <2> QED
    BY <2>1, <2>2
<1> QED
  BY <1>1, <1>2, <1>3, Invariant, KnownAlways, PTL DEF Spec
=============================================================================
