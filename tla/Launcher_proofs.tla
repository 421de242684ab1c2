--------------------------- MODULE Launcher_proofs ---------------------------
(***************************************************************************)
(* Proofs about Launcher, for any number of launchers, any documents and   *)
(* any command lines.                                                      *)
(***************************************************************************)
EXTENDS Launcher, SequenceTheorems, WellFoundedInduction, TLAPS

\* Without another one's unlink() the FIFO at the name is that of the launcher
\* which is still to remove one.
HasFifo == ~taken => \A l \in Launchers : made[l] /\ pc[l] \notin Ended => fifo = l

IInv == TypeOK /\ FifoOwned /\ HasFifo

\* The invariant holds at first.
LEMMA InitInv == Init => IInv
BY LauncherAssumption DEF Init, IInv, TypeOK, FifoOwned, HasFifo, Places, Persisting

\* A step of one launcher through main().
LEMMA StepInv ==
  ASSUME IInv, NEW l \in Launchers,
         Main(l) \/ Interrupt(l) \/ Terminate(l) \/ HandlerThrows(l)
  PROVE  IInv'
<1> USE LauncherAssumption DEF IInv, TypeOK, FifoOwned, HasFifo, Places, Started, Ended,
                               Persisting, At, Goto
<1>1. CASE Option(l) BY <1>1 DEF Option
<1>2. CASE OptionsDone(l) BY <1>2 DEF OptionsDone
<1>3. CASE Parse(l) BY <1>3 DEF Parse
<1>4. CASE XmlException(l) BY <1>4 DEF XmlException
<1>5. CASE Execute(l) BY <1>5 DEF Execute
<1>6. CASE Startup(l) BY <1>6 DEF Startup
<1>7. CASE MakeFifo(l)
  <2>1. CASE persist[l] /\ fifo = None
    <3>1. pc[l] = "mkfifo" /\ fifo' = l /\ made' = [made EXCEPT ![l] = TRUE]
          /\ pc' = [pc EXCEPT ![l] = "open"] /\ UNCHANGED <<persist, opened, writers, written, taken>>
      BY <1>7, <2>1 DEF MakeFifo
    <3>2. TypeOK' /\ FifoOwned' BY <2>1, <3>1
    <3>3. ~taken => \A m \in Launchers : ~(made[m] /\ pc[m] \notin Ended) BY <2>1
    <3> QED BY <3>1, <3>2, <3>3
  <2>2. CASE ~(persist[l] /\ fifo = None) BY <1>7, <2>2 DEF MakeFifo
  <2> QED BY <2>1, <2>2
<1>8. CASE OpenFifo(l) BY <1>8 DEF OpenFifo
<1>9. CASE ReadFifo(l) BY <1>9 DEF ReadFifo
<1>10. CASE UnlinkFifo(l) BY <1>10 DEF UnlinkFifo
<1>11. CASE Return(l) BY <1>11 DEF Return
<1>12. CASE Interrupt(l) BY <1>12 DEF Interrupt
<1>13. CASE Terminate(l) BY <1>13 DEF Terminate
<1>14. CASE HandlerThrows(l) BY <1>14 DEF HandlerThrows
<1> QED
  BY <1>1, <1>2, <1>3, <1>4, <1>5, <1>6, <1>7, <1>8, <1>9, <1>10, <1>11, <1>12, <1>13, <1>14
  DEF Main

\* Every step keeps the invariant.
LEMMA NextInv == ASSUME IInv, [Next]_vars PROVE IInv'
<1>1. CASE \E l \in Launchers : Main(l) \/ Interrupt(l) \/ Terminate(l) \/ HandlerThrows(l)
  BY <1>1, StepInv
<1>2. CASE SendCommand
  BY <1>2, LauncherAssumption DEF SendCommand, IInv, TypeOK, FifoOwned, HasFifo, Places, Started,
     Persisting, Ended, At
<1>3. CASE \E f \in Launchers : WriteCommand(f) \/ CloseCommand(f)
  BY <1>3 DEF WriteCommand, CloseCommand, main, IInv, TypeOK, FifoOwned, HasFifo
<1>4. CASE AllEnded \/ UNCHANGED vars
  BY <1>4 DEF AllEnded, vars, main, IInv, TypeOK, FifoOwned, HasFifo
<1> QED BY <1>1, <1>2, <1>3, <1>4 DEF Next

\* The invariant always holds.
LEMMA Invariant == Spec => []IInv
BY InitInv, NextInv, PTL DEF Spec

\* TypeOK, for any launchers: in particular made_fifo is set all the way from
\* mkfifo() to unlink(), and is not set elsewhere but in catch(...) and in what
\* has ended (main.cxx:69-88).
THEOREM TypeCorrect == Spec => []TypeOK
BY Invariant, PTL DEF IInv

\* A launcher that returns from main(), be it by way of catch(...), never leaves
\* the FIFO behind, whatever other launchers do and whatever the SIGCHLD handler
\* throws; only one that is interrupted or ended by std::terminate() may
\* (main.cxx:69-88).
THEOREM NoneLeftBehind == Spec => []FifoOwned
BY Invariant, PTL DEF IInv

\* The FIFO excludes: until a failed parse removes another launcher's, no two
\* launchers persist at once (main.cxx:69, 81).
THEOREM Excludes == Spec => []OnePersists
<1>1. IInv => OnePersists
  BY DEF IInv, TypeOK, HasFifo, OnePersists
<1> QED BY <1>1, Invariant, PTL

\* Until a failed parse removes its FIFO, a launcher that persists has it at the
\* name, where a command reaches it (main.cxx:27-30, 69-75).
THEOREM Reached == Spec => []CanBeTold
<1>1. IInv => CanBeTold
  BY DEF IInv, TypeOK, HasFifo, Persisting, Ended, CanBeTold
<1> QED BY <1>1, Invariant, PTL

-----------------------------------------------------------------------------
(* Construction: the storage that is chosen, and for which elements it is *)

\* The types that extend a type are those in the hierarchy of the schema.
LEMMA Hierarchy ==
  /\ Types["node_t"] = {"node_t"}
  /\ Types["file_t"] = {"file_t", "node_t"}
  /\ Types["executable_t"] = {"executable_t", "file_t", "node_t"}
  /\ Types["script_t"] = {"script_t", "executable_t", "file_t", "node_t"}
  /\ Types["group_t"] = {"group_t", "node_t"}
  /\ Types["launch_t"] = {"launch_t", "group_t", "node_t"}
  /\ Types["sequence_node_t"] = {"sequence_node_t", "group_t", "node_t"}
  /\ Types["socket_node_t"] = {"socket_node_t", "launch_t", "group_t", "node_t"}
BY DEF Types, Extends

\* A set of some of the numbers 1 to 5 has a largest one.
LEMMA Largest ==
  ASSUME NEW I \in SUBSET (1 .. 5), I # {}
  PROVE  Max(I) \in I /\ \A j \in I : j <= Max(I)
<1>1. \E x \in I : \A y \in I : x >= y
  <2>1. CASE 5 \in I BY <2>1
  <2>2. CASE 5 \notin I /\ 4 \in I BY <2>2
  <2>3. CASE 5 \notin I /\ 4 \notin I /\ 3 \in I BY <2>3
  <2>4. CASE 5 \notin I /\ 4 \notin I /\ 3 \notin I /\ 2 \in I BY <2>4
  <2>5. CASE 5 \notin I /\ 4 \notin I /\ 3 \notin I /\ 2 \notin I
    <3>1. \A x \in I : x \in 1 .. 5 BY <2>5
    <3>2. \A x \in I : x = 1 BY <2>5, <3>1
    <3>3. PICK x : x \in I OBVIOUS
    <3>4. \A y \in I : x >= y BY <3>2, <3>3
    <3> QED BY <3>3, <3>4
  <2> QED BY <2>1, <2>2, <2>3, <2>4, <2>5
<1> QED BY <1>1 DEF Max

\* execute() takes the last storage that constructs a node.
LEMMA LastStorage ==
  ASSUME NEW e, Class(e) # NoClass
  PROVE  \E i \in 1 .. 5 : /\ Class(e) = Storages[i].class
                          /\ Constructs(Storages[i], e)
                          /\ \A j \in 1 .. 5 : Constructs(Storages[j], e) => j <= i
<1> DEFINE Able == {i \in 1 .. 5 : Constructs(Storages[i], e)}
<1>1. Len(Storages) = 5 BY DEF Storages
<1>2. Class(e) = LET i == IF Able # {} THEN Max(Able) ELSE 0
                 IN  IF i = 0 THEN NoClass ELSE Storages[i].class
  BY <1>1 DEF Class, SelectLastInSeq
<1>3. Able # {} /\ Class(e) = Storages[Max(Able)].class
  BY <1>2, Largest
<1> QED BY <1>3, Largest

\* The storages are registered so that of those which construct a node of an
\* element the last is for the type that extends the types of the others.
LEMMA StoragesInOrder ==
  ASSUME NEW e \in Elements, NEW i \in 1 .. 5, NEW j \in 1 .. 5, j <= i,
         Constructs(Storages[i], e), Constructs(Storages[j], e)
  PROVE  Storages[j].contained \in Types[Storages[i].contained]
<1> DEFINE t == Element[e].type
<1>1. t \in DOMAIN Extends BY ElementAssumption
<1>2. t \in {"node_t", "file_t", "executable_t", "script_t", "group_t", "launch_t",
            "sequence_node_t", "socket_node_t"}
  BY <1>1 DEF Extends
<1>3. /\ Storages[1].contained = "executable_t" /\ Storages[2].contained = "script_t"
      /\ Storages[3].contained = "launch_t" /\ Storages[4].contained = "sequence_node_t"
      /\ Storages[5].contained = "socket_node_t"
  BY DEF Storages
<1>4. Storages[i].contained \in Types[t] /\ Storages[j].contained \in Types[t]
  BY DEF Constructs
<1> HIDE DEF t
<1>5. CASE t \in {"node_t", "file_t", "executable_t", "group_t"} BY <1>3, <1>4, <1>5, Hierarchy
<1>6. CASE t = "script_t" BY <1>3, <1>4, <1>6, Hierarchy
<1>7. CASE t = "launch_t" BY <1>3, <1>4, <1>7, Hierarchy
<1>8. CASE t = "sequence_node_t" BY <1>3, <1>4, <1>8, Hierarchy
<1>9. CASE t = "socket_node_t" BY <1>3, <1>4, <1>9, Hierarchy
<1> QED BY <1>2, <1>5, <1>6, <1>7, <1>8, <1>9

\* A node is left only of an element that execute() was called for: the groups'
\* maps hold no others.
LEMMA NodesExecuted ==
  ASSUME NEW root \in Elements
  PROVE  Nodes[root] \subseteq Executed[root]
<1>1. \A g \in Elements : GroupNodes(g) \subseteq ToSet(Element[g].nodes)
  BY DEF GroupNodes, ToSet
<1>2. ASSUME NEW e \in Nodes[root], NEW S \in SUBSET Elements, root \in S,
             \A g \in S : Class(g) \in Groups => ToSet(Element[g].nodes) \subseteq S
      PROVE  e \in S
  <2>1. \A g \in S : Class(g) \in Groups => GroupNodes(g) \subseteq S
    BY <1>1, <1>2
  <2> QED BY <1>2, <2>1 DEF Nodes, GetsTo
<1>3. Nodes[root] \subseteq Elements BY DEF Nodes, GetsTo
<1> QED BY <1>2, <1>3 DEF Executed, GetsTo

\* Where execute() got through a document, every node of it has the class for
\* the type that extends all the others.
LEMMA CompleteSpecific ==
  ASSUME NEW root \in Elements, Complete[root], NEW e \in Nodes[root]
  PROVE  \E i \in DOMAIN Storages :
           /\ Class(e) = Storages[i].class
           /\ Constructs(Storages[i], e)
           /\ \A j \in DOMAIN Storages :
                Constructs(Storages[j], e) => Storages[j].contained \in Types[Storages[i].contained]
<1>1. e \in Elements BY DEF Nodes, GetsTo
<1>2. Class(e) # NoClass BY NodesExecuted DEF Complete
<1>3. DOMAIN Storages = 1 .. 5 BY DEF Storages
<1>4. PICK i \in 1 .. 5 : /\ Class(e) = Storages[i].class
                         /\ Constructs(Storages[i], e)
                         /\ \A j \in 1 .. 5 : Constructs(Storages[j], e) => j <= i
  BY <1>2, LastStorage
<1> QED BY <1>1, <1>3, <1>4, StoragesInOrder

-----------------------------------------------------------------------------
(* The document of a launcher that has come past execute() *)

\* A launcher that executes has parsed a document, and one that starts up has
\* got through it.
Through ==
  /\ DOMAIN pc = Launchers /\ DOMAIN args = Launchers
  /\ \A l \in Launchers :
       /\ pc[l] \in {"execute", "startup", "mkfifo"} => File(l) \in DOMAIN Documents
       /\ pc[l] \in {"startup", "mkfifo"} => Complete[Documents[File(l)]]

\* A launcher moves on with its file name, and none of the others does.
LEMMA Moves ==
  ASSUME Through, NEW l \in Launchers, NEW p, Goto(l, p), args' = args,
         p \in {"execute", "startup", "mkfifo"} => File(l) \in DOMAIN Documents,
         p \in {"startup", "mkfifo"} => Complete[Documents[File(l)]]
  PROVE  Through'
BY DEF Through, Goto, File

\* It holds at first and every step keeps it.
LEMMA ThroughAlways == Spec => []Through
<1>1. Init => Through
  BY LauncherAssumption DEF Init, Through
<1>2. ASSUME Through, NEW l \in Launchers,
             Main(l) \/ Interrupt(l) \/ Terminate(l) \/ HandlerThrows(l)
      PROVE  Through'
  <2> USE <1>2, Moves DEF At
  <2>1. CASE Option(l)
    BY <2>1 DEF Option, Through, File
  <2>2. CASE OptionsDone(l) BY <2>2 DEF OptionsDone
  <2>3. CASE Parse(l) BY <2>3 DEF Parse
  <2>4. CASE XmlException(l) BY <2>4 DEF XmlException
  <2>5. CASE Execute(l)
    <3>1. File(l) \in DOMAIN Documents /\ args' = args
      BY <2>5 DEF Execute, Through
    <3>2. Built[File(l)].complete = Complete[Documents[File(l)]]
      BY <3>1 DEF Built
    <3> QED BY <2>5, <3>1, <3>2 DEF Execute
  <2>6. CASE Startup(l) BY <2>6 DEF Startup, Through
  <2>7. CASE MakeFifo(l) BY <2>7 DEF MakeFifo
  <2>8. CASE OpenFifo(l) BY <2>8 DEF OpenFifo
  <2>9. CASE ReadFifo(l) BY <2>9 DEF ReadFifo
  <2>10. CASE UnlinkFifo(l) BY <2>10 DEF UnlinkFifo
  <2>11. CASE Return(l) BY <2>11 DEF Return
  <2>12. CASE Interrupt(l) BY <2>12 DEF Interrupt
  <2>13. CASE Terminate(l) BY <2>13 DEF Terminate
  <2>14. CASE HandlerThrows(l) BY <2>14 DEF HandlerThrows
  <2> QED
    BY <2>1, <2>2, <2>3, <2>4, <2>5, <2>6, <2>7, <2>8, <2>9, <2>10, <2>11, <2>12, <2>13, <2>14
    DEF Main
<1>3. ASSUME Through, [Next]_vars PROVE Through'
  <2>1. CASE \E l \in Launchers : Main(l) \/ Interrupt(l) \/ Terminate(l) \/ HandlerThrows(l)
    BY <1>3, <2>1, <1>2
  <2>2. CASE SendCommand
    BY <1>3, <2>2 DEF SendCommand, Through, File
  <2>3. CASE (\E f \in Launchers : WriteCommand(f) \/ CloseCommand(f)) \/ AllEnded \/ UNCHANGED vars
    BY <1>3, <2>3 DEF WriteCommand, CloseCommand, AllEnded, vars, main, Through, File
  <2> QED BY <1>3, <2>1, <2>2, <2>3 DEF Next
<1> QED BY <1>1, <1>3, PTL DEF Spec

\* Whatever the documents, no launcher starts one up with a node of a class that
\* is for less than the element is (NodeContext.cxx:10, arclaunch.hxx.in:20-34).
THEOREM ClassesSpecific == Spec => []MostSpecific
<1>1. ASSUME Through PROVE MostSpecific
  <2>1. SUFFICES ASSUME NEW l \in Launchers, At(l, "mkfifo"),
                        NEW e \in Nodes[Documents[File(l)]]
                 PROVE  \E i \in DOMAIN Storages :
                          /\ Class(e) = Storages[i].class
                          /\ Constructs(Storages[i], e)
                          /\ \A j \in DOMAIN Storages : Constructs(Storages[j], e) =>
                               Storages[j].contained \in Types[Storages[i].contained]
    BY DEF MostSpecific
  <2>2. File(l) \in DOMAIN Documents /\ Complete[Documents[File(l)]]
    BY <1>1, <2>1 DEF Through, At
  <2>3. Documents[File(l)] \in Elements BY <2>2, LauncherAssumption
  <2> QED BY <2>1, <2>2, <2>3, CompleteSpecific
<1> QED BY <1>1, ThroughAlways, PTL

-----------------------------------------------------------------------------
(* Numbers and sequences: induction and search, concatenation, FlattenSeq *)

\* The numbers are well-founded: a set of them stands for what is said of them,
\* so induction needs no theorem with a predicate as its parameter.
LEMMA Less == IsWellFoundedOn({p \in Nat \X Nat : p[1] < p[2]}, Nat)
BY NatLessThanWellFounded DEF OpToRel

\* A set of numbers that is not empty has a least one.
LEMMA Least ==
  ASSUME NEW T \in SUBSET Nat, T # {}
  PROVE  \E x \in T : \A y \in T : x <= y
<1> DEFINE R == {p \in Nat \X Nat : p[1] < p[2]}
<1>1. PICK x \in T : \A y \in T : ~ (<<y, x>> \in R)
  <2>1. IsWellFoundedOn(R, Nat) BY Less
  <2> HIDE DEF R
  <2> QED BY <2>1, WFMin
<1>2. \A y \in T : y < x => <<y, x>> \in R OBVIOUS
<1>3. \A y \in T : y \in Nat /\ x \in Nat OBVIOUS
<1> HIDE DEF R
<1>4. \A y \in T : ~ (y < x) BY <1>1, <1>2
<1>5. \A y \in T : x <= y BY <1>3, <1>4
<1> QED BY <1>5

\* Induction: a set of numbers that has 0, and with each the next, has them all.
LEMMA Induction ==
  ASSUME NEW S, 0 \in S, \A n \in Nat : n \in S => n + 1 \in S
  PROVE  Nat \subseteq S
<1>1. SUFFICES ASSUME Nat \ S # {} PROVE FALSE
  OBVIOUS
<1>2. PICK x \in Nat \ S : \A y \in Nat \ S : x <= y
  BY <1>1, Least
<1>3. x - 1 \in Nat /\ x - 1 \in S
  BY <1>2
<1> QED BY <1>2, <1>3

\* Min() is that one.
LEMMA FirstOf ==
  ASSUME NEW I \in SUBSET Nat, I # {}
  PROVE  Min(I) \in I /\ \A j \in I : Min(I) <= j
BY Least DEF Min

\* A function on 1 .. n is a sequence of that length.
LEMMA FromFunction ==
  ASSUME NEW n \in Nat, NEW s, s = [i \in 1 .. n |-> s[i]]
  PROVE  IsSequence(s) /\ Len(s) = n
<1>1. \A i \in 1 .. n : s[i] \in ToSet(s)
  BY DEF ToSet
<1>2. [i \in 1 .. n |-> s[i]] \in Seq(ToSet(s))
  BY <1>1
<1> QED BY <1>2 DEF IsSequence

\* Each sequence is a function on the numbers up to its length.
LEMMA ToFunction ==
  ASSUME NEW s, IsSequence(s)
  PROVE  Len(s) \in Nat /\ DOMAIN s = 1 .. Len(s) /\ s = [i \in 1 .. Len(s) |-> s[i]]
BY LenProperties DEF IsSequence

\* Two sequences one after the other, whatever they are of.
LEMMA ConcatIs ==
  ASSUME NEW s, NEW t, IsSequence(s), IsSequence(t)
  PROVE  /\ IsSequence(s \o t)
         /\ Len(s \o t) = Len(s) + Len(t)
         /\ \A i \in 1 .. Len(s) + Len(t) :
              (s \o t)[i] = IF i <= Len(s) THEN s[i] ELSE t[i - Len(s)]
<1> DEFINE S == ToSet(s) \cup ToSet(t)
           c == s \o t
<1>1. s \in Seq(S) /\ t \in Seq(S)
  BY SeqMonotonic DEF IsSequence
<1> HIDE DEF S
<1>2. /\ c \in Seq(S) /\ Len(c) = Len(s) + Len(t)
      /\ \A i \in 1 .. Len(s) + Len(t) : c[i] = IF i <= Len(s) THEN s[i] ELSE t[i - Len(s)]
  BY <1>1, ConcatProperties
<1> HIDE DEF c
<1>3. c = [i \in 1 .. Len(c) |-> c[i]] /\ Len(c) \in Nat
  BY <1>2, LenProperties
<1>4. IsSequence(c)
  BY <1>3, FromFunction
<1> QED BY <1>2, <1>4 DEF c

\* Two more elements.
LEMMA ConcatTwo ==
  ASSUME NEW n \in Nat, NEW b, NEW c, b = [i \in 1 .. n |-> c[i]],
         c = [i \in 1 .. n + 2 |-> c[i]]
  PROVE  c = b \o <<c[n + 1], c[n + 2]>>
<1> DEFINE t == <<c[n + 1], c[n + 2]>>
           d == b \o t
<1>1. IsSequence(b) /\ Len(b) = n
  BY FromFunction
<1>2. IsSequence(t) /\ Len(t) = 2 /\ t[1] = c[n + 1] /\ t[2] = c[n + 2]
  BY DEF IsSequence, ToSet
<1> HIDE DEF t
<1>3. /\ IsSequence(d) /\ Len(d) = n + 2
      /\ \A i \in 1 .. n + 2 : d[i] = IF i <= n THEN b[i] ELSE t[i - n]
  <2>1. /\ IsSequence(d) /\ Len(d) = Len(b) + Len(t)
        /\ \A i \in 1 .. Len(b) + Len(t) : d[i] = IF i <= Len(b) THEN b[i] ELSE t[i - Len(b)]
    BY <1>1, <1>2, ConcatIs
  <2> HIDE DEF d
  <2> QED BY <1>1, <1>2, <2>1
<1> HIDE DEF d
<1>4. ASSUME NEW i \in 1 .. n + 2 PROVE d[i] = c[i]
  <2>1. CASE i <= n
    <3>1. i \in 1 .. n BY <2>1
    <3>2. b[i] = c[i] BY <3>1
    <3> QED BY <1>3, <2>1, <3>2
  <2>2. CASE i = n + 1 BY <1>2, <1>3, <2>2
  <2>3. CASE i = n + 2 BY <1>2, <1>3, <2>3
  <2> QED BY <2>1, <2>2, <2>3
<1>5. d = [i \in 1 .. n + 2 |-> d[i]]
  BY <1>3, ToFunction
<1> QED BY <1>4, <1>5 DEF d, t

\* A search that gives the least index, or 0 when there is none.
LEMMA Search ==
  ASSUME NEW n \in Nat, NEW I \in SUBSET (1 .. n), NEW i, i = IF I # {} THEN Min(I) ELSE 0
  PROVE  IF i = 0 THEN I = {} ELSE i \in I /\ \A j \in 1 .. i - 1 : j \notin I
<1>1. CASE I = {} BY <1>1
<1>2. CASE I # {}
  <2>1. I \subseteq Nat OBVIOUS
  <2>2. i = Min(I) BY <1>2
  <2>3. i \in I /\ \A j \in I : i <= j BY <1>2, <2>1, <2>2, FirstOf
  <2> QED BY <2>3
<1> QED BY <1>1, <1>2

\* What FlattenSeq is of a sequence that is not empty: the last of the sequences
\* that begin with its first and go on with the others, one after the other.
LEMMA Flattens ==
  ASSUME NEW s, NEW f, f = [i \in 1 .. Len(s) |-> IF i = 1 THEN s[i] ELSE f[i - 1] \o s[i]],
         Len(s) # 0
  PROVE  \E g : /\ g = [i \in 1 .. Len(s) |-> IF i = 1 THEN s[i] ELSE g[i - 1] \o s[i]]
                /\ FlattenSeq(s) = g[Len(s)]
BY Zenon DEF FlattenSeq

\* The first k names of a path, with the separators in front of them.
Begins(p, k) ==
  LET skipped == IF p.absolute THEN 0 ELSE 1
  IN  [i \in 1 .. 2 * k - skipped |->
        IF (i + skipped) % 2 = 1 THEN Sep ELSE p.directory[(i + skipped) \div 2]]

\* What the i-th name adds to them.
Piece(p, i) == IF i > 1 \/ p.absolute THEN <<Sep, p.directory[i]>> ELSE <<p.directory[i]>>

\* Each name after the first comes with a separator in front of it.
LEMMA BeginsNext ==
  ASSUME NEW p, NEW k \in Nat \ {0}
  PROVE  Begins(p, k + 1) = Begins(p, k) \o Piece(p, k + 1)
<1> DEFINE skipped == IF p.absolute THEN 0 ELSE 1
           n == 2 * k - skipped
           c == Begins(p, k + 1)
<1>1. skipped \in {0, 1} /\ n \in Nat
  OBVIOUS
<1>2. /\ Begins(p, k) = [i \in 1 .. n |->
           IF (i + skipped) % 2 = 1 THEN Sep ELSE p.directory[(i + skipped) \div 2]]
      /\ c = [i \in 1 .. n + 2 |->
           IF (i + skipped) % 2 = 1 THEN Sep ELSE p.directory[(i + skipped) \div 2]]
  BY <1>1 DEF Begins
<1>3. /\ (n + 1 + skipped) % 2 = 1
      /\ (n + 2 + skipped) % 2 = 0
      /\ (n + 2 + skipped) \div 2 = k + 1
  BY <1>1
<1>4. Piece(p, k + 1) = <<Sep, p.directory[k + 1]>>
  BY DEF Piece
<1> HIDE DEF c, n, skipped
<1>5. c[n + 1] = Sep /\ c[n + 2] = p.directory[k + 1]
  BY <1>1, <1>2, <1>3
<1>6. c = [i \in 1 .. n + 2 |-> c[i]] /\ Begins(p, k) = [i \in 1 .. n |-> c[i]]
  BY <1>1, <1>2
<1>7. c = Begins(p, k) \o <<c[n + 1], c[n + 2]>>
  BY <1>1, <1>6, ConcatTwo
<1> QED BY <1>4, <1>5, <1>7 DEF c

\* The first name has one only in an absolute path.
LEMMA BeginsFirst ==
  ASSUME NEW p
  PROVE  Begins(p, 1) = Piece(p, 1)
<1>1. CASE p.absolute
  <2>1. Begins(p, 1) = [i \in 1 .. 2 |-> IF i % 2 = 1 THEN Sep ELSE p.directory[i \div 2]]
    BY <1>1 DEF Begins
  <2>2. Piece(p, 1) = <<Sep, p.directory[1]>>
    BY <1>1 DEF Piece
  <2> QED BY <2>1, <2>2
<1>2. CASE ~ p.absolute
  <2>1. Begins(p, 1) = [i \in 1 .. 1 |-> IF (i + 1) % 2 = 1 THEN Sep ELSE p.directory[(i + 1) \div 2]]
    BY <1>2 DEF Begins
  <2>2. Piece(p, 1) = <<p.directory[1]>>
    BY <1>2 DEF Piece
  <2> QED BY <2>1, <2>2
<1> QED BY <1>1, <1>2

\* pathElemToPathData() writes the names and the separators between them.
LEMMA PathWritten ==
  ASSUME NEW p, IsSequence(p.directory)
  PROVE  PathData(p) = Written(p)
<1> DEFINE n == Len(p.directory)
           s == [i \in 1 .. n |-> Piece(p, i)]
           f == [i \in 1 .. n |-> Begins(p, i)]
<1>1. n \in Nat /\ DOMAIN p.directory = 1 .. n
  BY ToFunction
<1>2. PathData(p) = FlattenSeq(s)
  BY <1>1 DEF PathData, Piece
<1>3. Len(s) = n
  <2>1. s = [i \in 1 .. n |-> s[i]] OBVIOUS
  <2> HIDE DEF s, n
  <2> QED BY <1>1, <2>1, FromFunction
<1>4. CASE n = 0
  <2>1. FlattenSeq(s) = s BY <1>3, <1>4 DEF FlattenSeq
  <2>2. Written(p) = [i \in 1 .. 0 |->
          IF (i + 0) % 2 = 1 THEN Sep ELSE p.directory[(i + 0) \div 2]]
    BY <1>4 DEF Written
  <2>3. s = <<>> /\ Written(p) = <<>>
    BY <1>4, <2>2
  <2> QED BY <1>2, <2>1, <2>3
<1>5. CASE n # 0
  <2>1. Written(p) = Begins(p, n)
    BY <1>5 DEF Written, Begins
  <2> HIDE DEF n
  <2>2. \A i \in 1 .. n : s[i] = Piece(p, i) /\ f[i] = Begins(p, i)
    OBVIOUS
  <2>3. f = [i \in 1 .. Len(s) |-> IF i = 1 THEN s[i] ELSE f[i - 1] \o s[i]]
    <3>1. ASSUME NEW i \in 1 .. n PROVE Begins(p, i) = IF i = 1 THEN s[i] ELSE f[i - 1] \o s[i]
      <4>1. CASE i = 1 BY <2>2, <4>1, BeginsFirst
      <4>2. CASE i # 1
        <5>1. i - 1 \in Nat \ {0} /\ i - 1 \in 1 .. n BY <1>1, <4>2
        <5>2. Begins(p, (i - 1) + 1) = Begins(p, i - 1) \o Piece(p, (i - 1) + 1)
          BY <5>1, BeginsNext
        <5>3. (i - 1) + 1 = i OBVIOUS
        <5> QED BY <2>2, <4>2, <5>1, <5>2, <5>3
      <4> QED BY <4>1, <4>2
    <3> HIDE DEF s
    <3>2. f = [i \in 1 .. n |-> IF i = 1 THEN s[i] ELSE f[i - 1] \o s[i]]
      BY <3>1
    <3> QED BY <1>3, <3>2
  <2> HIDE DEF s, f
  <2>4. PICK g : /\ g = [i \in 1 .. Len(s) |-> IF i = 1 THEN s[i] ELSE g[i - 1] \o s[i]]
                /\ FlattenSeq(s) = g[Len(s)]
    BY <1>3, <1>5, <2>3, Flattens
  <2> DEFINE S == {i \in Nat : i + 1 \in 1 .. n => g[i + 1] = Begins(p, i + 1)}
  <2>5. g[1] = Begins(p, 1)
    BY <1>1, <1>3, <1>5, <2>2, <2>4, BeginsFirst
  <2>6. ASSUME NEW i \in Nat, i \in S PROVE i + 1 \in S
    <3>1. SUFFICES ASSUME (i + 1) + 1 \in 1 .. n
                   PROVE  g[(i + 1) + 1] = Begins(p, (i + 1) + 1)
      OBVIOUS
    <3>2. i + 1 \in 1 .. n /\ i + 1 \in Nat \ {0}
      BY <1>1, <3>1
    <3>3. g[(i + 1) + 1] = g[i + 1] \o s[(i + 1) + 1]
      <4>1. \A k \in 1 .. n : g[k] = IF k = 1 THEN s[k] ELSE g[k - 1] \o s[k]
        BY <1>3, <2>4
      <4>2. ((i + 1) + 1) - 1 = i + 1 /\ (i + 1) + 1 # 1
        OBVIOUS
      <4> QED BY <3>1, <4>1, <4>2
    <3>4. s[(i + 1) + 1] = Piece(p, (i + 1) + 1) BY <2>2, <3>1
    <3>5. g[i + 1] = Begins(p, i + 1) BY <2>6, <3>2
    <3> QED BY <3>2, <3>3, <3>4, <3>5, BeginsNext
  <2>7. Nat \subseteq S
    <3>1. 0 \in S BY <2>5
    <3> HIDE DEF S
    <3> QED BY <2>6, <3>1, Induction
  <2>8. n - 1 \in Nat /\ (n - 1) + 1 = n /\ n \in 1 .. n
    BY <1>1, <1>5
  <2>9. g[n] = Begins(p, n)
    BY <2>7, <2>8
  <2> QED BY <1>2, <1>3, <2>1, <2>4, <2>9
<1> QED BY <1>4, <1>5
\* A sequence of one.
LEMMA Single ==
  ASSUME NEW w
  PROVE  IsSequence(<<w>>) /\ Len(<<w>>) = 1 /\ <<w>>[1] = w
BY DEF IsSequence, ToSet

\* What is put in front of a sequence is its first element then.
LEMMA ConcatFirst ==
  ASSUME NEW w, NEW s, IsSequence(s)
  PROVE  (<<w>> \o s)[1] = w
<1> DEFINE t == <<w>>
           c == t \o s
<1>1. IsSequence(t) /\ Len(t) = 1 /\ t[1] = w
  BY Single
<1> HIDE DEF t
<1>2. \A j \in 1 .. Len(t) + Len(s) : c[j] = IF j <= Len(t) THEN t[j] ELSE s[j - Len(t)]
  BY <1>1, ConcatIs
<1> HIDE DEF c
<1>3. 1 \in 1 .. Len(t) + Len(s) /\ 1 <= Len(t)
  BY <1>1, ToFunction
<1>4. c[1] = t[1] BY <1>2, <1>3
<1> QED BY <1>1, <1>4 DEF c, t

\* A leaf's element is of an executable type, and a script node's of script_t.
LEMMA LeafTypes ==
  ASSUME NEW e \in Elements, Class(e) \in {"ExecutableNode", "ScriptNode"}
  PROVE  /\ "executable_t" \in Types[Element[e].type]
         /\ Class(e) = "ScriptNode" <=> Element[e].type = "script_t"
<1>1. Class(e) # NoClass BY DEF NoClass
<1>2. PICK i \in 1 .. 5 : /\ Class(e) = Storages[i].class
                         /\ Constructs(Storages[i], e)
                         /\ \A j \in 1 .. 5 : Constructs(Storages[j], e) => j <= i
  BY <1>1, LastStorage
<1>3. i \in {1, 2} /\ (i = 1 <=> Class(e) = "ExecutableNode")
  <2>1. /\ Storages[1].class = "ExecutableNode" /\ Storages[2].class = "ScriptNode"
        /\ Storages[3].class = "LaunchNode" /\ Storages[4].class = "SequenceNode"
        /\ Storages[5].class = "SocketNode"
    BY DEF Storages
  <2>2. i = 1 \/ i = 2 \/ i = 3 \/ i = 4 \/ i = 5 BY <1>2
  <2> QED BY <1>2, <2>1, <2>2
<1>4. /\ Constructs(Storages[1], e) <=> "executable_t" \in Types[Element[e].type]
      /\ Constructs(Storages[2], e) <=> "script_t" \in Types[Element[e].type]
  BY DEF Constructs, Storages
<1>5. Element[e].type \in {"node_t", "file_t", "executable_t", "script_t", "group_t", "launch_t",
                          "sequence_node_t", "socket_node_t"}
  BY ElementAssumption DEF Extends
<1>6. /\ "script_t" \in Types[Element[e].type] <=> Element[e].type = "script_t"
      /\ "executable_t" \in Types[Element[e].type] <=> Element[e].type \in {"script_t", "executable_t"}
  <2>1. \A t \in {"node_t", "file_t", "executable_t", "group_t"} :
          "script_t" \notin Types[t] /\ ("executable_t" \in Types[t] <=> t = "executable_t")
    BY Hierarchy
  <2>2. \A t \in {"launch_t", "sequence_node_t", "socket_node_t"} :
          "script_t" \notin Types[t] /\ "executable_t" \notin Types[t]
    BY Hierarchy
  <2>3. "script_t" \in Types["script_t"] /\ "executable_t" \in Types["script_t"]
    BY Hierarchy
  <2> QED BY <1>5, <2>1, <2>2, <2>3
<1>7. CASE i = 1
  <2>1. ~ Constructs(Storages[2], e) BY <1>2, <1>7
  <2> QED BY <1>2, <1>3, <1>4, <1>6, <1>7, <2>1
<1>8. CASE i = 2 BY <1>2, <1>3, <1>4, <1>6, <1>8
<1> QED BY <1>3, <1>7, <1>8

\* The child executes the first path that is for this system and can be, or exits.
LEMMA ExecRight ==
  ASSUME NEW x, IsSequence(x.path), \A i \in DOMAIN x.path : IsSequence(x.path[i].directory),
         IsSequence(x.arg)
  PROVE  LET Viable(i) == x.path[i].os = OS /\ Written(x.path[i]) \in Programs
         IN  IF Exec(x) = Exits THEN \A i \in DOMAIN x.path : ~Viable(i)
             ELSE \E i \in DOMAIN x.path :
                    /\ Viable(i) /\ \A j \in 1 .. i - 1 : ~Viable(j)
                    /\ Exec(x) = [prog |-> Written(x.path[i]),
                                  argv |-> <<Written(x.path[i])>> \o x.arg,
                                  envp |-> EnvData(x.env)]
<1> DEFINE Viable(i) == x.path[i].os = OS /\ Written(x.path[i]) \in Programs
           I == {i \in 1 .. Len(x.path) : Native(x.path[i]) /\ PathData(x.path[i]) \in Programs}
           k == IF I # {} THEN Min(I) ELSE 0
           found == [prog |-> PathData(x.path[k]),
                     argv |-> <<PathData(x.path[k])>> \o x.arg,
                     envp |-> EnvData(x.env)]
<1>1. Len(x.path) \in Nat /\ DOMAIN x.path = 1 .. Len(x.path)
  BY ToFunction
<1>2. Exec(x) = IF k = 0 THEN Exits ELSE found
  BY DEF Exec, SelectInSeq
<1>3. \A i \in DOMAIN x.path : PathData(x.path[i]) = Written(x.path[i])
  BY PathWritten
<1>4. I = {i \in 1 .. Len(x.path) : Viable(i)}
  BY <1>1, <1>3 DEF Native
<1>5. IF k = 0 THEN I = {} ELSE k \in I /\ \A j \in 1 .. k - 1 : j \notin I
  <2>1. I \in SUBSET (1 .. Len(x.path)) OBVIOUS
  <2>2. k = IF I # {} THEN Min(I) ELSE 0 OBVIOUS
  <2> HIDE DEF I, k
  <2> QED BY <1>1, <2>1, <2>2, Search
<1>6. found # Exits
  <2> HIDE DEF k
  <2>1. IsSequence(<<PathData(x.path[k])>>) /\ Len(<<PathData(x.path[k])>>) = 1
    BY Single
  <2>2. Len(<<PathData(x.path[k])>> \o x.arg) = 1 + Len(x.arg) /\ Len(x.arg) \in Nat
    BY <2>1, ConcatIs, ToFunction
  <2>3. Len(found.argv) # 0 BY <2>2
  <2> HIDE DEF found
  <2> QED BY <2>3 DEF Exits
<1>7. CASE k = 0
  <2>1. Exec(x) = Exits BY <1>2, <1>7
  <2>2. \A i \in DOMAIN x.path : ~Viable(i)
    <3>1. I = {} BY <1>5, <1>7
    <3> HIDE DEF I, Viable
    <3> QED BY <1>1, <1>4, <3>1
  <2> QED BY <2>1, <2>2
<1>8. CASE k # 0
  <2>1. Exec(x) = found /\ Exec(x) # Exits BY <1>2, <1>6, <1>8
  <2>2. k \in 1 .. Len(x.path) /\ Viable(k) /\ \A j \in 1 .. k - 1 : ~Viable(j)
    <3>1. k \in I /\ \A j \in 1 .. k - 1 : j \notin I BY <1>5, <1>8
    <3> HIDE DEF I, k, Viable
    <3>2. k \in 1 .. Len(x.path) /\ Viable(k) BY <1>4, <3>1
    <3>3. \A j \in 1 .. k - 1 : j \in 1 .. Len(x.path) BY <1>1, <3>2
    <3> QED BY <1>4, <3>1, <3>2, <3>3
  <2>3. found = [prog |-> Written(x.path[k]), argv |-> <<Written(x.path[k])>> \o x.arg,
                 envp |-> EnvData(x.env)]
    <3> HIDE DEF k
    <3> QED BY <1>1, <1>3, <2>2
  <2> HIDE DEF k, found
  <2> QED BY <1>1, <2>1, <2>2, <2>3
<1> QED BY <1>7, <1>8

\* argv is made of three sequences, and where to find them in it.
Made(v, w, a, b, c) == v = <<w>> \o ((a \o b) \o c)
Holds(v, a, b, c) ==
  /\ IsPrefix(a, Tail(v))
  /\ b # <<>> => v[Len(a) + 2] = b[1]
  /\ SubSeq(v, Len(a) + Len(b) + 2, Len(v)) = c

\* They are where they were said to be.
LEMMA ArgvParts ==
  ASSUME NEW v, NEW w, NEW a, NEW b, NEW c, Made(v, w, a, b, c),
         IsSequence(a), IsSequence(b), IsSequence(c)
  PROVE  Holds(v, a, b, c)
<1> DEFINE m == Len(a)
           n == Len(b)
           k == Len(c)
           u == (a \o b) \o c
<1>1. m \in Nat /\ n \in Nat /\ k \in Nat
  BY ToFunction
<1>2. /\ IsSequence(a \o b) /\ Len(a \o b) = m + n
      /\ \A i \in 1 .. m + n : (a \o b)[i] = IF i <= m THEN a[i] ELSE b[i - m]
  BY ConcatIs
<1>3. /\ IsSequence(u) /\ Len(u) = (m + n) + k
      /\ \A i \in 1 .. (m + n) + k : u[i] = IF i <= m + n THEN (a \o b)[i] ELSE c[i - (m + n)]
  BY <1>2, ConcatIs
<1>4. IsSequence(<<w>>) /\ Len(<<w>>) = 1 /\ <<w>>[1] = w
  BY Single
<1> HIDE DEF u
<1>5. /\ IsSequence(v) /\ Len(v) = 1 + Len(u)
      /\ \A i \in 1 .. 1 + Len(u) : v[i] = IF i <= 1 THEN <<w>>[i] ELSE u[i - 1]
  BY <1>3, <1>4, ConcatIs DEF u, Made
<1> HIDE DEF m, n, k
<1>6. Len(v) = m + n + k + 1
  BY <1>1, <1>3, <1>4, <1>5
<1>7. ASSUME NEW i \in 1 .. m PROVE v[i + 1] = a[i]
  <2>1. /\ i + 1 \in 1 .. 1 + Len(u) /\ ~ (i + 1 <= 1) /\ (i + 1) - 1 = i
        /\ i \in 1 .. m + n /\ i \in 1 .. (m + n) + k /\ i <= m + n /\ i <= m
    BY <1>1, <1>3
  <2>2. v[i + 1] = u[i] BY <1>5, <2>1
  <2>3. u[i] = (a \o b)[i] BY <1>3, <2>1
  <2>4. (a \o b)[i] = a[i] BY <1>2, <2>1
  <2> QED BY <2>2, <2>3, <2>4
<1>8. ASSUME NEW i \in 1 .. n PROVE v[m + 1 + i] = b[i]
  <2>1. /\ m + 1 + i \in 1 .. 1 + Len(u) /\ ~ (m + 1 + i <= 1) /\ (m + 1 + i) - 1 = m + i
        /\ m + i \in 1 .. m + n /\ m + i \in 1 .. (m + n) + k /\ m + i <= m + n
        /\ ~ (m + i <= m) /\ (m + i) - m = i
    BY <1>1, <1>3
  <2>2. v[m + 1 + i] = u[m + i] BY <1>5, <2>1
  <2>3. u[m + i] = (a \o b)[m + i] BY <1>3, <2>1
  <2>4. (a \o b)[m + i] = b[i] BY <1>2, <2>1
  <2> QED BY <2>2, <2>3, <2>4
<1>9. ASSUME NEW i \in 1 .. k PROVE v[m + n + 1 + i] = c[i]
  <2>1. /\ m + n + 1 + i \in 1 .. 1 + Len(u) /\ ~ (m + n + 1 + i <= 1)
        /\ (m + n + 1 + i) - 1 = m + n + i /\ m + n + i \in 1 .. (m + n) + k
        /\ ~ (m + n + i <= m + n) /\ (m + n + i) - (m + n) = i
    BY <1>1, <1>3
  <2>2. v[m + n + 1 + i] = u[m + n + i] BY <1>5, <2>1
  <2>3. u[m + n + i] = c[i] BY <1>3, <2>1
  <2> QED BY <2>2, <2>3
<1> HIDE DEF u
<1>10. v \in Seq(ToSet(v)) /\ v # <<>>
  BY <1>1, <1>6, <1>5 DEF IsSequence
<1>11. IsPrefix(a, Tail(v))
  <2>1. /\ Tail(v) \in Seq(ToSet(v)) /\ Len(Tail(v)) = m + n + k
        /\ \A i \in 1 .. m + n + k : Tail(v)[i] = v[i + 1]
    <3>1. /\ Tail(v) \in Seq(ToSet(v)) /\ Len(Tail(v)) = Len(v) - 1
          /\ \A i \in 1 .. Len(Tail(v)) : Tail(v)[i] = v[i + 1]
      BY <1>10, HeadTailProperties
    <3>2. Len(v) - 1 = m + n + k BY <1>1, <1>6
    <3> QED BY <3>1, <3>2
  <2> DEFINE t == Tail(v)
  <2> HIDE DEF t
  <2>2. ASSUME NEW i \in 1 .. m PROVE t[i] = a[i]
    <3>1. i \in 1 .. m + n + k BY <1>1
    <3> QED BY <1>7, <2>1, <3>1 DEF t
  <2>3. SubSeq(a, 1, m) = SubSeq(t, 1, m)
    BY <1>1, <2>2
  <2> QED BY <1>1, <2>1, <2>3 DEF IsPrefix, m, t
<1>12. SubSeq(v, m + n + 2, Len(v)) = c
  <2>1. c = [i \in 1 .. k |-> c[i]]
    BY ToFunction DEF k
  <2>2. SubSeq(v, m + n + 2, Len(v)) = [i \in 1 .. k |-> v[m + n + 1 + i]]
    BY <1>1, <1>6
  <2> QED BY <1>9, <2>1, <2>2
<1>13. b # <<>> => v[m + 2] = b[1]
  <2>1. b # <<>> => n # 0
    BY ToFunction DEF n
  <2>2. n # 0 => 1 \in 1 .. n /\ m + 1 + 1 = m + 2
    BY <1>1
  <2> QED BY <1>8, <2>1, <2>2
<1> QED BY <1>11, <1>12, <1>13 DEF m, n, Holds

\* The variables of two lists, one after the other.
LEMMA EnvBoth ==
  ASSUME NEW a, NEW b, IsSequence(a), IsSequence(b)
  PROVE  /\ EnvData(a \o b) = EnvData(a) \o EnvData(b)
         /\ <<>> \o EnvData(b) = EnvData(b)
<1> DEFINE m == Len(a)
           n == Len(b)
           D(x) == <<x.key, "=", x.value>>
<1>1. m \in Nat /\ n \in Nat /\ DOMAIN a = 1 .. m /\ DOMAIN b = 1 .. n
  BY ToFunction
<1>2. /\ IsSequence(a \o b) /\ Len(a \o b) = m + n
      /\ \A i \in 1 .. m + n : (a \o b)[i] = IF i <= m THEN a[i] ELSE b[i - m]
  BY ConcatIs
<1>3. DOMAIN (a \o b) = 1 .. m + n
  BY <1>2, ToFunction
<1> HIDE DEF m, n
<1>4. /\ EnvData(a) = [i \in 1 .. m |-> D(a[i])]
      /\ EnvData(b) = [i \in 1 .. n |-> D(b[i])]
      /\ EnvData(a \o b) = [i \in 1 .. m + n |-> D((a \o b)[i])]
  BY <1>1, <1>3 DEF EnvData
<1> HIDE DEF D
<1>5. /\ IsSequence(EnvData(a)) /\ Len(EnvData(a)) = m
      /\ IsSequence(EnvData(b)) /\ Len(EnvData(b)) = n
  BY <1>1, <1>4, FromFunction
<1> DEFINE c == EnvData(a) \o EnvData(b)
<1>6. /\ c = [i \in 1 .. m + n |-> c[i]]
      /\ \A i \in 1 .. m + n : c[i] = IF i <= m THEN EnvData(a)[i] ELSE EnvData(b)[i - m]
  <2>1. /\ IsSequence(c) /\ Len(c) = Len(EnvData(a)) + Len(EnvData(b))
        /\ \A i \in 1 .. Len(EnvData(a)) + Len(EnvData(b)) :
             c[i] = IF i <= Len(EnvData(a)) THEN EnvData(a)[i] ELSE EnvData(b)[i - Len(EnvData(a))]
    BY <1>5, ConcatIs
  <2> HIDE DEF c
  <2>2. c = [i \in 1 .. Len(c) |-> c[i]] BY <2>1, ToFunction
  <2> QED BY <1>5, <2>1, <2>2
<1> HIDE DEF c
<1>7. ASSUME NEW i \in 1 .. m + n PROVE c[i] = D((a \o b)[i])
  <2>1. CASE i <= m
    <3>1. i \in 1 .. m BY <1>1, <2>1
    <3>2. EnvData(a)[i] = D(a[i]) BY <1>4, <3>1
    <3> QED BY <1>2, <1>6, <2>1, <3>2
  <2>2. CASE ~ (i <= m)
    <3>1. i - m \in 1 .. n BY <1>1, <2>2
    <3>2. EnvData(b)[i - m] = D(b[i - m]) BY <1>4, <3>1
    <3> QED BY <1>2, <1>6, <2>2, <3>2
  <2> QED BY <2>1, <2>2
<1>8. EnvData(a \o b) = c
  BY <1>4, <1>6, <1>7
<1>9. <<>> \o EnvData(b) = EnvData(b)
  BY <1>5, ConcatEmptySeq DEF IsSequence
<1> QED BY <1>8, <1>9 DEF c

\* What a leaf's process executes is as its element says.
LEMMA LeafRight ==
  ASSUME NEW e \in Elements, Class(e) \in {"ExecutableNode", "ScriptNode"}
  PROVE  CommandRight(e, Command(e))
<1> DEFINE x == Element[e]
           run == IF x.type = "script_t" THEN Element[x.interpreter] ELSE x
           y == IF x.type = "script_t" THEN Script(e) ELSE Executable(e)
           c == Command(e)
           before == IF x.type = "script_t" THEN run.arg ELSE <<>>
           own == IF x.type = "script_t" THEN ScriptPath(e) ELSE <<>>
           Viable(i) == run.path[i].os = OS /\ Written(run.path[i]) \in Programs
<1>1. /\ IsSequence(run.path) /\ \A i \in DOMAIN run.path : IsSequence(run.path[i].directory)
      /\ IsSequence(run.arg) /\ IsSequence(run.env)
      /\ IsSequence(x.path) /\ \A i \in DOMAIN x.path : IsSequence(x.path[i].directory)
      /\ IsSequence(x.arg) /\ IsSequence(x.env)
  <2>1. "executable_t" \in Types[x.type] BY LeafTypes
  <2>2. /\ IsSequence(x.path) /\ \A i \in DOMAIN x.path : IsSequence(x.path[i].directory)
        /\ IsSequence(x.arg) /\ IsSequence(x.env)
    BY <2>1, ElementAssumption
  <2>3. ASSUME x.type = "script_t"
        PROVE  LET z == Element[x.interpreter]
               IN  /\ IsSequence(z.path) /\ \A i \in DOMAIN z.path : IsSequence(z.path[i].directory)
                   /\ IsSequence(z.arg) /\ IsSequence(z.env)
    <3>1. x.interpreter \in Elements /\ "executable_t" \in Types[Element[x.interpreter].type]
      BY <2>3, ElementAssumption
    <3> QED BY <3>1, ElementAssumption
  <2>4. CASE x.type = "script_t" BY <2>2, <2>3, <2>4
  <2>5. CASE x.type # "script_t" BY <2>2, <2>5
  <2> QED BY <2>4, <2>5
<1>2. c = Exec(y)
  BY LeafTypes DEF Command
<1>3. own = <<>> \/ \E w : own = <<w>>
  BY DEF ScriptPath
<1>4. IsSequence(own) /\ IsSequence(before) /\ Len(own) = IF own = <<>> THEN 0 ELSE 1
  <2>1. IsSequence(<<>>) /\ Len(<<>>) = 0 BY DEF IsSequence, ToSet
  <2> QED BY <1>1, <1>3, <2>1, Single
<1>5. /\ y.path = run.path /\ y.arg = (before \o own) \o x.arg
      /\ y.env = IF x.type = "script_t" THEN run.env \o x.env ELSE x.env
  <2>1. CASE x.type = "script_t"
    BY <2>1 DEF Script, Executable, AppendArguments, AppendEnvironment
  <2>2. CASE x.type # "script_t"
    <3>1. (<<>> \o <<>>) \o x.arg = x.arg
      BY <1>1, ConcatEmptySeq DEF IsSequence
    <3> QED BY <2>2, <3>1 DEF Executable
  <2> QED BY <2>1, <2>2
<1>6. IsSequence(y.arg)
  <2> HIDE DEF y, before, own
  <2> QED BY <1>1, <1>4, <1>5, ConcatIs
<1>7. EnvData(y.env) = (IF x.type = "script_t" THEN EnvData(run.env) ELSE <<>>) \o EnvData(x.env)
  <2> HIDE DEF y, run
  <2> QED BY <1>1, <1>5, EnvBoth
<1>8. ASSUME NEW w PROVE ArgvOf(e, <<w>> \o y.arg)
  <2> DEFINE natives == IF x.type = "script_t" THEN {i \in DOMAIN x.path : x.path[i].os = OS} ELSE {}
             v == <<w>> \o y.arg
             n == Len(before) + IF natives = {} THEN 1 ELSE 2
  <2>1. /\ IsPrefix(before, Tail(v))
        /\ own # <<>> => v[Len(before) + 2] = own[1]
        /\ SubSeq(v, Len(before) + Len(own) + 2, Len(v)) = x.arg
    <3>1. Made(v, w, before, own, x.arg) BY <1>5 DEF Made
    <3>2. Holds(v, before, own, x.arg)
      <4>1. IsSequence(x.arg) BY <1>1
      <4> HIDE DEF v, before, own
      <4> QED BY <1>4, <3>1, <4>1, ArgvParts
    <3> QED BY <3>2 DEF Holds
  <2>2. /\ natives = {} <=> own = <<>>
        /\ \A i \in natives : (\A j \in natives : i <= j) => own[1] = Written(x.path[i])
    <3>1. CASE x.type # "script_t" BY <3>1
    <3>2. CASE x.type = "script_t"
      <4> DEFINE I == {i \in 1 .. Len(x.path) : Native(x.path[i])}
                 k == IF natives # {} THEN Min(natives) ELSE 0
      <4>1. Len(x.path) \in Nat /\ DOMAIN x.path = 1 .. Len(x.path) BY <1>1, ToFunction
      <4>2. natives = {i \in 1 .. Len(x.path) : Native(x.path[i])} BY <3>2, <4>1 DEF Native
      <4>3. own = IF k = 0 THEN <<>> ELSE <<PathData(x.path[k])>>
        <5>1. ScriptPath(e) = LET i == IF I # {} THEN Min(I) ELSE 0
                              IN  IF i = 0 THEN <<>> ELSE <<PathData(x.path[i])>>
          BY DEF ScriptPath, SelectInSeq
        <5>2. natives = I /\ own = ScriptPath(e) BY <3>2, <4>2
        <5> HIDE DEF I, natives, own
        <5> QED BY <5>1, <5>2
      <4> HIDE DEF natives
      <4>4. IF k = 0 THEN natives = {} ELSE k \in natives /\ \A j \in 1 .. k - 1 : j \notin natives
        <5>1. natives \in SUBSET (1 .. Len(x.path)) BY <4>2
        <5>2. k = IF natives # {} THEN Min(natives) ELSE 0 OBVIOUS
        <5> HIDE DEF k
        <5> QED BY <4>1, <5>1, <5>2, Search
      <4> HIDE DEF k, own
      <4>5. CASE k = 0 BY <4>3, <4>4, <4>5
      <4>6. CASE k # 0
        <5>1. k \in natives /\ k \in 1 .. Len(x.path) /\ own = <<PathData(x.path[k])>>
          BY <4>2, <4>3, <4>4, <4>6
        <5>2. own[1] = Written(x.path[k]) /\ own # <<>>
          BY <1>1, <4>1, <5>1, PathWritten, Single
        <5>3. ASSUME NEW i \in natives, \A j \in natives : i <= j PROVE i = k
          <6>1. i <= k /\ i \in 1 .. Len(x.path) BY <4>2, <5>1, <5>3
          <6>2. i \notin 1 .. k - 1 BY <4>4, <4>6, <5>3
          <6> QED BY <4>1, <5>1, <6>1, <6>2
        <5> QED BY <5>1, <5>2, <5>3
      <4> QED BY <4>5, <4>6
    <3> QED BY <3>1, <3>2
  <2>3. Len(before) \in Nat BY <1>4, ToFunction
  <2> HIDE DEF own, v, natives, before
  <2>4. n + 1 = Len(before) + Len(own) + 2
    BY <1>4, <2>2, <2>3
  <2>5. \A i \in natives : (\A j \in natives : i <= j) => v[n] = Written(x.path[i])
    BY <2>1, <2>2
  <2> HIDE DEF n
  <2>6. /\ IsPrefix(before, Tail(v))
        /\ \A i \in natives : (\A j \in natives : i <= j) => v[n] = Written(x.path[i])
        /\ SubSeq(v, n + 1, Len(v)) = x.arg
    BY <2>1, <2>4, <2>5
  <2> QED BY <2>6 DEF ArgvOf, before, natives, n, v
<1>9. /\ IF c = Exits THEN \A i \in DOMAIN run.path : ~Viable(i)
         ELSE \E i \in DOMAIN run.path :
                /\ Viable(i) /\ \A j \in 1 .. i - 1 : ~Viable(j)
                /\ c = [prog |-> Written(run.path[i]), argv |-> <<Written(run.path[i])>> \o y.arg,
                        envp |-> EnvData(y.env)]
  <2> HIDE DEF y, run
  <2> QED BY <1>1, <1>2, <1>5, <1>6, ExecRight
<1>10. CASE c = Exits
  BY <1>9, <1>10 DEF CommandRight
<1>11. CASE c # Exits
  <2>1. PICK i \in DOMAIN run.path :
          /\ Viable(i) /\ \A j \in 1 .. i - 1 : ~Viable(j)
          /\ c = [prog |-> Written(run.path[i]), argv |-> <<Written(run.path[i])>> \o y.arg,
                  envp |-> EnvData(y.env)]
    BY <1>9, <1>11
  <2>2. /\ c.prog = Written(run.path[i]) /\ c.argv = <<c.prog>> \o y.arg
        /\ c.envp = (IF x.type = "script_t" THEN EnvData(run.env) ELSE <<>>) \o EnvData(x.env)
    <3> HIDE DEF c, y, run, Viable
    <3> QED BY <1>7, <2>1
  <2>3. c.argv[1] = c.prog
    <3> HIDE DEF c, y
    <3>1. (<<c.prog>> \o y.arg)[1] = c.prog BY <1>6, ConcatFirst
    <3>2. c.argv = <<c.prog>> \o y.arg BY <2>2
    <3> QED BY <3>1, <3>2
  <2>4. ArgvOf(e, c.argv) BY <1>8, <2>2
  <2> QED BY <1>11, <2>1, <2>2, <2>3, <2>4 DEF CommandRight
<1> QED BY <1>10, <1>11

\* For any document, whatever the paths, arguments and variables in it and
\* whatever can be executed, a leaf's process executes what its element says
\* (ExecutableNode.cxx:61-97, ScriptNode.cxx:5-23, Node.cxx:191-200, 214-227).
THEOREM CommandsCorrect == Spec => []CommandsRight
<1>1. ASSUME Through PROVE CommandsRight
  <2>1. SUFFICES ASSUME NEW l \in Launchers, At(l, "mkfifo"),
                        NEW e \in Leaves(Documents[File(l)])
                 PROVE  CommandRight(e, Command(e))
    BY DEF CommandsRight
  <2>2. Documents[File(l)] \in Elements
    BY <1>1, <2>1, LauncherAssumption DEF Through, At
  <2>3. e \in Elements /\ Class(e) \in {"ExecutableNode", "ScriptNode"}
    BY <2>2 DEF Leaves, Nodes, GetsTo
  <2> QED BY <2>3, LeafRight
<1> QED BY <1>1, ThroughAlways, PTL
=============================================================================
