----------------------------- MODULE Construction -----------------------------
(***************************************************************************)
(* What becomes of a document: NodeContext::execute() looks for the most   *)
(* specific storage that makes a node of an element, the constructors of   *)
(* the groups call it again for their elements, and ExecutableNode and     *)
(* ScriptNode take from theirs what execve() will be given.                *)
(*                                                                         *)
(* A string is a value; a path is the sequence of names and separators     *)
(* that it is made of.                                                     *)
(***************************************************************************)
EXTENDS Integers, SequencesExt

CONSTANTS
  Element,  \* the elements of all documents: a record for each
  Programs, \* the paths that execve() can execute
  Sep       \* the directory separator

Elements == DOMAIN Element

\* The types of the schema, each with the one it extends.
Extends == [node_t |-> "node_t", file_t |-> "node_t", executable_t |-> "file_t",
            script_t |-> "executable_t", group_t |-> "node_t", launch_t |-> "group_t",
            sequence_node_t |-> "group_t", socket_node_t |-> "launch_t"]

\* A type and those it extends, at most three steps away.
Types[t \in DOMAIN Extends] ==
  LET base(u) == Extends[u]
  IN  {t, base(t), base(base(t)), base(base(base(t)))}

IsSequence(s) == s \in Seq(ToSet(s))

\* A document is valid: its elements are of these types, inside its groups are
\* elements, a program has sequences of paths, arguments and variables, and a
\* script has an interpreter.
ASSUME ElementAssumption ==
  \A e \in Elements :
    LET x == Element[e]
    IN  /\ x.type \in DOMAIN Extends /\ x.nodes \in Seq(Elements)
        /\ "executable_t" \in Types[x.type] =>
             /\ IsSequence(x.path) /\ IsSequence(x.arg) /\ IsSequence(x.env)
             /\ \A i \in DOMAIN x.path : IsSequence(x.path[i].directory)
        /\ x.type = "script_t" =>
             /\ x.interpreter \in Elements
             /\ "executable_t" \in Types[Element[x.interpreter].type]

NoClass == "none"
OS == "linux"

-----------------------------------------------------------------------------
(* NodeContext *)

\* context(): the storages in the order of their registration.
Storages == <<[class |-> "ExecutableNode", contained |-> "executable_t"],
              [class |-> "ScriptNode", contained |-> "script_t"],
              [class |-> "LaunchNode", contained |-> "launch_t"],
              [class |-> "SequenceNode", contained |-> "sequence_node_t"],
              [class |-> "SocketNode", contained |-> "socket_node_t"]>>

\* Storage::construct(): a dynamic_cast decides.
Constructs(store, e) == store.contained \in Types[Element[e].type]

\* Mutant: from the first storage on.
Class_Forward(e) ==
  LET i == SelectInSeq(Storages, LAMBDA s : Constructs(s, e))
  IN  IF i = 0 THEN NoClass ELSE Storages[i].class

\* execute(): the last storage that can.
Class(e) ==
  LET i == SelectLastInSeq(Storages, LAMBDA s : Constructs(s, e))
  IN  IF i = 0 THEN NoClass ELSE Storages[i].class

Groups == {"LaunchNode", "SequenceNode", "SocketNode"}

\* GroupNode's map of names: the last element of a name is its node.
GroupNodes(e) ==
  LET nodes == Element[e].nodes
  IN  {nodes[i] : i \in {j \in DOMAIN nodes :
         \A k \in DOMAIN nodes : Element[nodes[k]].name = Element[nodes[j]].name => k <= j}}

\* What execute() gets to from an element when each group passes it on to Inside.
GetsTo(root, Inside(_)) ==
  {e \in Elements : \A S \in SUBSET Elements :
     root \in S /\ (\A g \in S : Class(g) \in Groups => Inside(g) \subseteq S) => e \in S}

\* The elements that execute() is called for: those inside a group, in turn.
Executed == [root \in Elements |-> GetsTo(root, LAMBDA g : ToSet(Element[g].nodes))]

\* Nothing is left of a group when one of its elements has no class.
Complete == [root \in Elements |-> \A e \in Executed[root] : Class(e) # NoClass]

\* The nodes that it leaves.
Nodes == [root \in Elements |-> GetsTo(root, GroupNodes)]

-----------------------------------------------------------------------------
(* ExecutableNode and ScriptNode *)

\* pathElemToPathData()
PathData(p) ==
  FlattenSeq([i \in DOMAIN p.directory |->
    IF i > 1 \/ p.absolute THEN <<Sep, p.directory[i]>> ELSE <<p.directory[i]>>])

\* A path meant for this operating system.
Native(p) == p.os = OS

\* What the constructor copies.
Executable(e) == [path |-> Element[e].path, arg |-> Element[e].arg, env |-> Element[e].env]

AppendArguments(x, args) == [x EXCEPT !.arg = @ \o args]
AppendEnvironment(x, envs) == [x EXCEPT !.env = @ \o envs]

\* Mutant: goes on after the first one.
ScriptPath_All(e) == LET ps == SelectSeq(Element[e].path, Native)
                     IN  [i \in DOMAIN ps |-> PathData(ps[i])]

\* The first of the script's paths that is meant for this operating system.
ScriptPath(e) == LET i == SelectInSeq(Element[e].path, Native)
                 IN  IF i = 0 THEN <<>> ELSE <<PathData(Element[e].path[i])>>

\* The interpreter, its arguments before the script's.
Script(e) ==
  AppendEnvironment(
    AppendArguments(AppendArguments(Executable(Element[e].interpreter), ScriptPath(e)),
                    Element[e].arg),
    Element[e].env)

\* "key=value" of each variable.
EnvData(envs) == [i \in DOMAIN envs |-> <<envs[i].key, "=", envs[i].value>>]

Exits == [prog |-> <<>>, argv |-> <<>>, envp |-> <<>>]

\* The child tries one path after the other; argv[0] is the path itself.
Exec(x) ==
  LET i == SelectInSeq(x.path, LAMBDA p : Native(p) /\ PathData(p) \in Programs)
  IN  IF i = 0 THEN Exits
      ELSE [prog |-> PathData(x.path[i]),
            argv |-> <<PathData(x.path[i])>> \o x.arg,
            envp |-> EnvData(x.env)]

\* What the process of a leaf executes, in the order of execve()'s arguments.
Command(e) == Exec(IF Class(e) = "ScriptNode" THEN Script(e) ELSE Executable(e))

Leaves(root) == {e \in Nodes[root] : Class(e) \in {"ExecutableNode", "ScriptNode"}}
=============================================================================
