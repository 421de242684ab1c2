----------------------------- MODULE MC_Launcher -----------------------------
(* Small instances of Launcher for TLC: a few documents and command lines. *)
EXTENDS Launcher

CONSTANTS l1, l2, l3

ThreeLaunchers == {l1, l2, l3}

Path(os, absolute, directory) == [os |-> os, absolute |-> absolute, directory |-> directory]
Var(key, value) == [key |-> key, value |-> value]
Group(type, name, nodes) ==
  [type |-> type, name |-> name, nodes |-> nodes, path |-> <<>>, arg |-> <<>>, env |-> <<>>,
   interpreter |-> "none"]
Leaf(type, name, path, arg, env, interpreter) ==
  [type |-> type, name |-> name, nodes |-> <<>>, path |-> path, arg |-> arg, env |-> env,
   interpreter |-> interpreter]

Bin(name) == Path("linux", TRUE, <<"bin", name>>)

MCElement ==
  [cat |-> Leaf("executable_t", "cat",
     <<Path("ms windows", TRUE, <<"cat">>), Path("linux", FALSE, <<"old", "cat">>), Bin("cat"),
       Bin("perl")>>, <<"-u">>, <<>>, "none"),
   perl |-> Leaf("executable_t", "perl", <<Bin("perl")>>, <<"-w">>, <<Var("LANG", "C")>>, "none"),
   script |-> Leaf("script_t", "s",
     <<Path("linux", FALSE, <<"s">>), Path("linux", TRUE, <<"lib", "s">>)>>,
     <<"x", "y">>, <<Var("LANG", "de")>>, "perl"),
   inline |-> Leaf("script_t", "i", <<Path("unix", FALSE, <<"i">>)>>, <<"-e">>, <<>>, "perl"),
   missing |-> Leaf("executable_t", "m", <<Path("linux", FALSE, <<"m">>)>>, <<>>, <<>>, "none"),
   data |-> Leaf("file_t", "d", <<Bin("d")>>, <<>>, <<>>, "none"),
   pipeline |-> Group("launch_t", "pipeline", <<"cat", "script">>),
   server |-> Group("socket_node_t", "server", <<"inline", "missing">>),
   stages |-> Group("sequence_node_t", "stages", <<"script", "cat", "script">>),
   site |-> Group("launch_t", "site", <<"server", "stages">>),
   archive |-> Group("launch_t", "archive", <<"cat", "data">>)]

MCPrograms == {<<"/", "bin", "/", "cat">>, <<"/", "bin", "/", "perl">>}
MCDocuments == [pipeline |-> "pipeline", site |-> "site", archive |-> "archive"]
\* The launchers are alike: it is enough that two of them can persist and that
\* one fails before it starts anything.
Starting == {<<"pipeline">>, <<"--persist", "site">>}
Failing == {<<>>, <<"--persist", "archive">>, <<"--version", "--verbose">>}
MCCommandLines ==
  {a \in [ThreeLaunchers -> Starting \cup Failing] :
    {a[l1], a[l2]} \subseteq Starting /\ a[l3] \in Failing}
=============================================================================
