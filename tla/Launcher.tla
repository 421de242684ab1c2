------------------------------- MODULE Launcher -------------------------------
(***************************************************************************)
(* The program `launch': several processes of it, each going through       *)
(* main(), around the one FIFO at /tmp/launch_fifo that a launcher with    *)
(* --persist makes, waits at and removes.  The name is fixed, so all       *)
(* processes share it, and what a launcher does to the name it does to     *)
(* whoever made the FIFO.                                                  *)
(***************************************************************************)
EXTENDS Construction

CONSTANTS
  Launchers,    \* the processes
  None,         \* no launcher, no FIFO
  Documents,    \* file name -> the root element of what is in it
  CommandLines  \* which argument lists the launchers may be given

ASSUME LauncherAssumption ==
  /\ None \notin Launchers /\ Documents \in [DOMAIN Documents -> Elements]
  /\ \A a \in CommandLines : DOMAIN a = Launchers

VARIABLES
  pc,       \* where each launcher is in main()
  args,     \* its arguments from argn on
  persist,  \* its `persist'
  made,     \* its `made_fifo'
  opened,   \* the FIFO it has opened or is opening, named by the maker
  fifo,     \* whose FIFO is at the name
  writers,  \* the FIFOs somebody has opened, or is opening, for writing
  written,  \* the FIFOs with something in them
  taken     \* history: a failed parse has removed a FIFO

main == <<pc, args, persist, made, opened>>
vars == <<main, fifo, writers, written, taken>>

Options == {"--version", "--persist"}
Ended == {"exit", "killed", "crashed"}

Init ==
  /\ pc = [l \in Launchers |-> "options"]
  /\ args \in CommandLines
  /\ persist = [l \in Launchers |-> FALSE]
  /\ made = [l \in Launchers |-> FALSE]
  /\ opened = [l \in Launchers |-> None]
  /\ fifo = None /\ writers = {} /\ written = {} /\ taken = FALSE

-----------------------------------------------------------------------------
At(l, p) == pc[l] = p
Goto(l, p) == pc' = [pc EXCEPT ![l] = p]

\* The loop over the options: version_act() or persist_act().
Option(l) ==
  /\ At(l, "options")
  /\ args[l] # <<>> /\ Head(args[l]) \in Options
  /\ persist' = [persist EXCEPT ![l] = @ \/ Head(args[l]) = "--persist"]
  /\ args' = [args EXCEPT ![l] = Tail(@)]
  /\ UNCHANGED <<pc, made, opened, fifo, writers, written, taken>>

\* What is no option is the file name, whatever it looks like.
OptionsDone(l) ==
  /\ At(l, "options")
  /\ args[l] # <<>> => Head(args[l]) \notin Options
  /\ Goto(l, IF args[l] = <<>> THEN "exit" ELSE "parse")
  /\ UNCHANGED <<args, persist, made, opened, fifo, writers, written, taken>>

\* What execute() makes of each document.
Built ==
  [d \in DOMAIN Documents |->
    [complete |-> Complete[Documents[d]],
     sockets |-> {e \in Nodes[Documents[d]] : Class(e) = "SocketNode"},
     sequences |-> {e \in Nodes[Documents[d]] : Class(e) = "SequenceNode"}]]

File(l) == Head(args[l])

Parse(l) ==
  /\ At(l, "parse")
  /\ Goto(l, IF File(l) \in DOMAIN Documents THEN "execute" ELSE "xml")
  /\ UNCHANGED <<args, persist, made, opened, fifo, writers, written, taken>>

\* catch(const xml_schema::exception&): removes the name, made_fifo or not.
XmlException(l) ==
  /\ At(l, "xml")
  /\ fifo' = None
  /\ taken' = (taken \/ fifo # None)
  /\ Goto(l, "exit")
  /\ UNCHANGED <<args, persist, made, opened, writers, written>>

\* A group with an element of no class: NodeConstructionError or, as a compiler
\* may drop the test of a reference against NULL, an entry that is NULL and ends
\* the program when it is started.  A socket node's getaddrinfo() may fail too.
Execute(l) ==
  /\ At(l, "execute")
  /\ LET built == Built[File(l)]
     IN  \/ built.complete /\ Goto(l, "startup")
         \/ (~built.complete \/ built.sockets # {}) /\ Goto(l, "catch")
         \/ ~built.complete /\ Goto(l, "crashed")
  /\ UNCHANGED <<args, persist, made, opened, fifo, writers, written, taken>>

Startup(l) ==
  /\ At(l, "startup")
  /\ Goto(l, "mkfifo") \/ Goto(l, "catch")
  /\ UNCHANGED <<args, persist, made, opened, fifo, writers, written, taken>>

\* Mutant: opens it even if mkfifo() fails.
MakeFifo_Opens(l) ==
  /\ At(l, "mkfifo")
  /\ IF persist[l]
     THEN /\ fifo' = IF fifo = None THEN l ELSE fifo
          /\ made' = [made EXCEPT ![l] = TRUE]
          /\ Goto(l, "open")
     ELSE /\ Goto(l, "wait")
          /\ UNCHANGED <<fifo, made>>
  /\ UNCHANGED <<args, persist, opened, writers, written, taken>>

\* persist && !mkfifo(): where the name exists, the launcher does not persist.
MakeFifo(l) ==
  /\ At(l, "mkfifo")
  /\ IF persist[l] /\ fifo = None
     THEN /\ fifo' = l
          /\ made' = [made EXCEPT ![l] = TRUE]
          /\ Goto(l, "open")
     ELSE /\ Goto(l, "wait")
          /\ UNCHANGED <<fifo, made>>
  /\ UNCHANGED <<args, persist, opened, writers, written, taken>>

\* open() finds what the name stands for by now, if anything, and blocks until
\* somebody opens that for writing.  Without a descriptor read() fails.
OpenFifo(l) ==
  /\ At(l, "open")
  /\ opened' = [opened EXCEPT ![l] = fifo]
  /\ Goto(l, CASE fifo = None -> "unlink"
                [] fifo \in writers -> "reading"
                [] OTHER -> "opening")
  /\ UNCHANGED <<args, persist, made, fifo, writers, written, taken>>

\* Somebody opens the name to send a command: who waits in open() goes on.
SendCommand ==
  /\ fifo # None
  /\ writers' = writers \cup {fifo}
  /\ pc' = [l \in Launchers |-> IF At(l, "opening") /\ opened[l] = fifo THEN "reading" ELSE pc[l]]
  /\ UNCHANGED <<args, persist, made, opened, fifo, written, taken>>

\* It writes the command, or closes the FIFO with or without having done so.
WriteCommand(f) ==
  /\ f \in writers
  /\ \E l \in Launchers : At(l, "reading") /\ opened[l] = f
  /\ written' = written \cup {f}
  /\ UNCHANGED <<main, fifo, writers, taken>>

CloseCommand(f) ==
  /\ f \in writers
  /\ writers' = writers \ {f}
  /\ UNCHANGED <<main, fifo, written, taken>>

\* read() returns with a byte of what was written, or at the end of the file.
ReadFifo(l) ==
  /\ At(l, "reading")
  /\ opened[l] \in written \/ opened[l] \notin writers
  /\ written' \in {written, written \ {opened[l]}}
  /\ Goto(l, "unlink")
  /\ UNCHANGED <<args, persist, made, opened, fifo, writers, taken>>

\* Mutant: forgets made_fifo = false.
UnlinkFifo_StillMade(l) ==
  /\ At(l, "unlink")
  /\ fifo' = None
  /\ Goto(l, "wait")
  /\ UNCHANGED <<args, persist, made, opened, writers, written, taken>>

\* unlink(): the name, whoever made what it stands for.
UnlinkFifo(l) ==
  /\ At(l, "unlink")
  /\ fifo' = None
  /\ made' = [made EXCEPT ![l] = FALSE]
  /\ Goto(l, "wait")
  /\ UNCHANGED <<args, persist, opened, writers, written, taken>>

\* Mutant: catch(...) leaves the file.
Return_Keeps(l) ==
  /\ pc[l] \in {"wait", "catch"}
  /\ Goto(l, "exit")
  /\ UNCHANGED <<args, persist, made, opened, fifo, writers, written, taken>>

\* waitFor() returns, or catch(...) has been entered.
Return(l) ==
  /\ pc[l] \in {"wait", "catch"}
  /\ fifo' = IF At(l, "catch") /\ made[l] THEN None ELSE fifo
  /\ Goto(l, "exit")
  /\ UNCHANGED <<args, persist, made, opened, writers, written, taken>>

\* SIGINT has its default action: no unlink().
Interrupt(l) ==
  /\ pc[l] \notin Ended
  /\ Goto(l, "killed")
  /\ UNCHANGED <<args, persist, made, opened, fifo, writers, written, taken>>

Started == {"startup", "mkfifo", "open", "opening", "reading", "unlink", "wait", "catch"}

\* Once the nodes are started, an exception that leaves the accepting thread of a
\* socket node ends the program, and so does one that leaves the SIGCHLD handler,
\* in which a sequence goes on, where it interrupts what cannot throw.
Terminate(l) ==
  /\ pc[l] \in Started
  /\ Built[File(l)].sockets \cup Built[File(l)].sequences # {}
  /\ Goto(l, "crashed")
  /\ UNCHANGED <<args, persist, made, opened, fifo, writers, written, taken>>

\* Elsewhere it comes to main(), out of a system call or waitFor().
HandlerThrows(l) ==
  /\ pc[l] \in {"open", "opening", "reading", "wait"}
  /\ Built[File(l)].sequences # {}
  /\ Goto(l, "catch")
  /\ UNCHANGED <<args, persist, made, opened, fifo, writers, written, taken>>

Main(l) ==
  \/ Option(l) \/ OptionsDone(l) \/ Parse(l) \/ XmlException(l) \/ Execute(l) \/ Startup(l)
  \/ MakeFifo(l) \/ OpenFifo(l) \/ ReadFifo(l) \/ UnlinkFifo(l) \/ Return(l)

AllEnded == (\A l \in Launchers : pc[l] \in Ended) /\ UNCHANGED vars

Next ==
  \/ \E l \in Launchers : Main(l) \/ Interrupt(l) \/ Terminate(l) \/ HandlerThrows(l)
  \/ SendCommand \/ \E f \in Launchers : WriteCommand(f) \/ CloseCommand(f)
  \/ AllEnded

\* A process runs on; the programs it waits for end.  Nobody need send a command
\* or interrupt anything, and nothing need throw.
Spec == Init /\ [][Next]_vars
FairSpec == Spec /\ \A l \in Launchers : WF_vars(Main(l))

-----------------------------------------------------------------------------
(* Properties *)

Places == {"options", "parse", "xml", "execute"} \cup Started \cup Ended
Persisting == {"open", "opening", "reading"}

\* The locals of main() and the FIFO have their types, and made_fifo says where
\* a launcher is.
TypeOK ==
  /\ pc \in [Launchers -> Places]
  /\ persist \in [Launchers -> BOOLEAN]
  /\ made \in [Launchers -> BOOLEAN]
  /\ opened \in [Launchers -> Launchers \cup {None}]
  /\ fifo \in Launchers \cup {None}
  /\ writers \subseteq Launchers /\ written \subseteq Launchers
  /\ taken \in BOOLEAN
  /\ \A l \in Launchers :
       /\ pc[l] \in Persisting \cup {"unlink"} => made[l] /\ persist[l]
       /\ made[l] => pc[l] \in Persisting \cup {"unlink", "catch"} \cup Ended

\* What is at the name belongs to a launcher that is still to remove it, or that
\* did not come to the end of main() (main.cxx:69-88): interrupted, or ended by
\* std::terminate().  None is left behind by one that has returned, be it by way
\* of catch(...).
FifoOwned ==
  fifo # None => /\ made[fifo]
                 /\ pc[fifo] \in Persisting \cup {"unlink", "catch", "killed", "crashed"}

\* The FIFO keeps two launchers from persisting at once: main.cxx:69 goes by
\* mkfifo() alone.  Not so after main.cxx:81 has removed another one's.
OnePersists ==
  ~taken => \A l, m \in Launchers :
    made[l] /\ made[m] /\ pc[l] \notin Ended /\ pc[m] \notin Ended => l = m

\* A launcher that persists can be reached by the name, and no other one is in
\* its place (main.cxx:27-30, "Keeps going until SIGINT is received also opens a
\* named pipe that can be used to send [...] commands"): while it does keep going
\* at its FIFO, and until main.cxx:81 has removed another one's.
CanBeTold == ~taken => \A l \in Launchers : pc[l] \in Persisting => fifo = l

\* Only --persist keeps a launcher from the end of main(), and only until
\* something is in its FIFO, which then it removes (main.cxx:69-76: "should block
\* until something is written to the fifo").
Finishes ==
  \A l \in Launchers :
    /\ []<>(persist[l] \/ pc[l] \in Ended)
    /\ l \in written /\ made[l] ~> taken \/ ~made[l] \/ pc[l] \in Ended

\* Of the types that contain an element the node is made for the one that
\* extends all the others (NodeContext.cxx:10).
MostSpecific ==
  \A l \in Launchers : At(l, "mkfifo") =>
    \A e \in Nodes[Documents[File(l)]] : \E i \in DOMAIN Storages :
      /\ Class(e) = Storages[i].class
      /\ Constructs(Storages[i], e)
      /\ \A j \in DOMAIN Storages :
           Constructs(Storages[j], e) => Storages[j].contained \in Types[Storages[i].contained]

\* Names and separators alternate; an absolute path begins with a separator.
Written(p) ==
  LET n == Len(p.directory)
      skipped == IF p.absolute \/ n = 0 THEN 0 ELSE 1
  IN  [i \in 1 .. 2 * n - skipped |->
        IF (i + skipped) % 2 = 1 THEN Sep ELSE p.directory[(i + skipped) \div 2]]

\* argv of a script: its interpreter's arguments, where the script is, its own.
ArgvOf(e, argv) ==
  LET x == Element[e]
      first == IF x.type = "script_t" THEN Element[x.interpreter].arg ELSE <<>>
      own == IF x.type = "script_t" THEN {i \in DOMAIN x.path : x.path[i].os = OS} ELSE {}
      n == Len(first) + IF own = {} THEN 1 ELSE 2
  IN  /\ IsPrefix(first, Tail(argv))
      /\ \A i \in own : (\A j \in own : i <= j) => argv[n] = Written(x.path[i])
      /\ SubSeq(argv, n + 1, Len(argv)) = x.arg

\* A program is executed from the first of its paths that is for this system and
\* can be executed, with argv in order and the script's variables last.
CommandRight(e, c) ==
  LET x == Element[e]
      run == IF x.type = "script_t" THEN Element[x.interpreter] ELSE x
      Viable(i) == run.path[i].os = OS /\ Written(run.path[i]) \in Programs
  IN  IF c = Exits THEN \A i \in DOMAIN run.path : ~Viable(i)
      ELSE /\ \E i \in DOMAIN run.path :
                /\ Viable(i) /\ c.prog = Written(run.path[i])
                /\ \A j \in 1 .. i - 1 : ~Viable(j)
           /\ c.argv[1] = c.prog
           /\ ArgvOf(e, c.argv)
           /\ c.envp = (IF x.type = "script_t" THEN EnvData(run.env) ELSE <<>>) \o EnvData(x.env)

\* Every program of the document is executed from the first of its paths that is
\* for this system and can be, a script by its interpreter, with the arguments
\* in order and the variables of both (ExecutableNode.cxx:61-94,
\* ScriptNode.cxx:5-23).
CommandsRight ==
  \A l \in Launchers : At(l, "mkfifo") =>
    \A e \in Leaves(Documents[File(l)]) : CommandRight(e, Command(e))
=============================================================================
