# A TLA+ model of arclaunch

arclaunch starts the programs that an XML file describes, connects their file
descriptors and waits for them. All of its logic is in a small hierarchy of
*nodes* (`include/*.hxx`, `src/*.cxx`). This directory models the nodes, how they are made of a
document and the program `launch` around them, checks the models with TLC on small instances, and
proves the main invariants of seven of them with TLAPS.

Paths below are relative to the repository.

## 1. Inventory

| Component | State | Operations | What makes it correct |
|---|---|---|---|
| **Node** (`Node.hxx`, `Node.cxx`) | `instances` (running instance numbers and the completion handlers of each), `onInstanceDeath` (handlers of the next instance), `onDeath`, `fdMap` (links for the next instance) | `startup`, `finishInstance`, `waitFor`, `waitForInstance` (virtual), `linkFd`, `passFd`, `passFds`, `closeFds`, `overwriteFds` | an instance completes only when nothing of it executes; a wait returns only then, and returns; a program sees exactly the descriptors linked for it |
| **ExecutableNode** | static `running_nodes` (process to node), `pidInstance` (process to instance), the SIGCHLD action | `startInstance` (fork and exec), `reaper` (the handler), `reapProcess`, `waitForInstance` (`waitpid` loop) | every exit of a process is attributed to the right instance, exactly once, whoever collects it |
| **LaunchNode** | `instances` (a record per instance with the numbers of its sub-nodes' instances) | `startInstance` (all sub-nodes), `onSubNodeDeath`, `waitForInstance` | the instance ends when its last sub-node has, and not before |
| **SequenceNode** | `sequences` (a stage, node and number per instance), `order` | `startInstance`, `proceed` (completion handler: next stage), `waitForInstance` | stages run one at a time and in order; a failure ends the sequence; the sequence is never dropped |
| **SocketNode** | `fds`, `keep`, `accInst`, the accepting thread | `startInstance`, `acceptConnections`, `waitForInstance` | one instance per connection; `waitFor` stops the server; clients are served |
| **GroupNode**, **ScriptNode** | names to nodes; path, arguments, environment | constructors | a script is executed by its interpreter with the arguments in order |
| **NodeContext**, **NodeStorage** | the storages, the nodes made | `recognize`, `execute` | a node is made by the most specific storage that can |
| **launch** (`main.cxx`) | `persist`, `made_fifo`; the FIFO at a fixed name, shared by all processes | options, one `startup`, the FIFO, one `waitFor`, two exception handlers | one launcher persists at a time and can be told to go on; none leaves its FIFO behind; every launcher ends |
| FileNode | | | commented out of the build |

**How they interact.** Everything runs in one process and, but for SocketNode, in one thread.
A parent node calls `startup()` and `waitForInstance()` of its children; a child calls back
through the completion handlers that its parent left in `onInstanceDeath` before calling
`startup()`. The chain of callbacks starts at the end of a process: either in the SIGCHLD
handler (`ExecutableNode.cxx:30`), which interrupts the thread anywhere, or in the thread's own
`waitpid()` (`ExecutableNode.cxx:119`). Nothing blocks the signal and nothing is locked.

**What is hard.**

- The handler against the thread: SIGCHLD between `fork()` and the registration of the process;
  between a look at a map and its use; between the two halves of a parent's bookkeeping; in the
  middle of a `startup()`, where a SequenceNode's handler calls `startup()` again.
- Two collectors of the same status: the handler's `wait()` and the thread's `waitpid()`.
  Pending signals merge, so there may be fewer handler calls than exits.
- Numbers that are reused: instance numbers, descriptors, process numbers.
- The accepting thread of a SocketNode, which shares the maps with the main thread.
- Pipes: a forgotten end in the launcher or in a program keeps a reader waiting for ever.
- Several launchers, interrupted anywhere, and the one name of the FIFO; exceptions that leave the
  accepting thread or the SIGCHLD handler while `main()` waits at it.

The list of hazards, each at its line, with the properties that would catch it, is in
`PROJECT.json` under `hazards`.

## 2. Modules

| Module | Models | Actions |
|---|---|---|
| `NodeContract` | the promise of `Node.hxx:37-133`, for any node: abstract specification | `Start`, `Exit`, `Complete`, `BeginWait`, `EndWait` |
| `ExecutableNode` | `ExecutableNode.cxx:30-123`, `Node.cxx:24-36, 77-109` | fork and registration in three steps; the `waitFor`/`waitForInstance` loops read by read; `waitpid` collecting, failing, blocking; the handler entering, reaping, dropping, finding nothing |
| `FdMap` | `Node.cxx:17-21, 38-64, 119-142` | `linkFd` probe by probe, `passFd`, `passFds`, `closeFds`, fork and `overwriteFds`, other threads that open and close |
| `LaunchNode` | `LaunchNode.cxx`, `Node.cxx:77-109` | `startInstance` sub-node by sub-node, `onSubNodeDeath` in the handler (one step) or in the thread (two), the waits |
| `SequenceNode` | `SequenceNode.cxx:34-90`, `Node.cxx:24-36, 77-109` | `proceed` and the `startup()` of a stage statement by statement, in the thread and, on top of it, in the handler; what is linked to the sequence, to the `RunningSequence` and to the stages; process numbers, `pidInstance` and the waits, which look for the process number once and then repeat `waitpid()` |
| `SocketNode` | `SocketNode.cxx:49-132`, `Node.cxx:77-109` | the accepting loop statement by statement, clients, SIGCHLD in `select()`, the waits |
| `Linkage` | `LaunchNode.cxx:20-59`, `SocketNode.cxx:83-95`, `Node.cxx:144-177` and the programs | the linkages and externalizations of launches within launches; the client that links the outermost one, with the access checks; accepted connections; programs that end by themselves or when their input has |
| `Construction` | `NodeContext.cxx`, `NodeStorage.hxx`, `GroupNode.cxx`, `ScriptNode.cxx`, `ExecutableNode.cxx:47-97, 125-131`, `Node.cxx:191-227` | operators: which class an element gets, which nodes a document makes, which program, arguments and environment a leaf executes |
| `Launcher` | `main.cxx`, on top of `Construction` | several processes going through `main()`: options, parsing, construction, startup, `mkfifo`, `open`, `read`, `unlink`, `waitFor`, both exception handlers, SIGINT; whoever opens the FIFO, writes to it and closes it; the exceptions of the accepting thread and of the SIGCHLD handler |

`ExecutableNode`, `LaunchNode`, `SequenceNode` and `SocketNode` each implement `NodeContract`
(property `ImplementsContract`, a refinement through `INSTANCE`). `LaunchNode` uses
`NodeContract` for its children in turn: every step of a sub-node is a step of
`Sub == INSTANCE NodeContract`. `Linkage` takes `linkFd` for one step, and `FdMap` takes it
apart. What `ExecutableNode` is shown to guarantee is therefore what
`LaunchNode` assumes. `SequenceNode` cannot do this, since the `startup()` of a stage can be
interrupted by another one's; it writes the part of ExecutableNode it needs out.

Every module has the code's names for variables and operations. A record `call`, `frame` or
`acc` holds the program counter and the locals of the calls in progress. `PROJECT.json` maps
each definition to its lines.

**Abstractions.** Operations of `std::map` and `std::vector` are atomic; a handler or thread
that finds one half done is undefined behaviour of the library and not modelled. A freed record
is either found as it was or ends the program (`crashed`); so does `begin()` of an empty map
when it is dereferenced. The `RunningSequence` without an owner that `sequences[instNum]` makes
(`SequenceNode.cxx:87`) stays in the map, with any node and number or with a pointer to nothing.
An exception that leaves the SIGCHLD handler comes to `main()`'s `catch(...)` where it interrupts
`open()`, `read()` or a wait, or to `std::terminate()`; one that leaves the accepting thread always
does the latter. `m[k] = f()` makes the entry before the call, which is what g++ does
with `-std=c++11`; the standard leaves it open. A process killed by a signal counts as returning
0, as `WEXITSTATUS` has it (`ExecutableNode.cxx:34`). A process number is not given out again while a wait still holds it. The
sockets that a second `startup()` of a socket node appends to `fds` are left out: the first ones hold
the addresses, `bind()` fails without anybody looking, and no client finds the new ones.

## 3. Runs

All are small enough to finish in seconds to a few minutes on two cores.

| Run | Instance | Shows |
|---|---|---|
| `exec` | two nodes, four processes, two instances each; the processes of one node may exit before they are registered | `Bookkeeping`: at every point where SIGCHLD may come, `running_nodes`, `pidInstance` and `instances` agree with the kernel's table for every process registered in time. `ImplementsContract` and `SteadyWaitTerminates` for the other node: a program lost by one node is not charged to another |
| `exec_lost` | early exits in both | **violated** `WaitTerminates`, see Findings |
| `fd` | a group, a leaf, one thread, the descriptor limit within reach | `ChildSees`: a started program has exactly the descriptors linked for it. `Accounted`: no descriptor is lost, shared or left open |
| `fd_threads` | two threads | `SourcesKept`: `overwriteFds` never destroys a link it has still to move. `LinkTerminates` |
| `fd_race` | two threads | **violated** `TakesFreeFd`, see Findings |
| `launch` | two sub-nodes, two instances, sub-nodes that may die before the others are started | `Bookkeeping` (entries, orphans, whose instance a wait is in) and `KeepsContract` until one dies that early; `InstancesBacked`, that no instance is left that nothing will end, and `WaitEnds` even then |
| `launch_short` | the same | **violated** `ImplementsContract`, see Findings |
| `sequence` | stages a, b, b, b; two process numbers; one sequence at a time | `OneAfterTheOther`, `CarriedOn`, `ImplementsContract`, `WaitEnds`. `SameHandles`: every program of a sequence has what was linked for it, and nothing of another one |
| `sequence_two` | two sequences | **violated** `ImplementsContract`, see Findings |
| `socket` | two sockets, three connections | `InstancesOwned`, `BlocksOnlyInterrupted`, `ImplementsContract`, `WaitEnds`, `Served` |
| `launcher` | three processes, of which two are given a document that starts, a pipeline without or one with a socket node and a sequence with `--persist`, and the third nothing, a document with an element that no node is made of, or an option it takes for a file name that does not parse | `FifoOwned`: no launcher that comes to the end of `main()` leaves its FIFO, be it by way of `catch(...)`; one that is interrupted or ended by `std::terminate()` may. `OnePersists`, `CanBeTold`: `mkfifo()` excludes the others and the name leads to the one that waits, until a failed parse removes it. `Finishes`: only `--persist` keeps a launcher from its end, and only until something is in its FIFO. `MostSpecific`: an element gets the class of the most specific type it has. `CommandsRight`: every program is executed from the right path with the right arguments and variables |
| `link` | a pipeline in a pipeline, a socket node; two startups, eleven descriptors | `Wired`: a program has the ends of the pipes that the document leads to it, and no others. `Released`: a startup leaves no descriptor in the launcher. `AllEnd`: the programs end when their input does, as nobody else holds a pipe to them |

**Bounds.** Two nodes are needed for a status to go to the wrong one, two instances for a number
to be reused while another runs, four processes so that numbers are used up and entries of
`pidInstance` go stale; one node that loses programs and one that does not suffice to see
whether a loss spreads. Two sub-nodes let one die while the other is still to be started or
entered, and the two die in the handler and in the thread at once. A stage that occurs twice in a row makes the second instance start while the first
is still in the map; three times in a row, with two process numbers, gives the first one's instance number
to the third while a wait may still hold the first one's process number; one sequence at a time is all for which the properties of `sequence` hold.
A socket node with four instances has its thread and three connections, so that a number is
reused while others run; one queued connection for each socket suffices, as `select()` reports
sockets and not connections. Three launchers are one that persists, one whose parse fails and one
that finds the name free again. In `link`, a launch within a launch is the least in which a link
is handed on twice, two startups let descriptors of the first show in the second, and with eleven
descriptors `pipe2()`, `linkFd()` and `fork()` can fail at every place. Every bound is a constant with a comment.

**Fairness.** A thread runs on, and processes exit: what a scheduler and finite programs give.
In `ExecutableNode` the handler is also fair, as a pending signal is delivered. In `SequenceNode` too
it is entered for each program: a wait needs it there. The thread picks a process number before its loop
(`ExecutableNode.cxx:113-117`); when the handler meanwhile has started later stages under the same
instance number, `waitpid()` fails with `ECHILD` again and again, and only the end of that later program,
noticed by the handler, ends the loop. With one sequence and no other children there is one program at
a time, so that no signal merges with another's and each is followed by a `wait()` that finds it. With
children of other nodes this is not given, and the thread may then spin for ever (section 4). In the other
modules nothing makes the handler be entered: signals merge, so a zombie may stay until somebody
waits for it, and waits must end without the handler's help. A handler that has been entered runs
on. The thread of a `SequenceNode` has strong fairness, because the handler on top of it disables
it for a while again and again; so have the callers of `linkFd` in `FdMap`, where a forked child is
taken through its steps before the threads go on, which is a pause of the model and not of the
program. In `Launcher` each process runs on and what it waits for ends, but nobody need write to the FIFO,
and nothing need throw.
In `Linkage` the launcher runs on, the client closes what it opened, and a program whose inputs
have ended ends; no other program need. In `SocketNode` no client need connect; the liveness of waits for a single connection is
not claimed, because its number may be reused while the waiting thread does not look.

**Deadlock** is checked in every run, except for states after a crash or an exception, which
have an explicit stuttering action `Stopped`.

## 4. Findings

- `exec_lost`: a program that exits before `fork()`'s caller has registered it is collected and
  forgotten; `waitFor()` then spins for ever (`ExecutableNode.cxx:32-35, 102`).
- `launch_short`: sub-nodes that die before the next one has its entry leave an empty map, and
  the launch is declared complete with sub-nodes still to start (`LaunchNode.cxx:12, 51`).
- `sequence_two`: the handler starts a stage of one sequence while the thread starts the same
  program for another, and takes its completion handler along (`SequenceNode.cxx:50-52`).
- `fd_race`: `linkFd` closes what another thread opened between its `fcntl()` and its `dup3()`.

More facts came out of the models and are assumptions, exceptions or guards in them, not runs.

- With process numbers that wrap around (`PidReuse`), entries of `pidInstance` that are never
  erased make a wait collect another node's process.
- A program that exits before it is registered can end the wrong instance: the number it had
  is the entry of the one that is registered next, and with two instances one of them completes
  while its process executes.
- `--persist` "Keeps going until SIGINT is received" (`main.cxx:27-28`). It does not: a launcher
  that finds the name of the FIFO taken does not persist at all, and one that has made it goes on as soon as
  something is written to it, waits for its nodes and ends (`main.cxx:69-78`, actions `MakeFifo`,
  `ReadFifo`, `UnlinkFifo`, `Return`). `Finishes` states what the code does, after the comment at
  `main.cxx:73`, and so states the opposite of the comment at line 28; `CanBeTold` holds only for the
  time a launcher does keep going.
- `waitForInstance()` looks for the process number once. In a sequence with the same program in
  several stages, instance numbers come back while a wait lasts, and the wait then spins on `ECHILD`
  until SIGCHLD has ended that later instance (`ExecutableNode.cxx:113-121`). With merged signals of other
  nodes' children nothing need do so.
- A wait for a sequence that the handler ends between `instanceIsRunning()` and `sequences[instNum]`
  leaves an entry without an owner there (`SequenceNode.cxx:86-88`). The wait may still return; the next
  `startup()` that is given the number finds the entry, as `emplace()` does not replace it, and uses the
  owner that is not there (`StartupFindsEntry`).
- With early exits in a sequence, `currentStageInstNum` is overwritten with the number of an
  earlier stage, and a wait may spin until the handler is entered again.
- A `select()` that SIGCHLD interrupts leaves the accepting thread in `accept4()` with `keep`
  unread (`Blocked` in `SocketNode`).
- A `startup()` of a socket node whose connections outlive its accepting instance makes one that
  `waitForInstance()` does not wait for.
- A launcher whose document does not parse removes the FIFO of another one (`main.cxx:81` does
  not look at `made_fifo`): `taken` in `Launcher`. The other launcher can then no longer be told to
  go on, and a third may persist next to it.
- A launcher that is interrupted leaves the FIFO, and so does one that an exception of the accepting
  thread (`SocketNode.cxx:84-95`) or of the SIGCHLD handler ends by `std::terminate()` between `mkfifo()` and
  `unlink()`: nobody need have interrupted it. Every later `--persist` finds the name taken and does not
  persist. Where the handler's exception interrupts `open()` or `read()` it comes to `catch(...)` instead,
  the one way to `unlink()` at `main.cxx:87`.
- `--version` prints and goes on (the comment at `main.cxx:25` has it exit); an unknown option is
  taken for the file name; a launcher that fails with anything but a parser's exception
  returns 0.
- A process killed by a signal counts as returning 0 (`ExecutableNode.cxx:40`), so a sequence goes
  on after it; a later element of a group replaces an earlier one of the same name
  (`GroupNode.cxx:12`), which is then never started.
- A `RunningSequence` keeps the ends of the pipes linked to it open in the launcher until the end
  of its last stage has been collected. A program that reads from the sequence sees no end of its
  input before that; should the launcher be waiting for that program, only SIGCHLD can bring the
  end about, and signals merge.
- The attribute `repeats` of `sequence_node_t` is parsed and never read.

## 5. Proofs

One module for each of `ExecutableNode`, `FdMap`, `LaunchNode`, `SequenceNode`, `SocketNode` and
`Launcher`, two for `Linkage`, for every value of the constants that satisfies the modules'
assumptions. Every safety property that a passing run checks is a theorem.

- `ExecutableNode_proofs!TypeCorrect`: `TypeOK`, without further assumptions.
- `BooksKept` and `KeepsContract`: under `Quiet == Early = {} /\ ~PidReuse`, `Bookkeeping` and
  the refinement of `NodeContract`. `TypeOK /\ Bookkeeping` is inductive: that a handler call is
  attributed to the right instance needs that `running_nodes` has every process that is not
  reaped, that `pidInstance` is right for those, and that no two of them share an instance; a
  wait is right because the process it has picked is the only one of its instance. The step of
  the refinement then follows action by action, since an instance's entry goes exactly when its
  only process has been reaped.
- `FdMap_proofs!TypeCorrect`: `TypeOK`.
- `MovesSafely`: `SourcesKept`, the claim of the comment at `Node.cxx:121`, for any number of
  threads. By itself it is not inductive: the invariant `Above` adds that every link is above its
  target in every map, in a `linkFd` in progress and in the copy a child works on. `overwriteFds`
  goes through the links in ascending order, so a target is below everything still to be moved.
- `NoneLost`, `SeesItsLinks`: `Accounted` and `ChildSees` for one thread (`OneThread`; with two they
  are false, as `fd_race` shows), for any number of nodes, files and descriptors. On the launcher's
  side `Accounted` needs to know what a number in use refers to (`TableKnown`): a reserved one can only
  be the thread's own, so that a number `fcntl()` fails on is free. `ChildSees` needs `AskedKept`, that
  for all that was asked there is a link, `Above`, and `LinksRight`: in a child between `fork()` and
  `exec`, each link moved so far has left a file at its target that was asked for there, and nothing
  else has changed.
- `LaunchNode_proofs!TypeCorrect`, `NoneStranded`, `BooksKept`, `Promise`: `TypeOK`,
  `InstancesBacked`, `Bookkeeping` and `KeepsContract`, over any sub-nodes that keep `NodeContract`
  and for any bound on instances. The first two hold with early exits as well, the others say
  themselves that they end with the first one. The invariant adds three parts. `SameKeys`: both maps
  of the node have the same keys unless `startup()` has thrown. `SubsKnown`: an instance of a sub-node
  that executes has not completed, and one whose end the thread is reporting has exited and has no
  entry any more. `StartKnown`: until an early exit, nothing of the instance being started has
  exited, and it has an entry for exactly the sub-nodes that have been started; the entry of the one
  just started is the placeholder 0, which is why `NoOrphans` alone is not inductive: writing the
  number over it must not lose another.
- `SequenceNode_proofs!TypeCorrect`, `InTurn`, `NeverDropped`, `HandlesShared`, `KeepsContract`:
  `TypeOK`, `OneAfterTheOther`, `CarriedOn`, `SameHandles` and, for at least one stage, the refinement
  of `NodeContract`, for any stages, sub-nodes and files, under `OneSequence == MaxInst = 1 /\
  ~EarlyExit` (with two sequences the promise is not kept, as `sequence_two` shows). The argument is that
  the sequence is in one hand at a time (`OneHand`, `InHand`): in the frame of the thread, in that of the
  handler, or with the one process there is. Whoever has it is alone in changing `seq`,
  `onInstanceDeath` and the links, which are therefore known at each point of `proceed()`
  (`HandlersKnown`, `LinksKnown`, `StageKnown`), although the handler may run between any two statements
  of the thread: it has nothing left to do there but erase entries. That those are other entries than
  the ones in use is `Entries`. A second
  invariant on top of it, `Finds`, says that a status is credited to the instance it belongs to: an entry
  of a stage's map has a process, is being finished or is about to get a process (`InMap`),
  `pidInstance` has the instance of the process there is (`PidsKnown`), and a wait holds a node and a
  number, also where it read them from a `RunningSequence` that another wait had left without an owner
  (`CallNoted`). In the refinement a step maps to `Exit` when it is the exit of the last
  program, to `Complete` when it is `FinishSequence`, and to a stutter between two stages.
- `SocketNode_proofs!TypeCorrect`, `Owned`, `AcceptsReady`, `KeepsContract`: `TypeOK`,
  `InstancesOwned`, `BlocksOnlyInterrupted` and the refinement of `NodeContract`, for any sockets
  and any bound on instances, without further assumptions on the run. The invariant adds three
  parts to the first two. `ThreadOwns`: the thread's instance exists, and is the one `accInst`
  names, as long as the thread does, and the number it takes for a connection is not in
  `launched` and not `accInst`. `SetRead`: unless `select()` was interrupted, what is still to be
  looked at in the set has a connection, because only the thread takes connections; hence
  `AcceptsReady`. `CallKnown`: a join is for `accInst`, so that a finished thread means that its
  instance has gone when the wait returns, which the refinement needs.

- `Launcher_proofs!TypeCorrect`, `NoneLeftBehind`, `Excludes`, `Reached`: `TypeOK`, `FifoOwned`,
  `OnePersists` and `CanBeTold`, for any number of launchers and any documents. `OnePersists`
  is not inductive: the invariant `HasFifo` adds that a launcher with `made_fifo` that has not ended has
  its own FIFO at the name, as long as no failed parse has removed one; two such launchers are then
  the same. It is `UnlinkFifo`, and the `unlink()` of `catch(...)`, that need it: without it, one launcher
  could remove another's. `NoneLeftBehind` says nothing of launchers that SIGINT or `std::terminate()` ends,
  as these do leave a FIFO.
- `Launcher_proofs!ClassesSpecific`: `MostSpecific`, for any documents whose elements have types of
  the schema (`ElementAssumption`). Two facts about `Construction` carry it: the last storage that can
  construct an element is for a type that extends all the others that could, which depends on the order
  of registration; and every node is of an element that `execute()` was called for, so that where
  construction has succeeded each of them has a class. The invariant adds that a launcher behind the
  construction has a document for which it succeeded (`Through`).
- `Launcher_proofs!CommandsCorrect`: `CommandsRight`, for any documents that are valid by the schema
  (`ElementAssumption`: programs have sequences of paths, arguments and variables, a script's
  interpreter is a program), any separator and any `Programs`. `CommandsRight` does not use the
  loops of the code: `Written` says of each position of a path which name or separator is there, and a
  path is the first viable one when none before it is. That the loop of `pathElemToPathData()` writes
  the same (`PathWritten`) is an induction over the names of a path; that the loops over the paths stop at
  the first viable one (`ExecRight`) needs that a set of numbers has a least one; where the parts of
  `argv` and `envp` are (`ArgvParts`, `EnvBoth`) is arithmetic on positions. Induction is done on sets,
  since a theorem with a predicate as its parameter cannot be instantiated: a set of numbers with 0 and
  the successor of each of its members has all of them (`Induction`), by the library's `WFMin`
  for `<`. `FlattenSeq` is unfolded to the function it is defined by (`Flattens`), whose i-th
  value the induction shows to be the first i names.
- `Linkage_proofs!TypeCorrect`, `NothingKept`: `TypeOK` and `Released`, for every tree of launches
  and programs and any descriptor limit. That a startup has returned says nothing of the nodes deep in
  the document, so the invariant has three parts. `Chain`: the frames in progress form a chain from
  `cur` up to the root, each node being a sub-node of the one above. `Pending`: a node that has links
  is one that some frame of the chain has still to start. `Accounted`: every open descriptor is
  inherited, the client's, in the frame of `cur`, or a link of some node. When the last frame
  returns nothing is pending, and what is left is accounted for by the root.
- `Wiring_proofs!NothingLeaks`, `WiredRight`: the two directions of `Wired`. `NothingLeaks` holds of
  every document: what a program holds of a pipe was made by the startup that started it and is led
  to it. `WiredRight` is `Wired` itself, under `OneSource`: no two linkages, socket linkages or
  externalizations of a launch node name the same descriptor of a sub-node. Without it `Wired` is
  false, and rightly: both links are made and `overwriteFds` lets the higher one win. TLC evaluates
  `OneSource` for the documents of `link`. The argument, on top of `Linkage_proofs`:
  - what is open (`Hands`): the local variables of the `startup()` that executes are the ends of the
    last pipe, no number is the client's and a link at once or the link of two nodes, and a link is to
    an end of a pipe of the current startup which arrives there. From the last part a program's image is
    right when it is forked, and nothing changes an image or the record of a linked pipe afterwards;
    hence `NothingLeaks`;
  - where the frames are (`Below`, `Apart`): launch nodes above `cur` are all starting their sub-nodes,
    and what is still to be started has, inside of it, nothing that is active or was started in this
    startup. Thus a new pipe arrives only at nodes that are still to be started, and closing the links
    of one node takes none from those. That a pipe can arrive from far above is a fact about trees:
    an externalization leads into a sub-node only from its one parent (`ArrivesBack`, `ArrivesInside`);
  - who has linked what: every end of a pipe is to be at the root or at a sub-node of a launch node
    that has begun and has made, or is making, that link (`Origin`); what is linked to a sub-node was
    linked by one of its parent's links that is behind it (`SourceDone`), so with `OneSource` a
    descriptor is linked once (`Unique`);
  - what arrives is linked (`Carried`): at a launch node that executes all of it, at a sub-node that is
    still to be started all that comes by links of the parent that are done. When the sub-node is started
    they all are; when it is a program, `Unique` makes the link the one that `overwriteFds` keeps.

  All parts hold only until the launcher fails or `pipe2()` does. After an exception no descriptor is
  left and programs only end; after a failed `pipe2()` `Wired` promises nothing.

Left to TLC: all liveness (`SteadyWaitTerminates`, `WaitEnds`, `Served`, `Finishes`, `AllEnd`,
`LinkTerminates`), which needs fairness and `ENABLED`.

## 6. Not modelled

Sequence nodes in `Linkage`; descriptor numbers in `SequenceNode` (they are in `FdMap`) and a
sequence that is a stage of itself (`SequenceAssumption`); the listening
descriptors in `Linkage`; the destructor of `SocketNode`; a client that embeds the library and
goes on after an exception of `startup()`; paths without an operating system, an optional attribute
that is read without a test (`ExecutableNode.cxx:86`); names of linkages that are not in the group
(`GroupNode.cxx:22`); FileNode, which is not built; the generated XML parser, the build files, the
tests and the examples (`examples/ws` and `examples/3_ps` are programs that arclaunch starts, and
use nothing of it).

## 7. Plan

1. Done: `NodeContract`; `ExecutableNode`, `FdMap`, `LaunchNode`, `SequenceNode`, `SocketNode`,
   `Launcher` and `Linkage` with proofs; `Construction`.
2. To come: sequence nodes in `Linkage`.
