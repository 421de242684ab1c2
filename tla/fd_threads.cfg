SPECIFICATION FairSpec
CONSTANTS
  group = group
  leaf = leaf
  t1 = t1
  t2 = t2
  f1 = f1
  f2 = f2
  NoNode = NoNode
  Tty = Tty
  Closed = Closed
  Reserved = Reserved
  Nodes <- OneLeaf
  Leaves <- OneLeaf
  Linkers <- TwoThreads
  Files <- OneFile
  Stdio <- StdioOne
  Targets <- TargetsApart
  MaxFd = 4
  MaxOwn = 1
INVARIANTS
  SourcesKept
PROPERTIES
  LinkTerminates
