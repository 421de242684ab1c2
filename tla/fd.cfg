SPECIFICATION Spec
CONSTANTS
  group = group
  leaf = leaf
  t1 = t1
  t2 = t2
  f1 = f1
  f2 = f2
  NoNode = NoNode
  Tty = Tty
  Closed = Closed
  Reserved = Reserved
  Nodes <- BothNodes
  Leaves <- OneLeaf
  Linkers <- OneThread
  Files <- TwoFiles
  Stdio <- StdioOne
  Targets <- TargetsTwo
  MaxFd = 5
  MaxOwn = 1
INVARIANTS
  TypeOK
  ChildSees
  Accounted
