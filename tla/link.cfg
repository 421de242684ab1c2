SPECIFICATION FairSpec
CONSTANTS
  NoNode = NoNode
  Tty = Tty
  Closed = Closed
  Launches <- AllLaunches
  Leaves <- AllLeaves
  Roots <- TwoRoots
  Depth <- DocDepth
  Kids <- DocKids
  Links <- DocLinks
  Externals <- DocExternals
  Sockets <- DocSockets
  ClientLinks <- InOut
  Stdio <- StdioTwo
  MaxFd = 11
  MaxInst = 2
  MaxPipes = 2
INVARIANTS
  TypeOK
  Wired
  Released
PROPERTIES
  AllEnd
