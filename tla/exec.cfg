SPECIFICATION FairSpec
CONSTANTS
  n1 = n1
  n2 = n2
  NoNode = NoNode
  Nodes <- TwoNodes
  Pids <- FourPids
  Mortal <- FourPids
  MaxInst = 2
  Early <- OneEarly
  PidReuse = FALSE
INVARIANTS
  TypeOK
  Bookkeeping
PROPERTIES
  ImplementsContract
  SteadyWaitTerminates
