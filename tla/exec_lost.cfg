SPECIFICATION FairSpec
CONSTANTS
  n1 = n1
  n2 = n2
  NoNode = NoNode
  Nodes <- TwoNodes
  Pids <- ThreePids
  Mortal <- ThreePids
  MaxInst = 1
  Early <- TwoNodes
  PidReuse = FALSE
PROPERTIES
  WaitTerminates
