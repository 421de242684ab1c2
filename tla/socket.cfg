SPECIFICATION FairSpec
CONSTANTS
  Self = Self
  NoNode = NoNode
  Socks <- TwoSocks
  MaxInst = 4
INVARIANTS
  TypeOK
  InstancesOwned
  BlocksOnlyInterrupted
PROPERTIES
  ImplementsContract
  WaitEnds
  Served
