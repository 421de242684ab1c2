SPECIFICATION FairSpec
CONSTANTS
  Self = Self
  NoNode = NoNode
  Subs <- TwoSubs
  MaxInst = 2
  Early <- TwoSubs
INVARIANTS
  TypeOK
  Bookkeeping
  InstancesBacked
PROPERTIES
  KeepsContract
  WaitEnds
