SPECIFICATION FairSpec
CONSTANTS
  a = a
  b = b
  f1 = f1
  f2 = f2
  Self = Self
  Subs = {a, b}
  NoNode = NoNode
  Order <- ThriceB
  Pids = {1, 2}
  Files = {f1}
  MaxInst = 1
  MaxNum = 3
  EarlyExit = FALSE
INVARIANTS
  TypeOK
  OneAfterTheOther
  CarriedOn
  SameHandles
PROPERTIES
  ImplementsContract
  WaitEnds
