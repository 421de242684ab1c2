SPECIFICATION Spec
CONSTANTS
  a = a
  b = b
  f1 = f1
  f2 = f2
  Self = Self
  Subs = {a, b}
  NoNode = NoNode
  Order <- TwiceB
  Pids = {1, 2, 3}
  Files = {f1}
  MaxInst = 2
  MaxNum = 3
  EarlyExit = FALSE
PROPERTIES
  ImplementsContract
