SPECIFICATION Spec
CONSTANTS
  Self = Self
  NoNode = NoNode
  Subs <- TwoSubs
  MaxInst = 2
  Early <- TwoSubs
PROPERTIES
  ImplementsContract
