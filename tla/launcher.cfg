SPECIFICATION FairSpec
CONSTANTS
  l1 = l1
  l2 = l2
  l3 = l3
  None = None
  Launchers <- ThreeLaunchers
  Element <- MCElement
  Programs <- MCPrograms
  Sep = "/"
  Documents <- MCDocuments
  CommandLines <- MCCommandLines
INVARIANTS
  TypeOK
  FifoOwned
  OnePersists
  CanBeTold
  MostSpecific
  CommandsRight
PROPERTIES
  Finishes
