SPECIFICATION FairSpec
CONSTANTS
  a = a
  b = b
  b1 = b1
  None = None
  Connectors = {a, b, b1}
  Parent <- MCParent
INVARIANTS TypeOK ReadyMeansMounted OnlyFaultsFail
PROPERTIES StartEnds
