SPECIFICATION Spec
CONSTANTS
  u1 = u1
  p1 = p1
  s1 = s1
  m1 = m1
  m2 = m2
  Stripped <- MCStripped
  Types = {"user", "policy"}
  NamesAt <- MCOneGrant
  OneShot = TRUE
  MaxWarnings = 0
  MaxChanges = 2
  Unmounted = Unmounted
  Garbled = Garbled
  Nothing = Nothing
INVARIANTS TypeOK NothingInvented EntitlementsMatch
PROPERTIES KeepsPromise
