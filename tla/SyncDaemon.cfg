SPECIFICATION Spec
CONSTANTS
  u1 = u1
  p1 = p1
  s1 = s1
  m1 = m1
  m2 = m2
  Stripped <- MCStripped
  Types = {"user", "policy"}
  NamesAt <- MCOneGrant
  OneShot = FALSE
  MaxWarnings = 1
  MaxChanges = 3
  Unmounted = Unmounted
  Garbled = Garbled
  Nothing = Nothing
INVARIANTS NothingMissed NothingInvented
