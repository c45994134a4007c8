SPECIFICATION FairSpec
CONSTANTS
  u1 = u1
  p1 = p1
  s1 = s1
  m1 = m1
  m2 = m2
  Stripped <- MCStripped
  Types = {"user", "secret", "auth_method"}
  NamesAt <- MCPagesNames
  OneShot = TRUE
  MaxWarnings = 0
  MaxChanges = 0
  Unmounted = Unmounted
  Garbled = Garbled
  Nothing = Nothing
INVARIANTS NothingMissed
PROPERTIES SyncEnds
