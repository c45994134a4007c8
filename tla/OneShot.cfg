SPECIFICATION OFairSpec
CONSTANTS
  p1 = p1
  p2 = p2
  Users = {u1, u2}
  Policies = {p1, p2}
  Workers = {w1}
  AdminLists <- MCAdminLists
  OneShot = TRUE
  CacheOn = TRUE
  AdminInterferes = FALSE
  Absent = Absent
  Garbled = Garbled
  Nothing = Nothing
INVARIANTS TypeOK SettledHolds ReportsAgree
PROPERTIES AtomicCalls CallsEnd
