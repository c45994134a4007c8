SPECIFICATION OSpec
CONSTANTS
  p1 = p1
  p2 = p2
  Users = {u1, u2}
  Policies = {p1, p2}
  Workers = {w1}
  AdminLists <- MCAdminLists
  OneShot = FALSE
  CacheOn = TRUE
  AdminInterferes = FALSE
  Absent = Absent
  Garbled = Garbled
  Nothing = Nothing
INVARIANTS SettledHolds
