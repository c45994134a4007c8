SPECIFICATION OSpec
CONSTANTS
  p1 = p1
  p2 = p2
  Users = {u1}
  Policies = {p1, p2}
  Workers = {w1, w2}
  AdminLists <- MCFewLists
  OneShot = FALSE
  CacheOn = FALSE
  AdminInterferes = TRUE
  Absent = Absent
  Garbled = Garbled
  Nothing = Nothing
SYMMETRY Symmetry
INVARIANTS SettledHolds ReportsAgree
