SPECIFICATION Spec
CONSTANTS
  t1 = t1
  t2 = t2
  t3 = t3
  Tasks <- MCTasks
  Nobody = Nobody
  Slots = 2
INVARIANTS ReleasesWhatIsHeld
CHECK_DEADLOCK FALSE
