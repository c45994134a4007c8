SPECIFICATION FairSpec
CONSTANTS
  t1 = t1
  t2 = t2
  t3 = t3
  Tasks <- MCTasks
  Nobody = Nobody
  Slots = 2
PROPERTIES DialEnds
CHECK_DEADLOCK FALSE
