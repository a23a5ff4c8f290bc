\* Cycles that are stopped and interrupted, actuators and a PLC that fail.
CONSTANTS
  w1 = w1
  w2 = w2
  c1 = c1
  c2 = c2
  Workers <- MCWorkers
  Clients <- MCOneClient
  Starters <- MCOneClient
  Allowed = {"stop", "slow", "incomplete", "offline", "empty"}
  MaxLegs = 1
SPECIFICATION FairSpec
INVARIANTS
  NoOverlapAsPlanned
PROPERTIES
  ParkedWhilePlanting
  StopEnds
CHECK_DEADLOCK FALSE
