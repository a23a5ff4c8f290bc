\* Two threads report, a ring of two, and two polls may be under way at once.
CONSTANTS
  r1 = r1
  r2 = r2
  p1 = p1
  p2 = p2
  Reporters <- MCReporters
  Polls <- MCPolls
  Keys = {"plc-conn"}
  Window = 2
  RingSize = 2
  Boot = 2
  MaxTime = 3
  MaxEvents = 3
SPECIFICATION Spec
INVARIANTS
  NoFlood
  NothingMissed
SYMMETRY MCSymmetry
CHECK_DEADLOCK FALSE
