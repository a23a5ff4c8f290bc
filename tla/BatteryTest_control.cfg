\* Starts and stops, and joins that give up.
CONSTANTS
  w1 = w1
  w2 = w2
  c1 = c1
  c2 = c2
  Workers <- MCWorkers
  Clients <- MCTwoClients
  Starters <- MCTwoClients
  Allowed = {"stop", "expire", "operator", "error", "manual"}
  MaxLegs = 0
SPECIFICATION Spec
SYMMETRY MCClientSymmetry
INVARIANTS
  OneWorker
  StatusIsTrue
  NoOrphanMotion
CHECK_DEADLOCK FALSE
