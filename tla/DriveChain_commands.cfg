\* Publishes that may fail, and a port that may fail, and a clock that may be set back.
CONSTANTS
  SpeedMax = 1
  Requests <- MCRequests
  MaxLin = 1
  MaxAng = 1
  Timeout = 1
  PubSlack = 1
  PublishMayFail = TRUE
  CmdTimeout = 2
  LoopSlack = 1
  BadLimit = 1
  MaxSkew = 1
  Faults = {"port", "clock"}
  QueueDepth = 1
  NetSlack = 1
SPECIFICATION Spec
INVARIANTS
  StopArrives
PROPERTIES
  ImplementsDeadman
CHECK_DEADLOCK FALSE
