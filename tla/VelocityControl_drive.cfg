\* One drive of a robot that also moves unasked, an operator, and publishes that
\* may fail.
CONSTANTS
  Drives = {"fwd2m"}
  Cancellable = {"fwd2m"}
  Requests <- MCRequests
  MaxLin = 1500
  MaxAng = 1500
  DriveSpeeds = {50}
  MinSpeed = 5
  MaxInput = 1500
  Crawl = 8
  Tol = 1
  Target = 2
  SlowZone = 0
  MaxPulse = 1
  MaxStep = 1
  Glitches <- MCExact
  MaxGlitch = 0
  Timeout = 1
  StaleAfter = 1
  Deadline = 1
  PubSlack = 1
  DriveSlack = 1
  PublishMayFail = TRUE
SPECIFICATION FairSpec
INVARIANTS
  IdleMeansStopped
  DriveKeepsAlive
  NoOrphanMotion
  DoneIsReal
PROPERTIES
  ImplementsDeadman
  StopHolds
  DriveEnds
