\* Counters of five bits, garbled answers, and readings of the pack that are
\* true, plausible or impossible.
CONSTANTS
  Setups <- MCSetups
  Twists <- MCTwists
  SpeedMax = 1
  Modulus = 32
  Bases = {15}
  Garbled <- MCGarbled
  MaxDelta = 5
  ReconnectGap = 1
  DeadTicks = 1
  Scale = 2
  Volts = {0, 40, 48, 49, 60, 90}
  Honest = {48, 49}
  WindowS = 3
  RecomputeS = 2
  MinValid = 30
  MaxValid = 70
  MaxPath = 2
  MaxReads = 4
SPECIFICATION FeedbackSpec
INVARIANTS
  MileageIsTravelled
  PoseFollows
PROPERTIES
  GaugeIsTypical
CHECK_DEADLOCK FALSE
