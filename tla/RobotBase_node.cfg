\* Port failures, a clock that is set back, and shutdown.
CONSTANTS
  Commands <- MCCommands
  CmdTimeout = 3
  LoopSlack = 1
  BadLimit = 2
  MaxSkew = 1
  Faults = {"port", "clock", "shutdown"}
SPECIFICATION FairSpec
INVARIANTS
  CommandsArrive
PROPERTIES
  NoReplay
  ImplementsDeadman
  QuietStops
CHECK_DEADLOCK FALSE
