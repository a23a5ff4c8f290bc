\* Outages, kills, failed writes and settings of the clock, three in all.
CONSTANTS
  FixEvery = 1
  BeatEvery = 2
  FreshLimit = 4
  Cycle = 2
  MinDelay = 1
  MaxDelay = 2
  MaxBack = 1
  Faults = 3
SPECIFICATION FairSpec
INVARIANTS
  NeverCorrupted
  ConnectedIsHeard
  FixedIsRecent
PROPERTIES
  ComesBack
CHECK_DEADLOCK FALSE
