\* Two clients, two sessions that may share a directory, threads that run.
CONSTANTS
  s1 = s1
  s2 = s2
  c1 = c1
  c2 = c2
  d1 = d1
  d2 = d2
  Sessions <- MCSessions
  Dirs <- MCDirs
  Clients <- MCClients
  Segments = 2
  MayFail = TRUE
SPECIFICATION FairSpec
INVARIANTS
  OnlyLastAtRisk
PROPERTIES
  FinalStays
  StopFinalizes
CHECK_DEADLOCK FALSE
