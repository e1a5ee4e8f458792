SPECIFICATION FairSpec
CONSTANTS
  Server = {s1, s2}
  None = None
  Stale = Stale
  MaxLaunches = 3
  MaxCrashes = 2
INVARIANTS TypeOK LiveEndpointKept OrderlyExitRemovesSocket
PROPERTIES OrphansStop StaleSocketRecovered
CHECK_DEADLOCK FALSE
