SPECIFICATION Spec
CONSTANTS
  Server = {s1, s2}
  None = None
  Stale = Stale
  MaxLaunches = 2
  MaxCrashes = 0
INVARIANT NeverUnlinksLiveServer
CHECK_DEADLOCK FALSE
