SPECIFICATION FairSpec
CONSTANTS
  Layout = {l1, l2}
  None = None
  DefaultLayout = l1
  Broken = Broken
  Missing = Missing
  RingCapacity = 1
  MaxEdits = 1
  StartupEdits = FALSE
  HeaderBytes = 1
  FrameBytes = 2
  MaxStatusBytes = 8
  SocketBytes = 2
  MaxConnects = 2
INVARIANT ObserverHeadsForLayout
PROPERTIES StreamIsFrameQueue ViewerFollowsLayout
CHECK_DEADLOCK FALSE
