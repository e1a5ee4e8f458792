SPECIFICATION LayoutFairSpec
CONSTANTS
  Layout = {l1, l2}
  None = None
  DefaultLayout = l1
  Broken = Broken
  Missing = Missing
  RingCapacity = 2
  MaxEdits = 4
  StartupEdits = FALSE
INVARIANTS LayoutsAgree
PROPERTIES EditsAreAdopted
CHECK_DEADLOCK FALSE
