SPECIFICATION FairSpec
CONSTANTS
  Note = {n1, n2}
  Speed = {s1, s2}
  DefaultSpeed = s1
  FirstNote = n1
  FirstSpeed = s2
  None = None
  SocketFrames = 1
  MaxInputs = 3
  MaxFaults = 1
  UiMayStall = FALSE
INVARIANTS TypeOK SoundsAsShown
PROPERTY ViewerStaysAlive
