SPECIFICATION Spec
CONSTANTS
  Instance = {i1}
  Channel = {c1}
  Note = {n1}
  Mpe = {m1}
  Speed = {s1}
  Decay = {d1}
  Transducer = {1, 2}
  DefaultMpe = m1
  DefaultSpeed = s1
  DefaultDecay = d1
  None = None
  Conn = {k1}
  Message <- TrafficMessages
  Capacity = 3
  Reserve = 1
  InboxBound = 2
INVARIANTS ReserveHoldsCriticalOnly RoutesMirrorEngine ObserversAreUpToDate
