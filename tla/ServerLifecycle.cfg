SPECIFICATION Spec
CONSTANTS
  Instance = {i1}
  Channel = {c1}
  Note = {n1}
  Mpe = {m1}
  Speed = {s1}
  Decay = {d1}
  Transducer = {1}
  DefaultMpe = m1
  DefaultSpeed = s1
  DefaultDecay = d1
  None = None
  Conn = {k1, k2}
  Message <- LifecycleMessages
  Capacity = 2
  Reserve = 1
  InboxBound = 1
  WaveSlot = {1}
  TravellingSlot = {2}
  RegistrySize = 1
  AttackFrames = 1
  ReleaseFrames = 1
  TailFrames = 2
  MaxNotes = 1
SYMMETRY Symmetry
INVARIANT HeldVoicesAreAccountedFor
PROPERTIES ImplementsIpc ImplementsEngine
