SPECIFICATION Spec
CONSTANTS
  Instance = {i1, i2}
  Channel = {c1}
  Note = {n1}
  Mpe = {m1}
  Speed = {s1}
  Decay = {d1}
  Transducer = {1}
  DefaultMpe = m1
  DefaultSpeed = s1
  DefaultDecay = d1
  None = None
  WaveSlot = {1, 2}
  TravellingSlot = {3}
  RegistrySize = 1
  Capacity = 1
  AttackFrames = 1
  ReleaseFrames = 2
  TailFrames = 2
  MaxNotes = 4
SYMMETRY InstanceSymmetry
INVARIANTS TypeOK SlotsAgree
PROPERTIES StealIsLastResort Isolation ReleaseReachesEveryVoice
