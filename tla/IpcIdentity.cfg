SPECIFICATION Spec
CONSTANTS
  Instance = {i1, i2}
  Channel = {c1}
  Note = {n1}
  Mpe = {m1}
  Speed = {s1}
  Decay = {d1}
  Transducer = {1}
  DefaultMpe = m1
  DefaultSpeed = s1
  DefaultDecay = d1
  None = None
  Conn = {k1, k2}
  Message <- IdentityMessages
  Capacity = 3
  Reserve = 1
  InboxBound = 1
SYMMETRY Symmetry
INVARIANTS TypeOK OneHolderPerId SessionOrder LiveClientsStayRegistered
  NoRegistrationLeak
