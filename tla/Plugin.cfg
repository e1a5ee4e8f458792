SPECIFICATION FairSpec
CONSTANTS
  Parameter = {p1, p2}
  Value = {v0, v1}
  Initial = v0
  Note = {n1}
  None = None
  ChannelCapacity = 2
  SocketCapacity = 1
  MaxChanges = 1
  MaxNotes = 1
  MaxFaults = 2
INVARIANTS TypeOK NothingStaleIsSent LiveConfigIsCurrent NoNoteStuck
PROPERTY ConfigConverges
