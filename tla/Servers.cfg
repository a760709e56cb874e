CONSTANTS
  c1 = c1
  c2 = c2
  c3 = c3
  u1 = u1
  u2 = u2
  u3 = u3
  Clients = {c1, c2, c3}
  NoClient = NoClient
  MaxMsg = 1
  Clients3 = {c1, c2, c3}
  Left = Left
  NoUser = NoUser
  K3 = {c1, c2, c3}
  K2 = {c1, c2}
  D2 = {d1, d2}
  None = None
  Block = {a, b}
  MaxBlocks = 3
  Empty = Empty
  Short = Short
  Faults = {"read_error", "write_error", "short_write", "kill"}
SPECIFICATION MCSpec
INVARIANTS TypesOK BufferExclusive CopyIsPrefix ExitComplete NumbersUnique NumbersRight FilesIntact
INVARIANTS OnlyPeerHeard NoneMissed DataIntact NothingForgotten
PROPERTIES NobodyStuck ChildrenReaped ConversationsEnd
CHECK_DEADLOCK FALSE
