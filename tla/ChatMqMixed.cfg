CONSTANTS
  Users = {u1, u2, u3}
  NoUser = NoUser
  MaxMsg = 2
  MaxStarts = 2
  MaxLines = 1
SPECIFICATION Spec_52_04
INVARIANT Paired
CHECK_DEADLOCK FALSE
