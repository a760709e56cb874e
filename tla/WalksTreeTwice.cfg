CONSTANT
  Gone = Gone
SPECIFICATION WalksSpec
INVARIANT TreeEntryOfItsProcess
CHECK_DEADLOCK FALSE
