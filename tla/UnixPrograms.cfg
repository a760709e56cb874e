SPECIFICATION Spec
CONSTANT PipeSize = 1
INVARIANTS TypeOK OutputsRight
PROPERTY AllEnd
CHECK_DEADLOCK FALSE
