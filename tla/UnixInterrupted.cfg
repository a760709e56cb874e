SPECIFICATION Spec
CONSTANT PipeSize = 1
INVARIANT ReadInterrupted
CHECK_DEADLOCK FALSE
