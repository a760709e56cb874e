CONSTANTS
  t1 = t1
  t2 = t2
  t3 = t3
  t4 = t4
  Threads <- MCThreadSet
  NoThread = NoThread
  Nobody = Nobody
  Callers = {p, q}
  Keys = {a, b, c}
  MaxElems = 3
  Null = Null
  Ok = Ok
  Fail = Fail
  Nothing = Nothing
  Loops = 4
  MaxRead = 3
  MaxRuns = 2
SPECIFICATION MCSpec
INVARIANTS
  TypesOK InitOnce ReturnAfterInit TreeSound
  ResultBounds ShownRight
PROPERTY ImplementsMap
CHECK_DEADLOCK FALSE
SYMMETRY MCSymmetry
