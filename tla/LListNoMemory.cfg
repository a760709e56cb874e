CONSTANTS
  Names = {n1, n2}
  Values = {x, y}
  Users = {u1, u2}
  Addrs = {x1, x2, x3}
  Null = Null
SPECIFICATION SpecNoMemory
INVARIANT AddReported
CHECK_DEADLOCK FALSE
