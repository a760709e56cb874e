CONSTANTS
  Kids = {k1, k2, k3}
  Queues = {q1, q2}
  Udp = {d1, d2}
  Tcp = {t1}
  Peers = {p1, p2}
  None = None
  Names = {n1, n2, n3}
  Values = {x, y}
  u1 = u1
  u2 = u2
  Users = {u1, u2}
  Addrs = {x1, x2, x3, x4}
  Null = Null
  Gone = Gone
  c1 = c1
  c2 = c2
  Clients = {c1, c2}
  User <- MCUser
  Backlog = 2
SPECIFICATION MCSpec
INVARIANTS
  TypesOK DataIntact SignalsKept OneForOne ListOK
  ScansRight WalkComplete MonitorsExact
PROPERTIES ImplementsStore OwnerOnly ProgramsComplete WalksEnd
SYMMETRY MCSymmetry
CHECK_DEADLOCK FALSE
