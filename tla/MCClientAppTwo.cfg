\* two requests that may overlap, two supervisors
CONSTANTS
  u1 = u1  u2 = u2  m1 = m1  m2 = m2
  NoMonitor = NoMonitor
  Users = {u1, u2}
  Monitors = {m1, m2}
  Requests <- AllRequests
SPECIFICATION Spec
SYMMETRY GoroutineSymmetry
INVARIANTS TypeOK DisconnectHolds Supervised
