\* two requests of two clients, the daemon ending anywhere, failing saves
CONSTANTS
  r1 = r1  r2 = r2  c1 = c1  c2 = c2  s1 = s1  k1 = k1
  None = None
  Requests = {r1, r2}
  Clients = {c1, c2}
  Sessions = {s1}
  Secrets = {k1}
  MaxFails = 2
  Window = 2
  Block = 2
  MaxTracked = 2
  SweepAbove = 0
  Faults <- AllFaults
SPECIFICATION Spec
INVARIANTS TypeOK FailuresBounded BindingSaved
PROPERTIES SessionsNeedFactor BlockServed BlockEnds
