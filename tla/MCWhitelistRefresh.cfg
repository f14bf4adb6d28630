\* queries, refreshes, changing answers and stop
CONSTANTS
  q1 = q1  c1 = c1  n1 = n1  n2 = n2  s = s  a = a
  Owner = Owner  Loop = Loop
  Queries = {q1}
  Conns = {c1}
  Names = {n1, n2}
  Exact = {n1}
  Addrs = {s, a}
  Servers = {s}
  Failures <- ProxyFailures
  MaxChanges = 1
SPECIFICATION FairSpec
INVARIANTS TypeOK StopClears ServersRouted
PROPERTY Converges
PROPERTY StopEnds
CHECK_DEADLOCK FALSE
