\* outages, one request at a time, two supervisors that may overlap
CONSTANTS
  u1 = u1  m1 = m1  m2 = m2
  NoMonitor = NoMonitor
  Users = {u1}
  Monitors = {m1, m2}
  Requests <- AllRequests
SPECIFICATION FairSpec
PROPERTY Recovers
PROPERTY StaleSupervisorsEnd
