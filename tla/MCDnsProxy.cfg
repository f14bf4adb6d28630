\* two datagrams and one connection at a time, three resolvers, a changing block list
CONSTANTS
  u1 = u1  u2 = u2  t1 = t1  None = None
  UdpHandlers = {u1, u2}
  TcpHandlers = {t1}
  Upstreams = 3
  CounterSize = 4
  Queries <- SomeQueries
  Malformed <- NoName
  Lists <- SomeLists
SPECIFICATION Spec
INVARIANT TypeOK
PROPERTIES DrainsOnClose GivesUpAfterAll OnlyClientsDelayClose
CHECK_DEADLOCK FALSE
