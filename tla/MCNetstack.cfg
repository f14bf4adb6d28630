\* one flow, of a connection or of datagrams, under changing settings
CONSTANTS
  f1 = f1  own = own  web = web
  Flows = {f1}
  Source <- OnePeer
  Hosts = {own, web}
  LocalAddrs = {own}
  Specs <- SomeSpecs
  MinBurst = 2
  MaxRead = 2
  MaxWaiting <- UpMore
  MaxTicks = 2
SPECIFICATION Spec
INVARIANTS TypeOK NothingTruncated FlowPaced
PROPERTIES SocketsReturned RequestEndPassed
CHECK_DEADLOCK FALSE
