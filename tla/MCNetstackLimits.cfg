\* two connections of one peer with a limit
CONSTANTS
  f1 = f1  f2 = f2  own = own
  Flows = {f1, f2}
  Source <- OnePeer
  Hosts = {own}
  LocalAddrs = {own}
  Specs <- OnlyLimited
  MinBurst = 2
  MaxRead = 2
  MaxWaiting <- UpMore
  MaxTicks = 2
SPECIFICATION Spec
INVARIANTS PeerPaced
CHECK_DEADLOCK FALSE
