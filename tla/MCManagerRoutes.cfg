\* two kernel interfaces whose peers share a prefix or the default route
CONSTANTS
  wg0 = wg0  wg1 = wg1  p1 = p1  p2 = p2  k1 = k1  k2 = k2
  NoIface = NoIface  NoPeer = NoPeer  NoKey = NoKey  NoDev = NoDev  NoName = NoName
  FirstName = wg0  FirstPort = 0
  Names = {wg0, wg1}
  Slots = {p1, p2}
  Keys = {k1, k2}
  Ports = {0}
  Hosts = {1, 2}
  Entries = {}
  DriverKind = "kernel"
  StartConfigs <- TwoAlike
  Patches <- None
  PeerInputs <- SharedRoute
  SettingInputs <- AnyForward
  UpInputs = {TRUE}
  Faults <- NoFaults
SPECIFICATION Spec
INVARIANTS KeysUnique EnabledPeersRouted LimitsEnforced
SYMMETRY AllSymmetry
