\* a refused update keeps the refused address
CONSTANTS
  wg0 = wg0  p1 = p1  p2 = p2  k1 = k1  k2 = k2
  NoIface = NoIface  NoPeer = NoPeer  NoKey = NoKey  NoDev = NoDev  NoName = NoName
  FirstName = wg0  FirstPort = 0
  Names = {wg0}
  Slots = {p1, p2}
  Keys = {k1, k2}
  Ports = {0}
  Hosts = {1, 2, 3}
  Entries = {}
  DriverKind = "netstack"
  StartConfigs <- WithPeers
  Patches <- None
  PeerInputs <- Imported
  SettingInputs <- ForwardOnly
  UpInputs = {TRUE}
  Faults <- NoFaults
SPECIFICATION Spec
INVARIANTS PeerAddressesUnique
