\* one interface, one peer; saves and driver calls fail, the daemon ends anywhere
CONSTANTS
  wg0 = wg0  p1 = p1  k1 = k1  k2 = k2
  NoIface = NoIface  NoPeer = NoPeer  NoKey = NoKey  NoDev = NoDev  NoName = NoName
  FirstName = wg0  FirstPort = 1
  Names = {wg0}
  Slots = {p1}
  Keys = {k1, k2}
  Ports = {0, 1}
  Hosts = {1, 2}
  Entries = {}
  DriverKind = "kernel"
  StartConfigs <- OldAndNew
  Patches <- None
  PeerInputs <- AddressTaken
  SettingInputs <- ForwardOnly
  UpInputs = {TRUE, FALSE}
  Faults <- AllFaults
SPECIFICATION Spec
INVARIANTS TypeOK AckedIsLive BootConverges
PROPERTIES ImplementsKeeper GainsAreSaved
SYMMETRY PeerSymmetry
