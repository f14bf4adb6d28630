\* two kernel interfaces without peers, changing settings, crashes: ports, devices, settings
CONSTANTS
  wg0 = wg0  wg1 = wg1  p1 = p1  k1 = k1  bad = bad
  NoIface = NoIface  NoPeer = NoPeer  NoKey = NoKey  NoDev = NoDev  NoName = NoName
  FirstName = wg0  FirstPort = 0
  Names = {wg0, wg1}
  Slots = {p1}
  Keys = {k1}
  Ports = {0, 1}
  Hosts = {1}
  Entries = {bad}
  DriverKind = "kernel"
  StartConfigs <- Empty
  Patches <- AnyPort
  PeerInputs <- None
  SettingInputs <- AnySettings
  UpInputs = {TRUE, FALSE}
  Faults <- CrashFaults
SPECIFICATION Spec
INVARIANTS PortsUnique NoOrphanDevice SettingsApplied
SYMMETRY IfaceSymmetry
