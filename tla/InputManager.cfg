\* Faults the driver recovers from or reports, in every boot mode.
SPECIFICATION IMFairSpec
CONSTANTS
  CmdRingSize = 64
  MaxSlots = 2
  Ports <- MCPorts
  Devices <- MCDevices
  Speeds = {2, 4}
  FaultKinds = {"initFails", "addressErr", "xact", "portDrop"}
  MaxFaults = 4
  MaxReports = 2
  InputModes <- MCModes
INVARIANTS
  NoSlotLeak
PROPERTIES
  AlwaysAnInput
  Ps2GivenUpForKeyboard
  ReadyOrFailed
  EveryReportFed
