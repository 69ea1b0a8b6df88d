\* Safety under every kind of fault, four at a time: enough to use up either
\* retry counter and to fail while a retry is under way.
SPECIFICATION Spec
CONSTANTS
  CmdRingSize = 64
  MaxSlots = 2
  Ports <- MCOnePort
  Devices <- MCOneDevice
  Speeds = {2, 4}
  FaultKinds <- AllFaults
  MaxFaults = 4
  MaxReports = 2
INVARIANTS
  CompletionMatches
  BuffersNotOverwritten
  TransfersMatchSlotState
  
PROPERTY
  FailedIsFinal
