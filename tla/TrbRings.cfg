SPECIFICATION LiveSpec
CONSTANTS
  EpRingSize = 4
  EventRingSize = 3
  MaxReports = 8
  MaxPortEvents = 3
INVARIANT FedInOrder
PROPERTIES TransferRingIsQueue EventRingIsQueue AlwaysRearmed
CHECK_DEADLOCK FALSE
