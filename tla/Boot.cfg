SPECIFICATION LiveSpec
CONSTANTS
  CpuVectors = {8, 14}
  MaxExceptions = 2
INVARIANTS InterruptsHaveHandlers PanicIsShown
PROPERTIES BootEnds
CHECK_DEADLOCK FALSE
