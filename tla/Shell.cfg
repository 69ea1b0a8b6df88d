SPECIFICATION LiveSpec
CONSTANTS
  Lines <- MCLines
  Words <- MCWords
  mtom <- MCmtom
  atoi <- MCatoi
  First <- MCFirst
  Size <- MCSize
  SHORT = 3
  Sleeps = {3}
  Waits = {2, 5}
  W = 12
INVARIANTS DelaysLast
PROPERTIES   CallsReturn
CHECK_DEADLOCK FALSE
