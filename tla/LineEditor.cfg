\* Lines of up to four characters on a grid of 3 x 3, so that lines wrap and
\* the screen scrolls, and a history of two.
SPECIFICATION MCSpec
CONSTANTS
  max_cols = 3
  max_rows = 3
  MaxLine = 4
  KBD_HISTORY_SIZE = 2
  keyboard_map <- MCKeys
  keyboard_map_shift <- MCShifted
  Names <- MCNames
  ClearNames <- MCClear
  Scancodes <- MCCodes
  MaxKeys = 8
INVARIANTS
  OneLine
  ScreenShowsLine
  HistoryIsRecentRuns
PROPERTY
  LetterLands
CHECK_DEADLOCK FALSE
