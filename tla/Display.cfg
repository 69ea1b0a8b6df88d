\* Three columns and tabs of two: tabs that fit, that end a row and that are
\* cut short.
SPECIFICATION Spec
CONSTANTS
  max_cols = 3
  max_rows = 2
  TabWidth = 2
  Letters = {"a"}
  Colours = {"VERDE", "BRANCO"}
INVARIANT ScreenShowsCells
PROPERTY IsScreen
