\* Presses, releases and reports in every order; a third key is a rollover.
SPECIFICATION HidSpec
CONSTANTS
  Keys <- MCKeys
  Arrows <- MCArrows
  NoCode <- MCNoCode
  UserMods <- MCMods
  Slots = 2
  MaxPresses = 4
INVARIANTS
  CodesFollowReport
  ShiftAppliesToReport
