--------------------------- MODULE MCLineEditor ---------------------------
(* Model-checking instance of LineEditor.  A behaviour uses one of two sets *)
(* of keys: those that edit, in long sequences, or those that exercise the  *)
(* decoder.  Its steps are steps of LineEditor.                             *)
EXTENDS LineEditor

VARIABLE hands   \* the codes of this behaviour

\* Two letters, Q and the blank; "cl" clears, "c" is ambiguous for TAB and "l"
\* has one completion.
MCKeys      == [L |-> "l", C |-> "c", Sp |-> " ", Q |-> "q"]
MCShifted   == [L |-> "L", C |-> "C", Sp |-> " ", Q |-> "Q"]
MCNames     == {<<"c", "l">>, <<"c", "c">>, <<"l", "c", "c">>}
MCClear     == {<<"c", "l">>}
MCEditCodes ==
  {"L", "C", "Sp", "E0", "Left", "Right", "Up", "Down", "Enter", "Back", "Tab",
   "Ctrl", "CtrlUp"}

\* Every modifier, the answers, releases and the reset chord.
MCDecodeCodes ==
  {"Q", "E0", "Left", "Down", "Ack", "Release", "Ctrl", "CtrlUp", "Shift",
   "ShiftUp", "Alt", "AltUp"}
MCCodes == MCEditCodes \cup MCDecodeCodes

\* The decoder meets all its cases in fewer codes.
MCInit == Init /\ hands \in {MCEditCodes, MCDecodeCodes}
MCNext == /\ hands = MCDecodeCodes => keys < MaxKeys - 2
          /\ keys < MaxKeys /\ keys' = keys + 1
          /\ \E code \in hands : processar_set1(code)
          /\ UNCHANGED hands
MCSpec == MCInit /\ [][MCNext]_<<vars, hands>>
===========================================================================
