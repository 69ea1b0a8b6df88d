--------------------------- MODULE MCHidReport ---------------------------
(* Model-checking instance of HidReport: a letter, an arrow, a key with no *)
(* scancode and both Shift keys.                                           *)
EXTENDS HidReport

MCKeys   == {"a", "up"}
MCArrows == {"up"}
MCNoCode == {"menu"}
MCMods   == {"LShift", "RShift"}
===========================================================================
