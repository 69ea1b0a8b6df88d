----------------------------- MODULE MCTrbRings -----------------------------
(* Instance of TrbRings for TLC: all values are in the .cfg files.          *)
EXTENDS TrbRings
=============================================================================
