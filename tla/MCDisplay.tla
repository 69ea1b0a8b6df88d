----------------------------- MODULE MCDisplay ------------------------------
(* Instance of Display for TLC: all values are in the .cfg files.           *)
EXTENDS Display
=============================================================================
