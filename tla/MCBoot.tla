------------------------------- MODULE MCBoot -------------------------------
(* Instance of Boot for TLC: all values are in the .cfg file.               *)
EXTENDS Boot
=============================================================================
