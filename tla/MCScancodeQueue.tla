------------------------- MODULE MCScancodeQueue -------------------------
(* Model-checking instance of ScancodeQueue.                              *)
EXTENDS ScancodeQueue

MCAuxBytes == {2}
=============================================================================
