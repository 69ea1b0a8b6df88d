---------------------------- MODULE MCXhciKbd ----------------------------
(* Model-checking instances of XhciKbd.                                   *)
EXTENDS XhciKbd

MCOnePort   == {1}
MCOneDevice == [MCOnePort -> DeviceKinds]
=============================================================================
