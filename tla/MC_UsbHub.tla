------------------------------ MODULE MC_UsbHub ------------------------------
(* An external hub with one port at port p1 of the root hub.                   *)
EXTENDS UsbHub
CONSTANTS p1, p2, p3
MC_RootPorts == {p1, p2}
MC_LowerPorts == {p3}
=============================================================================
