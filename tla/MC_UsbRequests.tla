---------------------------- MODULE MC_UsbRequests ----------------------------
(* A thread that calls, and a hub with two ports.                            *)
EXTENDS UsbRequests
CONSTANTS c1, a1, a2
MC_Clients == {c1}
MC_Addresses == {a1, a2}
=============================================================================
