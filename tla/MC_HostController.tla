-------------------------- MODULE MC_HostController --------------------------
(* FRNUM of three bits and a frame counter of four; two power cycles, so that *)
(* the second may come at any point of the rebuilding after the first.        *)
EXTENDS HostController
===============================================================================
