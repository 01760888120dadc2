-------------------------- MODULE MC_WakePatterns --------------------------
(* A small instance of WakePatterns for TLC: three patterns of one, two and  *)
(* three words, one of which needs a word only because the skip is full.     *)
(* Four descriptors are too few for six words, as the 20 of the driver are   *)
(* for its 62.                                                               *)
EXTENDS WakePatterns

MCMask == [short |-> <<1>>, late |-> <<0, 0, 2>>, long |-> <<3, 0, 1, 0, 4>>]
MCPattern == DOMAIN MCMask
=============================================================================
