---------------------------- MODULE MC_PhysMem ----------------------------
(* Two units of high priority memory and seven of normal; requests of up to
   three units, which leave gaps of every size in every order.              *)
EXTENDS PhysMem
CONSTANTS c1, c2
MC_Clients  == {c1, c2}
MC_Requests == {1, 3, 4, 6}
=============================================================================
