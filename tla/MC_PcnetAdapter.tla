--------------------------- MODULE MC_PcnetAdapter ---------------------------
(* Two multicast addresses with a bit of the filter each, and filters with   *)
(* and without every address, every packet and the list.                     *)
EXTENDS PcnetAdapter

CONSTANTS a1, a2, b1, b2

AddressDef == {a1, a2}
BinDef == {b1, b2}
PacketFilterDef ==
  {{}, {"multicast"}, {"multicast", "all_multicast"}, {"all_multicast", "promiscuous"},
   {"functional"}}
HashDef == [a \in {a1, a2} |-> IF a = a1 THEN b1 ELSE b2]
=============================================================================
