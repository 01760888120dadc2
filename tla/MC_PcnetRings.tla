---------------------------- MODULE MC_PcnetRings ----------------------------
(* A transmit ring of two descriptors and four packets, so that it wraps and  *)
(* the queue fills while earlier packets are in the ring; a receive ring of   *)
(* three, indicated two frames at a time, and three frames, two of which may  *)
(* have errors, so that batches are full or partial and the loop may come     *)
(* round the ring to a frame it holds; one reset and one stop of the card.    *)
EXTENDS PcnetRings
=============================================================================
