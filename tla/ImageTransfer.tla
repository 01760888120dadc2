---------------------------- MODULE ImageTransfer ----------------------------
(****************************************************************************)
(* What the serial boot loader (BOOTLOADER/SBOOT) promises the developer    *)
(* who downloads an image: memory is filled with the image from its         *)
(* beginning, nothing missing, repeated or out of place, and the loader     *)
(* jumps only into a whole image, or into the one it already has when the   *)
(* host asks for that.                                                      *)
(****************************************************************************)
EXTENDS Sequences, SequencesExt

CONSTANT Image     \* the bytes of the image

VARIABLES
    jump,      \* the host wants the image of an earlier download to be run
    memory,    \* what has been written, in order
    launched   \* the image runs

svars == <<jump, memory, launched>>

SInit == jump \in BOOLEAN /\ memory = <<>> /\ launched = FALSE

(* OEMReadData: some more of the image.                                       *)
Fill ==
    /\ ~jump /\ ~launched
    /\ memory' # memory
    /\ IsPrefix(memory, memory') /\ IsPrefix(memory', Image)
    /\ UNCHANGED <<jump, launched>>

(* OEMLaunch.                                                                 *)
Launch ==
    /\ ~launched
    /\ memory = IF jump THEN <<>> ELSE Image
    /\ launched' = TRUE
    /\ UNCHANGED <<jump, memory>>

SNext == Fill \/ Launch

SSpec == SInit /\ [][SNext]_svars
=============================================================================
