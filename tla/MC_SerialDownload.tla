-------------------------- MODULE MC_SerialDownload --------------------------
(* An image of five bytes in blocks of two, one and two, read one or more bytes
   at a time, so that a read ends within a block, with it and beyond it; two
   faults, so that a repeated packet may be lost or swallowed as well.        *)
EXTENDS SerialDownload

ThreeBlocks == <<<<1, 2>>, <<3>>, <<4, 5>>>>
=============================================================================
