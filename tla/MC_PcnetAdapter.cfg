CONSTANTS
  a1 = a1
  a2 = a2
  b1 = b1
  b2 = b2
  Address <- AddressDef
  Bin <- BinDef
  PacketFilter <- PacketFilterDef
  Hash <- HashDef
  LANCE_MAX_MULTICAST = 1
  MaxSends = 1
  MaxPlugs = 1
SPECIFICATION FairSpec
CHECK_DEADLOCK FALSE
INVARIANTS OnlyKnownUses LeftAfterFailure FilterHeard StoppedWhenHalted
PROPERTY StatusFollowsCable
