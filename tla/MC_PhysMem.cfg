SPECIFICATION MemorySpec
CONSTANTS
  c1 = c1
  c2 = c2
  Clients <- MC_Clients
  Requests <- MC_Requests
  Align = 2
  HighSize = 4
  NormalSize = 14
INVARIANTS Tiling Coalesced
