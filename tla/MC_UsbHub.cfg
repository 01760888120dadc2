SPECIFICATION Spec
CONSTANTS
  p1 = p1
  p2 = p2
  p3 = p3
  RootPorts <- MC_RootPorts
  LowerPorts <- MC_LowerPorts
  HubPort = p1
  MaxAddress = 3
  MaxFailures = 1
  MaxEvents = 1
INVARIANTS OneAtAddressZero AddressesOwned DetachReaches HubThreadHears
\* The driver stays unloaded.
CHECK_DEADLOCK FALSE
