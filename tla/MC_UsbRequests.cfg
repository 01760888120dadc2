SPECIFICATION FairSpec
CONSTANTS
  c1 = c1
  a1 = a1
  a2 = a2
  Clients <- MC_Clients
  Addresses <- MC_Addresses
  MaxFailures = 1
INVARIANTS CallsUseLiveDevice QuietAfterDetach
PROPERTIES LockLeft
\* The driver stays unloaded; and the hub thread or a call may wait for ever.
CHECK_DEADLOCK FALSE
