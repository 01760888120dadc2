SPECIFICATION LockSpec
CONSTANTS
  t1 = t1
  t2 = t2
  t3 = t3
  Threads <- MC_Threads
  Timed <- MC_Timed
  NoThread = NoThread
  MaxNest = 2
INVARIANTS MutualExclusion NoLostWakeup DeletedUnused
\* The destructor may wait for ever.
CHECK_DEADLOCK FALSE
