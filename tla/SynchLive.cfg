\* Three clients, one lock, one condition, preemption at every step.
SPECIFICATION FairSpec
CONSTANTS
  Thread = {main, t1, t2, idle}
  NULL = NULL
  initial_thread = main
  idle = idle
  TIME_SLICE = 1
  l1 = l1
  l2 = l2
  c1 = c1
  Lock <- OneLock
  Cond <- OneCond
  lock_of <- LockOf
  Sema <- AllSema
  MaxHeld = 1
PROPERTIES SignalledReturns FreeLockTaken
