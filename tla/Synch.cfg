\* Three clients, two nested locks, one condition, preemption at every step.
SPECIFICATION Spec
CONSTANTS
  Thread = {main, t1, t2, idle}
  NULL = NULL
  initial_thread = main
  idle = idle
  TIME_SLICE = 1
  l1 = l1
  l2 = l2
  c1 = c1
  Lock <- TwoLocks
  Cond <- OneCond
  lock_of <- LockOf
  Sema <- AllSema
  MaxHeld = 2
SYMMETRY ClientSymmetry
INVARIANT LocksExact
PROPERTY ImplementsMonitor
