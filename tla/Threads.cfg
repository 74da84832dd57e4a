SPECIFICATION FairSpec
CONSTANTS
  Thread = {main, p1, p2, p3}
  NULL = NULL
  initial_thread = main
  TIME_SLICE = 2
  tid_lock = tid_lock
  idle_started = idle_started
  Sema = {tid_lock, idle_started, s1}
  MaxTid = 4
  MaxValue = 2
INVARIANTS IInv SomeThreadToRun
PROPERTIES FreeOnlyDying ReadyRuns BootCompletes
