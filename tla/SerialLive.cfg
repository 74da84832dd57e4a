\* Every call returns: one byte value, handlers do not print.
SPECIFICATION FairSpec
CONSTANTS
  Thread = {main, r1, idle}
  NULL = NULL
  initial_thread = main
  idle = idle
  TIME_SLICE = 1
  buffer = buffer
  txq = txq
  Queue = {buffer, txq}
  Sema = {buffer, txq}
  Byte = {0}
  INTQ_BUFSIZE = 3
  Reader = {r1}
  Writer = {main}
  HandlerPrints = FALSE
PROPERTIES PutcReturns GetcReturns
