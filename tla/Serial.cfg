\* One reader, one writer (console output holds console_lock), handlers print.
SPECIFICATION Spec
CONSTANTS
  Thread = {main, r1, idle}
  NULL = NULL
  initial_thread = main
  idle = idle
  TIME_SLICE = 1
  buffer = buffer
  txq = txq
  Queue = {buffer, txq}
  Sema = {buffer, txq}
  Byte = {0, 1}
  INTQ_BUFSIZE = 3
  Reader = {r1}
  Writer = {main}
  HandlerPrints = TRUE
INVARIANT SleepersSafe
PROPERTY BytesInOrder
VIEW LiveBytes
