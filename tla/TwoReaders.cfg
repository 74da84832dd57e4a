\* Two threads read the input buffer.
SPECIFICATION Spec
CONSTANTS
  Thread = {main, r1, idle}
  NULL = NULL
  initial_thread = main
  idle = idle
  TIME_SLICE = 1
  buffer = buffer
  txq = txq
  Queue = {buffer, txq}
  Sema = {buffer, txq}
  Byte = {0, 1}
  INTQ_BUFSIZE = 3
  Reader = {main, r1}
  Writer = {}
  HandlerPrints = FALSE
INVARIANT WaitAssertion
