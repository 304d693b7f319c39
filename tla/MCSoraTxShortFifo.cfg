SPECIFICATION FairSpec
CONSTANTS
  no_tx_bufs = 2
  cmd_fifo_queue_size = 2
  CounterMod = 8
  Chunks = 8
PROPERTY WriterReturns
\* When the worker has returned, the writer spins for ever.
CHECK_DEADLOCK FALSE
