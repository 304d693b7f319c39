SPECIFICATION FairSpec
CONSTANTS
  no_tx_bufs = 2
  cmd_fifo_queue_size = 4
  CounterMod = 8
  Chunks = 8
INVARIANTS
  SoraTypeOK
  MemoryIsTracked
  OnAirIsAllocated
PROPERTIES
  ImplementsSampleStream
  WriterReturns
\* When the worker has returned, the writer spins for ever.
CHECK_DEADLOCK FALSE
