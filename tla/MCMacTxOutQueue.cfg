SPECIFICATION QueueSpec
CONSTANTS
  QueueSize = 4
  Packets <- MCPackets
  Free = Free
INVARIANTS
  QueueTypeOK
  SizeIsExact
  RefusesOnlyWhenFull
  IterationVisitsAll
PROPERTY ImplementsPacketTable
