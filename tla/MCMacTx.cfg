SPECIFICATION FairSpec
CONSTANTS
  NoFrames = 16
  MaxTimeHorizon = 1
  DataSubF <- DataOfScript
  QueueSize = 13
  MaxHARQ = 1
  EmptySubF <- EmptyOfScript
  SIB1SF = 5
  SIB2SF = 0
  RxQueueSize = 1
  MaxUplink = 1
INVARIANTS
  MacTypeOK
  QueueNeverStale
PROPERTIES
  ImplementsDlSchedule
  CallbackReturns
