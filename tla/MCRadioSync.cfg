SPECIFICATION FairSpec
CONSTANTS
  Block = 4
  TXBufferSize = 6
  syncPreambLen = 2
  Period = 10
  FrameCount = 2
  LteU = FALSE
  WriteSizes = {2, 4}
  ReadSizes = {3, 7}
  PipeCap = 10
  MaxLost = 1
INVARIANTS
  RadioTypeOK
  PositionsAgree
  HandedOverInOrder
PROPERTIES
  SyncCompletes
