SPECIFICATION FairSpec
CONSTANTS
  BufSize = 16
  IndexMod = 8
  SnMod = 4
  ShortLength = 127
  MaxAnswer = 1050
  MaxEthPayload = 15
  IndexRange = 3
  WordMod = 3
  Room = 2048
  RrcBlock = 153
  tbs_table <- MCTable
  mcs_table <- MCMcs
  qpsk_interval <- MCIndices
  MaxNRB = 2
  Rates <- MCRates
  NetLengths = {12, 40}
  Lengths = {2, 7}
  TestPackets <- MCPackets
  ConnMod = 2
  MaxUp = 2
  MaxDown = 2
  MaxTrouble = 1
INVARIANTS
  E2ETypeOK
  
  WholeMessageIntact
  MissCount
  NetworkPacketsWhole
PROPERTIES
  SnsInOrder
  
  NoStaleAnswer
  UntroubledNeedsNoTimer
  
