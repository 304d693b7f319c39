SPECIFICATION FairDutySpec
CONSTANTS
  Interval = 5
  OnTimes <- MCOnTimes
  OnCycle = 2
  OffCycle = 2
  CtsSubframes = 1
  MaxSends = 3
INVARIANTS
  LteuTypeOK
  FrequencyFollowsPhase
  CtsCoversOnPart
  CycleAddsUp
PROPERTY Converges
