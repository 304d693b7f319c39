SPECIFICATION DutySpec
CONSTANTS
  Interval = 5
  OnTimes <- MCOnTimes
  OnCycle = 2
  OffCycle = 2
  CtsSubframes = 1
  MaxSends = 3
INVARIANT OffIsQuiet
