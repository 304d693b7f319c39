SPECIFICATION FairSpec
CONSTANTS
  DataWindow = 50
  DupWindow = 40
  MaxHidden = 40
  Scale = 10
  kPreamble = 2
  Inf = 1000
  interval = 6
  t_on_min_ = 1
  t_on_max_ = 5
  mu_thr1_ = 4
  mu_thr2_ = 6
  kInitontime = 4
  PerMs = 44
  sensing_ <- MCSensing
  Frames <- MCFrames
  Gaps = {40}
  MaxWindow = 3
INVARIANTS
  
  MeasuredWhole
  HiddenTimeFits
PROPERTIES
  
  IdleAirGivesFullShare
  
