\* One signal in depth: slips inside decimated gaps.
CONSTANTS
  Keys = {k1}
  RoundUnit = 2
  Interval = 4
  RequireCp = FALSE
  MaxEpoch = 8
  MaxArc = 6
  MaxSlips = 3
  MaxOut = 3
  LockTimes = {0, 1, 2}
  CpStdevs = {14, 15}
  SlipThreshold = 0
SPECIFICATION Spec
INVARIANTS
  TypeOK
  ArcTellsSlips
  SlipReachesPhase
  AtMostTwicePerSlip
PROPERTY ImplementsDeferral
\* the input ends, and the bounds are reached
CHECK_DEADLOCK FALSE
