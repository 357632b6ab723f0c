\* Decimated output written by the external RINEX backend.
CONSTANTS
  Keys = {k1}
  RoundUnit = 1
  Interval = 2
  RequireCp = FALSE
  MaxEpoch = 6
  MaxArc = 4
  MaxSlips = 2
  MaxOut = 3
  LockTimes = {0, 1, 2}
  CpStdevs = {14, 15}
  SlipThreshold = 0
SPECIFICATION Spec
INVARIANT SlipSurfacesOnPhase
\* the input ends, and the bounds are reached
CHECK_DEADLOCK FALSE
