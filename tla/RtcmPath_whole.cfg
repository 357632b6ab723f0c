\* Two interleaved signals, every epoch written.
CONSTANTS
  Keys = {k1, k2}
  RoundUnit = 1
  Interval = 0
  RequireCp = FALSE
  MaxEpoch = 3
  MaxArc = 4
  MaxSlips = 2
  MaxOut = 4
  LockIndicators = {0, 1, 2}
SYMMETRY Symmetry
SPECIFICATION Spec
INVARIANTS
  TypeOK
  ArcTellsSlips
  SlipSurfacesOnPhase
PROPERTY ImplementsDeferral
\* the input ends, and the bounds are reached
CHECK_DEADLOCK FALSE
