\* Both backends; a file is made from a file.
CONSTANTS
  k1 = k1
  k2 = k2
  Keys = {k1, k2}
  Observations <- MCObservations
  MaxObs = 3
  MaxFiles = 2
SPECIFICATION Spec
INVARIANTS
  TypeOK
  SlipsSurvive
  ValuesSurvive
  RoundTripEqual
  DiffSeesSlips
PROPERTY Stable
\* the last file has been read
CHECK_DEADLOCK FALSE
