\* One or two inputs of either format to either format.
CONSTANTS
  k1 = k1
  k2 = k2
  Keys <- MCKeys
  Configs <- MCConfigs
  RinexInputs <- MCRinexInputs
  ObsjInputs <- MCObsjInputs
  MaxInputs = 2
SPECIFICATION Spec
INVARIANTS
  TypeOK
  UpToTheError
  SlipsSurviveJoin
  TwiceIsOnce
PROPERTY Completes
\* the conversion is over
CHECK_DEADLOCK FALSE
