\* Two RINEX inputs to obsj.
CONSTANTS
  k1 = k1
  k2 = k2
  Keys <- MCKeys
  Configs <- MCConfigs
  RinexInputs <- MCRinexInputs
  ObsjInputs <- MCObsjInputs
  MaxInputs = 2
SPECIFICATION Spec
INVARIANT BitChangesArc
\* the conversion is over
CHECK_DEADLOCK FALSE
