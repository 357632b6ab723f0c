\* The leap seconds are not the reader's default: files in GLONASS time say them.
CONSTANTS
  Unset = Unset
  Zero = Zero
  DefaultVersion = DefaultVersion
  HeaderFiles <- MCHeaderFiles
  Options <- MCOptions
  Situations <- MCSituations
  ForeignHeaders <- MCForeignHeaders
  Labels = {"", "GLO", "BDT"}
  SystemSets <- MCSystemSets
  External = TRUE
  BackendOptions = {"auto", "internal", "external"}
  Messages = {1006, 1007, 1013, 1033}
  Blanks <- MCBlanks
  Times = {100}
  TrueLeap = 17
  MaxInputs = 2
  MaxRuns = 2
SPECIFICATION Spec
INVARIANTS
  TypeOK
  OneRun
  OneAntenna
  Precedence
  EpochsSurvive
PROPERTIES
  OnlyTheCommandLine
\* the last conversion is done
CHECK_DEADLOCK FALSE
