\* All modes, each with the input that it is for.
CONSTANTS
  Day = 6
  GpsLike = {}
  WeekModes = {"recent", "date", "filename", "log"}
  Now = 50
  BdtOffset = 1
  GloOffset = 1
  DefaultLeap = 1
  TrueLeap = 1
  DateBefore = 4
  DateSpan = 13
  LogBefore = 2
  NoTime = NoTime
  DayUnknown <- MCDayUnknown
  MaxGap <- MCMaxGap
  Steps <- MCSteps
  FileSteps <- MCFileSteps
  Starts <- MCStarts
  FirstTime <- MCFirstTime
  LastTime <- MCLastTime
SPECIFICATION Spec
INVARIANTS
  TypeOK
  EpochsTrue
PROPERTIES
  AllResolved
\* the input ends, or an error ends the conversion
CHECK_DEADLOCK FALSE
