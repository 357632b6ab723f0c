\* Two files of the last week, more than half a week apart.
CONSTANTS
  Day = 6
  GpsLike = {"GPS"}
  WeekModes = {"recent"}
  Now = 50
  BdtOffset = 1
  GloOffset = 1
  DefaultLeap = 1
  TrueLeap = 1
  DateBefore = 4
  DateSpan = 13
  LogBefore = 2
  NoTime = NoTime
  DayUnknown <- MCDayUnknown
  MaxGap <- FarMaxGap
  Steps <- FarSteps
  FileSteps <- FarFileSteps
  Starts <- FarStarts
  FirstTime <- FarFirstTime
  LastTime <- FarLastTime
SPECIFICATION Spec
INVARIANT RecentEpochs
\* the input ends, or an error ends the conversion
CHECK_DEADLOCK FALSE
