\* The labels of all times in scope.
CONSTANTS
  HoursPerDay = 2
  MinutesPerHour = 2
  SecondsPerMinute = 3
  MsPerSecond = 2
  TicksPerMs = 2
  NsPerTick = 2
  RoundUnit = 4
  TickEvery = 31
  Cycles = 5
  Zones <- MCZones
  Scope <- MCScope
SPECIFICATION Spec
INVARIANTS
  TypeOK
  LabelsReadBack
  OnlyRealDates
  WeekTime
  GridKept
PROPERTY ImplementsCalendar
