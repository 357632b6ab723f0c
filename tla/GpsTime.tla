------------------------------ MODULE GpsTime ------------------------------
(***************************************************************************)
(* GPS time as ticks since 1980-01-06 and its labels (obsj/src/obs.rs):    *)
(* the calendar arithmetic, the labels of obsj, RINEX and packet logs read *)
(* back (obs.rs, rinexobs.rs, json.rs), dates given on the command line    *)
(* (cli/src/lib.rs) and the decimation grid (sink.rs).                     *)
(*                                                                         *)
(* The state is one time, which moves by ticks, days and cycles of 400     *)
(* years, forwards and backwards, so that every step can be compared with  *)
(* what it does in the calendar.  A day has its parts as constants: the    *)
(* arithmetic is the same for days of any length.                          *)
(***************************************************************************)
EXTENDS EpochGrid, FiniteSets, Sequences

CONSTANTS
  HoursPerDay, MinutesPerHour, SecondsPerMinute, MsPerSecond, TicksPerMs,
  NsPerTick,  \* TICK_NS
  RoundUnit,  \* DECIMATION_ROUND_TICKS
  Zones,      \* offsets of time zones, in seconds
  Scope,      \* the years that the clock may be in
  TickEvery,  \* the clock runs tick by tick on every so many days
  Cycles      \* the cycles of 400 years that the clock may jump

ASSUME GpsTimeAssumption ==
  /\ {HoursPerDay, MinutesPerHour, SecondsPerMinute, MsPerSecond, TicksPerMs,
      NsPerTick, RoundUnit, TickEvery, Cycles} \subseteq Nat \ {0}
  /\ Zones \subseteq Int
  /\ (MsPerSecond * TicksPerMs) % RoundUnit = 0
  /\ 1980 \in Scope

VARIABLES
  t,     \* GpsTime.0
  label  \* its civil time

vars == <<t, label>>

SecondsPerDay == HoursPerDay * MinutesPerHour * SecondsPerMinute
TicksPerSecond == MsPerSecond * TicksPerMs
DayTicks == SecondsPerDay * TicksPerSecond
MsPerWeek == 7 * SecondsPerDay * MsPerSecond
NsPerSecond == TicksPerSecond * NsPerTick
EpochUnix == 3657 * SecondsPerDay

-----------------------------------------------------------------------------
(* Division as the machine does it, towards zero. *)
Quot(a, b) == IF a >= 0 THEN a \div b ELSE -((-a) \div b)

(* Faulty variant of DivMod: as the machine does it.                       *)
DivModQuot(a, b) == <<Quot(a, b), a - Quot(a, b) * b>>

(* div_mod *)
DivMod(a, b) ==
  LET q == Quot(a, b)
      r == a - q * b
  IN  IF r < 0 THEN <<q - 1, r + b>> ELSE <<q, r>>

(* floor_div *)
FloorDiv(a, b) == DivMod(a, b)[1]

(* Faulty variant of CivilFromDays: the era of a negative day number.      *)
CivilFromDaysQuot(n) ==
  LET z == n + 719468
      era == Quot(z, 146097)
      doe == z - era * 146097
      yoe == (doe - doe \div 1460 + doe \div 36524 - doe \div 146096) \div 365
      doy == doe - (365 * yoe + yoe \div 4 - yoe \div 100)
      mp == (5 * doy + 2) \div 153
      m == IF mp < 10 THEN mp + 3 ELSE mp - 9
  IN  <<yoe + era * 400 + (IF m <= 2 THEN 1 ELSE 0), m, doy - (153 * mp + 2) \div 5 + 1>>

(* civil_from_days: year, month and day of a day since the Unix epoch.     *)
CivilFromDays(n) ==
  LET z == n + 719468
      era == Quot(IF z >= 0 THEN z ELSE z - 146096, 146097)
      doe == z - era * 146097
      yoe == (doe - doe \div 1460 + doe \div 36524 - doe \div 146096) \div 365
      doy == doe - (365 * yoe + yoe \div 4 - yoe \div 100)
      mp == (5 * doy + 2) \div 153
      m == IF mp < 10 THEN mp + 3 ELSE mp - 9
  IN  <<yoe + era * 400 + (IF m <= 2 THEN 1 ELSE 0), m, doy - (153 * mp + 2) \div 5 + 1>>

(* Faulty variant of DaysFromCivil: the year starts in January.            *)
DaysFromCivilJanuary(year, m, d) ==
  LET era == Quot(IF year >= 0 THEN year ELSE year - 399, 400)
      yoe == year - era * 400
      mp == IF m > 2 THEN m - 3 ELSE m + 9
      doy == (153 * mp + 2) \div 5 + d - 1
  IN  era * 146097 + yoe * 365 + yoe \div 4 - yoe \div 100 + doy - 719468

(* days_from_civil *)
DaysFromCivil(year, m, d) ==
  LET y == year - (IF m <= 2 THEN 1 ELSE 0)
      era == Quot(IF y >= 0 THEN y ELSE y - 399, 400)
      yoe == y - era * 400
      mp == IF m > 2 THEN m - 3 ELSE m + 9
      doy == (153 * mp + 2) \div 5 + d - 1
  IN  era * 146097 + yoe * 365 + yoe \div 4 - yoe \div 100 + doy - 719468

(* The civil time of a second since the Unix epoch.                        *)
CivilOfUnix(unix, nanos) ==
  LET days == FloorDiv(unix, SecondsPerDay)
      sod == unix - days * SecondsPerDay
      date == CivilFromDays(days)
      hour == MinutesPerHour * SecondsPerMinute
  IN  [year |-> date[1], month |-> date[2], day |-> date[3],
       hour |-> sod \div hour, minute |-> (sod % hour) \div SecondsPerMinute,
       second |-> sod % SecondsPerMinute, nanos |-> nanos]

(* The second since the Unix epoch of a civil time, whatever its fields.   *)
UnixOfCivil(c) ==
  ((DaysFromCivil(c.year, c.month, c.day) * HoursPerDay + c.hour) * MinutesPerHour + c.minute)
    * SecondsPerMinute + c.second

(* Faulty variant of IsValid: the date is not turned back.                 *)
IsValidRange(c) ==
  /\ c.month \in 1..12 /\ c.day \in 1..31
  /\ c.hour < HoursPerDay /\ c.minute < MinutesPerHour /\ c.second <= SecondsPerMinute
  /\ c.nanos < NsPerSecond

(* Civil::is_valid *)
IsValid(c) ==
  /\ c.month \in 1..12 /\ c.day >= 1
  /\ c.hour < HoursPerDay /\ c.minute < MinutesPerHour /\ c.second <= SecondsPerMinute
  /\ c.nanos < NsPerSecond
  /\ CivilFromDays(DaysFromCivil(c.year, c.month, c.day)) = <<c.year, c.month, c.day>>

(* GpsTime::civil, GpsTime::from_civil *)
Civil(x) ==
  LET sec == DivMod(x * NsPerTick, NsPerSecond)
  IN  CivilOfUnix(EpochUnix + sec[1], sec[2])

FromCivil(c) ==
  FloorDiv((UnixOfCivil(c) - EpochUnix) * NsPerSecond + c.nanos, NsPerTick)

(* gps_week_millis, from_gps_week_millis *)
GpsWeekMillis(x) == DivMod(DivMod(x * NsPerTick, TicksPerMs * NsPerTick)[1], MsPerWeek)

FromGpsWeekMillis(week, tow) == (week * MsPerWeek + tow) * TicksPerMs

-----------------------------------------------------------------------------
(* A label shows a civil time to the tick: its last field counts ticks.    *)
Label(c) == [c EXCEPT !.nanos = @ \div NsPerTick]

(* parse_time: the time of an obsj label, none if it is not valid.         *)
ParseTime(l) ==
  LET c == [l EXCEPT !.nanos = @ * NsPerTick]
  IN  IF IsValid(c) THEN {FromCivil(c)} ELSE {}

(* parse_rinex_time: ticks are added to the time of the whole second.      *)
ParseRinexTime(l) ==
  LET c == [l EXCEPT !.nanos = 0]
  IN  IF IsValid(c) THEN {FromCivil(c) + l.nanos} ELSE {}

(* Instant::from_civil, Instant::civil, Instant::gps_nanos                 *)
InstantOfCivil(c) == [secs |-> UnixOfCivil(c), nanos |-> c.nanos]
CivilOfInstant(i) == CivilOfUnix(i.secs, i.nanos)
GpsNanos(i) == (i.secs - EpochUnix) * NsPerSecond + i.nanos

(* Faulty variant of ParseRfc3339: the offset has the wrong sign.          *)
ParseRfc3339Sign(c, offset) ==
  IF IsValid(c) THEN {[InstantOfCivil(c) EXCEPT !.secs = @ + offset]} ELSE {}

(* parse_rfc3339_public: the instant of a label in a time zone.            *)
ParseRfc3339(c, offset) ==
  IF IsValid(c) THEN {[InstantOfCivil(c) EXCEPT !.secs = @ - offset]} ELSE {}

(* format_run_date, parse_run_date: to the second.                         *)
RunDate(i) == [CivilOfInstant(i) EXCEPT !.nanos = 0]
ParseRunDate(c) == IF IsValid(c) THEN {InstantOfCivil(c)} ELSE {}

(* valid_date, date_instant and parse_yyyymmdd                             *)
Midnight(d) ==
  [year |-> d[1], month |-> d[2], day |-> d[3], hour |-> 0, minute |-> 0, second |-> 0,
   nanos |-> 0]
ValidDate(d) == IsValid(Midnight(d))
DateInstant(d) == InstantOfCivil(Midnight(d))

(* Faulty variant of DateFromFilename: a date named twice is a conflict.   *)
DateFromFilenameTwice(runs) ==
  IF \E i \in DOMAIN runs : ValidDate(runs[i]) /\ \A j \in DOMAIN runs \ {i} : ~ValidDate(runs[j])
    THEN {DateInstant(d) : d \in {runs[i] : i \in {i \in DOMAIN runs : ValidDate(runs[i])}}}
    ELSE {}

(* date_from_filename: of the runs of digits in a name, read as dates, the *)
(* only valid date; none when there are several.                           *)
DateFromFilename(runs) ==
  LET dates == {d \in {runs[i] : i \in DOMAIN runs} : ValidDate(d)}
  IN  IF Cardinality(dates) = 1 THEN {DateInstant(d) : d \in dates} ELSE {}

(* DecimationSink::on_grid                                                 *)
OnGrid(x, interval) == RoundTime(x, RoundUnit) % interval = 0

-----------------------------------------------------------------------------
Init == t = 0 /\ label = Civil(0)

(* The clock visits the years in scope day by day, some days tick by tick. *)
Move(x) ==
  /\ t' = x
  /\ label' = Civil(x)
  /\ label'.year \in Scope

Ticked(x) == FloorDiv(x, DayTicks) % TickEvery = 0

Tick == \E d \in {-1, 1} : (Ticked(t) \/ Ticked(t + d)) /\ Move(t + d)

Day ==
  /\ t % DayTicks = 0
  /\ \E d \in {-1, 1} : Move(t + d * DayTicks)

Cycle ==
  /\ t % DayTicks = 0
  /\ \E d \in {-1, 1} : Move(t + d * Cycles * 146097 * DayTicks)

Next == Tick \/ Day \/ Cycle

Spec == Init /\ [][Next]_vars

-----------------------------------------------------------------------------
Cal == INSTANCE Calendar WITH now <- label

(* The label of a time moves as the calendar does: the next tick has the   *)
(* next label, over every end of a minute, day, month, leap year and       *)
(* century, before the epoch and before the year 0 as well.                *)
ImplementsCalendar == Cal!Spec

(* The time is in the scope, and its label names it.                       *)
TypeOK ==
  /\ t \in Int
  /\ label.year \in Scope /\ label.month \in 1..12 /\ label.day \in 1..31
  /\ label.hour \in 0..HoursPerDay - 1
  /\ label.minute \in 0..MinutesPerHour - 1
  /\ label.second \in 0..SecondsPerMinute - 1
  /\ label.nanos \in {n * NsPerTick : n \in 0..TicksPerSecond - 1}

(* What is written is read back as the same time: an obsj label, the label *)
(* of a RINEX epoch, the civil time that the external backend exchanges    *)
(* with the rinex crate, a packet log's label in any time zone; a run date *)
(* is read back to the second.                                             *)
LabelsReadBack ==
  /\ ParseTime(Label(label)) = {t}
  /\ ParseRinexTime(Label(label)) = {t}
  /\ FromCivil(label) = t
  /\ \A zone \in Zones :
       \E i \in ParseRfc3339(Civil(t + zone * TicksPerSecond), zone) :
         /\ GpsNanos(i) = t * NsPerTick
         /\ CivilOfInstant(i) = label
         /\ ParseRunDate(RunDate(i)) = {[i EXCEPT !.nanos = 0]}

(* Of the days that a label can name, the parsers take those that the      *)
(* month has, no other is moved to another day (obs.rs:86-91), and a leap  *)
(* second is the second after it.  A filename gives its date if it has     *)
(* one, once or more often, beside other numbers, and none if it has two   *)
(* (cli/src/lib.rs:943-971).                                               *)
OnlyRealDates ==
  LET c == label
      On(day) == ParseTime(Label([c EXCEPT !.day = day]))
      Second(n) == [c EXCEPT !.second = n, !.nanos = 0]
      date == <<c.year, c.month, c.day>>
      other == LET n == Civil(t + DayTicks) IN <<n.year, n.month, n.day>>
      none == <<c.year, 13, 1>>
      midnight == [secs |-> UnixOfCivil(c) - (UnixOfCivil(c) % SecondsPerDay), nanos |-> 0]
  IN  /\ \A day \in {0, c.day} \cup (28..32) :
           IF day \in 1..Cal!MonthLength(c.year, c.month)
             THEN On(day) = {t + (day - c.day) * DayTicks}
             ELSE On(day) = {}
      /\ ParseTime(Second(SecondsPerMinute)) =
           {FromCivil(Second(SecondsPerMinute - 1)) + TicksPerSecond}
      /\ DateFromFilename(<<none, date, date>>) = {midnight}
      /\ DateFromFilename(<<date, other>>) = {}
      /\ DateFromFilename(<<none>>) = {}

(* Week and milliseconds of the week are those of the time, rounded down,  *)
(* before the epoch as well; weeks start on the weekday of the epoch.      *)
WeekTime ==
  LET w == GpsWeekMillis(t)
      back == FromGpsWeekMillis(w[1], w[2])
  IN  /\ w[2] \in 0..MsPerWeek - 1
      /\ back <= t /\ t < back + TicksPerMs
      /\ w[2] \div (SecondsPerDay * MsPerSecond) = FloorDiv(t, DayTicks) % 7

(* Decimation keeps the epochs within half the rounding unit of a multiple *)
(* of the interval, and no others, for every valid interval that is itself *)
(* a multiple of the unit.  An interval that is not loses epochs that are  *)
(* exact multiples of it.                                                  *)
GridKept ==
  \A interval \in 1..DayTicks :
    ValidInterval(interval, TicksPerSecond, DayTicks) /\ interval % RoundUnit = 0 =>
      (OnGrid(t, interval) <=>
         \E g \in t - RoundUnit..t + RoundUnit :
           /\ g % interval = 0
           /\ \/ 2 * (t - g) \in (1 - RoundUnit)..(RoundUnit - 1)
              \/ t >= 0 /\ 2 * (g - t) = RoundUnit
              \/ t < 0 /\ 2 * (t - g) = RoundUnit)
=============================================================================
