------------------------------ MODULE RtcmTime -----------------------------
(***************************************************************************)
(* The time labels of an RTCM conversion: the converter's week state       *)
(* (obsj/src/rtcm.rs: week, leap_ms, time) under the driver that hands it  *)
(* week constraints (cli/src/lib.rs: one per packet-log entry, or one per  *)
(* input file, spent on the first frame of the file).                      *)
(*                                                                         *)
(* The receivers are the environment: clock is GPS time, an MSM7 message   *)
(* carries its time within the week, and truth remembers when it was sent. *)
(***************************************************************************)
EXTENDS WeekResolution

CONSTANTS
  GpsLike,      \* constellations whose epoch time is GPS time
  WeekModes,    \* "recent", "date" (--date), "filename" (-f), "log" (--packet-log)
  Now,          \* UTC at which convobs runs
  BdtOffset,    \* BDT_OFFSET_MS: GPS - BDS time
  GloOffset,    \* GLONASS_UTC_OFFSET_MS: GLONASS time - UTC
  DefaultLeap,  \* DEFAULT_GPS_UTC_MS
  TrueLeap,     \* GPS - UTC in truth
  DateBefore, DateSpan,  \* the interval of a date: 14 h before it, 50 h long
  LogBefore,    \* a packet-log interval: from LogBefore before its timestamp
                \* to as long after it (60 s)
  NoTime,       \* stands for an absent entry of Converter.time
  \* What the input is like, for each mode:
  DayUnknown,   \* TRUE if GLONASS messages may leave the day open
  MaxGap,       \* bound between two epochs of one constellation, but in a log
  Steps,        \* the steps of the clock between messages ...
  FileSteps,    \* ... and between files
  Starts,       \* when the first file may begin
  FirstTime, LastTime   \* bounds on the clock

Gnss == GpsLike \cup {"BDS", "GLO"}

ASSUME RtcmTimeAssumption ==
  /\ GpsLike \cap {"BDS", "GLO"} = {}
  /\ WeekModes \subseteq {"recent", "date", "filename", "log"}
  /\ BdtOffset \in 0..Day /\ GloOffset \in 0..Day
  /\ DefaultLeap \in 0..Day /\ TrueLeap \in 0..Day
  /\ {Now, DateBefore, DateSpan, LogBefore} \subseteq Nat
  /\ NoTime \notin Int
  /\ \A m \in WeekModes :
       /\ DayUnknown[m] \in BOOLEAN
       /\ {FirstTime[m], LastTime[m]} \subseteq Nat
       /\ m # "log" => MaxGap[m] \in Nat
       /\ Steps[m] \subseteq Nat /\ FileSteps[m] \subseteq Int
       /\ Starts[m] \subseteq FirstTime[m]..LastTime[m]

VARIABLES
  mode,       \* Config.week_mode, or "log" for --packet-log
  week_date,  \* Config.week_date: the date of --date, else 0
  time,       \* Converter.time: the latest epoch resolved, per constellation
  week,       \* Converter.week
  leap,       \* Converter.leap_ms
  wc,         \* WeekConstraint.interval of the present file
  week_used,  \* convert_rtcm_stream: the file's first frame has passed
  failed,     \* an error ended the conversion
  clock,      \* environment: GPS time of the latest message
  truth       \* environment: true time of the latest epoch resolved

converter == <<time, week, leap>>
config == <<mode, week_date>>
vars == <<mode, week_date, time, week, leap, wc, week_used, failed, clock, truth>>

-----------------------------------------------------------------------------
(* What an MSM7 message sent at t says of its time (the RTCM standard):    *)
(* the time within the week, for GLONASS the day, 7 when it is not known,  *)
(* and the time of day.                                                    *)
GlonassTime(t) == t - TrueLeap + GloOffset

EpochTimes(g, t) ==
  IF g = "GLO"
    THEN {[day |-> d, tod |-> GlonassTime(t) % Day] :
            d \in {(GlonassTime(t) \div Day) % 7} \cup (IF DayUnknown[mode] THEN {7} ELSE {})}
  ELSE IF g = "BDS" THEN {(t - BdtOffset) % Week}
  ELSE {t % Week}

(* The days of the week an epoch may be on.                                *)
OpenDays(epoch) == IF epoch.day = 7 THEN 0..6 ELSE {epoch.day}

(* Faulty variants of the next definition: the leap seconds are not added, *)
(* of an open day only the last is tried.                                  *)
GlonassOffsetsNoLeap(epoch) ==
  {d * Day + epoch.tod - GloOffset : d \in OpenDays(epoch)}

GlonassOffsetsOneDay(epoch) ==
  LET d == IF epoch.day = 7 THEN 6 ELSE epoch.day
  IN  {d * Day + epoch.tod - GloOffset + leap}

(* glonass_epoch_week_offsets *)
GlonassOffsets(epoch) ==
  {d * Day + epoch.tod - GloOffset + leap : d \in OpenDays(epoch)}

(* epoch_week_offsets *)
Offsets(g, epoch) ==
  IF g = "GLO" THEN GlonassOffsets(epoch)
  ELSE IF g = "BDS" THEN {epoch + BdtOffset}
  ELSE {epoch}

(* resolve_time: the times an epoch may have under the interval that comes *)
(* with the message; resolved when there is exactly one.                   *)
Resolutions(g, epoch, interval) ==
  IF interval # NoInterval THEN Matches(Offsets(g, epoch), interval)
  ELSE IF time[g] # NoTime THEN {Continuity(Offsets(g, epoch), time[g])}
  ELSE IF week # NoInterval THEN Matches(Offsets(g, epoch), week)
  ELSE {}

SetWeek(interval) == week' = IF interval = NoInterval THEN week ELSE interval

-----------------------------------------------------------------------------
(* Faulty variants of the week constraints: start and end swapped, only    *)
(* the time before a packet's timestamp.                                   *)
RecentWeekSwapped == [start |-> Now, dur |-> -Week]
LogWeekBefore(utc) == [start |-> utc - LogBefore, dur |-> LogBefore]

(* cli/src/lib.rs: the week constraints. *)
RecentWeek == [start |-> Now - Week, dur |-> Week]
DateWeek(date) == [start |-> date - DateBefore, dur |-> DateSpan]
LogWeek(utc) == [start |-> utc - LogBefore, dur |-> 2 * LogBefore]

(* The dates of a file that begins at t: in any time zone, from UTC-12 to  *)
(* UTC+14.                                                                 *)
Dates(t) ==
  {d \in {n * Day : n \in 0..((LastTime[mode] + Day) \div Day)} :
     Within(t - TrueLeap, DateWeek(d))}

(* file_week_constraint, for a file that begins at t: with --date one date *)
(* serves all files, with -f a file has its own, which is right.           *)
FileWeeks(t) ==
  CASE mode = "recent" -> {RecentWeek}
    [] mode = "date" -> {DateWeek(week_date)}
    [] mode = "filename" -> {DateWeek(d) : d \in Dates(t)}
    [] mode = "log" -> {NoInterval}

(* The constraint that goes with the next frame. *)
FrameWeek ==
  IF mode = "log" THEN LogWeek(clock' - TrueLeap)
  ELSE IF week_used THEN NoInterval ELSE wc

Init ==
  /\ mode \in WeekModes
  /\ time = [g \in Gnss |-> NoTime]
  /\ week = NoInterval
  /\ leap = DefaultLeap
  /\ week_used = FALSE
  /\ failed = FALSE
  /\ clock \in Starts[mode]
  /\ week_date \in IF mode = "date" THEN Dates(clock) ELSE {0}
  /\ wc \in FileWeeks(clock)
  /\ truth = [g \in Gnss |-> NoTime]

(* The clock moves on to the next message; a file begins with its first.   *)
Tick ==
  /\ clock' \in {clock + d : d \in IF week_used THEN Steps[mode] ELSE {0}}
  /\ clock' <= LastTime[mode]

(* What is asked of the input: an epoch that continues its constellation's *)
(* is no further from it than MaxGap, and any other less than a week from  *)
(* either end of the interval in force.                                    *)
InReach(g) ==
  IF FrameWeek = NoInterval /\ truth[g] # NoTime
  THEN Distance(clock', truth[g]) <= MaxGap[mode]
  ELSE clock' < week'.start + Week /\ week'.start + week'.dur <= clock' + Week

(* convert_frame with an MSM7 message, convert_msm. *)
ConvertMsm(g) ==
  /\ ~failed
  /\ Tick
  /\ SetWeek(FrameWeek)
  /\ InReach(g)
  /\ \E epoch \in EpochTimes(g, clock') :
       LET found == Resolutions(g, epoch, FrameWeek) IN
       \/ \E t \in found : /\ found = {t}
                           /\ time' = [time EXCEPT ![g] = t]
                           /\ truth' = [truth EXCEPT ![g] = clock']
                           /\ failed' = FALSE
       \/ /\ \A t \in found : found # {t}
          /\ failed' = TRUE
          /\ UNCHANGED <<time, truth>>
  /\ week_used' = TRUE
  /\ UNCHANGED <<config, leap, wc>>

(* convert_frame with any other message, an unreadable one included: the   *)
(* frame spends the constraint.  A 1013 message also sets the leap seconds.*)
ConvertOther ==
  /\ ~failed
  /\ Tick
  /\ SetWeek(FrameWeek)
  /\ leap' \in {leap, TrueLeap}
  /\ week_used' = TRUE
  /\ UNCHANGED <<config, time, wc, failed, truth>>

(* convert_packet_inputs: the next input file, which may begin before the  *)
(* end of the one before; the converter stays.                             *)
NextFile ==
  /\ ~failed
  /\ clock' \in {clock + d : d \in FileSteps[mode]} \cap FirstTime[mode]..LastTime[mode]
  /\ wc' \in FileWeeks(clock')
  /\ week_used' = FALSE
  /\ UNCHANGED <<config, converter, failed, truth>>

Next == (\E g \in Gnss : ConvertMsm(g)) \/ ConvertOther \/ NextFile

Spec == Init /\ [][Next]_vars

-----------------------------------------------------------------------------
Intervals == [start : Int, dur : Nat]

TypeOK ==
  /\ mode \in WeekModes /\ week_date \in Nat
  /\ time \in [Gnss -> Int \cup {NoTime}]
  /\ week \in Intervals /\ wc \in Intervals
  /\ leap \in {DefaultLeap, TrueLeap}
  /\ week_used \in BOOLEAN /\ failed \in BOOLEAN
  /\ clock \in Nat
  /\ truth \in [Gnss -> Nat \cup {NoTime}]

(* Every epoch is put in the week, and at the time, it was measured in:    *)
(* across week ends, constellations that appear late, lost days of the     *)
(* week and files (rtcm.rs:449-716).                                       *)
EpochsTrue == \A g \in Gnss : time[g] # NoTime => time[g] = truth[g]

(* An epoch ends the conversion with an error (rtcm.rs:682-688) only when  *)
(* a date was given and the epoch is outside its interval; and then it is  *)
(* the first of its constellation, or in the first frame of a file, which  *)
(* with --date may begin anywhere but with -f only in the leap seconds     *)
(* between the UTC of the interval and GPS time.                           *)
AllResolved ==
  [][\A g \in Gnss : ConvertMsm(g) /\ failed' =>
       /\ mode \in {"date", "filename"}
       /\ ~Within(clock', week')
       /\ time[g] # NoTime =>
            /\ ~week_used
            /\ mode = "filename" => clock' < week'.start + week'.dur + TrueLeap]_vars

(* docs/convobs.1.md:93: "Assume the time of all observations is within    *)
(* the last week."  So the times it gives them are in the last week.       *)
RecentEpochs ==
  mode = "recent" =>
  \A g \in Gnss : time[g] # NoTime => /\ Now - Week <= time[g] - TrueLeap
                                      /\ time[g] - TrueLeap < Now
=============================================================================
