------------------------------ MODULE Calendar ------------------------------
(***************************************************************************)
(* The Gregorian calendar as a clock, by the rules of the calendar: what   *)
(* the labels of GpsTime (obsj/src/obs.rs) promise to count.               *)
(***************************************************************************)
EXTENDS Integers

CONSTANTS
  HoursPerDay, MinutesPerHour, SecondsPerMinute,
  NsPerSecond, \* nanoseconds of a second
  NsPerTick,   \* TICK_NS, the resolution of the clock
  Cycles       \* cycles of the calendar that the clock may jump

VARIABLE now  \* a civil time, obs.rs Civil

Leap(y) == y % 4 = 0 /\ (y % 100 # 0 \/ y % 400 = 0)

MonthLength(y, m) ==
  CASE m = 2 -> IF Leap(y) THEN 29 ELSE 28
    [] m \in {4, 6, 9, 11} -> 30
    [] OTHER -> 31

(* The same time of the next day. *)
DayLater(c) ==
  IF c.day < MonthLength(c.year, c.month) THEN [c EXCEPT !.day = @ + 1]
  ELSE IF c.month < 12 THEN [c EXCEPT !.day = 1, !.month = @ + 1]
  ELSE [c EXCEPT !.day = 1, !.month = 1, !.year = @ + 1]

(* The carries from the nanoseconds up. *)
MinuteLater(c) ==
  IF c.minute + 1 < MinutesPerHour THEN [c EXCEPT !.minute = @ + 1]
  ELSE IF c.hour + 1 < HoursPerDay THEN [c EXCEPT !.minute = 0, !.hour = @ + 1]
  ELSE DayLater([c EXCEPT !.minute = 0, !.hour = 0])

TickLater(c) ==
  IF c.nanos + NsPerTick < NsPerSecond THEN [c EXCEPT !.nanos = @ + NsPerTick]
  ELSE IF c.second + 1 < SecondsPerMinute THEN [c EXCEPT !.nanos = 0, !.second = @ + 1]
  ELSE MinuteLater([c EXCEPT !.nanos = 0, !.second = 0])

(* The calendar repeats every 400 years. *)
CyclesLater(c, n) == [c EXCEPT !.year = @ + 400 * n]

(* The GPS epoch. *)
Init == now = [year |-> 1980, month |-> 1, day |-> 6,
               hour |-> 0, minute |-> 0, second |-> 0, nanos |-> 0]

(* The clock may also run backwards. *)
Next ==
  \/ now' = TickLater(now) \/ now = TickLater(now')
  \/ now' = DayLater(now) \/ now = DayLater(now')
  \/ \E n \in {-Cycles, Cycles} : now' = CyclesLater(now, n)

Spec == Init /\ [][Next]_now
=============================================================================
