--------------------------- MODULE WeekResolution --------------------------
(***************************************************************************)
(* How the RTCM converter finds the week of an MSM7 epoch                  *)
(* (obsj/src/rtcm.rs, "week resolution").  A message gives a time within   *)
(* the week as one offset, or as seven when GLONASS leaves the day open;   *)
(* the week comes from an interval the time has to lie in, or from the     *)
(* constellation's previous epoch.  Times are in one unit (ms in the code, *)
(* whose interval bounds in ns are rounded down to it).                    *)
(***************************************************************************)
EXTENDS Integers

CONSTANT Day   \* DAY_MS

ASSUME DayAssumption == Day \in Nat \ {0}

Week == 7 * Day          \* WEEK_MS
HalfWeek == Week \div 2  \* HALF_WEEK_MS

(* TimeInterval; the interval that says nothing is all zero (is_zero).     *)
NoInterval == [start |-> 0, dur |-> 0]

Within(t, week) == week.start <= t /\ t < week.start + week.dur

-----------------------------------------------------------------------------
(* Faulty variant of the next definition: the week after is not tried.     *)
CandidatesPast(offset, week) ==
  LET w == (week.start - offset) \div Week
  IN  {(w + i) * Week + offset : i \in -1..0}

(* The times that resolve_week tries for one offset: the weeks around the  *)
(* start of the interval.                                                  *)
Candidates(offset, week) ==
  LET w == (week.start - offset) \div Week
  IN  {(w + i) * Week + offset : i \in -1..2}

(* resolve_week: the tried times inside the interval.  More or fewer than  *)
(* one is an error.                                                        *)
Matches(offsets, week) ==
  {t \in UNION {Candidates(o, week) : o \in offsets} : Within(t, week)}

-----------------------------------------------------------------------------
Distance(t, u) == IF t < u THEN u - t ELSE t - u

(* Faulty variant of continuity_candidate: a week is only ever added.      *)
ContinuityCandidateForward(offset, prev) ==
  LET c == (prev \div Week) * Week + offset
  IN  IF c - prev < -HalfWeek THEN c + Week ELSE c

(* continuity_candidate: the offset in the week of prev, moved by a week   *)
(* when that is more than half a week away.                                *)
ContinuityCandidate(offset, prev) ==
  LET c == (prev \div Week) * Week + offset
  IN  IF c - prev < -HalfWeek THEN c + Week
      ELSE IF c - prev > HalfWeek THEN c - Week
      ELSE c

(* resolve_continuity: of the candidates the one nearest to prev, of equal *)
(* ones that of the lowest offset, which comes first in the list.          *)
Continuity(offsets, prev) ==
  LET C(o) == ContinuityCandidate(o, prev)
      Far(o) == Distance(C(o), prev)
  IN  C(CHOOSE o \in offsets : \A p \in offsets \ {o} :
          Far(o) < Far(p) \/ (Far(o) = Far(p) /\ o < p))
=============================================================================
