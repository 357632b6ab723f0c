--------------------------- MODULE RtcmTimeProofs --------------------------
(***************************************************************************)
(* The time labels of an RTCM conversion are right, for every set of       *)
(* constellations, every length of the day and every bound, provided that  *)
(* the input keeps to what Receivers says.                                 *)
(***************************************************************************)
EXTENDS RtcmTime, TLAPS

-----------------------------------------------------------------------------
(* The week of a time.                                                     *)

LEMMA WeekPositive == Week \in Nat \ {0} /\ Week = 7 * Day /\ Day < Week
BY DayAssumption DEF Week

(* Whole weeks compare as their numbers do. *)
LEMMA WholeWeeks ==
  ASSUME NEW m \in Int, NEW n \in Int, NEW W \in Nat \ {0}
  PROVE  /\ m * W \in Int
         /\ (m + 1) * W = m * W + W
         /\ (m - 1) * W = m * W - W
         /\ m * W < n * W <=> m < n
         /\ m < n => m * W + W <= n * W
<1>1. /\ m * W \in Int /\ (m + 1) * W = m * W + W /\ (m - 1) * W = m * W - W
  OBVIOUS
<1>2. m < n => m * W + W <= n * W
  <2>1. SUFFICES ASSUME m < n PROVE m * W + W <= n * W
    OBVIOUS
  <2>2. PICK d \in Nat : n = m + 1 + d
    <3>1. n - m - 1 \in Nat
      BY <2>1
    <3>2. QED
      BY <3>1
  <2>3. n * W = m * W + W + d * W
    BY <2>2
  <2>4. d * W >= 0
    BY <2>2
  <2>5. QED
    BY <2>3, <2>4
<1>3. n < m => n * W + W <= m * W
  <2>1. SUFFICES ASSUME n < m PROVE n * W + W <= m * W
    OBVIOUS
  <2>2. PICK d \in Nat : m = n + 1 + d
    <3>1. m - n - 1 \in Nat
      BY <2>1
    <3>2. QED
      BY <3>1
  <2>3. m * W = n * W + W + d * W
    BY <2>2
  <2>4. d * W >= 0
    BY <2>2
  <2>5. QED
    BY <2>3, <2>4
<1>4. QED
  BY <1>1, <1>2, <1>3

(* The week that a time is in. *)
LEMMA WeekOf ==
  ASSUME NEW t \in Int
  PROVE  /\ t \div Week \in Int
         /\ (t \div Week) * Week <= t
         /\ t < (t \div Week) * Week + Week
         /\ t % Week \in 0..(Week - 1)
         /\ t = (t \div Week) * Week + (t % Week)
BY WeekPositive

-----------------------------------------------------------------------------
(* Under an interval no longer than a week, resolve_week finds no other    *)
(* time than the true one, when that is less than a week from either end   *)
(* of the interval, and finds it when it is inside.                        *)
LEMMA MatchesTrueTime ==
  ASSUME NEW t \in Int, NEW o \in Int, NEW m \in Int, t = m * Week + o,
         NEW start \in Int, NEW dur \in Nat, dur <= Week,
         t < start + Week, start + dur <= t + Week
  PROVE  LET interval == [start |-> start, dur |-> dur]
         IN  /\ Matches({o}, interval) \subseteq {t}
             /\ Within(t, interval) => Matches({o}, interval) = {t}
<1> DEFINE interval == [start |-> start, dur |-> dur]
           w == (start - o) \div Week
<1>1. Week \in Nat \ {0}
  BY WeekPositive
<1>2. w \in Int /\ w * Week <= start - o /\ start - o < w * Week + Week
  BY WeekOf
<1>3. \A n \in Int : n * Week \in Int
  BY <1>1, WholeWeeks
<1>4. ASSUME NEW n \in Int, start <= n * Week + o, n * Week + o < start + dur
      PROVE  n = m
  <2>1. CASE n < m
    <3>1. n * Week + Week <= m * Week
      BY <1>1, <2>1, WholeWeeks
    <3>2. QED
      BY <1>1, <1>3, <1>4, <3>1
  <2>2. CASE m < n
    <3>1. m * Week + Week <= n * Week
      BY <1>1, <2>2, WholeWeeks
    <3>2. QED
      BY <1>1, <1>3, <1>4, <3>1
  <2>3. QED
    BY <2>1, <2>2
<1>5. start <= t => m \in {w, w + 1}
  <2> SUFFICES ASSUME start <= t PROVE m \in {w, w + 1}
    OBVIOUS
  <2>1. (w + 1) * Week = w * Week + Week /\ w * Week \in Int
    BY <1>1, <1>2, WholeWeeks
  <2>2. CASE m < w
    <3>1. m * Week + Week <= w * Week
      BY <1>1, <1>2, <2>2, WholeWeeks
    <3>2. QED
      BY <1>1, <1>2, <1>3, <2>1, <3>1
  <2>3. CASE w + 1 < m
    <3>1. (w + 1) * Week + Week <= m * Week
      BY <1>1, <1>2, <2>3, WholeWeeks
    <3>2. QED
      BY <1>1, <1>2, <1>3, <2>1, <3>1
  <2>4. QED
    BY <1>2, <2>2, <2>3
<1>6. Within(t, interval) => t \in Candidates(o, interval)
  <2> SUFFICES ASSUME start <= t PROVE t \in Candidates(o, interval)
    BY DEF Within
  <2>1. \E i \in -1..2 : m = w + i
    BY <1>2, <1>5
  <2>2. QED
    BY <2>1 DEF Candidates
<1>7. ASSUME NEW u \in Candidates(o, interval), Within(u, interval)
      PROVE  u = t
  <2>1. PICK i \in -1..2 : u = (w + i) * Week + o
    BY <1>7 DEF Candidates
  <2>2. start <= u /\ u < start + dur
    BY <1>7 DEF Within
  <2>3. w + i \in Int
    BY <1>2
  <2>4. w + i = m
    <3> HIDE DEF w
    <3>1. u \in Int
      BY <1>3, <2>1, <2>3
    <3>2. QED
      BY <1>4, <2>1, <2>2, <2>3, <3>1
  <2>5. QED
    BY <2>1, <2>4
<1>8. Matches({o}, interval) = {u \in Candidates(o, interval) : Within(u, interval)}
  BY DEF Matches
<1>9. QED
  BY <1>6, <1>7, <1>8

(* The offsets are whole days away from one of them.                       *)
WholeDays(offsets, o) == \A p \in offsets : \E k \in Int : p = o + k * Day

(* Of the times that differ by whole days an interval no longer than a day *)
(* contains no other than the true one, whichever of the seven days are    *)
(* tried.                                                                  *)
LEMMA MatchesOfDays ==
  ASSUME NEW t \in Int, NEW o \in Int, NEW m \in Int, t = m * Week + o,
         NEW offsets, o \in offsets,
         WholeDays(offsets, o),
         NEW start \in Int, NEW dur \in Nat, dur <= Day,
         start <= t, t < start + dur
  PROVE  Matches(offsets, [start |-> start, dur |-> dur]) = {t}
<1> DEFINE interval == [start |-> start, dur |-> dur]
<1>1. Week \in Nat \ {0} /\ Week = 7 * Day /\ Day \in Nat \ {0} /\ dur <= Week
      /\ t < start + Week /\ start + dur <= t + Week
  BY WeekPositive, DayAssumption
<1>2. Within(t, interval)
  BY DEF Within
<1>3. t \in Matches({o}, interval)
  <2>1. Within(t, [start |-> start, dur |-> dur]) => Matches({o}, [start |-> start, dur |-> dur]) = {t}
    BY <1>1, MatchesTrueTime
  <2>2. QED
    BY <1>2, <2>1
<1>4. t \in Matches(offsets, interval)
  BY <1>3 DEF Matches
<1>5. ASSUME NEW u \in Matches(offsets, interval) PROVE u = t
  <2>1. PICK p \in offsets : u \in Candidates(p, interval) /\ Within(u, interval)
    BY <1>5 DEF Matches
  <2>2. PICK k \in Int : p = o + k * Day
    BY <2>1 DEF WholeDays
  <2>3. PICK x \in Int : x = (start - p) \div Week
    <3>1. k * Day \in Int
      BY <1>1
    <3>2. QED
      BY <2>2, <3>1, WeekOf
  <2>4. PICK i \in -1..2 : u = (x + i) * Week + p
    BY <2>1, <2>3 DEF Candidates
  <2>5. start <= u /\ u < start + dur
    BY <2>1 DEF Within
  <2>6. PICK n \in Int : n = 7 * ((x + i) - m) + k
    BY <2>2, <2>3, <2>4
  <2>7. u = t + n * Day
    <3>1. PICK y \in Int : y = x + i
      BY <2>3, <2>4
    <3>2. n * Day = y * Week - m * Week + k * Day
      BY <1>1, <2>6, <3>1
    <3>3. y * Week \in Int /\ m * Week \in Int /\ k * Day \in Int
      BY <1>1, <3>1
    <3>4. QED
      BY <2>2, <2>4, <3>1, <3>2, <3>3
  <2>8. n = 0
    <3>1. n * Day \in Int
      BY <1>1
    <3>2. CASE 0 < n
      <4>1. 0 * Day + Day <= n * Day /\ 0 * Day = 0
        BY <1>1, <3>2, WholeWeeks
      <4>2. QED
        BY <1>1, <2>5, <2>7, <3>1, <4>1
    <3>3. CASE n < 0
      <4>1. n * Day + Day <= 0 * Day /\ 0 * Day = 0
        BY <1>1, <3>3, WholeWeeks
      <4>2. QED
        BY <1>1, <2>5, <2>7, <3>1, <4>1
    <3>4. QED
      BY <3>2, <3>3
  <2>9. QED
    BY <1>1, <2>7, <2>8
<1>6. QED
  BY <1>4, <1>5

(* resolve_continuity returns the true time when that is less than half a  *)
(* week from the previous epoch, before or after, and the offset is that   *)
(* of a week, up to a day outside it (as BDS and GLONASS offsets may be).  *)
LEMMA CandidateTrueTime ==
  ASSUME NEW t \in Int, NEW o \in Int, NEW m \in Int, t = m * Week + o,
         -Day <= o, o <= Week + Day,
         NEW prev \in Int, 2 * Distance(t, prev) < Week
  PROVE  ContinuityCandidate(o, prev) = t
<1> DEFINE w == prev \div Week
           c == w * Week + o
<1>1. Week \in Nat \ {0} /\ Week = 7 * Day /\ Day \in Nat \ {0}
  BY WeekPositive, DayAssumption
<1>2. w \in Int /\ w * Week \in Int /\ w * Week <= prev /\ prev < w * Week + Week
  BY <1>1, WeekOf, WholeWeeks
<1>3. /\ HalfWeek \in Int
      /\ 2 * HalfWeek <= Week /\ Week <= 2 * HalfWeek + 1
  BY <1>1 DEF HalfWeek
<1>4. 2 * (t - prev) < Week /\ 2 * (prev - t) < Week
  BY <1>1 DEF Distance
<1>5. m * Week \in Int
  BY <1>1, WholeWeeks
<1> HIDE DEF w
<1>6. CASE m = w
  <2>1. t - prev <= HalfWeek /\ t - prev >= -HalfWeek
    BY <1>1, <1>3, <1>4
  <2>2. QED
    BY <1>1, <1>3, <1>6, <2>1 DEF ContinuityCandidate, w
<1>7. CASE m = w + 1
  <2>1. m * Week = w * Week + Week
    BY <1>1, <1>2, <1>7, WholeWeeks
  <2>2. c - prev < -HalfWeek
    BY <1>1, <1>2, <1>3, <1>4, <2>1
  <2>3. QED
    BY <1>1, <1>2, <1>3, <2>1, <2>2 DEF ContinuityCandidate, w
<1>8. CASE m = w - 1
  <2>1. m * Week = w * Week - Week
    BY <1>1, <1>2, <1>8, WholeWeeks
  <2>2. c - prev > HalfWeek /\ ~(c - prev < -HalfWeek)
    BY <1>1, <1>2, <1>3, <1>4, <2>1
  <2>3. QED
    BY <1>1, <1>2, <1>3, <2>1, <2>2 DEF ContinuityCandidate, w
<1>9. m \in {w - 1, w, w + 1}
  <2>1. CASE m < w - 1
    <3>1. m * Week + Week <= (w - 1) * Week /\ (w - 1) * Week = w * Week - Week
      BY <1>1, <1>2, <2>1, WholeWeeks
    <3>2. QED
      BY <1>1, <1>2, <1>4, <1>5, <3>1
  <2>2. CASE w + 1 < m
    <3>1. (w + 1) * Week + Week <= m * Week /\ (w + 1) * Week = w * Week + Week
      BY <1>1, <1>2, <2>2, WholeWeeks
    <3>2. QED
      BY <1>1, <1>2, <1>4, <1>5, <3>1
  <2>3. QED
    BY <1>2, <2>1, <2>2
<1>10. QED
  BY <1>6, <1>7, <1>8, <1>9

LEMMA ContinuityTrueTime ==
  ASSUME NEW t \in Int, NEW o \in Int, NEW m \in Int, t = m * Week + o,
         -Day <= o, o <= Week + Day,
         NEW prev \in Int, 2 * Distance(t, prev) < Week
  PROVE  Continuity({o}, prev) = t
<1>1. Continuity({o}, prev) = ContinuityCandidate(o, prev)
  BY DEF Continuity
<1>2. QED
  BY <1>1, CandidateTrueTime

-----------------------------------------------------------------------------
(* The leap seconds are known.  In files the days of the week are known    *)
(* too, a constellation is away for less than half a week, and the         *)
(* interval of a date is not longer than a week.  In a log the days may be *)
(* unknown and the gaps of any length: an entry's constraint is no longer  *)
(* than a day and goes on for longer than the leap seconds.                *)
Receivers ==
  /\ \A m \in WeekModes \ {"log"} : ~DayUnknown[m] /\ 2 * MaxGap[m] < Week
  /\ DefaultLeap = TrueLeap
  /\ TrueLeap < LogBefore /\ 2 * LogBefore <= Day
  /\ DateSpan \in 1..Week
  /\ "recent" \in WeekModes =>
       Now - Week <= FirstTime["recent"] /\ LastTime["recent"] < Now

(* The constraint of a file, and what has become of it. *)
FileInv ==
  mode # "log" =>
    /\ wc.dur \in 1..Week
    /\ week_used => week = wc
    /\ mode = "recent" => wc = RecentWeek
    /\ mode = "filename" => /\ wc.start <= clock
                            /\ ~week_used => clock < wc.start + wc.dur + TrueLeap

IInv ==
  /\ TypeOK
  /\ leap = TrueLeap
  /\ clock \in FirstTime[mode]..LastTime[mode]
  /\ FileInv
  /\ \A g \in Gnss : time[g] = truth[g]

-----------------------------------------------------------------------------
(* An offset of an epoch is the time, less whole weeks, and lies in the    *)
(* week or at most a day outside it.  It is the only one when the day of   *)
(* the week is known; the others are whole days away.                      *)
LEMMA OffsetTrue ==
  ASSUME mode \in WeekModes, leap = TrueLeap, NEW g \in Gnss, NEW t \in Nat,
         NEW epoch \in EpochTimes(g, t)
  PROVE  \E o \in Int, m \in Int :
           /\ o \in Offsets(g, epoch)
           /\ WholeDays(Offsets(g, epoch), o)
           /\ ~DayUnknown[mode] => Offsets(g, epoch) = {o}
           /\ t = m * Week + o
           /\ -Day <= o /\ o <= Week + Day
<1>1. /\ Week \in Nat \ {0} /\ Week = 7 * Day /\ Day \in Nat \ {0}
      /\ BdtOffset \in 0..Day /\ GloOffset \in 0..Day /\ TrueLeap \in 0..Day
  BY WeekPositive, DayAssumption, RtcmTimeAssumption
<1>2. CASE g = "GLO"
  <2> DEFINE L == GlonassTime(t)
             n == L \div Day
             d == n % 7
             o == d * Day + (L % Day) - GloOffset + leap
             m == n \div 7
  <2>1. L \in Int /\ L = t - TrueLeap + GloOffset
    BY <1>1 DEF GlonassTime
  <2>2. n \in Int /\ L % Day \in 0..(Day - 1) /\ L = n * Day + (L % Day)
    <3> HIDE DEF L
    <3>1. QED
      BY <1>1, <2>1
  <2>3. m \in Int /\ d \in 0..6 /\ n = 7 * m + d
    <3> HIDE DEF n
    <3>1. QED
      BY <2>2
  <2>4. n * Day = m * Week + d * Day
    <3> HIDE DEF n, m, d
    <3>1. QED
      BY <1>1, <2>2, <2>3
  <2>5. d * Day \in 0..(6 * Day)
    <3> HIDE DEF d
    <3>1. QED
      BY <1>1, <2>3
  <2>6. m * Week \in Int
    BY <1>1, <2>3, WholeWeeks
  <2>7. t = m * Week + o
    <3> HIDE DEF n, m, d, L
    <3>1. L = m * Week + d * Day + (L % Day)
      BY <2>2, <2>4
    <3>2. PICK x \in Int, y \in Int, r \in Int :
            x = m * Week /\ y = d * Day /\ r = L % Day
      BY <1>1, <2>2, <2>5, <2>6
    <3>3. t - TrueLeap + GloOffset = x + y + r
      BY <2>1, <3>1, <3>2
    <3>4. o = y + r - GloOffset + TrueLeap
      BY <3>2
    <3>5. t = x + o
      BY <1>1, <3>2, <3>3, <3>4
    <3>6. QED
      BY <3>2, <3>5
  <2>8. o \in Int /\ -Day <= o /\ o <= Week + Day
    <3> HIDE DEF n, m, d, L
    <3>1. QED
      BY <1>1, <2>2, <2>5
  <2>9. /\ epoch.day \in {d, 7} /\ epoch.tod = L % Day
        /\ ~DayUnknown[mode] => epoch.day = d
    BY <1>2 DEF EpochTimes
  <2>10. /\ d \in OpenDays(epoch) /\ OpenDays(epoch) \subseteq 0..6
         /\ ~DayUnknown[mode] => OpenDays(epoch) = {d}
    BY <2>3, <2>9 DEF OpenDays
  <2>11. Offsets(g, epoch) = {e * Day + (L % Day) - GloOffset + leap : e \in OpenDays(epoch)}
    BY <1>2, <2>9 DEF Offsets, GlonassOffsets
  <2>12. o \in Offsets(g, epoch) /\ (~DayUnknown[mode] => Offsets(g, epoch) = {o})
    BY <2>10, <2>11
  <2>13. WholeDays(Offsets(g, epoch), o)
    <3> SUFFICES ASSUME NEW p \in Offsets(g, epoch) PROVE \E k \in Int : p = o + k * Day
      BY DEF WholeDays
    <3>1. PICK e \in 0..6 : p = e * Day + (L % Day) - GloOffset + leap
      BY <2>10, <2>11
    <3>2. e \in Int /\ d \in Int /\ e - d \in Int
      BY <2>3
    <3> HIDE DEF d, L
    <3>3. e * Day = d * Day + (e - d) * Day
      BY <1>1, <3>2
    <3>4. PICK x \in Int, y \in Int, r \in Int : x = d * Day /\ y = (e - d) * Day /\ r = L % Day
      BY <1>1, <2>2, <3>2
    <3>5. p = o + y
      BY <1>1, <3>1, <3>3, <3>4
    <3>6. QED
      BY <3>2, <3>4, <3>5
  <2>14. QED
    BY <2>3, <2>7, <2>8, <2>12, <2>13
<1>3. CASE g = "BDS"
  <2> DEFINE u == t - BdtOffset
             o == (u % Week) + BdtOffset
             m == u \div Week
  <2>1. u \in Int
    BY <1>1
  <2>2. m \in Int /\ u % Week \in 0..(Week - 1) /\ u = m * Week + (u % Week)
    <3> HIDE DEF u
    <3>1. QED
      BY <2>1, WeekOf
  <2>3. epoch = u % Week /\ Offsets(g, epoch) = {o}
    BY <1>3 DEF EpochTimes, Offsets
  <2>4. m * Week \in Int
    BY <1>1, <2>2, WholeWeeks
  <2>5. o \in Int /\ -Day <= o /\ o <= Week + Day
    BY <1>1, <2>2
  <2>6. t = m * Week + o
    <3> HIDE DEF m
    <3>1. QED
      BY <1>1, <2>2, <2>4
  <2>7. WholeDays({o}, o)
    <3>1. o = o + 0 * Day /\ 0 \in Int
      BY <1>1, <2>5
    <3>2. QED
      BY <3>1 DEF WholeDays
  <2>8. QED
    BY <2>2, <2>3, <2>5, <2>6, <2>7
<1>4. CASE g # "GLO" /\ g # "BDS"
  <2> DEFINE o == t % Week
             m == t \div Week
  <2>1. epoch = o /\ Offsets(g, epoch) = {o}
    BY <1>4 DEF EpochTimes, Offsets
  <2>2. m \in Int /\ o \in 0..(Week - 1) /\ t = m * Week + o
    BY WeekOf
  <2>3. o \in Int /\ -Day <= o /\ o <= Week + Day
    BY <1>1, <2>2
  <2>4. WholeDays({o}, o)
    <3>1. o = o + 0 * Day /\ 0 \in Int
      BY <1>1, <2>3
    <3>2. QED
      BY <3>1 DEF WholeDays
  <2>5. QED
    BY <2>1, <2>2, <2>3, <2>4
<1>5. QED
  BY <1>2, <1>3, <1>4

(* The time of a recording of the last week is within the constraint.      *)
LEMMA RecentTrue ==
  ASSUME Receivers, IInv, Tick, mode = "recent"
  PROVE  Within(clock', RecentWeek)
<1>1. /\ clock \in Nat /\ FirstTime[mode] \in Nat /\ LastTime[mode] \in Nat
      /\ Steps[mode] \subseteq Nat /\ Now \in Nat /\ FirstTime[mode] <= clock
  BY RtcmTimeAssumption DEF IInv, TypeOK
<1>2. PICK d \in Nat : clock' = clock + d /\ clock' <= LastTime[mode]
  BY <1>1 DEF Tick
<1>3. Now - Week <= FirstTime[mode] /\ LastTime[mode] < Now
  BY DEF Receivers, IInv, TypeOK
<1>4. Now - Week <= clock' /\ clock' < Now
  BY <1>1, <1>2, <1>3, WeekPositive
<1>5. QED
  BY <1>1, <1>2, <1>4, WeekPositive DEF Within, RecentWeek

(* The constraint that goes with a frame, when there is one, is no longer  *)
(* than a week.  The frame is in it unless a date was given; with -f it is *)
(* after its end by less than the leap seconds, if at all.                 *)
LEMMA FrameWeekTrue ==
  ASSUME Receivers, IInv, Tick, FrameWeek # NoInterval
  PROVE  \E start \in Int, dur \in Nat :
           /\ FrameWeek = [start |-> start, dur |-> dur]
           /\ dur <= Week
           /\ mode \notin {"date", "filename"} => start <= clock' /\ clock' < start + dur
           /\ mode = "filename" => clock' < start + dur + TrueLeap
           /\ IF mode = "log" THEN dur <= Day ELSE ~week_used
<1>1. /\ Week \in Nat \ {0} /\ LogBefore \in Nat /\ TrueLeap \in Nat
      /\ clock \in Nat /\ FirstTime[mode] \in Nat /\ LastTime[mode] \in Nat /\ Steps[mode] \subseteq Nat
  BY WeekPositive, RtcmTimeAssumption DEF IInv, TypeOK
<1>2. clock' \in Nat /\ clock <= clock'
  BY <1>1 DEF Tick
<1>3. CASE mode = "log"
  <2>1. FrameWeek = [start |-> clock' - TrueLeap - LogBefore, dur |-> 2 * LogBefore]
    BY <1>3 DEF FrameWeek, LogWeek
  <2>2. /\ 2 * LogBefore \in Nat /\ 2 * LogBefore <= Day /\ TrueLeap < LogBefore
        /\ Day \in Nat /\ Day < Week
    BY <1>1, WeekPositive, DayAssumption DEF Receivers
  <2>3. clock' - TrueLeap - LogBefore \in Int
    BY <1>1, <1>2
  <2>4. /\ 2 * LogBefore <= Week
        /\ clock' - TrueLeap - LogBefore <= clock'
        /\ clock' < (clock' - TrueLeap - LogBefore) + 2 * LogBefore
    <3>1. PICK c \in Int, l \in Int, b \in Int, w \in Int, d \in Int :
            c = clock' /\ l = TrueLeap /\ b = LogBefore /\ w = Week /\ d = Day
      BY <1>1, <1>2, <2>2
    <3>2. 0 <= l /\ l < b /\ 2 * b <= d /\ d < w
      BY <1>1, <2>2, <3>1
    <3>3. 2 * b <= w /\ (c - l) - b <= c /\ c < ((c - l) - b) + 2 * b
      BY <3>2
    <3>4. QED
      BY <3>1, <3>3
  <2>5. QED
    BY <1>3, <2>1, <2>2, <2>3, <2>4
<1>4. CASE mode # "log"
  <2>1. ~week_used /\ FrameWeek = wc
    BY <1>4 DEF FrameWeek
  <2>2. clock' = clock
    BY <1>1, <2>1 DEF Tick
  <2>3. /\ wc \in Intervals /\ wc.dur \in 1..Week
        /\ mode = "filename" => clock < wc.start + wc.dur + TrueLeap
    BY <1>4, <2>1 DEF IInv, FileInv, TypeOK
  <2>4. wc = [start |-> wc.start, dur |-> wc.dur] /\ wc.start \in Int /\ wc.dur \in Nat
    BY <2>3 DEF Intervals
  <2>5. wc.dur <= Week
    BY <1>1, <2>3, <2>4
  <2>6. mode \notin {"date", "filename"} => wc.start <= clock' /\ clock' < wc.start + wc.dur
    <3>1. SUFFICES ASSUME mode = "recent" PROVE Within(clock', wc)
      BY <1>4, RtcmTimeAssumption DEF IInv, TypeOK, Within
    <3>2. wc = RecentWeek
      BY <3>1 DEF IInv, FileInv
    <3>3. QED
      BY <3>1, <3>2, RecentTrue
  <2>7. QED
    BY <1>4, <2>1, <2>2, <2>3, <2>4, <2>5, <2>6
<1>5. QED
  BY <1>3, <1>4

(* Every entry of a log comes with a constraint.                           *)
LEMMA LogWeekSaysSomething ==
  ASSUME Receivers, IInv, FrameWeek = NoInterval
  PROVE  mode # "log"
<1>1. SUFFICES ASSUME mode = "log" PROVE FALSE
  OBVIOUS
<1>2. FrameWeek.dur = 2 * LogBefore
  BY <1>1 DEF FrameWeek, LogWeek
<1>3. FrameWeek.dur = 0
  BY DEF NoInterval
<1>4. LogBefore \in Nat /\ TrueLeap \in Nat /\ TrueLeap < LogBefore
  BY RtcmTimeAssumption DEF Receivers
<1>5. QED
  BY <1>2, <1>3, <1>4

(* A frame without a constraint has that of its file in force.             *)
LEMMA WeekInForce ==
  ASSUME Receivers, IInv, FrameWeek = NoInterval
  PROVE  week_used /\ week = wc /\ week # NoInterval
<1>1. mode # "log"
  BY LogWeekSaysSomething
<1>2. wc # NoInterval
  BY <1>1 DEF NoInterval, IInv, FileInv
<1>3. week_used
  BY <1>1, <1>2 DEF FrameWeek
<1>4. QED
  BY <1>1, <1>2, <1>3 DEF IInv, FileInv

(* The same of the constraint in force.                                    *)
LEMMA WeekTrue ==
  ASSUME Receivers, IInv, Tick, FrameWeek = NoInterval
  PROVE  \E start \in Int, dur \in Nat :
           /\ week = [start |-> start, dur |-> dur]
           /\ dur <= Week
           /\ mode \notin {"date", "filename"} => start <= clock' /\ clock' < start + dur
<1>1. mode # "log"
  BY LogWeekSaysSomething
<1>2. wc \in Intervals /\ wc.dur \in 1..Week
  BY <1>1 DEF IInv, FileInv, TypeOK
<1>3. week = wc
  BY WeekInForce
<1>4. wc = [start |-> wc.start, dur |-> wc.dur] /\ wc.start \in Int /\ wc.dur \in Nat
  BY <1>2 DEF Intervals
<1>5. wc.dur <= Week
  BY <1>2, <1>4, WeekPositive
<1>6. mode \notin {"date", "filename"} => wc.start <= clock' /\ clock' < wc.start + wc.dur
  <2>1. SUFFICES ASSUME mode = "recent" PROVE Within(clock', wc)
    BY <1>1, RtcmTimeAssumption DEF IInv, TypeOK, Within
  <2>2. wc = RecentWeek
    BY <2>1 DEF IInv, FileInv
  <2>3. QED
    BY <2>1, <2>2, RecentTrue
<1>7. QED
  BY <1>3, <1>4, <1>5, <1>6

(* An error is only of an epoch outside the interval of a date, and then of*)
(* the first of a constellation, or in the first frame of a file.          *)
Excused(g) ==
  /\ mode \in {"date", "filename"}
  /\ ~Within(clock', week')
  /\ time[g] # NoTime =>
       /\ ~week_used
       /\ mode = "filename" => clock' < week'.start + week'.dur + TrueLeap

(* resolve_time finds no other time than the true one, and finds it unless *)
(* it is excused.                                                          *)
LEMMA ResolutionsTrue ==
  ASSUME Receivers, IInv, NEW g \in Gnss, Tick, SetWeek(FrameWeek), InReach(g),
         NEW epoch \in EpochTimes(g, clock')
  PROVE  /\ Resolutions(g, epoch, FrameWeek) \subseteq {clock'}
         /\ Resolutions(g, epoch, FrameWeek) = {clock'} \/ Excused(g)
<1>1. clock' \in Nat
  BY RtcmTimeAssumption DEF Tick, IInv, TypeOK
<1>2. /\ leap = TrueLeap /\ time[g] = truth[g] /\ truth[g] \in Nat \cup {NoTime}
      /\ mode \in WeekModes
  BY DEF IInv, TypeOK
<1>3. PICK o \in Int, m \in Int :
        /\ o \in Offsets(g, epoch)
        /\ WholeDays(Offsets(g, epoch), o)
        /\ ~DayUnknown[mode] => Offsets(g, epoch) = {o}
        /\ clock' = m * Week + o
        /\ -Day <= o /\ o <= Week + Day
  BY <1>1, <1>2, OffsetTrue
<1>4. clock' \in Int /\ clock' = m * Week + o
  BY <1>1, <1>3
<1>5. mode # "log" => Offsets(g, epoch) = {o}
  BY <1>2, <1>3 DEF Receivers
<1>6. ASSUME NEW start \in Int, NEW dur \in Nat, dur <= Week,
             clock' < start + Week, start + dur <= clock' + Week,
             NEW w, w = [start |-> start, dur |-> dur], mode # "log"
      PROVE  /\ Matches(Offsets(g, epoch), w) \subseteq {clock'}
             /\ Matches(Offsets(g, epoch), w) = {clock'} \/ ~Within(clock', w)
  <2>1. /\ Matches({o}, [start |-> start, dur |-> dur]) \subseteq {clock'}
        /\ Within(clock', [start |-> start, dur |-> dur]) =>
             Matches({o}, [start |-> start, dur |-> dur]) = {clock'}
    BY <1>4, <1>6, MatchesTrueTime
  <2>2. QED
    BY <1>5, <1>6, <2>1
<1>7. CASE FrameWeek # NoInterval
  <2>1. PICK start \in Int, dur \in Nat :
          /\ FrameWeek = [start |-> start, dur |-> dur]
          /\ dur <= Week
          /\ mode \notin {"date", "filename"} => start <= clock' /\ clock' < start + dur
          /\ mode = "filename" => clock' < start + dur + TrueLeap
          /\ IF mode = "log" THEN dur <= Day ELSE ~week_used
    BY <1>7, FrameWeekTrue
  <2>2. week' = FrameWeek
    BY <1>7 DEF SetWeek
  <2>3. Resolutions(g, epoch, FrameWeek) = Matches(Offsets(g, epoch), FrameWeek)
    BY <1>7 DEF Resolutions
  <2>4. CASE mode # "log"
    <3>1. clock' < start + Week /\ start + dur <= clock' + Week
      BY <1>7, <2>1, <2>2 DEF InReach
    <3>2. /\ Matches(Offsets(g, epoch), FrameWeek) \subseteq {clock'}
          /\ Matches(Offsets(g, epoch), FrameWeek) = {clock'} \/ ~Within(clock', FrameWeek)
      BY <1>6, <2>1, <2>4, <3>1
    <3>3. ~Within(clock', FrameWeek) => Excused(g)
      BY <2>1, <2>2, <2>4 DEF Excused, Within
    <3>4. QED
      BY <2>3, <3>2, <3>3
  <2>5. CASE mode = "log"
    <3>1. dur <= Day /\ start <= clock' /\ clock' < start + dur
      BY <2>1, <2>5
    <3>2. PICK offsets, t : offsets = Offsets(g, epoch) /\ t = clock'
      OBVIOUS
    <3>3. /\ start \in Int /\ dur \in Nat /\ o \in Int /\ m \in Int
          /\ t \in Int /\ t = m * Week + o /\ start <= t /\ t < start + dur
          /\ o \in offsets /\ WholeDays(offsets, o)
      BY <1>3, <1>4, <2>1, <3>1, <3>2
    <3>4. Matches(offsets, [start |-> start, dur |-> dur]) = {t}
      BY <3>1, <3>3, MatchesOfDays
    <3>5. QED
      BY <2>1, <2>3, <3>2, <3>4
  <2>6. QED
    BY <2>4, <2>5
<1>8. FrameWeek = NoInterval => mode # "log"
  BY LogWeekSaysSomething
<1>9. CASE FrameWeek = NoInterval /\ time[g] # NoTime
  <2>1. truth[g] \in Nat /\ Distance(clock', truth[g]) <= MaxGap[mode]
    BY <1>2, <1>9 DEF InReach
  <2>2. 2 * Distance(clock', truth[g]) < Week
    <3>1. MaxGap[mode] \in Nat /\ 2 * MaxGap[mode] < Week
      BY <1>2, <1>8, <1>9, RtcmTimeAssumption DEF Receivers
    <3>2. QED
      BY <1>1, <2>1, <3>1, WeekPositive DEF Distance
  <2>3. Continuity({o}, truth[g]) = clock'
    BY <1>1, <1>3, <2>1, <2>2, ContinuityTrueTime
  <2>4. QED
    BY <1>2, <1>5, <1>8, <1>9, <2>3 DEF Resolutions
<1>10. CASE FrameWeek = NoInterval /\ time[g] = NoTime
  <2>1. PICK start \in Int, dur \in Nat :
          /\ week = [start |-> start, dur |-> dur]
          /\ dur <= Week
          /\ mode \notin {"date", "filename"} => start <= clock' /\ clock' < start + dur
    BY <1>10, WeekTrue
  <2>2. week # NoInterval
    BY <1>8, <1>10, WeekInForce
  <2>3. week' = week
    BY <1>10 DEF SetWeek
  <2>4. clock' < start + Week /\ start + dur <= clock' + Week
    BY <1>2, <1>10, <2>1, <2>3 DEF InReach
  <2>5. /\ Matches(Offsets(g, epoch), week) \subseteq {clock'}
        /\ Matches(Offsets(g, epoch), week) = {clock'} \/ ~Within(clock', week)
    BY <1>6, <1>8, <1>10, <2>1, <2>4
  <2>6. Resolutions(g, epoch, FrameWeek) = Matches(Offsets(g, epoch), week)
    BY <1>10, <2>2 DEF Resolutions
  <2>7. ~Within(clock', week) => Excused(g)
    BY <1>10, <2>1, <2>3 DEF Excused, Within
  <2>8. QED
    BY <1>10, <2>5, <2>6, <2>7
<1>11. QED
  BY <1>7, <1>9, <1>10

-----------------------------------------------------------------------------
(* The constraint of a file; with -f it contains its first frame.          *)
LEMMA FileWeekTrue ==
  ASSUME Receivers, mode \in WeekModes, mode # "log", week_date \in Nat,
         NEW t \in FirstTime[mode]..LastTime[mode], NEW w \in FileWeeks(t)
  PROVE  /\ w \in Intervals /\ w.dur \in 1..Week
         /\ mode = "recent" => w = RecentWeek
         /\ mode = "filename" => w.start <= t /\ t < w.start + w.dur + TrueLeap
<1>1. /\ Week \in Nat \ {0} /\ TrueLeap \in Nat /\ Now \in Nat
      /\ DateBefore \in Nat /\ DateSpan \in 1..Week /\ DateSpan \in Nat
      /\ FirstTime[mode] \in Nat /\ LastTime[mode] \in Nat /\ Day \in Nat
  BY WeekPositive, DayAssumption, RtcmTimeAssumption DEF Receivers
<1>2. CASE mode = "recent"
  BY <1>1, <1>2 DEF FileWeeks, RecentWeek, Intervals
<1>3. CASE mode = "date"
  BY <1>1, <1>3 DEF FileWeeks, DateWeek, Intervals
<1>4. CASE mode = "filename"
  <2>1. PICK d \in Dates(t) : w = DateWeek(d)
    BY <1>4 DEF FileWeeks
  <2>2. d \in Int
    <3>1. PICK n \in 0..((LastTime[mode] + Day) \div Day) : d = n * Day
      BY <2>1 DEF Dates
    <3>2. n \in Int
      OBVIOUS
    <3>3. QED
      BY <1>1, <3>1, <3>2
  <2>3. w = [start |-> d - DateBefore, dur |-> DateSpan]
    BY <2>1 DEF DateWeek
  <2>4. Within(t - TrueLeap, w)
    BY <2>1 DEF Dates
  <2>5. w.start <= t - TrueLeap /\ t - TrueLeap < w.start + w.dur
    BY <2>4 DEF Within
  <2>6. w.start \in Int /\ w.dur \in 1..Week /\ w.dur \in Nat
    BY <1>1, <2>2, <2>3
  <2>7. QED
    BY <1>1, <1>4, <2>3, <2>5, <2>6 DEF Intervals
<1>5. QED
  BY <1>2, <1>3, <1>4, RtcmTimeAssumption

(* A date is a time of day zero. *)
LEMMA DatesTypes ==
  ASSUME mode \in WeekModes, NEW t \in Nat
  PROVE  Dates(t) \subseteq Nat
<1> SUFFICES ASSUME NEW d \in Dates(t) PROVE d \in Nat
  OBVIOUS
<1>1. PICK n \in 0..((LastTime[mode] + Day) \div Day) : d = n * Day
  BY DEF Dates
<1>2. n \in Nat /\ Day \in Nat
  BY DayAssumption
<1>3. QED
  BY <1>1, <1>2

LEMMA FileWeekTypes ==
  ASSUME Receivers, mode \in WeekModes, week_date \in Nat,
         NEW t \in FirstTime[mode]..LastTime[mode], NEW w \in FileWeeks(t)
  PROVE  w \in Intervals
<1>1. CASE mode = "log"
  BY <1>1 DEF FileWeeks, NoInterval, Intervals
<1>2. QED
  BY <1>1, FileWeekTrue

LEMMA FrameWeekTypes ==
  ASSUME IInv, Tick, SetWeek(FrameWeek)
  PROVE  week' \in Intervals
<1>1. LogBefore \in Nat /\ TrueLeap \in Nat /\ clock' \in Nat
  BY RtcmTimeAssumption DEF IInv, TypeOK, Tick
<1>2. FrameWeek \in Intervals
  BY <1>1 DEF FrameWeek, LogWeek, NoInterval, Intervals, IInv, TypeOK
<1>3. QED
  BY <1>2 DEF SetWeek, IInv, TypeOK

-----------------------------------------------------------------------------
LEMMA TimeInit == Receivers /\ Init => IInv
<1>1. SUFFICES ASSUME Receivers, Init PROVE IInv
  OBVIOUS
<1>2. mode \in WeekModes /\ FirstTime[mode] \in Nat /\ LastTime[mode] \in Nat
  BY <1>1, RtcmTimeAssumption DEF Init
<1>3. clock \in FirstTime[mode]..LastTime[mode] /\ clock \in Nat
  BY <1>1, <1>2, RtcmTimeAssumption DEF Init
<1>4. week_date \in Nat
  BY <1>1, <1>2, <1>3, DatesTypes DEF Init
<1>5. wc \in Intervals /\ NoInterval \in Intervals
  BY <1>1, <1>2, <1>3, <1>4, FileWeekTypes DEF Init, NoInterval, Intervals
<1>6. TypeOK
  BY <1>1, <1>3, <1>4, <1>5 DEF Init, TypeOK
<1>7. FileInv
  BY <1>1, <1>2, <1>3, <1>4, FileWeekTrue DEF Init, FileInv
<1>8. QED
  BY <1>1, <1>3, <1>6, <1>7 DEF IInv, Init, Receivers

(* After a frame the constraint of the file is in force. *)
LEMMA FrameFileInv ==
  ASSUME Receivers, IInv, Tick, SetWeek(FrameWeek), week_used' = TRUE, wc' = wc,
         mode' = mode
  PROVE  FileInv' /\ clock' \in FirstTime[mode]..LastTime[mode] /\ clock' \in Nat
<1>1. /\ clock \in FirstTime[mode]..LastTime[mode] /\ clock \in Nat /\ Steps[mode] \subseteq Nat
      /\ FirstTime[mode] \in Nat /\ LastTime[mode] \in Nat
  BY RtcmTimeAssumption DEF IInv, TypeOK
<1>2. clock <= clock' /\ clock' \in FirstTime[mode]..LastTime[mode] /\ clock' \in Nat
  <2>1. PICK d \in Nat : clock' = clock + d /\ clock' <= LastTime[mode]
    BY <1>1 DEF Tick
  <2>2. QED
    BY <1>1, <2>1
<1>3. ASSUME mode # "log"
      PROVE  /\ wc.dur \in 1..Week /\ week' = wc
             /\ mode = "recent" => wc = RecentWeek
             /\ mode = "filename" => wc.start <= clock'
  <2>1. /\ wc \in Intervals /\ wc.dur \in 1..Week
        /\ mode = "recent" => wc = RecentWeek
        /\ mode = "filename" => wc.start <= clock
    BY <1>3 DEF IInv, FileInv, TypeOK
  <2>2. wc.start \in Int
    BY <2>1 DEF Intervals
  <2>3. wc # NoInterval
    BY <2>1 DEF NoInterval
  <2>4. week' = wc
    BY <1>3, <2>3 DEF SetWeek, FrameWeek, IInv, FileInv
  <2>5. QED
    BY <1>1, <1>2, <2>1, <2>2, <2>4
<1>4. (RecentWeek)' = RecentWeek
  BY DEF RecentWeek
<1>5. QED
  BY <1>2, <1>3, <1>4 DEF FileInv

LEMMA TimeStep == Receivers /\ IInv /\ [Next]_vars => IInv'
<1>1. SUFFICES ASSUME Receivers, IInv, [Next]_vars PROVE IInv'
  OBVIOUS
<1>2. ASSUME NEW g \in Gnss, ConvertMsm(g) PROVE IInv'
  <2>1. /\ Tick /\ SetWeek(FrameWeek) /\ InReach(g)
        /\ week_used' = TRUE /\ leap' = leap /\ wc' = wc
        /\ mode' = mode /\ week_date' = week_date
    BY <1>2 DEF ConvertMsm, config
  <2>2. FileInv' /\ clock' \in FirstTime[mode]..LastTime[mode] /\ clock' \in Nat
    BY <1>1, <2>1, FrameFileInv
  <2>3. week' \in Intervals
    BY <1>1, <2>1, FrameWeekTypes
  <2>4. PICK epoch \in EpochTimes(g, clock') :
          LET found == Resolutions(g, epoch, FrameWeek) IN
          \/ \E t \in found : /\ found = {t}
                              /\ time' = [time EXCEPT ![g] = t]
                              /\ truth' = [truth EXCEPT ![g] = clock']
                              /\ failed' = FALSE
          \/ /\ \A t \in found : found # {t}
             /\ failed' = TRUE
             /\ UNCHANGED <<time, truth>>
    BY <1>2 DEF ConvertMsm
  <2>5. Resolutions(g, epoch, FrameWeek) \subseteq {clock'}
    BY <1>1, <2>1, ResolutionsTrue
  <2>6. /\ failed' \in BOOLEAN
        /\ \/ /\ time' = [time EXCEPT ![g] = clock']
              /\ truth' = [truth EXCEPT ![g] = clock']
           \/ UNCHANGED <<time, truth>>
    BY <2>4, <2>5
  <2>7. /\ time \in [Gnss -> Int \cup {NoTime}]
        /\ truth \in [Gnss -> Nat \cup {NoTime}]
        /\ \A h \in Gnss : time[h] = truth[h]
    BY <1>1 DEF IInv, TypeOK
  <2>8. /\ time' \in [Gnss -> Int \cup {NoTime}]
        /\ truth' \in [Gnss -> Nat \cup {NoTime}]
        /\ \A h \in Gnss : time'[h] = truth'[h]
    BY <2>2, <2>6, <2>7
  <2>9. TypeOK'
    BY <1>1, <2>1, <2>2, <2>3, <2>6, <2>8 DEF IInv, TypeOK
  <2>10. QED
    BY <1>1, <2>1, <2>2, <2>8, <2>9 DEF IInv
<1>3. ASSUME ConvertOther PROVE IInv'
  <2>1. /\ Tick /\ SetWeek(FrameWeek) /\ week_used' = TRUE
        /\ wc' = wc /\ mode' = mode /\ week_date' = week_date /\ time' = time
        /\ failed' = failed /\ truth' = truth
        /\ leap' \in {leap, TrueLeap}
    BY <1>3 DEF ConvertOther, config
  <2>2. FileInv' /\ clock' \in FirstTime[mode]..LastTime[mode] /\ clock' \in Nat
    BY <1>1, <2>1, FrameFileInv
  <2>3. week' \in Intervals
    BY <1>1, <2>1, FrameWeekTypes
  <2>4. leap' = TrueLeap
    BY <1>1, <2>1 DEF IInv
  <2>5. TypeOK'
    BY <1>1, <2>1, <2>2, <2>3, <2>4 DEF IInv, TypeOK
  <2>6. QED
    BY <1>1, <2>1, <2>2, <2>4, <2>5 DEF IInv
<1>4. ASSUME NextFile PROVE IInv'
  <2>1. /\ clock' \in FirstTime[mode]..LastTime[mode] /\ wc' \in FileWeeks(clock')
        /\ week_used' = FALSE /\ failed' = failed /\ truth' = truth
        /\ time' = time /\ week' = week /\ leap' = leap
        /\ mode' = mode /\ week_date' = week_date
    BY <1>4 DEF NextFile, converter, config
  <2>2. clock' \in Nat
    BY <1>1, <2>1, RtcmTimeAssumption DEF IInv, TypeOK
  <2>3. wc' \in Intervals
    BY <1>1, <2>1, FileWeekTypes DEF IInv, TypeOK
  <2>4. FileInv'
    <3>1. (RecentWeek)' = RecentWeek
      BY DEF RecentWeek
    <3>2. QED
      BY <1>1, <2>1, <3>1, FileWeekTrue DEF FileInv, IInv, TypeOK
  <2>5. TypeOK'
    BY <1>1, <2>1, <2>2, <2>3 DEF IInv, TypeOK
  <2>6. QED
    BY <1>1, <2>1, <2>4, <2>5 DEF IInv
<1>5. CASE UNCHANGED vars
  <2>1. (RecentWeek)' = RecentWeek
    BY DEF RecentWeek
  <2>2. QED
    BY <1>1, <1>5, <2>1 DEF vars, IInv, TypeOK, FileInv
<1>6. QED
  BY <1>1, <1>2, <1>3, <1>4, <1>5 DEF Next

(* Every epoch gets the time it was measured at.                           *)
THEOREM RtcmEpochsTrue ==
  ASSUME Receivers
  PROVE  Spec => []EpochsTrue
<1>1. Init => IInv
  BY TimeInit
<1>2. IInv /\ [Next]_vars => IInv'
  BY TimeStep
<1>3. IInv => EpochsTrue
  BY DEF IInv, EpochsTrue
<1>4. QED
  BY <1>1, <1>2, <1>3, PTL DEF Spec

(* No epoch ends the conversion of a log or of input of the last week: in  *)
(* a log even those that leave the day open are resolved, after gaps of    *)
(* any length.  One of dated input does so only outside the interval of    *)
(* the date, and only if its constellation had no epoch before or a file   *)
(* begins with it: with --date any file, with -f one that begins in the    *)
(* leap seconds between UTC and GPS time.                                  *)
THEOREM RtcmAllResolved ==
  ASSUME Receivers
  PROVE  Spec => AllResolved
<1> DEFINE OnlyExcused == \A g \in Gnss : ConvertMsm(g) /\ failed' => Excused(g)
<1>1. Init => IInv
  BY TimeInit
<1>2. IInv /\ [Next]_vars => IInv'
  BY TimeStep
<1>3. IInv => OnlyExcused
  <2>1. SUFFICES ASSUME IInv, NEW g \in Gnss, ConvertMsm(g), failed' PROVE Excused(g)
    OBVIOUS
  <2>2. Tick /\ SetWeek(FrameWeek) /\ InReach(g)
    BY <2>1 DEF ConvertMsm
  <2>3. PICK epoch \in EpochTimes(g, clock') :
          Resolutions(g, epoch, FrameWeek) # {clock'}
    BY <2>1 DEF ConvertMsm
  <2>4. QED
    BY <2>1, <2>2, <2>3, ResolutionsTrue
<1>4. OnlyExcused =>
        \A g \in Gnss : ConvertMsm(g) /\ failed' =>
          /\ mode \in {"date", "filename"}
          /\ ~Within(clock', week')
          /\ time[g] # NoTime =>
               /\ ~week_used
               /\ mode = "filename" => clock' < week'.start + week'.dur + TrueLeap
  BY DEF Excused
<1> HIDE DEF OnlyExcused
<1>5. QED
  BY <1>1, <1>2, <1>3, <1>4, PTL DEF Spec, AllResolved

(* The state of the converter keeps its types.                             *)
THEOREM RtcmTimeTypeCorrect ==
  ASSUME Receivers
  PROVE  Spec => []TypeOK
<1>1. Init => IInv
  BY TimeInit
<1>2. IInv /\ [Next]_vars => IInv'
  BY TimeStep
<1>3. IInv => TypeOK
  BY DEF IInv
<1>4. QED
  BY <1>1, <1>2, <1>3, PTL DEF Spec
=============================================================================
