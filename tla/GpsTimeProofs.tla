---------------------------- MODULE GpsTimeProofs ---------------------------
(***************************************************************************)
(* What holds of GPS time and its labels for every time, before the epoch  *)
(* as well, and for days, hours, minutes, seconds and ticks of any length. *)
(***************************************************************************)
EXTENDS GpsTime, FiniteSetTheorems, TLAPS

-----------------------------------------------------------------------------
(* Division.                                                               *)

LEMMA ProductPositive ==
  ASSUME NEW a \in Nat \ {0}, NEW b \in Nat \ {0}
  PROVE  a * b \in Nat \ {0}
OBVIOUS

LEMMA MultiplyOrder ==
  ASSUME NEW a \in Int, NEW c \in Int, NEW b \in Nat \ {0}, a < c
  PROVE  a * b + b <= c * b
<1>1. c - a - 1 \in Nat
  OBVIOUS
<1>2. (c - a - 1) * b >= 0
  BY <1>1
<1>3. (c - a - 1) * b = c * b - a * b - b
  OBVIOUS
<1>4. a * b \in Int /\ c * b \in Int
  OBVIOUS
<1>5. QED
  BY <1>2, <1>3, <1>4

LEMMA DivisionUnique ==
  ASSUME NEW p \in Int, NEW q \in Int, NEW b \in Nat \ {0},
         NEW r \in 0..(b - 1), NEW s \in 0..(b - 1), p * b + r = q * b + s
  PROVE  p = q /\ r = s
<1>0. p * b \in Int /\ q * b \in Int
  OBVIOUS
<1>1. CASE p < q
  BY <1>0, <1>1, MultiplyOrder
<1>2. CASE q < p
  BY <1>0, <1>2, MultiplyOrder
<1>3. CASE p = q
  BY <1>0, <1>3
<1>4. QED
  BY <1>1, <1>2, <1>3

LEMMA DivisionOf ==
  ASSUME NEW x \in Int, NEW b \in Nat \ {0}
  PROVE  /\ x \div b \in Int /\ x % b \in 0..(b - 1)
         /\ x = (x \div b) * b + (x % b)
<1>1. x \div b \in Int /\ x % b \in 0..(b - 1)
  OBVIOUS
<1>2. x % b = x - (x \div b) * b
  OBVIOUS
<1>3. (x \div b) * b \in Int
  BY <1>1
<1>4. QED
  BY <1>1, <1>2, <1>3

LEMMA Division ==
  ASSUME NEW q \in Int, NEW b \in Nat \ {0}, NEW r \in 0..(b - 1)
  PROVE  (q * b + r) \div b = q /\ (q * b + r) % b = r
<1> DEFINE x == q * b + r
<1>1. x \in Int
  OBVIOUS
<1>2. /\ x \div b \in Int /\ x % b \in 0..(b - 1)
      /\ x = (x \div b) * b + (x % b)
  BY <1>1, DivisionOf
<1> DEFINE u == x \div b
           v == x % b
<1>3. u * b + v = q * b + r
  BY <1>2
<1> HIDE DEF u, v
<1>4. u = q /\ v = r
  BY <1>2, <1>3, DivisionUnique DEF u, v
<1>5. QED
  BY <1>4 DEF u, v

(* Division and remainder are those of mathematics, rounded down.          *)
LEMMA DivModFloors ==
  ASSUME NEW a \in Int, NEW b \in Nat \ {0}
  PROVE  DivMod(a, b) = <<a \div b, a % b>> /\ FloorDiv(a, b) = a \div b
<1> DEFINE q == Quot(a, b)
           r == a - q * b
<1>1. q \in Int /\ r \in Int /\ r > -b /\ r < b /\ a = q * b + r
  <2>1. CASE a >= 0
    <3>1. a \div b \in Int /\ a % b \in 0..(b - 1) /\ a = (a \div b) * b + (a % b)
      BY DivisionOf
    <3>2. q = a \div b
      BY <2>1 DEF Quot
    <3>3. q * b \in Int
      BY <3>1, <3>2
    <3> HIDE DEF q
    <3>4. QED
      BY <3>1, <3>2, <3>3
  <2>2. CASE a < 0
    <3> DEFINE n == -a
    <3>1. n \in Int
      OBVIOUS
    <3> HIDE DEF n
    <3>2. n \div b \in Int /\ n % b \in 0..(b - 1) /\ n = (n \div b) * b + (n % b)
      BY <3>1, DivisionOf
    <3>3. q = -(n \div b)
      BY <2>2 DEF Quot, n
    <3>4. q * b = -((n \div b) * b) /\ (n \div b) * b \in Int
      BY <3>2, <3>3
    <3> HIDE DEF q
    <3>5. QED
      BY <3>1, <3>2, <3>3, <3>4 DEF n
  <2>3. QED
    BY <2>1, <2>2
<1>2. DivMod(a, b) = IF r < 0 THEN <<q - 1, r + b>> ELSE <<q, r>>
  BY DEF DivMod
<1> HIDE DEF q, r
<1>3. CASE r < 0
  <2>1. a = (q - 1) * b + (r + b) /\ r + b \in 0..(b - 1) /\ q - 1 \in Int
    BY <1>1, <1>3
  <2>2. a \div b = q - 1 /\ a % b = r + b
    BY <2>1, Division
  <2>3. QED
    BY <1>2, <1>3, <2>2 DEF FloorDiv
<1>4. CASE r >= 0
  <2>1. a \div b = q /\ a % b = r
    BY <1>1, <1>4, Division
  <2>2. QED
    BY <1>1, <1>2, <1>4, <2>1 DEF FloorDiv
<1>5. QED
  BY <1>1, <1>3, <1>4

(* A factor of both sides of a division.                                   *)
LEMMA DivisionFactor ==
  ASSUME NEW x \in Int, NEW y \in Nat \ {0}, NEW n \in Nat \ {0}
  PROVE  (x * n) \div (y * n) = x \div y /\ ((x * n) % (y * n)) = (x % y) * n
<1> DEFINE q == x \div y
           r == x % y
<1>1. q \in Int /\ r \in 0..(y - 1) /\ x = q * y + r
  BY DivisionOf
<1> HIDE DEF q, r
<1>2. x * n = q * (y * n) + r * n
  BY <1>1
<1>3. y * n \in Nat \ {0} /\ r * n \in Nat
  BY <1>1
<1>4. r * n + n <= y * n
  BY <1>1, MultiplyOrder
<1>5. r * n \in 0..(y * n - 1)
  BY <1>3, <1>4
<1> DEFINE d == y * n
           e == r * n
<1>6. x * n = q * d + e /\ d \in Nat \ {0} /\ e \in 0..(d - 1)
  BY <1>2, <1>3, <1>5
<1> HIDE DEF d, e
<1>7. (x * n) \div d = q /\ (x * n) % d = e
  BY <1>1, <1>6, Division
<1>8. QED
  BY <1>7 DEF q, r, d, e

(* Division by a product.                                                  *)
LEMMA DivisionTwice ==
  ASSUME NEW x \in Int, NEW a \in Nat \ {0}, NEW b \in Nat \ {0}
  PROVE  /\ x \div (a * b) = (x \div a) \div b
         /\ x % (a * b) = ((x \div a) % b) * a + (x % a)
<1> DEFINE q == x \div a
           r == x % a
<1>1. q \in Int /\ r \in 0..(a - 1) /\ x = q * a + r
  BY DivisionOf
<1> HIDE DEF q, r
<1> DEFINE p == q \div b
           s == q % b
<1>2. p \in Int /\ s \in 0..(b - 1) /\ q = p * b + s
  BY <1>1, DivisionOf
<1> HIDE DEF p, s
<1>3. x = p * (a * b) + (s * a + r)
  BY <1>1, <1>2
<1>4. a * b \in Nat \ {0} /\ s * a \in Nat /\ b * a = a * b
  BY <1>2
<1>5. s * a + a <= b * a
  BY <1>2, MultiplyOrder
<1>6. s * a + r \in 0..(a * b - 1)
  BY <1>1, <1>4, <1>5
<1>7. x \div (a * b) = p /\ x % (a * b) = s * a + r
  BY <1>2, <1>3, <1>4, <1>6, Division
<1>8. QED
  BY <1>7 DEF p, q, r, s

-----------------------------------------------------------------------------
(* The calendar.                                                           *)

(* The day of the year that a month counted from March begins on, and the  *)
(* day of the era that a year counted from March begins on.                *)
MonthStart(mp) == (153 * mp + 2) \div 5
YearStart(yoe) == 365 * yoe + yoe \div 4 - yoe \div 100

(* The same with the quotients given by what bounds them: f days of leap   *)
(* years, b centuries and g eras have been passed.                         *)
LEMMA YearOfEraBounded ==
  ASSUME NEW doe \in Int, NEW f \in Int, NEW b \in Int, NEW g \in Int,
         NEW yoe \in Int, NEW q \in Int, NEW c \in Int,
         0 <= doe, doe <= 146096,
         1460 * f <= doe, doe < 1460 * f + 1460,
         36524 * b <= doe, doe < 36524 * b + 36524,
         146096 * g <= doe, doe < 146096 * g + 146096,
         365 * yoe <= doe - f + b - g, doe - f + b - g < 365 * yoe + 365,
         4 * q <= yoe, yoe < 4 * q + 4,
         100 * c <= yoe, yoe < 100 * c + 100
  PROVE  /\ 0 <= yoe /\ yoe <= 399
         /\ 0 <= doe - (365 * yoe + q - c)
         /\ doe - (365 * yoe + q - c) <= 365
         /\ doe - (365 * yoe + q - c) = 365 =>
              yoe = 4 * q + 3 /\ (yoe # 100 * c + 99 \/ yoe = 399)
<1>1. b = 0 \/ b = 1 \/ b = 2 \/ b = 3 \/ b = 4
  OBVIOUS
<1>2. CASE b = 4
  <2>1. doe = 146096 /\ f = 100 /\ g = 1
    BY <1>2
  <2>2. yoe = 399
    BY <1>2, <2>1
  <2>3. QED
    BY <1>2, <2>1, <2>2
<1>3. ASSUME b # 4
      PROVE  /\ g = 0 /\ 100 * b <= yoe /\ yoe <= 100 * b + 99 /\ c = b
             /\ 0 <= b /\ b <= 3
  <2>1. g = 0 /\ 0 <= b /\ b <= 3
    BY <1>1, <1>3
  <2>2. CASE b = 0
    BY <2>1, <2>2
  <2>3. CASE b = 1
    BY <2>1, <2>3
  <2>4. CASE b = 2
    BY <2>1, <2>4
  <2>5. CASE b = 3
    BY <2>1, <2>5
  <2>6. QED
    BY <1>1, <1>3, <2>2, <2>3, <2>4, <2>5
<1>4. CASE b = 0
  BY <1>3, <1>4
<1>5. CASE b = 1
  BY <1>3, <1>5
<1>6. CASE b = 2
  BY <1>3, <1>6
<1>7. CASE b = 3
  BY <1>3, <1>7
<1>8. QED
  BY <1>1, <1>2, <1>4, <1>5, <1>6, <1>7

(* The year of an era, and the day of the year, of a day of the era: only a *)
(* year that ends with February of a leap year has 366 days.               *)
LEMMA YearOfEra ==
  ASSUME NEW doe \in Int, 0 <= doe, doe <= 146096
  PROVE  LET yoe == (doe - doe \div 1460 + doe \div 36524 - doe \div 146096) \div 365
             doy == doe - YearStart(yoe)
         IN  /\ yoe \in Int /\ 0 <= yoe /\ yoe <= 399 /\ doy \in Int /\ 0 <= doy /\ doy <= 365
             /\ doy = 365 => Cal!Leap(yoe + 1)
<1> DEFINE f == doe \div 1460
           b == doe \div 36524
           g == doe \div 146096
           yoe == (doe - f + b - g) \div 365
           q == yoe \div 4
           c == yoe \div 100
<1>1. f \in Int /\ 1460 * f <= doe /\ doe < 1460 * f + 1460
  BY SMT
<1>2. b \in Int /\ 36524 * b <= doe /\ doe < 36524 * b + 36524
  BY SMT
<1>3. g \in Int /\ 146096 * g <= doe /\ doe < 146096 * g + 146096
  BY SMT
<1> HIDE DEF f, b, g
<1>4. yoe \in Int /\ 365 * yoe <= doe - f + b - g /\ doe - f + b - g < 365 * yoe + 365
  BY <1>1, <1>2, <1>3, SMT
<1> HIDE DEF yoe
<1>5. q \in Int /\ 4 * q <= yoe /\ yoe < 4 * q + 4
  BY <1>4, SMT
<1>6. c \in Int /\ 100 * c <= yoe /\ yoe < 100 * c + 100
  BY <1>4, SMT
<1> HIDE DEF q, c
<1>7. yoe \in Int /\ 0 <= yoe /\ yoe <= 399 /\ doe - (365 * yoe + q - c) \in 0..365
  BY <1>1, <1>2, <1>3, <1>4, <1>5, <1>6, YearOfEraBounded, SMT
<1>8. ASSUME doe - (365 * yoe + q - c) = 365
      PROVE  Cal!Leap(yoe + 1)
  <2>1. yoe = 4 * q + 3 /\ (yoe # 100 * c + 99 \/ yoe = 399)
    BY <1>1, <1>2, <1>3, <1>4, <1>5, <1>6, <1>8, YearOfEraBounded, SMT
  <2>2. QED
    BY <1>4, <1>5, <1>6, <2>1, SMT DEF Cal!Leap
<1>9. QED
  BY <1>7, <1>8, SMT DEF yoe, q, c, f, b, g, YearStart

(* A day and its month, which is counted from March, of a day of the year. *)
LEMMA MonthOfYear ==
  ASSUME NEW doy \in 0..365
  PROVE  LET mp == (5 * doy + 2) \div 153
         IN  mp \in 0..11 /\ doy - (153 * mp + 2) \div 5 + 1 \in 1..31
OBVIOUS

(* The day number of the civil date of a day, whatever its quotients are.  *)
LEMMA CivilDate ==
  ASSUME NEW n \in Int
  PROVE  /\ CivilFromDays(n) = <<CivilFromDays(n)[1], CivilFromDays(n)[2], CivilFromDays(n)[3]>>
         /\ CivilFromDays(n)[1] \in Int
         /\ CivilFromDays(n)[2] \in 1..12
         /\ CivilFromDays(n)[3] \in 1..31
         /\ DaysFromCivil(CivilFromDays(n)[1], CivilFromDays(n)[2], CivilFromDays(n)[3]) = n
<1> DEFINE z == n + 719468
           era == Quot(IF z >= 0 THEN z ELSE z - 146096, 146097)
           doe == z - era * 146097
           yoe == (doe - doe \div 1460 + doe \div 36524 - doe \div 146096) \div 365
           doy == doe - (365 * yoe + yoe \div 4 - yoe \div 100)
           mp == (5 * doy + 2) \div 153
           m == IF mp < 10 THEN mp + 3 ELSE mp - 9
           d == doy - (153 * mp + 2) \div 5 + 1
           year == yoe + era * 400 + (IF m <= 2 THEN 1 ELSE 0)
<1>1. CivilFromDays(n) = <<year, m, d>>
  BY DEF CivilFromDays
<1>2. era \in Int /\ 0 <= doe /\ doe <= 146096
  BY DEF Quot
<1>3. z = doe + era * 146097 /\ n = z - 719468 /\ doe \in Int
  BY <1>2
<1> HIDE DEF z, era, doe
<1>4. yoe \in 0..399 /\ doy \in 0..365
  BY <1>2, <1>3, YearOfEra DEF YearStart
<1>5. doe = doy + (365 * yoe + yoe \div 4 - yoe \div 100)
  BY <1>3, <1>4
<1> HIDE DEF yoe, doy
<1>6. mp \in 0..11 /\ d \in 1..31
  BY <1>4, MonthOfYear
<1>7. doy = (153 * mp + 2) \div 5 + d - 1
  BY <1>4, <1>6
<1> HIDE DEF mp, d
<1>8. m \in 1..12 /\ (m > 2 <=> mp < 10) /\ mp = (IF m > 2 THEN m - 3 ELSE m + 9)
  BY <1>6
<1>9. year \in Int
  BY <1>2, <1>4
<1>10. DaysFromCivil(year, m, d) = n
  <2> DEFINE y == year - (IF m <= 2 THEN 1 ELSE 0)
             e == Quot(IF y >= 0 THEN y ELSE y - 399, 400)
  <2>1. y = yoe + era * 400
    BY <1>2, <1>4, <1>8
  <2>2. e = era
    BY <1>2, <1>4, <2>1 DEF Quot
  <2>3. y - e * 400 = yoe
    BY <1>2, <1>4, <2>1, <2>2
  <2>4. DaysFromCivil(year, m, d)
          = e * 146097 + (y - e * 400) * 365 + (y - e * 400) \div 4
            - (y - e * 400) \div 100
            + ((153 * (IF m > 2 THEN m - 3 ELSE m + 9) + 2) \div 5 + d - 1) - 719468
    BY DEF DaysFromCivil
  <2>5. DaysFromCivil(year, m, d)
          = era * 146097 + yoe * 365 + yoe \div 4 - yoe \div 100 + doy - 719468
    BY <1>7, <1>8, <2>2, <2>3, <2>4
  <2>6. QED
    BY <1>2, <1>3, <1>4, <1>5, <2>5
<1>11. QED
  BY <1>1, <1>6, <1>8, <1>9, <1>10

-----------------------------------------------------------------------------
(* The time of day.                                                        *)

LEMMA Constants ==
  /\ HoursPerDay \in Nat \ {0} /\ MinutesPerHour \in Nat \ {0}
  /\ SecondsPerMinute \in Nat \ {0} /\ MsPerSecond \in Nat \ {0}
  /\ TicksPerMs \in Nat \ {0} /\ NsPerTick \in Nat \ {0} /\ RoundUnit \in Nat \ {0}
  /\ SecondsPerDay \in Nat \ {0} /\ TicksPerSecond \in Nat \ {0}
  /\ DayTicks \in Nat \ {0} /\ MsPerWeek \in Nat \ {0} /\ NsPerSecond \in Nat \ {0}
  /\ EpochUnix \in Int
<1>1. /\ HoursPerDay \in Nat \ {0} /\ MinutesPerHour \in Nat \ {0}
      /\ SecondsPerMinute \in Nat \ {0} /\ MsPerSecond \in Nat \ {0}
      /\ TicksPerMs \in Nat \ {0} /\ NsPerTick \in Nat \ {0} /\ RoundUnit \in Nat \ {0}
  BY GpsTimeAssumption
<1>2. HoursPerDay * MinutesPerHour \in Nat \ {0}
  BY <1>1, ProductPositive
<1>3. SecondsPerDay \in Nat \ {0}
  BY <1>1, <1>2, ProductPositive DEF SecondsPerDay
<1>4. TicksPerSecond \in Nat \ {0}
  BY <1>1, ProductPositive DEF TicksPerSecond
<1>5. DayTicks \in Nat \ {0} /\ NsPerSecond \in Nat \ {0}
  BY <1>1, <1>3, <1>4, ProductPositive DEF DayTicks, NsPerSecond
<1>6. 7 * SecondsPerDay \in Nat \ {0} /\ EpochUnix \in Int
  BY <1>3 DEF EpochUnix
<1>7. MsPerWeek \in Nat \ {0}
  BY <1>1, <1>6, ProductPositive DEF MsPerWeek
<1>8. QED
  BY <1>1, <1>3, <1>4, <1>5, <1>6, <1>7

(* A time within a * b has less than a whole parts of b.                   *)
LEMMA QuotientBound ==
  ASSUME NEW a \in Nat \ {0}, NEW b \in Nat \ {0}, NEW x \in Nat, x < a * b
  PROVE  x \div b \in 0..(a - 1)
<1> DEFINE q == x \div b
           r == x % b
<1>1. q \in Int /\ r \in 0..(b - 1) /\ x = q * b + r
  BY DivisionOf
<1> HIDE DEF q, r
<1>2. q * b \in Int /\ a * b \in Int
  BY <1>1
<1>3. q >= 0
  <2>1. CASE q < 0
    <3>1. q * b + b <= 0 * b
      BY <1>1, <2>1, MultiplyOrder
    <3>2. QED
      BY <1>1, <1>2, <3>1
  <2>2. QED
    BY <1>1, <2>1
<1>4. q < a
  <2>1. CASE a < q
    <3>1. a * b + b <= q * b
      BY <1>1, <2>1, MultiplyOrder
    <3>2. QED
      BY <1>1, <1>2, <3>1
  <2>2. CASE q = a
    BY <1>1, <1>2, <2>2
  <2>3. QED
    BY <1>1, <2>1, <2>2
<1>5. QED
  BY <1>1, <1>3, <1>4 DEF q

(* The fields of the time of day are in range and make it up.              *)
LEMMA TimeOfDay ==
  ASSUME NEW sod \in 0..(SecondsPerDay - 1)
  PROVE  LET hour == MinutesPerHour * SecondsPerMinute
             h == sod \div hour
             m == (sod % hour) \div SecondsPerMinute
             s == sod % SecondsPerMinute
         IN  /\ h \in 0..(HoursPerDay - 1) /\ m \in 0..(MinutesPerHour - 1)
             /\ s \in 0..(SecondsPerMinute - 1)
             /\ sod = (h * MinutesPerHour + m) * SecondsPerMinute + s
<1> DEFINE hour == MinutesPerHour * SecondsPerMinute
           h == sod \div hour
           rest == sod % hour
           m == rest \div SecondsPerMinute
           s == rest % SecondsPerMinute
<1>1. /\ HoursPerDay \in Nat \ {0} /\ MinutesPerHour \in Nat \ {0}
      /\ SecondsPerMinute \in Nat \ {0} /\ SecondsPerDay \in Nat \ {0}
  BY Constants
<1>2. hour \in Nat \ {0} /\ SecondsPerDay = HoursPerDay * hour
  BY <1>1, ProductPositive DEF SecondsPerDay
<1>3. sod \in Nat /\ sod < SecondsPerDay
  BY <1>1
<1> HIDE DEF hour
<1>4. h \in 0..(HoursPerDay - 1)
  BY <1>1, <1>2, <1>3, QuotientBound
<1>5. rest \in 0..(hour - 1) /\ sod = h * hour + rest
  <2>1. sod \in Int
    BY <1>3
  <2>2. QED
    BY <1>2, <2>1, DivisionOf, Zenon
<1> HIDE DEF h, rest
<1>6. rest \in Nat /\ rest < MinutesPerHour * SecondsPerMinute
  BY <1>2, <1>5 DEF hour
<1>7. m \in 0..(MinutesPerHour - 1)
  BY <1>1, <1>6, QuotientBound
<1>8. s \in 0..(SecondsPerMinute - 1) /\ rest = m * SecondsPerMinute + s
  BY <1>1, <1>6, DivisionOf
<1> HIDE DEF m, s
<1>9. sod = (h * MinutesPerHour + m) * SecondsPerMinute + s
  BY <1>1, <1>4, <1>5, <1>7, <1>8 DEF hour
<1>10. h * MinutesPerHour + m \in Int
  BY <1>1, <1>4, <1>7
<1>11. sod % SecondsPerMinute = s
  BY <1>1, <1>8, <1>9, <1>10, Division
<1>12. QED
  BY <1>4, <1>7, <1>8, <1>9, <1>11 DEF h, m, rest, hour

(* The civil time of any second is valid and names the second.             *)
LEMMA CivilTime ==
  ASSUME NEW u \in Int, NEW nanos \in Int, 0 <= nanos, nanos < NsPerSecond
  PROVE  LET c == CivilOfUnix(u, nanos)
         IN  /\ c.year \in Int /\ c.month \in 1..12 /\ c.day \in 1..31
             /\ c.hour \in 0..(HoursPerDay - 1) /\ c.minute \in 0..(MinutesPerHour - 1)
             /\ c.second \in 0..(SecondsPerMinute - 1) /\ c.nanos = nanos
             /\ CivilFromDays(DaysFromCivil(c.year, c.month, c.day)) = <<c.year, c.month, c.day>>
             /\ UnixOfCivil(c) = u
<1> DEFINE days == FloorDiv(u, SecondsPerDay)
           sod == u - days * SecondsPerDay
           date == CivilFromDays(days)
           hour == MinutesPerHour * SecondsPerMinute
           h == sod \div hour
           m == (sod % hour) \div SecondsPerMinute
           s == sod % SecondsPerMinute
           c == CivilOfUnix(u, nanos)
<1>1. /\ HoursPerDay \in Nat \ {0} /\ MinutesPerHour \in Nat \ {0}
      /\ SecondsPerMinute \in Nat \ {0} /\ SecondsPerDay \in Nat \ {0}
  BY Constants
<1>2. days = u \div SecondsPerDay
  BY <1>1, DivModFloors
<1>3. days \in Int /\ sod \in 0..(SecondsPerDay - 1) /\ u = days * SecondsPerDay + sod
  <2>1. /\ u \div SecondsPerDay \in Int /\ u % SecondsPerDay \in 0..(SecondsPerDay - 1)
        /\ u = (u \div SecondsPerDay) * SecondsPerDay + (u % SecondsPerDay)
    BY <1>1, DivisionOf
  <2>2. sod = u - (u \div SecondsPerDay) * SecondsPerDay
    BY <1>2
  <2>3. (u \div SecondsPerDay) * SecondsPerDay \in Int
    BY <1>1, <2>1
  <2> HIDE DEF sod, days
  <2>4. QED
    BY <1>1, <1>2, <2>1, <2>2, <2>3
<1>4. c = [year |-> date[1], month |-> date[2], day |-> date[3], hour |-> h,
           minute |-> m, second |-> s, nanos |-> nanos]
  BY DEF CivilOfUnix
<1> HIDE DEF days, sod
<1>5. /\ date[1] \in Int /\ date[2] \in 1..12 /\ date[3] \in 1..31
      /\ DaysFromCivil(date[1], date[2], date[3]) = days
      /\ date = <<date[1], date[2], date[3]>>
  BY <1>3, CivilDate
<1>6. CivilFromDays(DaysFromCivil(date[1], date[2], date[3])) = <<date[1], date[2], date[3]>>
  BY <1>5
<1> HIDE DEF date
<1>7. /\ h \in 0..(HoursPerDay - 1) /\ m \in 0..(MinutesPerHour - 1)
      /\ s \in 0..(SecondsPerMinute - 1)
      /\ sod = (h * MinutesPerHour + m) * SecondsPerMinute + s
  BY <1>3, TimeOfDay
<1> HIDE DEF h, m, s, hour, c
<1>8. UnixOfCivil(c) = ((days * HoursPerDay + h) * MinutesPerHour + m) * SecondsPerMinute + s
  BY <1>4, <1>5 DEF UnixOfCivil
<1>9. ((days * HoursPerDay + h) * MinutesPerHour + m) * SecondsPerMinute + s
        = days * SecondsPerDay + ((h * MinutesPerHour + m) * SecondsPerMinute + s)
  BY <1>1, <1>3, <1>7 DEF SecondsPerDay
<1>10. UnixOfCivil(c) = u
  BY <1>3, <1>7, <1>8, <1>9
<1>11. CivilFromDays(DaysFromCivil(c.year, c.month, c.day)) = <<c.year, c.month, c.day>>
  BY <1>4, <1>6
<1>12. QED
  BY <1>4, <1>5, <1>7, <1>10, <1>11 DEF c

(* Every civil time that is made of a second is valid.                     *)
LEMMA CivilValid ==
  ASSUME NEW u \in Int, NEW nanos \in Int, 0 <= nanos, nanos < NsPerSecond
  PROVE  IsValid(CivilOfUnix(u, nanos))
<1> DEFINE c == CivilOfUnix(u, nanos)
<1>1. /\ c.year \in Int /\ c.month \in 1..12 /\ c.day \in 1..31
      /\ c.hour \in 0..(HoursPerDay - 1) /\ c.minute \in 0..(MinutesPerHour - 1)
      /\ c.second \in 0..(SecondsPerMinute - 1) /\ c.nanos = nanos
      /\ CivilFromDays(DaysFromCivil(c.year, c.month, c.day)) = <<c.year, c.month, c.day>>
  BY CivilTime
<1> HIDE DEF c
<1>2. /\ c.month \in 1..12 /\ c.day >= 1
      /\ c.hour < HoursPerDay /\ c.minute < MinutesPerHour /\ c.second <= SecondsPerMinute
      /\ c.nanos < NsPerSecond
  BY <1>1, Constants
<1>3. IsValid(c)
  BY <1>1, <1>2 DEF IsValid
<1>4. QED
  BY <1>3 DEF c

(* The label of a time.                                                    *)
LEMMA CivilOfTime ==
  ASSUME NEW x \in Int
  PROVE  LET s == x \div TicksPerSecond
             r == x % TicksPerSecond
         IN  /\ s \in Int /\ r \in 0..(TicksPerSecond - 1)
             /\ x = s * TicksPerSecond + r
             /\ r * NsPerTick \in Nat /\ r * NsPerTick < NsPerSecond
             /\ Civil(x) = CivilOfUnix(EpochUnix + s, r * NsPerTick)
<1> DEFINE s == x \div TicksPerSecond
           r == x % TicksPerSecond
<1>1. /\ TicksPerSecond \in Nat \ {0} /\ NsPerTick \in Nat \ {0} /\ NsPerSecond \in Nat \ {0}
  BY Constants
<1>2. s \in Int /\ r \in 0..(TicksPerSecond - 1) /\ x = s * TicksPerSecond + r
  BY <1>1, DivisionOf, Zenon
<1>3. x * NsPerTick \in Int
  BY <1>1
<1>4. DivMod(x * NsPerTick, NsPerSecond) = <<s, r * NsPerTick>>
  <2>1. /\ (x * NsPerTick) \div (TicksPerSecond * NsPerTick) = s
        /\ (x * NsPerTick) % (TicksPerSecond * NsPerTick) = r * NsPerTick
    BY <1>1, DivisionFactor
  <2>2. DivMod(x * NsPerTick, NsPerSecond)
          = <<(x * NsPerTick) \div NsPerSecond, (x * NsPerTick) % NsPerSecond>>
    BY <1>1, <1>3, DivModFloors
  <2>3. QED
    BY <2>1, <2>2 DEF NsPerSecond
<1> HIDE DEF s, r
<1>5. Civil(x) = CivilOfUnix(EpochUnix + s, r * NsPerTick)
  BY <1>4 DEF Civil
<1>6. r * NsPerTick + NsPerTick <= TicksPerSecond * NsPerTick
  BY <1>1, <1>2, MultiplyOrder
<1>7. r * NsPerTick \in Nat /\ r * NsPerTick < NsPerSecond
  BY <1>1, <1>2, <1>6 DEF NsPerSecond
<1>8. QED
  BY <1>2, <1>5, <1>7 DEF s, r

(* The time of a label.                                                    *)
LEMMA TimeOfCivil ==
  ASSUME NEW c, NEW k \in Int, NEW r \in Int,
         UnixOfCivil(c) = EpochUnix + k, c.nanos = r * NsPerTick
  PROVE  FromCivil(c) = k * TicksPerSecond + r
<1> DEFINE y == k * TicksPerSecond + r
<1>1. TicksPerSecond \in Nat \ {0} /\ NsPerTick \in Nat \ {0} /\ EpochUnix \in Int
  BY Constants
<1>2. y \in Int /\ y * NsPerTick \in Int
  BY <1>1
<1>3. (UnixOfCivil(c) - EpochUnix) * NsPerSecond + c.nanos = y * NsPerTick
  <2>1. UnixOfCivil(c) - EpochUnix = k
    BY <1>1
  <2>2. k * (TicksPerSecond * NsPerTick) + r * NsPerTick = y * NsPerTick
    BY <1>1
  <2>3. QED
    BY <2>1, <2>2 DEF NsPerSecond
<1> HIDE DEF y
<1>4. FloorDiv(y * NsPerTick, NsPerTick) = y
  <2>1. FloorDiv(y * NsPerTick, NsPerTick) = (y * NsPerTick) \div NsPerTick
    BY <1>1, <1>2, DivModFloors
  <2>2. 0 \in 0..(NsPerTick - 1) /\ y * NsPerTick + 0 = y * NsPerTick
    BY <1>1, <1>2
  <2>3. (y * NsPerTick + 0) \div NsPerTick = y
    BY <1>1, <1>2, <2>2, Division
  <2>4. QED
    BY <2>1, <2>2, <2>3
<1>5. QED
  BY <1>3, <1>4 DEF FromCivil, y

-----------------------------------------------------------------------------
(* A record with another value in one field.                               *)
LEMMA OtherNanos ==
  ASSUME NEW y, NEW month, NEW d, NEW h, NEW minute, NEW s, NEW n, NEW r
  PROVE  LET C(x) == [year |-> y, month |-> month, day |-> d, hour |-> h,
                      minute |-> minute, second |-> s, nanos |-> x]
         IN  [C(n) EXCEPT !.nanos = r] = C(r)
OBVIOUS

(* What labels keep and leave out of a civil time.                         *)
LEMMA LabelOfCivil ==
  ASSUME NEW c, NEW y, NEW month, NEW d, NEW h, NEW minute, NEW s, NEW n, NEW r,
         n \div NsPerTick = r, n = r * NsPerTick,
         c = [year |-> y, month |-> month, day |-> d, hour |-> h,
              minute |-> minute, second |-> s, nanos |-> n]
  PROVE  /\ [Label(c) EXCEPT !.nanos = @ * NsPerTick] = c
         /\ [Label(c) EXCEPT !.nanos = 0] = [c EXCEPT !.nanos = 0]
         /\ Label(c).nanos = r
<1> DEFINE C(x) == [year |-> y, month |-> month, day |-> d, hour |-> h,
                    minute |-> minute, second |-> s, nanos |-> x]
<1>1. Label(C(n)) = [C(n) EXCEPT !.nanos = n \div NsPerTick]
  BY DEF Label
<1>2. Label(C(n)) = C(r)
  BY <1>1, OtherNanos
<1>3. [C(r) EXCEPT !.nanos = @ * NsPerTick] = [C(r) EXCEPT !.nanos = n]
  OBVIOUS
<1>4. [C(r) EXCEPT !.nanos = n] = C(n)
  BY OtherNanos
<1>5. [C(r) EXCEPT !.nanos = 0] = [C(n) EXCEPT !.nanos = 0]
  BY OtherNanos
<1>6. C(r).nanos = r
  OBVIOUS
<1> HIDE DEF C
<1>7. /\ [Label(C(n)) EXCEPT !.nanos = @ * NsPerTick] = C(n)
      /\ [Label(C(n)) EXCEPT !.nanos = 0] = [C(n) EXCEPT !.nanos = 0]
      /\ Label(C(n)).nanos = r
  BY <1>2, <1>3, <1>4, <1>5, <1>6
<1>8. QED
  BY <1>7 DEF C

-----------------------------------------------------------------------------
(* The epoch is in 1980.                                                   *)
LEMMA EpochLabel == Civil(0).year = 1980
<1>1. /\ TicksPerSecond \in Nat \ {0} /\ SecondsPerDay \in Nat \ {0} /\ EpochUnix \in Int
  BY Constants
<1>2. 0 \div TicksPerSecond = 0 /\ 0 % TicksPerSecond = 0
  <2>1. 0 * TicksPerSecond + 0 = 0 /\ 0 \in 0..(TicksPerSecond - 1)
    BY <1>1
  <2>2. QED
    BY <1>1, <2>1, Division
<1>3. Civil(0) = CivilOfUnix(EpochUnix + 0, 0 * NsPerTick)
  BY <1>2, CivilOfTime
<1>4. FloorDiv(EpochUnix + 0, SecondsPerDay) = 3657
  <2>1. EpochUnix + 0 = 3657 * SecondsPerDay + 0 /\ 0 \in 0..(SecondsPerDay - 1)
    BY <1>1, SMT DEF EpochUnix
  <2>2. (3657 * SecondsPerDay + 0) \div SecondsPerDay = 3657
    BY <1>1, <2>1, Division, SMT
  <2>3. FloorDiv(EpochUnix + 0, SecondsPerDay) = (EpochUnix + 0) \div SecondsPerDay
    <3>1. EpochUnix + 0 \in Int
      BY <1>1
    <3>2. QED
      BY <1>1, <3>1, DivModFloors, Zenon
  <2>4. QED
    BY <2>1, <2>2, <2>3, SMT
<1>5. CivilFromDays(3657)[1] = 1980
  BY SMT DEF CivilFromDays, Quot
<1>6. QED
  BY <1>3, <1>4, <1>5, SMT DEF CivilOfUnix

(* The label is that of the time, and in scope.                            *)
GpsInv == t \in Int /\ label = Civil(t) /\ label.year \in Scope

LEMMA GpsInvariant == Spec => []GpsInv
<1>1. Init => GpsInv
  BY EpochLabel, GpsTimeAssumption DEF Init, GpsInv
<1>2. GpsInv /\ [Next]_vars => GpsInv'
  <2> SUFFICES ASSUME GpsInv, [Next]_vars PROVE GpsInv'
    OBVIOUS
  <2> USE DEF GpsInv
  <2>1. ASSUME NEW x \in Int, Move(x) PROVE GpsInv'
    BY <2>1 DEF Move
  <2>2. CASE Tick
    BY <2>1, <2>2 DEF Tick
  <2>3. CASE Day
    <3>1. PICK d \in {-1, 1} : Move(t + d * DayTicks)
      BY <2>3 DEF Day
    <3>2. t + d * DayTicks \in Int
      BY Constants
    <3>3. QED
      BY <2>1, <3>1, <3>2
  <2>4. CASE Cycle
    <3>1. PICK d \in {-1, 1} : Move(t + d * Cycles * 146097 * DayTicks)
      BY <2>4, SMT DEF Cycle
    <3>2. Cycles \in Int
      BY GpsTimeAssumption
    <3>3. d * Cycles \in Int
      BY <3>2
    <3>4. t + d * Cycles * 146097 * DayTicks \in Int
      BY <3>3, Constants, SMT
    <3>5. QED
      BY <2>1, <3>1, <3>4, SMT
  <2>5. CASE UNCHANGED vars
    BY <2>5 DEF vars
  <2>6. QED
    BY <2>2, <2>3, <2>4, <2>5 DEF Next
<1>3. QED
  BY <1>1, <1>2, PTL DEF Spec

(* The time is an integer, and the fields of its label are in range.       *)
THEOREM GpsTypeCorrect == Spec => []TypeOK
<1>1. GpsInv => TypeOK
  <2> SUFFICES ASSUME GpsInv PROVE TypeOK
    OBVIOUS
  <2> DEFINE s == t \div TicksPerSecond
             r == t % TicksPerSecond
  <2>1. /\ t \in Int /\ label = Civil(t) /\ label.year \in Scope /\ EpochUnix \in Int
    BY Constants DEF GpsInv
  <2>2. /\ s \in Int /\ r \in 0..(TicksPerSecond - 1)
        /\ r * NsPerTick \in Nat /\ r * NsPerTick < NsPerSecond
        /\ label = CivilOfUnix(EpochUnix + s, r * NsPerTick)
    BY <2>1, CivilOfTime
  <2> HIDE DEF s, r
  <2>3. EpochUnix + s \in Int /\ r * NsPerTick \in Int /\ 0 <= r * NsPerTick
    BY <2>1, <2>2
  <2>4. /\ label.month \in 1..12 /\ label.day \in 1..31
        /\ label.hour \in 0..(HoursPerDay - 1) /\ label.minute \in 0..(MinutesPerHour - 1)
        /\ label.second \in 0..(SecondsPerMinute - 1) /\ label.nanos = r * NsPerTick
    BY <2>2, <2>3, CivilTime
  <2>5. label.nanos \in {n * NsPerTick : n \in 0..TicksPerSecond - 1}
    BY <2>2, <2>4
  <2>6. QED
    BY <2>1, <2>4, <2>5 DEF TypeOK
<1>2. QED
  BY <1>1, GpsInvariant, PTL

(* Every time, however far from the epoch, is read back from its label as  *)
(* obsj, RINEX, the rinex crate and packet logs write it (obs.rs:110-170). *)
THEOREM GpsLabelsReadBack == Spec => []LabelsReadBack
<1>1. GpsInv => LabelsReadBack
  <2> SUFFICES ASSUME GpsInv PROVE LabelsReadBack
    OBVIOUS
  <2> DEFINE s == t \div TicksPerSecond
             r == t % TicksPerSecond
             nanos == r * NsPerTick
  <2>1. /\ t \in Int /\ label = Civil(t) /\ EpochUnix \in Int
        /\ TicksPerSecond \in Nat \ {0} /\ NsPerTick \in Nat \ {0} /\ NsPerSecond \in Nat \ {0}
    BY Constants DEF GpsInv
  <2>2. /\ s \in Int /\ r \in 0..(TicksPerSecond - 1) /\ t = s * TicksPerSecond + r
        /\ nanos \in Nat /\ nanos < NsPerSecond
        /\ label = CivilOfUnix(EpochUnix + s, nanos)
    BY <2>1, CivilOfTime
  <2> HIDE DEF s
  <2>3. EpochUnix + s \in Int /\ nanos \in Int /\ 0 <= nanos /\ r \in Int
    BY <2>1, <2>2
  <2> HIDE DEF r
  <2>5. nanos = r * NsPerTick
    OBVIOUS
  <2> HIDE DEF nanos
  <2>4. nanos \div NsPerTick = r
    <3>1. nanos = r * NsPerTick + 0 /\ 0 \in 0..(NsPerTick - 1)
      BY <2>1, <2>3, <2>5
    <3>2. (r * NsPerTick + 0) \div NsPerTick = r
      BY <2>1, <2>3, <3>1, Division
    <3>3. QED
      BY <3>1, <3>2
  <2>6. UnixOfCivil(label) = EpochUnix + s /\ label.nanos = nanos
    BY <2>2, <2>3, CivilTime
  <2>7. IsValid(label)
    BY <2>2, <2>3, CivilValid
  <2>8. [label EXCEPT !.nanos = 0] = CivilOfUnix(EpochUnix + s, 0)
    BY <2>2 DEF CivilOfUnix
  <2>9. /\ UnixOfCivil([label EXCEPT !.nanos = 0]) = EpochUnix + s
        /\ IsValid([label EXCEPT !.nanos = 0])
        /\ [label EXCEPT !.nanos = 0].nanos = 0
    <3>1. 0 \in Int /\ 0 <= 0 /\ 0 < NsPerSecond
      BY <2>1
    <3> DEFINE c == CivilOfUnix(EpochUnix + s, 0)
    <3>2. UnixOfCivil(c) = EpochUnix + s /\ IsValid(c) /\ c.nanos = 0
      BY <2>3, <3>1, CivilTime, CivilValid
    <3> HIDE DEF c
    <3>3. [label EXCEPT !.nanos = 0] = c
      BY <2>8 DEF c
    <3>4. QED
      BY <3>2, <3>3
  <2> DEFINE c0 == [label EXCEPT !.nanos = 0]
  <2>15. label = [year |-> label.year, month |-> label.month, day |-> label.day,
                  hour |-> label.hour, minute |-> label.minute,
                  second |-> label.second, nanos |-> nanos]
    BY <2>2 DEF CivilOfUnix
  <2>16. /\ [Label(label) EXCEPT !.nanos = @ * NsPerTick] = label
         /\ [Label(label) EXCEPT !.nanos = 0] = c0
         /\ Label(label).nanos = r
    <3>1. PICK y, month, d, h, minute, n :
            label = [year |-> y, month |-> month, day |-> d, hour |-> h,
                     minute |-> minute, second |-> n, nanos |-> nanos]
      BY <2>15
    <3>2. QED
      BY <2>4, <2>5, <3>1, LabelOfCivil DEF c0
  <2> HIDE DEF c0
  <2>17. UnixOfCivil(c0) = EpochUnix + s /\ IsValid(c0) /\ c0.nanos = 0
    BY <2>9 DEF c0
  <2>10. FromCivil(label) = t
    BY <2>2, <2>3, <2>5, <2>6, TimeOfCivil
  <2>11. ParseTime(Label(label)) = {t}
    BY <2>7, <2>10, <2>16 DEF ParseTime
  <2>12. ParseRinexTime(Label(label)) = {t}
    <3>1. 0 = 0 * NsPerTick
      BY <2>1
    <3>2. FromCivil(c0) = s * TicksPerSecond + 0
      BY <2>2, <2>17, <3>1, TimeOfCivil
    <3>3. s * TicksPerSecond + 0 + r = t
      BY <2>1, <2>2, <2>3
    <3>4. QED
      BY <2>16, <2>17, <3>2, <3>3 DEF ParseRinexTime
  <2>13. ASSUME NEW zone \in Zones
         PROVE  \E i \in ParseRfc3339(Civil(t + zone * TicksPerSecond), zone) :
                  /\ GpsNanos(i) = t * NsPerTick
                  /\ CivilOfInstant(i) = label
                  /\ ParseRunDate(RunDate(i)) = {[i EXCEPT !.nanos = 0]}
    <3> DEFINE x == t + zone * TicksPerSecond
               k == s + zone
               i == [secs |-> EpochUnix + s, nanos |-> nanos]
    <3>1. zone \in Int /\ k \in Int /\ x \in Int /\ x = k * TicksPerSecond + r
      BY <2>1, <2>2, GpsTimeAssumption
    <3> HIDE DEF k, x
    <3>2. x \div TicksPerSecond = k /\ x % TicksPerSecond = r
      BY <2>1, <2>2, <3>1, Division
    <3>3. Civil(x) = CivilOfUnix(EpochUnix + k, nanos)
      BY <2>5, <3>1, <3>2, CivilOfTime
    <3>4. EpochUnix + k \in Int
      BY <2>1, <3>1
    <3>5. /\ IsValid(Civil(x)) /\ Civil(x).nanos = nanos
          /\ UnixOfCivil(Civil(x)) = EpochUnix + k
      BY <2>2, <2>3, <3>3, <3>4, CivilTime, CivilValid
    <3>6. EpochUnix + k - zone = EpochUnix + s
      BY <2>1, <2>2, <3>1 DEF k
    <3>7. ParseRfc3339(Civil(x), zone) = {i}
      <4>1. InstantOfCivil(Civil(x)) = [secs |-> EpochUnix + k, nanos |-> nanos]
        BY <3>5 DEF InstantOfCivil
      <4> DEFINE j == [secs |-> EpochUnix + k, nanos |-> nanos]
      <4>2. [j EXCEPT !.secs = @ - zone] = i
        <5>1. j = [secs |-> EpochUnix + k, nanos |-> nanos]
          OBVIOUS
        <5> HIDE DEF j
        <5>2. PICK a : a = EpochUnix + k
          OBVIOUS
        <5>3. j = [secs |-> a, nanos |-> nanos]
          BY <5>1, <5>2
        <5>4. [j EXCEPT !.secs = @ - zone] = [secs |-> a - zone, nanos |-> nanos]
          <6> DEFINE shifted == [j EXCEPT !.secs = @ - zone]
          <6>1. shifted \in [secs : {a - zone}, nanos : {nanos}]
            BY <5>3, SMT
          <6> HIDE DEF shifted
          <6>2. shifted = [secs |-> a - zone, nanos |-> nanos]
            BY <6>1, SMT
          <6>3. QED
            BY <6>2 DEF shifted
        <5>5. a - zone = EpochUnix + s
          BY <2>1, <3>1, <3>4, <3>6, <5>2
        <5>6. QED
          BY <5>4, <5>5
      <4>3. InstantOfCivil(Civil(x)) = j
        BY <4>1
      <4> HIDE DEF i, j
      <4>4. QED
        BY <3>5, <4>2, <4>3 DEF ParseRfc3339
    <3>8. CivilOfInstant(i) = label
      BY <2>2 DEF CivilOfInstant
    <3>9. GpsNanos(i) = t * NsPerTick
      <4>1. i.secs - EpochUnix = s /\ i.nanos = r * NsPerTick
        BY <2>1, <2>2, <2>5
      <4>2. s * (TicksPerSecond * NsPerTick) + r * NsPerTick
              = (s * TicksPerSecond + r) * NsPerTick
        BY <2>1, <2>2, <2>3
      <4>3. QED
        BY <2>2, <4>1, <4>2 DEF GpsNanos, NsPerSecond
    <3>10. ParseRunDate(RunDate(i)) = {[i EXCEPT !.nanos = 0]}
      <4>1. RunDate(i) = c0
        BY <3>8 DEF RunDate, c0
      <4>2. InstantOfCivil(c0) = [i EXCEPT !.nanos = 0]
        BY <2>17 DEF InstantOfCivil
      <4>3. QED
        BY <2>17, <4>1, <4>2 DEF ParseRunDate
    <3>11. QED
      BY <3>7, <3>8, <3>9, <3>10 DEF x
  <2>14. QED
    BY <2>10, <2>11, <2>12, <2>13 DEF LabelsReadBack
<1>2. QED
  BY <1>1, GpsInvariant, PTL

-----------------------------------------------------------------------------
(* Days of the week, taken within the week.                                *)
LEMMA DivisionWithin ==
  ASSUME NEW x \in Int, NEW n \in Nat \ {0}, NEW b \in Nat \ {0}
  PROVE  (x % (n * b)) \div b = (x \div b) % n
<1> DEFINE c == n * b
           q == x \div c
           r == x % c
           d == r \div b
           e == r % b
<1>1. c \in Nat \ {0}
  BY ProductPositive
<1>2. q \in Int /\ r \in 0..(c - 1) /\ x = q * c + r
  <2> HIDE DEF c
  <2>1. QED
    BY <1>1, DivisionOf
<1> HIDE DEF q, r
<1>3. d \in Int /\ e \in 0..(b - 1) /\ r = d * b + e
  <2>1. r \in Int
    BY <1>1, <1>2
  <2>2. QED
    BY <2>1, DivisionOf
<1>4. d \in 0..(n - 1)
  <2>1. r \in Nat /\ r < n * b
    BY <1>1, <1>2
  <2>2. QED
    BY <2>1, QuotientBound
<1> HIDE DEF d, e
<1>5. x = (q * n + d) * b + e
  BY <1>2, <1>3
<1> DEFINE p == q * n + d
<1>6. p \in Int
  BY <1>2, <1>3
<1>7. x = p * b + e
  BY <1>5
<1> HIDE DEF p
<1>8. x \div b = p
  BY <1>3, <1>6, <1>7, Division
<1>9. p % n = d
  BY <1>2, <1>4, Division DEF p
<1>10. QED
  BY <1>8, <1>9 DEF d, r, c

(* Week and milliseconds of the week are those of the time, rounded down,  *)
(* before the epoch as well (obs.rs, gps_week_millis).                     *)
THEOREM GpsWeekTime == Spec => []WeekTime
<1>1. GpsInv => WeekTime
  <2> SUFFICES ASSUME GpsInv PROVE WeekTime
    OBVIOUS
  <2> DEFINE ms == t \div TicksPerMs
             b == SecondsPerDay * MsPerSecond
             week == ms \div MsPerWeek
             tow == ms % MsPerWeek
  <2>1. /\ t \in Int /\ TicksPerMs \in Nat \ {0} /\ NsPerTick \in Nat \ {0}
        /\ SecondsPerDay \in Nat \ {0} /\ MsPerSecond \in Nat \ {0}
        /\ DayTicks \in Nat \ {0} /\ MsPerWeek \in Nat \ {0}
    BY Constants DEF GpsInv
  <2>2. /\ ms \in Int /\ t % TicksPerMs \in 0..(TicksPerMs - 1)
        /\ t = ms * TicksPerMs + (t % TicksPerMs)
    BY <2>1, DivisionOf
  <2>3. b \in Nat \ {0}
    BY <2>1, ProductPositive
  <2>4. t \div (TicksPerMs * b) = ms \div b
    <3> HIDE DEF b
    <3>1. QED
      BY <2>1, <2>3, DivisionTwice
  <2> HIDE DEF ms
  <2>5. DivMod(t * NsPerTick, TicksPerMs * NsPerTick)[1] = ms
    <3> DEFINE x == t * NsPerTick
               y == TicksPerMs * NsPerTick
    <3>1. x \in Int /\ y \in Nat \ {0}
      BY <2>1, ProductPositive
    <3>2. x \div y = t \div TicksPerMs
      BY <2>1, DivisionFactor
    <3> HIDE DEF x, y
    <3>3. DivMod(x, y) = <<x \div y, x % y>>
      BY <3>1, DivModFloors
    <3>4. QED
      BY <3>2, <3>3 DEF x, y, ms
  <2>6. week \in Int /\ tow \in 0..(MsPerWeek - 1) /\ ms = week * MsPerWeek + tow
    BY <2>1, <2>2, DivisionOf
  <2>7. GpsWeekMillis(t) = <<week, tow>>
    BY <2>1, <2>2, <2>5, DivModFloors DEF GpsWeekMillis
  <2>8. tow \div b = FloorDiv(t, DayTicks) % 7
    <3>1. MsPerWeek = 7 * b
      BY <2>1 DEF MsPerWeek
    <3>2. DayTicks = TicksPerMs * b
      BY <2>1 DEF DayTicks, TicksPerSecond
    <3>3. FloorDiv(t, DayTicks) = ms \div b
      BY <2>1, <2>4, <3>2, DivModFloors
    <3> HIDE DEF b
    <3>4. (ms % (7 * b)) \div b = (ms \div b) % 7
      <4>1. PICK n \in Nat \ {0} : n = 7
        OBVIOUS
      <4>2. (ms % (n * b)) \div b = (ms \div b) % n
        BY <2>2, <2>3, DivisionWithin
      <4>3. n * b = 7 * b
        BY <4>1
      <4>4. QED
        BY <4>1, <4>2, <4>3
    <3>5. tow = ms % (7 * b)
      BY <3>1
    <3> HIDE DEF tow
    <3>6. QED
      BY <3>3, <3>4, <3>5
  <2> HIDE DEF week, tow
  <2>9. FromGpsWeekMillis(week, tow) = ms * TicksPerMs
    BY <2>6 DEF FromGpsWeekMillis
  <2>10. ms * TicksPerMs \in Int
    BY <2>1, <2>2
  <2>11. /\ FromGpsWeekMillis(week, tow) <= t
         /\ t < FromGpsWeekMillis(week, tow) + TicksPerMs
    BY <2>1, <2>2, <2>9, <2>10
  <2>12. QED
    BY <2>6, <2>7, <2>8, <2>11 DEF WeekTime
<1>2. QED
  BY <1>1, GpsInvariant, PTL

-----------------------------------------------------------------------------
(* The decimation grid.                                                    *)

(* The multiple of a unit that half a unit more rounds down to.            *)
LEMMA HalfUp ==
  ASSUME NEW u \in Nat \ {0}, NEW x \in Int, NEW p \in Int
  PROVE  (x + u \div 2) \div u = p <=>
           2 * (x - p * u) \in (1 - u)..(u - 1) \/ 2 * (p * u - x) = u
<1> DEFINE h == u \div 2
           y == x + h
<1>1. h \in Int /\ 2 * h <= u /\ u <= 2 * h + 1
  OBVIOUS
<1>2. y \in Int /\ y = x + h
  BY <1>1
<1> HIDE DEF h, y
<1>3. ASSUME y \div u = p
      PROVE  2 * (x - p * u) \in (1 - u)..(u - 1) \/ 2 * (p * u - x) = u
  <2> DEFINE g == p * u
             r == y % u
  <2>1. r \in 0..(u - 1) /\ y = g + r
    BY <1>2, <1>3, DivisionOf
  <2>2. g \in Int
    OBVIOUS
  <2> HIDE DEF g, r
  <2>3. 2 * (x - g) \in (1 - u)..(u - 1) \/ 2 * (g - x) = u
    BY <1>1, <1>2, <2>1, <2>2
  <2>4. QED
    BY <2>3 DEF g
<1>4. ASSUME 2 * (x - p * u) \in (1 - u)..(u - 1) \/ 2 * (p * u - x) = u
      PROVE  y \div u = p
  <2> DEFINE g == p * u
             r == y - g
  <2>1. g \in Int
    OBVIOUS
  <2>2. 2 * (x - g) \in (1 - u)..(u - 1) \/ 2 * (g - x) = u
    BY <1>4
  <2>3. r \in 0..(u - 1) /\ y = g + r
    <3> HIDE DEF g
    <3>1. QED
      BY <1>1, <1>2, <2>1, <2>2
  <2> HIDE DEF r
  <2>4. QED
    BY <1>2, <2>3, Division
<1>5. QED
  BY <1>3, <1>4 DEF y, h

(* Rounding finds the nearest multiple of the unit, of two the one that is *)
(* further from zero.                                                      *)
LEMMA RoundedTo ==
  ASSUME NEW u \in Nat \ {0}, NEW x \in Int, NEW p \in Int
  PROVE  RoundTime(x, u) = p * u <=>
           \/ 2 * (x - p * u) \in (1 - u)..(u - 1)
           \/ x >= 0 /\ 2 * (p * u - x) = u
           \/ x < 0 /\ 2 * (x - p * u) = u
<1> DEFINE Up(y) == (y + u \div 2) \div u
<1>1. ASSUME NEW y \in Int, NEW q \in Int
      PROVE  /\ Up(y) \in Int
             /\ Up(y) * u = q * u <=> Up(y) = q
  <2>1. Up(y) \in Int
    OBVIOUS
  <2> DEFINE a == Up(y)
  <2> HIDE DEF a
  <2>2. a \in Int => (a * u = q * u <=> a = q)
    <3>1. 0 \in 0..(u - 1)
      OBVIOUS
    <3>2. ASSUME a \in Int, a * u = q * u PROVE a = q
      <4>1. a * u + 0 = q * u + 0
        BY <3>2
      <4>2. QED
        BY <3>1, <3>2, <4>1, DivisionUnique
    <3>3. QED
      BY <3>2
  <2>3. QED
    BY <2>1, <2>2 DEF a
<1>2. CASE x >= 0
  <2>1. RoundTime(x, u) = Up(x) * u
    BY <1>2 DEF RoundTime
  <2>2. RoundTime(x, u) = p * u <=> Up(x) = p
    BY <1>1, <2>1
  <2>3. Up(x) = p <=> 2 * (x - p * u) \in (1 - u)..(u - 1) \/ 2 * (p * u - x) = u
    BY HalfUp
  <2>4. QED
    BY <1>2, <2>2, <2>3
<1>3. CASE x < 0
  <2> DEFINE n == -x
             q == -p
             g == p * u
  <2>1. n \in Int /\ q \in Int /\ g \in Int /\ q * u = -g
    OBVIOUS
  <2>2. RoundTime(x, u) = -(Up(n) * u)
    BY <1>3 DEF RoundTime
  <2> HIDE DEF n, q
  <2>3. Up(n) = q <=> 2 * (n - q * u) \in (1 - u)..(u - 1) \/ 2 * (q * u - n) = u
    BY <2>1, HalfUp
  <2>4. Up(n) * u = q * u <=> Up(n) = q
    BY <1>1, <2>1
  <2>5. Up(n) * u \in Int
    BY <1>1, <2>1
  <2> HIDE DEF g, Up
  <2>6. RoundTime(x, u) = g <=> Up(n) = q
    BY <2>1, <2>2, <2>4, <2>5
  <2>7. n = -x
    BY DEF n
  <2>8. RoundTime(x, u) = g <=> 2 * (x - g) \in (1 - u)..(u - 1) \/ 2 * (x - g) = u
    BY <2>1, <2>3, <2>6, <2>7
  <2>9. QED
    BY <1>3, <2>1, <2>8 DEF g
<1>4. QED
  BY <1>2, <1>3

(* Every time has a multiple of the unit that it is rounded to.            *)
LEMMA RoundedSomewhere ==
  ASSUME NEW u \in Nat \ {0}, NEW x \in Int
  PROVE  \E p \in Int : RoundTime(x, u) = p * u
<1> DEFINE Up(y) == (y + u \div 2) \div u
<1>1. CASE x >= 0
  <2>1. Up(x) \in Int /\ RoundTime(x, u) = Up(x) * u
    BY <1>1 DEF RoundTime
  <2>2. QED
    BY <2>1
<1>2. CASE x < 0
  <2> DEFINE a == Up(-x)
  <2>1. a \in Int /\ RoundTime(x, u) = -(a * u)
    BY <1>2 DEF RoundTime
  <2> HIDE DEF a
  <2>2. -a \in Int /\ RoundTime(x, u) = (-a) * u
    BY <2>1
  <2>3. QED
    BY <2>2
<1>3. QED
  BY <1>1, <1>2

(* Decimation keeps the epochs next to a multiple of the interval, and no  *)
(* others, when the interval is a multiple of the unit of rounding         *)
(* (sink.rs, on_grid).                                                     *)
THEOREM GpsGridKept == Spec => []GridKept
<1>1. GpsInv => GridKept
  <2> DEFINE u == RoundUnit
             Near(g) == \/ 2 * (t - g) \in (1 - u)..(u - 1)
                        \/ t >= 0 /\ 2 * (g - t) = u
                        \/ t < 0 /\ 2 * (t - g) = u
  <2>1. ASSUME GpsInv, NEW interval \in 1..DayTicks, interval % u = 0
        PROVE  OnGrid(t, interval) <=> \E g \in t - u..t + u : g % interval = 0 /\ Near(g)
    <3>1. t \in Int /\ u \in Nat \ {0} /\ interval \in Nat \ {0}
      BY <2>1, Constants DEF GpsInv
    <3> HIDE DEF u
    <3>2. ASSUME NEW p \in Int
          PROVE  RoundTime(t, u) = p * u <=> Near(p * u)
      BY <3>1, RoundedTo
    <3>3. ASSUME OnGrid(t, interval)
          PROVE  \E g \in t - u..t + u : g % interval = 0 /\ Near(g)
      <4>1. PICK p \in Int : RoundTime(t, u) = p * u
        BY <3>1, RoundedSomewhere
      <4>2. PICK g \in Int : g = p * u
        BY <3>1, <4>1
      <4>3. g % interval = 0
        BY <3>3, <4>1, <4>2 DEF OnGrid, u
      <4>4. Near(g)
        BY <3>2, <4>1, <4>2
      <4>5. g \in t - u..t + u
        BY <3>1, <4>2, <4>4
      <4>6. QED
        BY <4>3, <4>4, <4>5
    <3>4. ASSUME NEW g \in t - u..t + u, g % interval = 0, Near(g)
          PROVE  OnGrid(t, interval)
      <4> DEFINE a == g \div interval
                 b == interval \div u
      <4>1. g \in Int
        BY <3>1
      <4>2. a \in Int /\ b \in Int /\ g = a * interval /\ interval = b * u
        <5>1. g = a * interval + (g % interval) /\ a \in Int
          BY <3>1, <4>1, DivisionOf
        <5>2. interval = b * u + (interval % u) /\ b \in Int
          BY <3>1, DivisionOf
        <5>3. a * interval \in Int /\ b * u \in Int
          BY <3>1, <5>1, <5>2
        <5> HIDE DEF a, b
        <5>4. QED
          BY <2>1, <3>1, <3>4, <4>1, <5>1, <5>2, <5>3
      <4> HIDE DEF a, b
      <4>3. PICK p \in Int : p = a * b
        BY <4>2
      <4>4. g = p * u
        BY <3>1, <4>2, <4>3
      <4>5. RoundTime(t, u) = g
        BY <3>2, <3>4, <4>4
      <4>6. QED
        BY <3>4, <4>5 DEF OnGrid, u
    <3>5. QED
      BY <3>3, <3>4
  <2> HIDE DEF Near
  <2>2. QED
    BY <2>1 DEF GridKept, Near
<1>2. QED
  BY <1>1, GpsInvariant, PTL
-----------------------------------------------------------------------------

(* The length of a month that is counted from March, but for February.     *)
MarchLength(mp) == IF mp \in {1, 3, 6, 8} THEN 30 ELSE 31

(* The day of the month of a day of the year.                              *)
LEMMA DayOfMonth ==
  ASSUME NEW doy \in Int, 0 <= doy, doy <= 365
  PROVE  LET mp == (5 * doy + 2) \div 153
             d == doy - MonthStart(mp) + 1
         IN  /\ mp \in 0..11 /\ d \in 1..MarchLength(mp)
             /\ mp = 11 => d <= 29 /\ (d = 29 => doy = 365)
BY SMT DEF MonthStart, MarchLength

(* The month of the year of a day of a month.                              *)
LEMMA MonthOfDay ==
  ASSUME NEW mp \in 0..11, NEW d \in 1..MarchLength(mp), mp = 11 => d <= 29
  PROVE  LET doy == MonthStart(mp) + d - 1
         IN  /\ doy \in Int /\ 0 <= doy /\ doy <= 365
             /\ (5 * doy + 2) \div 153 = mp
             /\ doy = 365 => mp = 11 /\ d = 29
BY SMT DEF MonthStart, MarchLength

(* The day n and the date c have an era, a year of it, and a month and a   *)
(* day of that year, counted from March, in common.                        *)
Has(n, c, era, yoe, mp, d) ==
  /\ era \in Int /\ yoe \in Int /\ 0 <= yoe /\ yoe <= 399
  /\ mp \in 0..11 /\ d \in 1..MarchLength(mp)
  /\ mp = 11 => d <= 29 /\ (d = 29 => Cal!Leap(yoe + 1))
  /\ n = era * 146097 + YearStart(yoe) + MonthStart(mp) + d - 1 - 719468
  /\ c = <<yoe + era * 400 + (IF mp < 10 THEN 0 ELSE 1),
           IF mp < 10 THEN mp + 3 ELSE mp - 9, d>>

Dated(n, c) == \E era, yoe, mp, d \in Int : Has(n, c, era, yoe, mp, d)

(* The years of an era follow one another.                                 *)
LEMMA YearStarts ==
  ASSUME NEW yoe \in Int, 0 <= yoe, yoe <= 399
  PROVE  /\ YearStart(yoe) \in Int /\ 0 <= YearStart(yoe) /\ YearStart(yoe) <= 145731
         /\ yoe < 399 =>
              YearStart(yoe + 1) = YearStart(yoe) + (IF Cal!Leap(yoe + 1) THEN 366 ELSE 365)
         /\ yoe = 399 => YearStart(yoe) + 366 = 146097 /\ Cal!Leap(yoe + 1)
<1> DEFINE q == yoe \div 4
           c == yoe \div 100
           r == (yoe + 1) \div 4
           e == (yoe + 1) \div 100
<1>1. q \in Int /\ 4 * q <= yoe /\ yoe < 4 * q + 4
  BY SMT
<1>2. c \in Int /\ 100 * c <= yoe /\ yoe < 100 * c + 100
  BY SMT
<1>3. r \in Int /\ 4 * r <= yoe + 1 /\ yoe + 1 < 4 * r + 4
  BY SMT
<1>4. e \in Int /\ 100 * e <= yoe + 1 /\ yoe + 1 < 100 * e + 100
  BY SMT
<1>5. YearStart(yoe) = 365 * yoe + q - c /\ YearStart(yoe + 1) = 365 * (yoe + 1) + r - e
  BY SMT DEF YearStart
<1>6. /\ (yoe + 1) % 4 = 0 <=> yoe + 1 = 4 * r
      /\ (yoe + 1) % 100 = 0 <=> yoe + 1 = 100 * e
      /\ (yoe + 1) % 400 = 0 <=> yoe = 399
  BY SMT
<1> HIDE DEF q, c, r, e
<1>7. YearStart(yoe) \in Int /\ 0 <= YearStart(yoe) /\ YearStart(yoe) <= 145731
  <2>1. q \in 0..99 /\ c \in 0..3 /\ (yoe = 399 => c = 3)
    BY <1>1, <1>2, SMT
  <2>2. QED
    BY <1>2, <1>5, <2>1, SMT
<1>8. r = (IF yoe + 1 = 4 * r THEN q + 1 ELSE q) /\ e = (IF yoe + 1 = 100 * e THEN c + 1 ELSE c)
  BY <1>1, <1>2, <1>3, <1>4, SMT
<1>9. Cal!Leap(yoe + 1) <=> yoe + 1 = 4 * r /\ (yoe + 1 # 100 * e \/ yoe = 399)
  BY <1>6, SMT DEF Cal!Leap
<1>10. yoe + 1 = 100 * e => yoe + 1 = 4 * r
  BY <1>3, <1>4, SMT
<1>11. yoe < 399 => YearStart(yoe + 1) = YearStart(yoe) + (IF Cal!Leap(yoe + 1) THEN 366 ELSE 365)
  BY <1>1, <1>2, <1>5, <1>8, <1>9, <1>10, SMT
<1>12. yoe = 399 => YearStart(yoe) + 366 = 146097 /\ Cal!Leap(yoe + 1)
  BY <1>1, <1>2, <1>3, <1>5, <1>9, SMT
<1>13. QED
  BY <1>7, <1>11, <1>12, SMT

(* An era moves no leap year.                                              *)
LEMMA LeapEras ==
  ASSUME NEW era \in Int, NEW yoe \in Int, 0 <= yoe, yoe <= 399
  PROVE  Cal!Leap(yoe + era * 400 + 1) <=> Cal!Leap(yoe + 1)
BY SMT DEF Cal!Leap

(* The date that the code gives a day is dated so.                         *)
LEMMA CivilDated ==
  ASSUME NEW n \in Int
  PROVE  Dated(n, CivilFromDays(n))
<1> DEFINE z == n + 719468
           era == Quot(IF z >= 0 THEN z ELSE z - 146096, 146097)
           doe == z - era * 146097
           yoe == (doe - doe \div 1460 + doe \div 36524 - doe \div 146096) \div 365
           doy == doe - (365 * yoe + yoe \div 4 - yoe \div 100)
           mp == (5 * doy + 2) \div 153
           m == IF mp < 10 THEN mp + 3 ELSE mp - 9
           d == doy - (153 * mp + 2) \div 5 + 1
           year == yoe + era * 400 + (IF m <= 2 THEN 1 ELSE 0)
<1>1. CivilFromDays(n) = <<year, m, d>>
  BY SMT DEF CivilFromDays
<1>2. era \in Int /\ 0 <= doe /\ doe <= 146096
  BY SMT DEF Quot
<1>3. z = doe + era * 146097 /\ n = z - 719468 /\ doe \in Int
  BY <1>2, SMT
<1> HIDE DEF z, era, doe
<1>4. /\ yoe \in Int /\ 0 <= yoe /\ yoe <= 399
      /\ doy \in Int /\ 0 <= doy /\ doy <= 365 /\ doy = doe - YearStart(yoe)
      /\ (doy = 365 => Cal!Leap(yoe + 1))
  BY <1>2, <1>3, YearOfEra, SMT DEF YearStart
<1> HIDE DEF yoe, doy
<1>5. YearStart(yoe) \in Int
  BY <1>4, SMT DEF YearStart
<1>6. /\ mp \in 0..11 /\ d \in 1..MarchLength(mp)
      /\ mp = 11 => d <= 29 /\ (d = 29 => doy = 365)
      /\ doy = MonthStart(mp) + d - 1
  <2>1. d = doy - MonthStart(mp) + 1
    BY SMT DEF MonthStart
  <2>2. /\ mp \in 0..11 /\ d \in 1..MarchLength(mp)
        /\ mp = 11 => d <= 29 /\ (d = 29 => doy = 365)
    BY <1>4, <2>1, DayOfMonth, SMT
  <2>3. MonthStart(mp) \in Int
    BY <2>2, SMT DEF MonthStart
  <2> HIDE DEF mp, d
  <2>4. QED
    BY <1>4, <2>1, <2>2, <2>3, SMT
<1> HIDE DEF d, mp
<1>7. m <= 2 <=> ~(mp < 10)
  BY <1>6, SMT
<1>8. MonthStart(mp) \in Int /\ mp \in Int /\ d \in Int
  BY <1>6, SMT DEF MonthStart, MarchLength
<1>9. Has(n, <<year, m, d>>, era, yoe, mp, d)
  <2>1. n = era * 146097 + YearStart(yoe) + MonthStart(mp) + d - 1 - 719468
    BY <1>2, <1>3, <1>4, <1>5, <1>6, <1>8, SMT
  <2>2. year = yoe + era * 400 + (IF mp < 10 THEN 0 ELSE 1)
    BY <1>7, SMT
  <2>3. QED
    BY <1>2, <1>4, <1>6, <2>1, <2>2, SMT DEF Has
<1>10. yoe \in Int
  BY <1>4, SMT
<1> HIDE DEF m, year
<1>11. Dated(n, <<year, m, d>>)
  BY <1>2, <1>8, <1>9, <1>10, SMT DEF Dated
<1>12. QED
  BY <1>1, <1>11, SMT

(* A date of the calendar is that of the day that the code gives it.       *)
LEMMA DateDated ==
  ASSUME NEW year \in Int, NEW m \in 1..12, NEW d \in 1..Cal!MonthLength(year, m)
  PROVE  Dated(DaysFromCivil(year, m, d), <<year, m, d>>)
<1> DEFINE y == year - (IF m <= 2 THEN 1 ELSE 0)
           era == Quot(IF y >= 0 THEN y ELSE y - 399, 400)
           yoe == y - era * 400
           mp == IF m > 2 THEN m - 3 ELSE m + 9
<1>1. DaysFromCivil(year, m, d)
        = era * 146097 + yoe * 365 + yoe \div 4 - yoe \div 100
          + ((153 * mp + 2) \div 5 + d - 1) - 719468
  BY SMT DEF DaysFromCivil
<1>2. era \in Int /\ yoe \in Int /\ 0 <= yoe /\ yoe <= 399
  BY SMT DEF Quot
<1>3. y = yoe + era * 400 /\ y \in Int
  BY <1>2, SMT
<1>4. mp \in 0..11 /\ m = (IF mp < 10 THEN mp + 3 ELSE mp - 9) /\ (m <= 2 <=> ~(mp < 10))
  BY SMT
<1>5. year = yoe + era * 400 + (IF mp < 10 THEN 0 ELSE 1)
  BY <1>2, <1>3, <1>4, SMT
<1>6. d \in Int /\ d \in 1..MarchLength(mp) /\ (mp = 11 => d <= 29)
  BY <1>4, SMT DEF Cal!MonthLength, MarchLength
<1>7. mp = 11 /\ d = 29 => Cal!Leap(yoe + 1)
  <2>1. ASSUME mp = 11, d = 29 PROVE Cal!Leap(year) /\ year = yoe + era * 400 + 1
    BY <1>4, <1>5, <2>1, SMT DEF Cal!MonthLength
  <2>2. QED
    BY <1>2, <2>1, LeapEras, SMT
<1> HIDE DEF era, yoe, mp
<1>8. DaysFromCivil(year, m, d) = era * 146097 + YearStart(yoe) + MonthStart(mp) + d - 1 - 719468
  BY <1>1, <1>2, <1>4, <1>6, SMT DEF YearStart, MonthStart
<1>9. Has(DaysFromCivil(year, m, d), <<year, m, d>>, era, yoe, mp, d)
  BY <1>2, <1>4, <1>5, <1>6, <1>7, <1>8, SMT DEF Has
<1>10. yoe \in Int /\ mp \in Int
  BY <1>2, <1>4, SMT
<1>11. QED
  BY <1>2, <1>6, <1>9, <1>10, Zenon DEF Dated

(* What is dated so is a date of the calendar.                             *)
LEMMA DatedReal ==
  ASSUME NEW n, NEW c, Dated(n, c)
  PROVE  /\ c = <<c[1], c[2], c[3]>> /\ c[1] \in Int /\ c[2] \in 1..12
         /\ c[3] \in 1..Cal!MonthLength(c[1], c[2])
<1>1. PICK era \in Int, yoe \in Int, mp \in Int, d \in Int : Has(n, c, era, yoe, mp, d)
  BY SMT DEF Dated
<1> DEFINE year == yoe + era * 400 + (IF mp < 10 THEN 0 ELSE 1)
           m == IF mp < 10 THEN mp + 3 ELSE mp - 9
<1>2. c = <<year, m, d>>
  BY <1>1, SMT DEF Has
<1>3. /\ 0 <= yoe /\ yoe <= 399 /\ mp \in 0..11 /\ d \in 1..MarchLength(mp)
      /\ mp = 11 => d <= 29 /\ (d = 29 => Cal!Leap(yoe + 1))
  BY <1>1, SMT DEF Has
<1>4. year \in Int /\ m \in 1..12
  BY <1>3, SMT
<1>5. Cal!Leap(yoe + era * 400 + 1) <=> Cal!Leap(yoe + 1)
  BY <1>3, LeapEras, SMT
<1>6. d \in 1..Cal!MonthLength(year, m)
  <2>1. CASE mp = 11
    <3>1. m = 2 /\ year = yoe + era * 400 + 1
      BY <2>1, SMT
    <3>2. Cal!MonthLength(year, m) = IF Cal!Leap(yoe + 1) THEN 29 ELSE 28
      BY <1>5, <3>1, SMT DEF Cal!MonthLength
    <3>3. QED
      BY <1>3, <2>1, <3>2, SMT
  <2>2. CASE mp # 11
    <3>1. Cal!MonthLength(year, m) = MarchLength(mp)
      <4> HIDE DEF year
      <4>1. QED
        BY <1>3, <2>2, SMT DEF Cal!MonthLength, MarchLength
    <3>2. QED
      BY <1>3, <3>1, SMT
  <2>3. QED
    BY <2>1, <2>2, SMT
<1>7. QED
  BY <1>2, <1>4, <1>6, SMT

(* No day has two dates.                                                   *)
LEMMA DatedOnce ==
  ASSUME NEW n, NEW a, NEW b, Dated(n, a), Dated(n, b)
  PROVE  a = b
<1>1. PICK era \in Int, yoe \in Int, mp \in Int, d \in Int : Has(n, a, era, yoe, mp, d)
  BY SMT DEF Dated
<1>2. PICK e \in Int, y \in Int, p \in Int, h \in Int : Has(n, b, e, y, p, h)
  BY SMT DEF Dated
<1> DEFINE doy == MonthStart(mp) + d - 1
           dof == MonthStart(p) + h - 1
<1>3. /\ 0 <= yoe /\ yoe <= 399 /\ mp \in 0..11 /\ d \in 1..MarchLength(mp)
      /\ mp = 11 => d <= 29 /\ (d = 29 => Cal!Leap(yoe + 1))
      /\ n = era * 146097 + YearStart(yoe) + MonthStart(mp) + d - 1 - 719468
  BY <1>1, SMT DEF Has
<1>4. /\ 0 <= y /\ y <= 399 /\ p \in 0..11 /\ h \in 1..MarchLength(p)
      /\ p = 11 => h <= 29 /\ (h = 29 => Cal!Leap(y + 1))
      /\ n = e * 146097 + YearStart(y) + MonthStart(p) + h - 1 - 719468
  BY <1>2, SMT DEF Has
<1>5. /\ doy \in Int /\ 0 <= doy /\ doy <= 365 /\ (5 * doy + 2) \div 153 = mp
      /\ doy = 365 => Cal!Leap(yoe + 1)
  BY <1>3, MonthOfDay, SMT
<1>6. /\ dof \in Int /\ 0 <= dof /\ dof <= 365 /\ (5 * dof + 2) \div 153 = p
      /\ dof = 365 => Cal!Leap(y + 1)
  BY <1>4, MonthOfDay, SMT
<1>7. MonthStart(mp) \in Int /\ MonthStart(p) \in Int
  BY SMT DEF MonthStart
<1>8. d = doy - MonthStart(mp) + 1 /\ h = dof - MonthStart(p) + 1
  BY <1>7, SMT
<1>9. /\ n = era * 146097 + YearStart(yoe) + doy - 719468
      /\ n = e * 146097 + YearStart(y) + dof - 719468
  BY <1>3, <1>4, <1>7, YearStarts, SMT
<1> HIDE DEF doy, dof
<1>10. ASSUME NEW x \in Int, 0 <= x, x <= 399, NEW k \in Int, 0 <= k, k <= 365, k = 365 => Cal!Leap(x + 1)
       PROVE  /\ YearStart(x) \in Int
              /\ 0 <= YearStart(x) /\ YearStart(x) + k < 146097
              /\ x < 399 => YearStart(x) + k < YearStart(x + 1)
  BY <1>10, YearStarts, SMT
<1>11. era = e /\ YearStart(yoe) + doy = YearStart(y) + dof
  <2>1. YearStart(yoe) \in Int /\ 0 <= YearStart(yoe) + doy /\ YearStart(yoe) + doy < 146097
    BY <1>3, <1>5, <1>10, SMT
  <2>2. YearStart(y) \in Int /\ 0 <= YearStart(y) + dof /\ YearStart(y) + dof < 146097
    BY <1>4, <1>6, <1>10, SMT
  <2>3. QED
    BY <1>5, <1>6, <1>9, <2>1, <2>2, SMT
<1>12. ASSUME NEW u \in Int, NEW v \in Int, 0 <= u, u < v, v <= 399
       PROVE  YearStart(u + 1) <= YearStart(v)
  BY <1>12, SMT DEF YearStart
<1>13. yoe = y
  <2>1. CASE yoe < y
    BY <1>3, <1>4, <1>5, <1>6, <1>10, <1>11, <1>12, <2>1, SMT
  <2>2. CASE y < yoe
    BY <1>3, <1>4, <1>5, <1>6, <1>10, <1>11, <1>12, <2>2, SMT
  <2>3. QED
    BY <2>1, <2>2, SMT
<1>14. doy = dof
  <2>1. YearStart(yoe) \in Int
    BY <1>3, <1>5, <1>10, SMT
  <2>2. QED
    BY <1>5, <1>6, <1>11, <1>13, <2>1, SMT
<1>15. mp = p /\ d = h
  BY <1>5, <1>6, <1>8, <1>14, SMT
<1>16. QED
  BY <1>1, <1>2, <1>11, <1>13, <1>15, SMT DEF Has

(* The length of the month of a day.                                       *)
LEMMA MonthLengths ==
  ASSUME NEW n, NEW c, NEW era \in Int, NEW yoe \in Int, NEW mp \in Int, NEW d \in Int,
         Has(n, c, era, yoe, mp, d)
  PROVE  Cal!MonthLength(c[1], c[2]) =
           IF mp = 11 THEN IF Cal!Leap(yoe + 1) THEN 29 ELSE 28 ELSE MarchLength(mp)
<1> DEFINE year == yoe + era * 400 + (IF mp < 10 THEN 0 ELSE 1)
           m == IF mp < 10 THEN mp + 3 ELSE mp - 9
<1>1. c = <<year, m, d>> /\ mp \in 0..11 /\ 0 <= yoe /\ yoe <= 399
  BY SMT DEF Has
<1>2. c[1] = year /\ c[2] = m
  BY <1>1, SMT
<1>3. CASE mp = 11
  <2>1. m = 2 /\ year = yoe + era * 400 + 1
    BY <1>3, SMT
  <2>2. Cal!Leap(yoe + era * 400 + 1) <=> Cal!Leap(yoe + 1)
    <3>1. 0 <= yoe /\ yoe <= 399
      BY <1>1, SMT
    <3> HIDE DEF year, m
    <3>2. QED
      BY <3>1, LeapEras, Zenon
  <2>3. c[1] = yoe + era * 400 + 1 /\ c[2] = 2
    BY <1>2, <2>1, SMT
  <2> HIDE DEF year, m
  <2>4. QED
    BY <1>3, <2>2, <2>3, SMT DEF Cal!MonthLength
<1>4. CASE mp # 11
  <2> HIDE DEF year
  <2>1. QED
    BY <1>1, <1>2, <1>4, SMT DEF Cal!MonthLength, MarchLength
<1>5. QED
  BY <1>3, <1>4, SMT

(* The date of the next day by the calendar.                               *)
NextDate(c) ==
  IF c[3] < Cal!MonthLength(c[1], c[2]) THEN <<c[1], c[2], c[3] + 1>>
  ELSE IF c[2] < 12 THEN <<c[1], c[2] + 1, 1>>
  ELSE <<c[1] + 1, 1, 1>>

(* The next day has the next date.                                         *)
LEMMA NextDated ==
  ASSUME NEW n \in Int, NEW c, Dated(n, c)
  PROVE  Dated(n + 1, NextDate(c))
<1>1. PICK era \in Int, yoe \in Int, mp \in Int, d \in Int : Has(n, c, era, yoe, mp, d)
  BY SMT DEF Dated
<1> DEFINE year == yoe + era * 400 + (IF mp < 10 THEN 0 ELSE 1)
           m == IF mp < 10 THEN mp + 3 ELSE mp - 9
           long == IF mp = 11 THEN IF Cal!Leap(yoe + 1) THEN 29 ELSE 28 ELSE MarchLength(mp)
<1>2. /\ 0 <= yoe /\ yoe <= 399 /\ mp \in 0..11 /\ d \in 1..MarchLength(mp)
      /\ mp = 11 => d <= 29 /\ (d = 29 => Cal!Leap(yoe + 1))
      /\ n = era * 146097 + YearStart(yoe) + MonthStart(mp) + d - 1 - 719468
      /\ c = <<year, m, d>>
  BY <1>1, SMT DEF Has
<1>3. c[1] = year /\ c[2] = m /\ c[3] = d
  BY <1>2, SMT
<1>4. NextDate(c) = IF d < long THEN <<year, m, d + 1>>
                    ELSE IF m < 12 THEN <<year, m + 1, 1>> ELSE <<year + 1, 1, 1>>
  <2>1. Cal!MonthLength(c[1], c[2]) = long
    BY <1>1, MonthLengths, SMT
  <2> HIDE DEF long, year, m
  <2>2. QED
    BY <1>3, <2>1, SMT DEF NextDate
<1>5. /\ YearStart(yoe) \in Int
      /\ yoe < 399 => YearStart(yoe + 1) = YearStart(yoe) + (IF Cal!Leap(yoe + 1) THEN 366 ELSE 365)
      /\ yoe = 399 => YearStart(yoe) + 366 = 146097 /\ Cal!Leap(yoe + 1)
  BY <1>2, YearStarts, SMT
<1>6. /\ MonthStart(mp) \in Int /\ MonthStart(0) = 0 /\ MonthStart(11) = 337
      /\ mp < 11 => MonthStart(mp + 1) = MonthStart(mp) + MarchLength(mp)
  BY <1>2, SMT DEF MonthStart, MarchLength
<1>7. /\ MarchLength(mp) \in 30..31 /\ MarchLength(0) = 31 /\ MarchLength(11) = 31
      /\ MarchLength(mp + 1) \in 30..31
  BY SMT DEF MarchLength
<1>8. CASE d < long
  <2>1. NextDate(c) = <<year, m, d + 1>>
    BY <1>4, <1>8, SMT
  <2>2. d + 1 \in 1..MarchLength(mp) /\ (mp = 11 => d + 1 <= 29 /\ (d + 1 = 29 => Cal!Leap(yoe + 1)))
    BY <1>2, <1>7, <1>8, SMT
  <2>3. n + 1 = era * 146097 + YearStart(yoe) + MonthStart(mp) + (d + 1) - 1 - 719468
    BY <1>2, <1>5, <1>6, SMT
  <2>4. Has(n + 1, NextDate(c), era, yoe, mp, d + 1)
    BY <1>2, <2>1, <2>2, <2>3, SMT DEF Has
  <2>5. QED
    BY <2>4, SMT DEF Dated
<1>9. CASE ~(d < long) /\ mp < 11
  <2>1. d = MarchLength(mp)
    BY <1>2, <1>7, <1>9, SMT
  <2>2. NextDate(c) = <<yoe + era * 400 + (IF mp + 1 < 10 THEN 0 ELSE 1),
                        IF mp + 1 < 10 THEN mp + 1 + 3 ELSE mp + 1 - 9, 1>>
    BY <1>2, <1>4, <1>9, SMT
  <2>3. n + 1 = era * 146097 + YearStart(yoe) + MonthStart(mp + 1) + 1 - 1 - 719468
    BY <1>2, <1>5, <1>6, <1>9, <2>1, SMT
  <2>4. mp + 1 \in 0..11 /\ 1 \in 1..MarchLength(mp + 1)
    BY <1>2, <1>7, <1>9, SMT
  <2>5. Has(n + 1, NextDate(c), era, yoe, mp + 1, 1)
    BY <1>2, <2>2, <2>3, <2>4, SMT DEF Has
  <2>6. QED
    BY <2>5, SMT DEF Dated
<1>10. CASE ~(d < long) /\ mp = 11
  <2>1. d = (IF Cal!Leap(yoe + 1) THEN 29 ELSE 28) /\ year = yoe + era * 400 + 1 /\ m = 2
    BY <1>2, <1>10, SMT
  <2>2. NextDate(c) = <<yoe + 1 + era * 400, 3, 1>>
    BY <1>2, <1>4, <1>10, <2>1, SMT
  <2>3. 1 \in 1..MarchLength(0)
    BY <1>7, SMT
  <2>4. CASE yoe < 399
    <3>1. n + 1 = era * 146097 + YearStart(yoe + 1) + MonthStart(0) + 1 - 1 - 719468
      BY <1>2, <1>5, <1>6, <1>10, <2>1, <2>4, SMT
    <3>2. Has(n + 1, NextDate(c), era, yoe + 1, 0, 1)
      BY <1>2, <2>2, <2>3, <2>4, <3>1, SMT DEF Has
    <3>3. QED
      BY <3>2, SMT DEF Dated
  <2>5. CASE yoe = 399
    <3>1. n + 1 = (era + 1) * 146097 + YearStart(0) + MonthStart(0) + 1 - 1 - 719468
      <4>1. YearStart(0) = 0
        BY SMT DEF YearStart
      <4>2. QED
        BY <1>2, <1>5, <1>6, <1>10, <2>1, <2>5, <4>1, SMT
    <3>2. NextDate(c) = <<0 + (era + 1) * 400, 3, 1>>
      BY <2>2, <2>5, SMT
    <3>3. Has(n + 1, NextDate(c), era + 1, 0, 0, 1)
      BY <2>3, <3>1, <3>2, SMT DEF Has
    <3>4. QED
      BY <3>3, SMT DEF Dated
  <2>6. QED
    BY <1>2, <2>4, <2>5, SMT
<1>11. QED
  BY <1>2, <1>8, <1>9, <1>10, SMT

(* The calendar repeats.                                                   *)
LEMMA CycleDated ==
  ASSUME NEW n \in Int, NEW c, NEW k \in Int, Dated(n, c)
  PROVE  Dated(n + k * 146097, <<c[1] + 400 * k, c[2], c[3]>>)
<1>1. PICK era \in Int, yoe \in Int, mp \in Int, d \in Int : Has(n, c, era, yoe, mp, d)
  BY SMT DEF Dated
<1>2. YearStart(yoe) \in Int /\ MonthStart(mp) \in Int
  BY SMT DEF YearStart, MonthStart
<1>3. Has(n + k * 146097, <<c[1] + 400 * k, c[2], c[3]>>, era + k, yoe, mp, d)
  BY <1>1, <1>2, SMT DEF Has
<1>4. QED
  BY <1>3, SMT DEF Dated

(* The code's dates follow the calendar.                                   *)
LEMMA DatesFollow ==
  ASSUME NEW n \in Int
  PROVE  /\ CivilFromDays(n + 1) = NextDate(CivilFromDays(n))
         /\ \A k \in Int : CivilFromDays(n + k * 146097) =
              <<CivilFromDays(n)[1] + 400 * k, CivilFromDays(n)[2], CivilFromDays(n)[3]>>
<1>1. Dated(n, CivilFromDays(n)) /\ Dated(n + 1, CivilFromDays(n + 1))
  BY CivilDated, SMT
<1>2. CivilFromDays(n + 1) = NextDate(CivilFromDays(n))
  BY <1>1, NextDated, DatedOnce, SMT
<1>3. ASSUME NEW k \in Int
      PROVE  CivilFromDays(n + k * 146097) =
               <<CivilFromDays(n)[1] + 400 * k, CivilFromDays(n)[2], CivilFromDays(n)[3]>>
  <2>1. n + k * 146097 \in Int
    BY SMT
  <2>2. Dated(n + k * 146097, CivilFromDays(n + k * 146097))
    BY <2>1, CivilDated, SMT
  <2> DEFINE c == CivilFromDays(n)
  <2>3. Dated(n + k * 146097, <<c[1] + 400 * k, c[2], c[3]>>)
    BY <1>1, CycleDated, SMT
  <2> HIDE DEF c
  <2>4. PICK x : x = n + k * 146097
    BY SMT
  <2>5. Dated(x, CivilFromDays(x)) /\ Dated(x, <<c[1] + 400 * k, c[2], c[3]>>)
    BY <2>2, <2>3, <2>4, SMT
  <2>6. CivilFromDays(x) = <<c[1] + 400 * k, c[2], c[3]>>
    BY <2>5, DatedOnce, SMT
  <2>7. QED
    BY <2>4, <2>6, SMT DEF c
<1>4. QED
  BY <1>2, <1>3, SMT

-----------------------------------------------------------------------------
(* Civil times.                                                            *)

(* A civil time by its fields.                                             *)
Fields(y, month, d, h, minute, s, n) ==
  [year |-> y, month |-> month, day |-> d, hour |-> h, minute |-> minute, second |-> s, nanos |-> n]

(* A record of singletons is the civil time of their members.              *)
LEMMA FieldsOf ==
  ASSUME NEW y, NEW month, NEW d, NEW h, NEW minute, NEW s, NEW n, NEW x,
         x \in [year : {y}, month : {month}, day : {d}, hour : {h}, minute : {minute},
                second : {s}, nanos : {n}]
  PROVE  x = Fields(y, month, d, h, minute, s, n)
BY SMT DEF Fields

(* A civil time with other fields.                                         *)
WithDay(c, a) == [c EXCEPT !.day = a]
WithMonth(c, a, b) == [c EXCEPT !.day = a, !.month = b]
WithDate(c, a, b, e) == [c EXCEPT !.day = a, !.month = b, !.year = e]
WithYear(c, a) == [c EXCEPT !.year = a]
WithMinute(c, a) == [c EXCEPT !.minute = a]
WithHour(c, a, b) == [c EXCEPT !.minute = a, !.hour = b]
WithNanos(c, a) == [c EXCEPT !.nanos = a]
WithSecond(c, a, b) == [c EXCEPT !.nanos = a, !.second = b]

(* The fields of a date, replaced.                                         *)
LEMMA OtherDate ==
  ASSUME NEW y, NEW month, NEW d, NEW h, NEW minute, NEW s, NEW n, NEW a, NEW b, NEW e
  PROVE  LET c == Fields(y, month, d, h, minute, s, n)
         IN  /\ WithDay(c, a) = Fields(y, month, a, h, minute, s, n)
             /\ WithMonth(c, a, b) = Fields(y, b, a, h, minute, s, n)
             /\ WithDate(c, a, b, e) = Fields(e, b, a, h, minute, s, n)
             /\ WithYear(c, a) = Fields(a, month, d, h, minute, s, n)
<1> DEFINE c == Fields(y, month, d, h, minute, s, n)
<1>1. WithDay(c, a) = Fields(y, month, a, h, minute, s, n)
  BY DEF WithDay, Fields
<1>2. WithMonth(c, a, b) = Fields(y, b, a, h, minute, s, n)
  <2> DEFINE x == [c EXCEPT !.day = a, !.month = b]
  <2>1. x \in [year : {y}, month : {b}, day : {a}, hour : {h}, minute : {minute},
               second : {s}, nanos : {n}]
    BY DEF Fields
  <2> HIDE DEF x
  <2>2. x = Fields(y, b, a, h, minute, s, n)
    BY <2>1, FieldsOf
  <2>3. QED
    BY <2>2 DEF x, WithMonth
<1>3. WithDate(c, a, b, e) = Fields(e, b, a, h, minute, s, n)
  <2> DEFINE x == [c EXCEPT !.day = a, !.month = b, !.year = e]
  <2>1. x \in [year : {e}, month : {b}, day : {a}, hour : {h}, minute : {minute},
               second : {s}, nanos : {n}]
    BY DEF Fields
  <2> HIDE DEF x
  <2>2. x = Fields(e, b, a, h, minute, s, n)
    BY <2>1, FieldsOf
  <2>3. QED
    BY <2>2 DEF x, WithDate
<1>4. WithYear(c, a) = Fields(a, month, d, h, minute, s, n)
  BY DEF WithYear, Fields
<1>5. QED
  BY <1>1, <1>2, <1>3, <1>4, Zenon

(* The fields of a time of day, replaced.                                  *)
LEMMA OtherTime ==
  ASSUME NEW y, NEW month, NEW d, NEW h, NEW minute, NEW s, NEW n, NEW a, NEW b
  PROVE  LET c == Fields(y, month, d, h, minute, s, n)
         IN  /\ WithMinute(c, a) = Fields(y, month, d, h, a, s, n)
             /\ WithHour(c, a, b) = Fields(y, month, d, b, a, s, n)
             /\ WithNanos(c, a) = Fields(y, month, d, h, minute, s, a)
             /\ WithSecond(c, a, b) = Fields(y, month, d, h, minute, b, a)
<1> DEFINE c == Fields(y, month, d, h, minute, s, n)
<1>1. WithMinute(c, a) = Fields(y, month, d, h, a, s, n)
  BY DEF WithMinute, Fields
<1>2. WithHour(c, a, b) = Fields(y, month, d, b, a, s, n)
  <2> DEFINE x == [c EXCEPT !.minute = a, !.hour = b]
  <2>1. x \in [year : {y}, month : {month}, day : {d}, hour : {b}, minute : {a},
               second : {s}, nanos : {n}]
    BY DEF Fields
  <2> HIDE DEF x
  <2>2. x = Fields(y, month, d, b, a, s, n)
    BY <2>1, FieldsOf
  <2>3. QED
    BY <2>2 DEF x, WithHour
<1>3. WithNanos(c, a) = Fields(y, month, d, h, minute, s, a)
  BY DEF WithNanos, Fields
<1>4. WithSecond(c, a, b) = Fields(y, month, d, h, minute, b, a)
  <2> DEFINE x == [c EXCEPT !.nanos = a, !.second = b]
  <2>1. x \in [year : {y}, month : {month}, day : {d}, hour : {h}, minute : {minute},
               second : {b}, nanos : {a}]
    BY DEF Fields
  <2> HIDE DEF x
  <2>2. x = Fields(y, month, d, h, minute, b, a)
    BY <2>1, FieldsOf
  <2>3. QED
    BY <2>2 DEF x, WithSecond
<1>5. QED
  BY <1>1, <1>2, <1>3, <1>4, Zenon

(* The fields of a civil time.                                             *)
LEMMA FieldsAre ==
  ASSUME NEW y, NEW month, NEW d, NEW h, NEW minute, NEW s, NEW n, NEW c,
         c = Fields(y, month, d, h, minute, s, n)
  PROVE  /\ c.year = y /\ c.month = month /\ c.day = d /\ c.hour = h /\ c.minute = minute
         /\ c.second = s /\ c.nanos = n
BY DEF Fields

(* Some cycles later only the year is another.                             *)
LEMMA CycleFields ==
  ASSUME NEW y, NEW month, NEW d, NEW h, NEW minute, NEW s, NEW n, NEW k
  PROVE  Cal!CyclesLater(Fields(y, month, d, h, minute, s, n), k)
           = Fields(y + 400 * k, month, d, h, minute, s, n)
<1> DEFINE c == Fields(y, month, d, h, minute, s, n)
<1>1. c.year = y
  BY FieldsAre
<1>2. ASSUME NEW a PROVE WithYear(c, a) = Fields(a, month, d, h, minute, s, n)
  BY OtherDate, SMT
<1> HIDE DEF c
<1>3. Cal!CyclesLater(c, k) = WithYear(c, c.year + 400 * k)
  BY Zenon DEF Cal!CyclesLater, WithYear
<1>4. Cal!CyclesLater(c, k) = Fields(y + 400 * k, month, d, h, minute, s, n)
  BY <1>1, <1>2, <1>3, Zenon
<1>5. QED
  BY <1>4 DEF c

(* A day later only the date is another.                                   *)
LEMMA DayFields ==
  ASSUME NEW y, NEW month, NEW d, NEW h, NEW minute, NEW s, NEW n
  PROVE  Cal!DayLater(Fields(y, month, d, h, minute, s, n))
           = Fields(NextDate(<<y, month, d>>)[1], NextDate(<<y, month, d>>)[2],
                    NextDate(<<y, month, d>>)[3], h, minute, s, n)
<1> DEFINE c == Fields(y, month, d, h, minute, s, n)
           date == NextDate(<<y, month, d>>)
<1>1. c.year = y /\ c.month = month /\ c.day = d
  BY FieldsAre
<1>2. ASSUME NEW a, NEW b, NEW e
      PROVE  /\ WithDay(c, a) = Fields(y, month, a, h, minute, s, n)
             /\ WithMonth(c, a, b) = Fields(y, b, a, h, minute, s, n)
             /\ WithDate(c, a, b, e) = Fields(e, b, a, h, minute, s, n)
  BY OtherDate, SMT
<1> HIDE DEF c
<1>3. Cal!DayLater(c) =
        IF c.day < Cal!MonthLength(c.year, c.month) THEN WithDay(c, c.day + 1)
        ELSE IF c.month < 12 THEN WithMonth(c, 1, c.month + 1)
        ELSE WithDate(c, 1, 1, c.year + 1)
  BY Zenon DEF Cal!DayLater, WithDay, WithMonth, WithDate
<1>4. /\ WithDay(c, c.day + 1) = Fields(y, month, c.day + 1, h, minute, s, n)
      /\ WithMonth(c, 1, c.month + 1) = Fields(y, c.month + 1, 1, h, minute, s, n)
      /\ WithDate(c, 1, 1, c.year + 1) = Fields(c.year + 1, 1, 1, h, minute, s, n)
  BY <1>2, SMT
<1>5. date = IF d < Cal!MonthLength(y, month) THEN <<y, month, d + 1>>
             ELSE IF month < 12 THEN <<y, month + 1, 1>> ELSE <<y + 1, 1, 1>>
  BY SMT DEF NextDate
<1>6. Cal!DayLater(c) = Fields(date[1], date[2], date[3], h, minute, s, n)
  BY <1>1, <1>3, <1>4, <1>5, SMT
<1>7. QED
  BY <1>6 DEF c

(* A minute later: the minute, or the hour as well, or the day as well.    *)
LEMMA MinuteFields ==
  ASSUME NEW y, NEW month, NEW d, NEW h, NEW minute, NEW s, NEW n
  PROVE  Cal!MinuteLater(Fields(y, month, d, h, minute, s, n)) =
           IF minute + 1 < MinutesPerHour THEN Fields(y, month, d, h, minute + 1, s, n)
           ELSE IF h + 1 < HoursPerDay THEN Fields(y, month, d, h + 1, 0, s, n)
           ELSE Cal!DayLater(Fields(y, month, d, 0, 0, s, n))
<1> DEFINE c == Fields(y, month, d, h, minute, s, n)
<1>1. c.hour = h /\ c.minute = minute
  BY FieldsAre
<1>2. ASSUME NEW a, NEW b
      PROVE  /\ WithMinute(c, a) = Fields(y, month, d, h, a, s, n)
             /\ WithHour(c, a, b) = Fields(y, month, d, b, a, s, n)
  BY OtherTime, SMT
<1> HIDE DEF c
<1>3. Cal!MinuteLater(c) =
        IF c.minute + 1 < MinutesPerHour THEN WithMinute(c, c.minute + 1)
        ELSE IF c.hour + 1 < HoursPerDay THEN WithHour(c, 0, c.hour + 1)
        ELSE Cal!DayLater(WithHour(c, 0, 0))
  BY Zenon DEF Cal!MinuteLater, WithMinute, WithHour
<1>4. Cal!MinuteLater(c) =
        IF minute + 1 < MinutesPerHour THEN Fields(y, month, d, h, minute + 1, s, n)
        ELSE IF h + 1 < HoursPerDay THEN Fields(y, month, d, h + 1, 0, s, n)
        ELSE Cal!DayLater(Fields(y, month, d, 0, 0, s, n))
  BY <1>1, <1>2, <1>3, Zenon
<1>5. QED
  BY <1>4 DEF c

(* A tick later: the fraction, or the second as well, or the minute.       *)
LEMMA TickFields ==
  ASSUME NEW y, NEW month, NEW d, NEW h, NEW minute, NEW s, NEW n
  PROVE  Cal!TickLater(Fields(y, month, d, h, minute, s, n)) =
           IF n + NsPerTick < NsPerSecond THEN Fields(y, month, d, h, minute, s, n + NsPerTick)
           ELSE IF s + 1 < SecondsPerMinute THEN Fields(y, month, d, h, minute, s + 1, 0)
           ELSE Cal!MinuteLater(Fields(y, month, d, h, minute, 0, 0))
<1> DEFINE c == Fields(y, month, d, h, minute, s, n)
<1>1. c.second = s /\ c.nanos = n
  BY FieldsAre
<1>2. ASSUME NEW a, NEW b
      PROVE  /\ WithNanos(c, a) = Fields(y, month, d, h, minute, s, a)
             /\ WithSecond(c, a, b) = Fields(y, month, d, h, minute, b, a)
  BY OtherTime, SMT
<1> HIDE DEF c
<1>3. Cal!TickLater(c) =
        IF c.nanos + NsPerTick < NsPerSecond THEN WithNanos(c, c.nanos + NsPerTick)
        ELSE IF c.second + 1 < SecondsPerMinute THEN WithSecond(c, 0, c.second + 1)
        ELSE Cal!MinuteLater(WithSecond(c, 0, 0))
  BY Zenon DEF Cal!TickLater, WithNanos, WithSecond
<1>4. Cal!TickLater(c) =
        IF n + NsPerTick < NsPerSecond THEN Fields(y, month, d, h, minute, s, n + NsPerTick)
        ELSE IF s + 1 < SecondsPerMinute THEN Fields(y, month, d, h, minute, s + 1, 0)
        ELSE Cal!MinuteLater(Fields(y, month, d, h, minute, 0, 0))
  BY <1>1, <1>2, <1>3, Zenon
<1>5. QED
  BY <1>4 DEF c

(* A digit below another makes a number within their product.              *)
LEMMA PlaceValue ==
  ASSUME NEW a \in Nat \ {0}, NEW b \in Nat \ {0}, NEW q \in 0..(a - 1), NEW r \in 0..(b - 1)
  PROVE  q * b + r \in 0..(a * b - 1)
<1>1. q * b + b <= a * b
  BY MultiplyOrder
<1>2. q * b \in Nat /\ a * b \in Nat
  OBVIOUS
<1>3. QED
  BY <1>1, <1>2

(* The fields of a time of day are those that it is made of.               *)
LEMMA DayTime ==
  ASSUME NEW h \in 0..(HoursPerDay - 1), NEW m \in 0..(MinutesPerHour - 1),
         NEW s \in 0..(SecondsPerMinute - 1)
  PROVE  LET sod == (h * MinutesPerHour + m) * SecondsPerMinute + s
             hour == MinutesPerHour * SecondsPerMinute
         IN  /\ sod \in 0..(SecondsPerDay - 1)
             /\ sod \div hour = h
             /\ (sod % hour) \div SecondsPerMinute = m
             /\ sod % SecondsPerMinute = s
<1>1. /\ HoursPerDay \in Nat \ {0} /\ MinutesPerHour \in Nat \ {0}
      /\ SecondsPerMinute \in Nat \ {0} /\ SecondsPerDay \in Nat \ {0}
  BY Constants
<1> DEFINE hour == MinutesPerHour * SecondsPerMinute
           rest == m * SecondsPerMinute + s
           sod == (h * MinutesPerHour + m) * SecondsPerMinute + s
           minutes == h * MinutesPerHour + m
<1>2. rest \in 0..(hour - 1) /\ hour \in Nat \ {0}
  BY <1>1, PlaceValue, ProductPositive
<1>3. sod = h * hour + rest /\ minutes \in Int
  BY <1>1
<1>4. SecondsPerDay = HoursPerDay * hour
  BY <1>1 DEF SecondsPerDay
<1>5. sod = minutes * SecondsPerMinute + s
  OBVIOUS
<1>6. rest \div SecondsPerMinute = m
  BY <1>1, Division
<1> HIDE DEF hour, rest, sod, minutes
<1>7. sod \in 0..(SecondsPerDay - 1)
  BY <1>1, <1>2, <1>3, <1>4, PlaceValue
<1>8. sod \div hour = h /\ sod % hour = rest
  BY <1>1, <1>2, <1>3, Division
<1>9. sod % SecondsPerMinute = s
  BY <1>1, <1>3, <1>5, Division
<1>10. QED
  BY <1>6, <1>7, <1>8, <1>9 DEF sod, hour

(* A civil time by its day, and the time that it is the label of.          *)
At(n, h, m, s, r) ==
  Fields(CivilFromDays(n)[1], CivilFromDays(n)[2], CivilFromDays(n)[3], h, m, s, r * NsPerTick)

(* The day of the epoch. *)
EpochDay == 3657

(* The days of 400 years. *)
CycleDays == 146097

(* The second since the epoch, and the time, of a day and a time of day.   *)
SecondAt(n, h, m, s) ==
  (n - EpochDay) * SecondsPerDay + ((h * MinutesPerHour + m) * SecondsPerMinute + s)

TimeAt(n, h, m, s, r) == SecondAt(n, h, m, s) * TicksPerSecond + r

(* A day and a time within it.                                             *)
InDay(n, h, m, s, r) ==
  /\ n \in Int /\ h \in 0..(HoursPerDay - 1) /\ m \in 0..(MinutesPerHour - 1)
  /\ s \in 0..(SecondsPerMinute - 1) /\ r \in 0..(TicksPerSecond - 1)

(* Its label has that day and time of day.                                 *)
LEMMA CivilAt ==
  ASSUME NEW n, NEW h, NEW m, NEW s, NEW r, InDay(n, h, m, s, r)
  PROVE  TimeAt(n, h, m, s, r) \in Int /\ Civil(TimeAt(n, h, m, s, r)) = At(n, h, m, s, r)
<1> DEFINE sod == (h * MinutesPerHour + m) * SecondsPerMinute + s
           hour == MinutesPerHour * SecondsPerMinute
           k == SecondAt(n, h, m, s)
           x == TimeAt(n, h, m, s, r)
           u == EpochUnix + k
<1>1. SecondsPerDay \in Nat \ {0} /\ TicksPerSecond \in Nat \ {0} /\ EpochUnix \in Int
  BY Constants
<1>2. /\ n \in Int /\ h \in 0..(HoursPerDay - 1) /\ m \in 0..(MinutesPerHour - 1)
      /\ s \in 0..(SecondsPerMinute - 1) /\ r \in 0..(TicksPerSecond - 1)
  BY DEF InDay
<1>3. /\ sod \in 0..(SecondsPerDay - 1) /\ sod \div hour = h
      /\ (sod % hour) \div SecondsPerMinute = m /\ sod % SecondsPerMinute = s
  BY <1>2, DayTime
<1>4. k = (n - EpochDay) * SecondsPerDay + sod
  BY DEF SecondAt
<1> HIDE DEF sod, hour, k
<1>5. k \in Int
  BY <1>1, <1>2, <1>3, <1>4, SMT DEF EpochDay
<1>6. x = k * TicksPerSecond + r /\ x \in Int
  BY <1>1, <1>2, <1>5, SMT DEF TimeAt, k
<1>7. u = n * SecondsPerDay + sod /\ u \in Int
  BY <1>1, <1>2, <1>3, <1>4, <1>5, SMT DEF EpochUnix, EpochDay
<1> HIDE DEF x, u
<1>8. x \div TicksPerSecond = k /\ x % TicksPerSecond = r
  BY <1>1, <1>2, <1>5, <1>6, Division
<1>9. Civil(x) = CivilOfUnix(u, r * NsPerTick)
  BY <1>6, <1>8, CivilOfTime DEF u
<1>10. FloorDiv(u, SecondsPerDay) = n /\ u - n * SecondsPerDay = sod
  <2>1. u \div SecondsPerDay = n
    BY <1>1, <1>2, <1>3, <1>7, Division
  <2>2. FloorDiv(u, SecondsPerDay) = u \div SecondsPerDay
    BY <1>1, <1>7, DivModFloors, Zenon
  <2>3. n * SecondsPerDay \in Int
    BY <1>1, <1>2
  <2>4. QED
    BY <1>3, <1>7, <2>1, <2>2, <2>3
<1>11. CivilOfUnix(u, r * NsPerTick) = At(n, h, m, s, r)
  BY <1>3, <1>10 DEF CivilOfUnix, At, Fields, hour
<1>12. QED
  BY <1>6, <1>9, <1>11 DEF x

(* Every time is that of a day and a time within it.                       *)
LEMMA SomeAt ==
  ASSUME NEW x \in Int
  PROVE  \E n, h, m, s, r : InDay(n, h, m, s, r) /\ x = TimeAt(n, h, m, s, r)
<1> DEFINE k == x \div TicksPerSecond
           r == x % TicksPerSecond
           e == k \div SecondsPerDay
           sod == k % SecondsPerDay
           hour == MinutesPerHour * SecondsPerMinute
           h == sod \div hour
           m == (sod % hour) \div SecondsPerMinute
           s == sod % SecondsPerMinute
           n == e + EpochDay
<1>1. SecondsPerDay \in Nat \ {0} /\ TicksPerSecond \in Nat \ {0}
  BY Constants
<1>2. k \in Int /\ r \in 0..(TicksPerSecond - 1) /\ x = k * TicksPerSecond + r
  BY <1>1, DivisionOf, Zenon
<1> HIDE DEF k, r
<1>3. e \in Int /\ sod \in 0..(SecondsPerDay - 1) /\ k = e * SecondsPerDay + sod
  BY <1>1, <1>2, DivisionOf, Zenon
<1> HIDE DEF e, sod
<1>4. /\ h \in 0..(HoursPerDay - 1) /\ m \in 0..(MinutesPerHour - 1)
      /\ s \in 0..(SecondsPerMinute - 1)
      /\ sod = (h * MinutesPerHour + m) * SecondsPerMinute + s
  BY <1>3, TimeOfDay
<1> HIDE DEF hour, h, m, s
<1>5. n \in Int /\ n - EpochDay = e
  BY <1>3, SMT DEF EpochDay
<1> HIDE DEF n
<1>6. k = SecondAt(n, h, m, s)
  BY <1>3, <1>4, <1>5 DEF SecondAt
<1>7. InDay(n, h, m, s, r) /\ x = TimeAt(n, h, m, s, r)
  BY <1>2, <1>4, <1>5, <1>6 DEF InDay, TimeAt
<1>8. QED
  BY <1>7

-----------------------------------------------------------------------------
(* Whole days move the day number.                                         *)
LEMMA DaysAway ==
  ASSUME NEW n, NEW h, NEW m, NEW s, NEW r, InDay(n, h, m, s, r), NEW j \in Int
  PROVE  /\ InDay(n + j, h, m, s, r)
         /\ TimeAt(n + j, h, m, s, r) = TimeAt(n, h, m, s, r) + j * DayTicks
<1> DEFINE sod == (h * MinutesPerHour + m) * SecondsPerMinute + s
           e == n - EpochDay
<1>1. SecondsPerDay \in Nat \ {0} /\ TicksPerSecond \in Nat \ {0}
  BY Constants
<1>2. sod \in 0..(SecondsPerDay - 1) /\ r \in 0..(TicksPerSecond - 1) /\ n \in Int
  BY DayTime DEF InDay
<1>3. SecondAt(n + j, h, m, s) = ((n + j) - EpochDay) * SecondsPerDay + sod
  BY DEF SecondAt
<1>4. TimeAt(n, h, m, s, r) = (e * SecondsPerDay + sod) * TicksPerSecond + r
  BY DEF TimeAt, SecondAt
<1>5. e \in Int /\ (n + j) - EpochDay = e + j
  BY <1>2, SMT DEF EpochDay
<1> HIDE DEF sod, e
<1>6. PICK a \in Int, b \in Int : a = e * SecondsPerDay + sod /\ b = j * SecondsPerDay
  BY <1>1, <1>2, <1>5
<1>7. (e + j) * SecondsPerDay + sod = a + b
  BY <1>1, <1>2, <1>5, <1>6
<1>8. (a + b) * TicksPerSecond = a * TicksPerSecond + b * TicksPerSecond
  BY <1>1
<1>9. b * TicksPerSecond = j * (SecondsPerDay * TicksPerSecond)
  BY <1>1, <1>6
<1>10. a * TicksPerSecond \in Int /\ b * TicksPerSecond \in Int
  BY <1>1
<1>11. ((e + j) * SecondsPerDay + sod) * TicksPerSecond + r
         = ((e * SecondsPerDay + sod) * TicksPerSecond + r) + j * (SecondsPerDay * TicksPerSecond)
  BY <1>2, <1>6, <1>7, <1>8, <1>9, <1>10
<1>12. InDay(n + j, h, m, s, r)
  BY DEF InDay
<1>13. QED
  BY <1>3, <1>4, <1>5, <1>11, <1>12, Zenon DEF TimeAt, DayTicks

(* The label one day, and some cycles, later.                              *)
LEMMA DayLabel ==
  ASSUME NEW x \in Int
  PROVE  /\ Civil(x + DayTicks) = Cal!DayLater(Civil(x))
         /\ \A k \in Int : Civil(x + k * CycleDays * DayTicks) = Cal!CyclesLater(Civil(x), k)
<1>1. PICK n, h, m, s, r : InDay(n, h, m, s, r) /\ x = TimeAt(n, h, m, s, r)
  BY SomeAt
<1>3. n \in Int
  BY <1>1 DEF InDay
<1>4. ASSUME NEW j \in Int
      PROVE  Civil(x + j * DayTicks) = At(n + j, h, m, s, r)
  <2>1. InDay(n + j, h, m, s, r) /\ TimeAt(n + j, h, m, s, r) = x + j * DayTicks
    BY <1>1, DaysAway
  <2>2. QED
    BY <2>1, CivilAt
<1>5. Civil(x) = At(n, h, m, s, r)
  BY <1>1, CivilAt
<1> DEFINE c == CivilFromDays(n)
<1>8. c = <<c[1], c[2], c[3]>>
  BY <1>3, CivilDate
<1>6. Civil(x + DayTicks) = Cal!DayLater(Civil(x))
  <2>1. x + 1 * DayTicks = x + DayTicks
    BY Constants
  <2>2. Civil(x + DayTicks) = At(n + 1, h, m, s, r)
    BY <1>4, <2>1
  <2>3. CivilFromDays(n + 1) = NextDate(c)
    BY <1>3, DatesFollow
  <2> HIDE DEF c
  <2>4. NextDate(c) = NextDate(<<c[1], c[2], c[3]>>)
    BY <1>8
  <2>5. PICK nanos, y, month, d :
          nanos = r * NsPerTick /\ y = c[1] /\ month = c[2] /\ d = c[3]
    OBVIOUS
  <2> DEFINE date == NextDate(<<y, month, d>>)
  <2>6. Cal!DayLater(Fields(y, month, d, h, m, s, nanos)) = Fields(date[1], date[2], date[3], h, m, s, nanos)
    BY DayFields, SMT
  <2>7. Civil(x) = Fields(y, month, d, h, m, s, nanos)
    BY <1>5, <2>5 DEF At, c
  <2>8. Civil(x + DayTicks) = Fields(date[1], date[2], date[3], h, m, s, nanos)
    BY <2>2, <2>3, <2>4, <2>5 DEF At
  <2>9. QED
    BY <2>6, <2>7, <2>8
<1>7. ASSUME NEW k \in Int
      PROVE  Civil(x + k * CycleDays * DayTicks) = Cal!CyclesLater(Civil(x), k)
  <2>1. k * CycleDays \in Int
    BY SMT DEF CycleDays
  <2>2. Civil(x + k * CycleDays * DayTicks) = At(n + k * CycleDays, h, m, s, r)
    BY <1>4, <2>1
  <2>3. CivilFromDays(n + k * CycleDays) = <<c[1] + 400 * k, c[2], c[3]>>
    BY <1>3, DatesFollow, SMT DEF CycleDays
  <2> HIDE DEF c
  <2>4. Cal!CyclesLater(Fields(c[1], c[2], c[3], h, m, s, r * NsPerTick), k)
          = Fields(c[1] + 400 * k, c[2], c[3], h, m, s, r * NsPerTick)
    <3>1. PICK y, month, d, nanos :
            y = c[1] /\ month = c[2] /\ d = c[3] /\ nanos = r * NsPerTick
      OBVIOUS
    <3>2. Cal!CyclesLater(Fields(y, month, d, h, m, s, nanos), k) = Fields(y + 400 * k, month, d, h, m, s, nanos)
      BY CycleFields, SMT
    <3>3. QED
      BY <3>1, <3>2, Zenon
  <2>5. Civil(x) = Fields(c[1], c[2], c[3], h, m, s, r * NsPerTick)
    BY <1>5 DEF At, c
  <2>6. Civil(x + k * CycleDays * DayTicks) = Fields(c[1] + 400 * k, c[2], c[3], h, m, s, r * NsPerTick)
    BY <2>2, <2>3, SMT DEF At
  <2>7. QED
    BY <2>4, <2>5, <2>6, Zenon
<1>9. QED
  BY <1>6, <1>7

(* A product with a next factor.                                           *)
LEMMA TicksBelow ==
  ASSUME NEW r \in 0..(TicksPerSecond - 1)
  PROVE  r * NsPerTick + NsPerTick < NsPerSecond <=> r + 1 < TicksPerSecond
<1>1. TicksPerSecond \in Nat \ {0} /\ NsPerTick \in Nat \ {0}
  BY Constants
<1>2. r * NsPerTick + NsPerTick = (r + 1) * NsPerTick /\ (r + 1) * NsPerTick \in Int
  BY <1>1
<1>3. NsPerSecond = TicksPerSecond * NsPerTick /\ NsPerSecond \in Int
  BY <1>1 DEF NsPerSecond
<1>4. CASE r + 1 < TicksPerSecond
  <2>1. (r + 1) * NsPerTick + NsPerTick <= TicksPerSecond * NsPerTick
    BY <1>1, <1>4, MultiplyOrder
  <2>2. QED
    BY <1>1, <1>2, <1>3, <1>4, <2>1
<1>5. CASE r + 1 = TicksPerSecond
  BY <1>1, <1>2, <1>3, <1>5
<1>6. QED
  BY <1>1, <1>4, <1>5

(* The carries of a second.                                                *)
LEMMA NextSecond ==
  ASSUME NEW n \in Int, NEW h \in 0..(HoursPerDay - 1), NEW m \in 0..(MinutesPerHour - 1),
         NEW s \in 0..(SecondsPerMinute - 1)
  PROVE  LET k == SecondAt(n, h, m, s)
         IN  /\ k \in Int
             /\ SecondAt(n, h, m, s + 1) = k + 1
             /\ s + 1 = SecondsPerMinute => SecondAt(n, h, m + 1, 0) = k + 1
             /\ s + 1 = SecondsPerMinute /\ m + 1 = MinutesPerHour => SecondAt(n, h + 1, 0, 0) = k + 1
             /\ s + 1 = SecondsPerMinute /\ m + 1 = MinutesPerHour /\ h + 1 = HoursPerDay
                  => SecondAt(n + 1, 0, 0, 0) = k + 1
<1> DEFINE D == SecondsPerDay
           M == MinutesPerHour
           S == SecondsPerMinute
           e == n - EpochDay
<1>1. D \in Int /\ M \in Int /\ S \in Int /\ HoursPerDay \in Int /\ D = HoursPerDay * M * S
  BY Constants DEF SecondsPerDay
<1>2. e \in Int /\ (n + 1) - EpochDay = e + 1
  BY SMT DEF EpochDay
<1>3. SecondAt(n, h, m, s) = e * D + ((h * M + m) * S + s)
  BY DEF SecondAt
<1>4. SecondAt(n, h, m, s + 1) = e * D + ((h * M + m) * S + (s + 1))
  BY DEF SecondAt
<1>5. SecondAt(n, h, m + 1, 0) = e * D + ((h * M + (m + 1)) * S + 0)
  BY DEF SecondAt
<1>6. SecondAt(n, h + 1, 0, 0) = e * D + (((h + 1) * M + 0) * S + 0)
  BY DEF SecondAt
<1>7. SecondAt(n + 1, 0, 0, 0) = (e + 1) * D + ((0 * M + 0) * S + 0)
  BY <1>2, Zenon DEF SecondAt
<1> HIDE DEF D, M, S, e
<1>8. h \in Int /\ m \in Int /\ s \in Int
  OBVIOUS
<1>9. PICK a \in Int, b \in Int : a = e * D /\ b = (h * M + m) * S
  BY <1>1, <1>2, <1>8
<1>10. /\ (h * M + (m + 1)) * S = b + S
       /\ m + 1 = M => ((h + 1) * M + 0) * S = b + S
       /\ m + 1 = M /\ h + 1 = HoursPerDay => b + S = D
       /\ (e + 1) * D = a + D
       /\ (0 * M + 0) * S = 0
  <2>1. (h * M + (m + 1)) * S = b + S
    BY <1>1, <1>8, <1>9
  <2>2. h * M + (m + 1) = (h * M + m) + 1 /\ (m + 1 = M => (h + 1) * M + 0 = h * M + (m + 1))
    BY <1>1, <1>8
  <2>3. m + 1 = M => ((h + 1) * M + 0) * S = b + S
    BY <2>1, <2>2
  <2>4. m + 1 = M /\ h + 1 = HoursPerDay => b + S = D
    <3>1. m + 1 = M /\ h + 1 = HoursPerDay => (h + 1) * M + 0 = HoursPerDay * M
      BY <1>1, <1>8
    <3>2. QED
      BY <1>1, <2>3, <3>1
  <2>5. (e + 1) * D = a + D
    BY <1>1, <1>2, <1>9
  <2>6. 0 * M + 0 = 0 /\ 0 * S = 0
    BY <1>1
  <2>7. QED
    BY <2>1, <2>3, <2>4, <2>5, <2>6
<1>11. /\ SecondAt(n, h, m, s) = a + (b + s)
       /\ SecondAt(n, h, m, s + 1) = a + (b + (s + 1))
       /\ SecondAt(n, h, m + 1, 0) = a + (b + S + 0)
       /\ m + 1 = M => SecondAt(n, h + 1, 0, 0) = a + (b + S + 0)
       /\ m + 1 = M /\ h + 1 = HoursPerDay => SecondAt(n + 1, 0, 0, 0) = a + (b + S) + (0 + 0)
  BY <1>3, <1>4, <1>5, <1>6, <1>7, <1>9, <1>10, Zenon
<1>12. s + 1 = S => s \in Int /\ S \in Int
  BY <1>1, <1>8
<1>13. QED
  BY <1>1, <1>8, <1>9, <1>11, SMT DEF S, M

(* The label one tick later.                                               *)
LEMMA TickLabel ==
  ASSUME NEW x \in Int
  PROVE  Civil(x + 1) = Cal!TickLater(Civil(x))
<1>1. PICK n, h, m, s, r : InDay(n, h, m, s, r) /\ x = TimeAt(n, h, m, s, r)
  BY SomeAt
<1>2. /\ HoursPerDay \in Nat \ {0} /\ MinutesPerHour \in Nat \ {0}
      /\ SecondsPerMinute \in Nat \ {0} /\ TicksPerSecond \in Nat \ {0} /\ NsPerTick \in Nat \ {0}
  BY Constants
<1>3. /\ n \in Int /\ h \in 0..(HoursPerDay - 1) /\ m \in 0..(MinutesPerHour - 1)
      /\ s \in 0..(SecondsPerMinute - 1) /\ r \in 0..(TicksPerSecond - 1)
  BY <1>1 DEF InDay
<1> DEFINE c == CivilFromDays(n)
           k == SecondAt(n, h, m, s)
           At0(h0, m0, s0, n0) == Fields(c[1], c[2], c[3], h0, m0, s0, n0)
<1>4. Civil(x) = At0(h, m, s, r * NsPerTick)
  BY <1>1, CivilAt DEF At
<1>5. Cal!TickLater(Civil(x)) =
        IF r + 1 < TicksPerSecond THEN At0(h, m, s, r * NsPerTick + NsPerTick)
        ELSE IF s + 1 < SecondsPerMinute THEN At0(h, m, s + 1, 0)
        ELSE IF m + 1 < MinutesPerHour THEN At0(h, m + 1, 0, 0)
        ELSE IF h + 1 < HoursPerDay THEN At0(h + 1, 0, 0, 0)
        ELSE Cal!DayLater(At0(0, 0, 0, 0))
  <2> HIDE DEF c
  <2>1. Cal!TickLater(Civil(x)) =
          IF r * NsPerTick + NsPerTick < NsPerSecond THEN At0(h, m, s, r * NsPerTick + NsPerTick)
          ELSE IF s + 1 < SecondsPerMinute THEN At0(h, m, s + 1, 0)
          ELSE Cal!MinuteLater(At0(h, m, 0, 0))
    BY <1>4, TickFields, Zenon
  <2>2. Cal!MinuteLater(At0(h, m, 0, 0)) =
          IF m + 1 < MinutesPerHour THEN At0(h, m + 1, 0, 0)
          ELSE IF h + 1 < HoursPerDay THEN At0(h + 1, 0, 0, 0)
          ELSE Cal!DayLater(At0(0, 0, 0, 0))
    BY MinuteFields, Zenon
  <2>3. r * NsPerTick + NsPerTick < NsPerSecond <=> r + 1 < TicksPerSecond
    BY <1>3, TicksBelow
  <2>4. QED
    BY <2>1, <2>2, <2>3, Zenon
<1>6. /\ k \in Int
      /\ SecondAt(n, h, m, s + 1) = k + 1
      /\ s + 1 = SecondsPerMinute => SecondAt(n, h, m + 1, 0) = k + 1
      /\ s + 1 = SecondsPerMinute /\ m + 1 = MinutesPerHour => SecondAt(n, h + 1, 0, 0) = k + 1
      /\ s + 1 = SecondsPerMinute /\ m + 1 = MinutesPerHour /\ h + 1 = HoursPerDay
           => SecondAt(n + 1, 0, 0, 0) = k + 1
  BY <1>3, NextSecond
<1> HIDE DEF k
<1>7. x = k * TicksPerSecond + r
  BY <1>1 DEF TimeAt, k
<1>8. PICK z \in Int : z = k * TicksPerSecond
  BY <1>2, <1>6
<1>9. 0 * NsPerTick = 0 /\ (r + 1) * NsPerTick = r * NsPerTick + NsPerTick
  BY <1>2, <1>3
<1>10. CASE r + 1 < TicksPerSecond
  <2>1. InDay(n, h, m, s, r + 1)
    BY <1>2, <1>3, <1>10 DEF InDay
  <2>2. TimeAt(n, h, m, s, r + 1) = x + 1
    BY <1>3, <1>7, <1>8 DEF TimeAt, k
  <2>3. Civil(x + 1) = At0(h, m, s, (r + 1) * NsPerTick)
    BY <2>1, <2>2, CivilAt, Zenon DEF At
  <2>4. QED
    BY <1>5, <1>9, <1>10, <2>3, Zenon
<1>11. ASSUME r + 1 = TicksPerSecond
       PROVE  ~(r + 1 < TicksPerSecond) /\ (k + 1) * TicksPerSecond + 0 = x + 1
  <2>1. (k + 1) * TicksPerSecond = z + TicksPerSecond
    BY <1>2, <1>6, <1>8
  <2>2. QED
    BY <1>2, <1>3, <1>7, <1>8, <1>11, <2>1
<1>12. ASSUME NEW n0, NEW h0, NEW m0, NEW s0, InDay(n0, h0, m0, s0, 0),
              SecondAt(n0, h0, m0, s0) = k + 1, r + 1 = TicksPerSecond
       PROVE  Civil(x + 1) = At(n0, h0, m0, s0, 0)
  <2>1. TimeAt(n0, h0, m0, s0, 0) = x + 1
    BY <1>11, <1>12, Zenon DEF TimeAt
  <2>2. QED
    BY <1>12, <2>1, CivilAt, Zenon
<1>13. CASE r + 1 = TicksPerSecond /\ s + 1 < SecondsPerMinute
  <2>1. InDay(n, h, m, s + 1, 0)
    BY <1>2, <1>3, <1>13 DEF InDay
  <2>2. Civil(x + 1) = At0(h, m, s + 1, 0)
    BY <1>6, <1>9, <1>12, <1>13, <2>1, Zenon DEF At
  <2>3. QED
    BY <1>5, <1>11, <1>13, <2>2, Zenon
<1>14. CASE r + 1 = TicksPerSecond /\ s + 1 = SecondsPerMinute /\ m + 1 < MinutesPerHour
  <2>1. InDay(n, h, m + 1, 0, 0) /\ ~(s + 1 < SecondsPerMinute)
    BY <1>2, <1>3, <1>14 DEF InDay
  <2>2. Civil(x + 1) = At0(h, m + 1, 0, 0)
    BY <1>6, <1>9, <1>12, <1>14, <2>1, Zenon DEF At
  <2>3. QED
    BY <1>5, <1>11, <1>14, <2>1, <2>2, Zenon
<1>15. CASE /\ r + 1 = TicksPerSecond /\ s + 1 = SecondsPerMinute
            /\ m + 1 = MinutesPerHour /\ h + 1 < HoursPerDay
  <2>1. InDay(n, h + 1, 0, 0, 0) /\ ~(s + 1 < SecondsPerMinute) /\ ~(m + 1 < MinutesPerHour)
    BY <1>2, <1>3, <1>15 DEF InDay
  <2>2. Civil(x + 1) = At0(h + 1, 0, 0, 0)
    BY <1>6, <1>9, <1>12, <1>15, <2>1, Zenon DEF At
  <2>3. QED
    BY <1>5, <1>11, <1>15, <2>1, <2>2, Zenon
<1>16. CASE /\ r + 1 = TicksPerSecond /\ s + 1 = SecondsPerMinute
            /\ m + 1 = MinutesPerHour /\ h + 1 = HoursPerDay
  <2>1. /\ InDay(n + 1, 0, 0, 0, 0)
        /\ ~(s + 1 < SecondsPerMinute) /\ ~(m + 1 < MinutesPerHour) /\ ~(h + 1 < HoursPerDay)
    BY <1>2, <1>3, <1>16 DEF InDay
  <2>2. Civil(x + 1) = At(n + 1, 0, 0, 0, 0)
    BY <1>6, <1>12, <1>16, <2>1, Zenon
  <2>3. CivilFromDays(n + 1) = NextDate(c) /\ c = <<c[1], c[2], c[3]>>
    BY <1>3, DatesFollow, CivilDate, SMT
  <2> HIDE DEF c
  <2> DEFINE date == NextDate(<<c[1], c[2], c[3]>>)
  <2>4. Cal!DayLater(At0(0, 0, 0, 0)) = Fields(date[1], date[2], date[3], 0, 0, 0, 0)
    <3>1. PICK y, month, d, none : y = c[1] /\ month = c[2] /\ d = c[3] /\ none = 0
      OBVIOUS
    <3>2. Cal!DayLater(Fields(y, month, d, none, none, none, none))
            = Fields(NextDate(<<y, month, d>>)[1], NextDate(<<y, month, d>>)[2],
                     NextDate(<<y, month, d>>)[3], none, none, none, none)
      BY DayFields, SMT
    <3>3. QED
      BY <3>1, <3>2, Zenon
  <2>5. Civil(x + 1) = Fields(date[1], date[2], date[3], 0, 0, 0, 0)
    BY <1>9, <2>2, <2>3, Zenon DEF At
  <2>6. QED
    BY <1>5, <1>11, <1>16, <2>1, <2>4, <2>5, Zenon
<1>17. /\ r + 1 < TicksPerSecond \/ r + 1 = TicksPerSecond
       /\ s + 1 < SecondsPerMinute \/ s + 1 = SecondsPerMinute
       /\ m + 1 < MinutesPerHour \/ m + 1 = MinutesPerHour
       /\ h + 1 < HoursPerDay \/ h + 1 = HoursPerDay
  BY <1>2, <1>3
<1>18. QED
  BY <1>10, <1>13, <1>14, <1>15, <1>16, <1>17, Zenon

-----------------------------------------------------------------------------
(* The label of the time counts as the calendar does, over every end of a  *)
(* minute, day, month, leap year and century, before the epoch and before  *)
(* the year 0 as well, in days of any length (obs.rs, civil_from_days).    *)
THEOREM GpsImplementsCalendar == Spec => ImplementsCalendar
<1> USE DEF GpsInv
<1>1. Init => Cal!Init
  <2>1. /\ HoursPerDay \in Nat \ {0} /\ MinutesPerHour \in Nat \ {0}
        /\ SecondsPerMinute \in Nat \ {0} /\ SecondsPerDay \in Nat \ {0}
        /\ TicksPerSecond \in Nat \ {0} /\ NsPerTick \in Nat \ {0}
    BY Constants
  <2>2. CivilFromDays(EpochDay) = <<1980, 1, 6>>
    BY SMT DEF CivilFromDays, Quot, EpochDay
  <2>3. InDay(EpochDay, 0, 0, 0, 0)
    BY <2>1, SMT DEF InDay, EpochDay
  <2>4. SecondAt(EpochDay, 0, 0, 0) = 0
    <3>1. EpochDay - EpochDay = 0
      BY SMT DEF EpochDay
    <3>2. /\ 0 * SecondsPerDay = 0 /\ 0 * MinutesPerHour = 0 /\ 0 * SecondsPerMinute = 0
          /\ 0 + 0 = 0
      BY <2>1, SMT
    <3>3. QED
      BY <3>1, <3>2, SMT DEF SecondAt
  <2>5. TimeAt(EpochDay, 0, 0, 0, 0) = 0
    BY <2>1, <2>4, SMT DEF TimeAt
  <2>6. 0 * NsPerTick = 0
    BY <2>1, SMT
  <2>7. Civil(0) = At(EpochDay, 0, 0, 0, 0)
    <3>1. Civil(TimeAt(EpochDay, 0, 0, 0, 0)) = At(EpochDay, 0, 0, 0, 0)
      BY <2>3, CivilAt, SMT
    <3>2. QED
      BY <2>5, <3>1, SMT
  <2>8. At(EpochDay, 0, 0, 0, 0) = Fields(1980, 1, 6, 0, 0, 0, 0)
    BY <2>2, <2>6, SMT DEF At
  <2>9. QED
    BY <2>7, <2>8, SMT DEF Init, Cal!Init, Fields
<1>2. GpsInv /\ GpsInv' /\ [Next]_vars => [Cal!Next]_label
  <2> SUFFICES ASSUME GpsInv, GpsInv', [Next]_vars PROVE [Cal!Next]_label
    OBVIOUS
  <2>1. CASE Tick
    <3>1. PICK d \in {-1, 1} : t' = t + d
      BY <2>1 DEF Tick, Move
    <3>2. label = Civil(t) /\ label' = Civil(t') /\ t \in Int /\ t' \in Int
      OBVIOUS
    <3>3. CASE d = 1
      BY <3>1, <3>2, <3>3, TickLabel DEF Cal!Next
    <3>4. CASE d = -1
      <4>1. t = t' + 1
        BY <3>1, <3>2, <3>4
      <4>2. QED
        BY <3>2, <4>1, TickLabel DEF Cal!Next
    <3>5. QED
      BY <3>3, <3>4
  <2>2. CASE Day
    <3>1. PICK d \in {-1, 1} : t' = t + d * DayTicks
      BY <2>2 DEF Day, Move
    <3>2. label = Civil(t) /\ label' = Civil(t') /\ t \in Int /\ t' \in Int /\ DayTicks \in Int
      BY Constants
    <3>3. CASE d = 1
      <4>1. t' = t + DayTicks
        BY <3>1, <3>2, <3>3
      <4>2. QED
        BY <3>2, <4>1, DayLabel DEF Cal!Next
    <3>4. CASE d = -1
      <4>1. t = t' + DayTicks
        BY <3>1, <3>2, <3>4
      <4>2. QED
        BY <3>2, <4>1, DayLabel DEF Cal!Next
    <3>5. QED
      BY <3>3, <3>4
  <2>3. CASE Cycle
    <3>1. PICK d \in {-1, 1} : t' = t + d * Cycles * CycleDays * DayTicks
      BY <2>3, SMT DEF Cycle, Move, CycleDays
    <3>2. label = Civil(t) /\ label' = Civil(t') /\ t \in Int /\ Cycles \in Int
      BY GpsTimeAssumption
    <3>3. d * Cycles \in Int /\ d * Cycles \in {-Cycles, Cycles}
      BY <3>2
    <3>4. Civil(t + d * Cycles * CycleDays * DayTicks) = Cal!CyclesLater(Civil(t), d * Cycles)
      BY <3>2, <3>3, DayLabel, Zenon
    <3>5. label' = Cal!CyclesLater(label, d * Cycles)
      BY <3>1, <3>2, <3>4, SMT
    <3>6. QED
      BY <3>3, <3>5 DEF Cal!Next
  <2>4. CASE UNCHANGED vars
    BY <2>4 DEF vars
  <2>5. QED
    BY <2>1, <2>2, <2>3, <2>4 DEF Next
<1>3. QED
  BY <1>1, <1>2, GpsInvariant, PTL DEF Spec, ImplementsCalendar, Cal!Spec

-----------------------------------------------------------------------------
(* Reading labels and dates.                                               *)

(* Only the days that a month has are turned back to themselves.           *)
LEMMA DateTurned ==
  ASSUME NEW y \in Int, NEW month \in 1..12, NEW d \in Int
  PROVE  /\ DaysFromCivil(y, month, d) \in Int
         /\ \A e \in Int : DaysFromCivil(y, month, e) = DaysFromCivil(y, month, d) + (e - d)
         /\ CivilFromDays(DaysFromCivil(y, month, d)) = <<y, month, d>>
              <=> d \in 1..Cal!MonthLength(y, month)
<1> DEFINE n == DaysFromCivil(y, month, d)
<1>1. n \in Int /\ \A e \in Int : DaysFromCivil(y, month, e) = n + (e - d)
  <2> DEFINE z == y - (IF month <= 2 THEN 1 ELSE 0)
             era == Quot(IF z >= 0 THEN z ELSE z - 399, 400)
             yoe == z - era * 400
             mp == IF month > 2 THEN month - 3 ELSE month + 9
             a == era * 146097 + yoe * 365 + yoe \div 4 - yoe \div 100
             b == (153 * mp + 2) \div 5
  <2>1. ASSUME NEW e \in Int PROVE DaysFromCivil(y, month, e) = a + (b + e - 1) - 719468
    BY SMT DEF DaysFromCivil
  <2>2. a \in Int /\ b \in Int
    BY SMT DEF Quot
  <2> HIDE DEF a, b
  <2>3. QED
    BY <2>1, <2>2, SMT
<1>2. Dated(n, CivilFromDays(n))
  BY <1>1, CivilDated, SMT
<1>3. ASSUME CivilFromDays(n) = <<y, month, d>> PROVE d \in 1..Cal!MonthLength(y, month)
  <2> HIDE DEF n
  <2> DEFINE c == <<y, month, d>>
  <2>1. Dated(n, c)
    BY <1>2, <1>3, SMT
  <2>2. c[3] \in 1..Cal!MonthLength(c[1], c[2])
    <3> HIDE DEF c
    <3>1. QED
      BY <2>1, DatedReal, SMT
  <2>3. QED
    BY <2>2, SMT
<1>4. ASSUME d \in 1..Cal!MonthLength(y, month) PROVE CivilFromDays(n) = <<y, month, d>>
  <2>1. Dated(n, <<y, month, d>>)
    BY <1>4, DateDated, SMT
  <2> HIDE DEF n
  <2>2. QED
    BY <1>2, <2>1, DatedOnce, SMT
<1>5. QED
  BY <1>1, <1>3, <1>4, SMT

(* The second that fields name.                                            *)
LEMMA UnixOfFields ==
  ASSUME NEW y, NEW month, NEW d, NEW h \in Int, NEW m \in Int, NEW s \in Int, NEW x,
         DaysFromCivil(y, month, d) \in Int
  PROVE  UnixOfCivil(Fields(y, month, d, h, m, s, x))
           = EpochUnix + SecondAt(DaysFromCivil(y, month, d), h, m, s)
<1> DEFINE c == Fields(y, month, d, h, m, s, x)
           n == DaysFromCivil(y, month, d)
           M == MinutesPerHour
           S == SecondsPerMinute
           H == HoursPerDay
<1>1. H \in Int /\ M \in Int /\ S \in Int
  BY Constants
<1>2. /\ c.year = y /\ c.month = month /\ c.day = d /\ c.hour = h /\ c.minute = m
      /\ c.second = s
  BY FieldsAre
<1> HIDE DEF c, n
<1>3. UnixOfCivil(c) = ((n * H + h) * M + m) * S + s
  BY <1>2, Zenon DEF UnixOfCivil, n
<1> DEFINE D == H * M * S
           e == n - EpochDay
<1>4. SecondsPerDay = D /\ D \in Int
  BY <1>1 DEF SecondsPerDay
<1>5. SecondAt(n, h, m, s) = e * D + ((h * M + m) * S + s)
  BY <1>4, Zenon DEF SecondAt
<1>6. EpochUnix = EpochDay * D
  <2>1. EpochUnix = EpochDay * SecondsPerDay
    BY DEF EpochUnix, EpochDay
  <2> HIDE DEF D
  <2>2. QED
    BY <1>4, <2>1, Zenon
<1>7. n \in Int /\ EpochDay \in Int /\ e \in Int /\ n = EpochDay + e
  BY SMT DEF n, EpochDay
<1>8. ((n * H + h) * M + m) * S + s = n * D + ((h * M + m) * S + s)
  <2>1. n * H \in Int /\ h * M \in Int
    BY <1>1, <1>7
  <2>2. PICK a \in Int, b \in Int : a = n * H /\ b = h * M
    BY <2>1
  <2>3. (a + h) * M + m = a * M + (b + m) /\ a * M \in Int
    BY <1>1, <2>2
  <2>4. (a * M + (b + m)) * S = (a * M) * S + (b + m) * S
    BY <1>1, <2>2, <2>3
  <2>5. (a * M) * S = n * D
    BY <1>1, <1>7, <2>2
  <2>6. (a * M) * S \in Int /\ (b + m) * S \in Int
    BY <1>1, <2>2, <2>3
  <2>7. ((n * H + h) * M + m) * S + s = ((a * M) * S + (b + m) * S) + s
    BY <2>2, <2>3, <2>4
  <2>8. QED
    BY <2>2, <2>5, <2>6, <2>7
<1> HIDE DEF e, D
<1>9. n * D = EpochDay * D + e * D /\ EpochDay * D \in Int /\ e * D \in Int
  <2>1. PICK p \in Int : p = EpochDay
    BY <1>7
  <2>2. n * D = p * D + e * D /\ p * D \in Int /\ e * D \in Int
    BY <1>4, <1>7, <2>1
  <2>3. QED
    BY <2>1, <2>2
<1>10. PICK sod \in Int : sod = (h * M + m) * S + s
  BY <1>1
<1> HIDE DEF M, S, H
<1>11. UnixOfCivil(c) = EpochUnix + SecondAt(n, h, m, s)
  <2>1. PICK p \in Int, q \in Int : p = EpochDay * D /\ q = e * D
    BY <1>9
  <2>2. UnixOfCivil(c) = (p + q) + sod /\ EpochUnix = p /\ SecondAt(n, h, m, s) = q + sod
    BY <1>3, <1>5, <1>6, <1>8, <1>9, <1>10, <2>1
  <2>3. QED
    BY <2>2
<1>12. QED
  BY <1>11 DEF c, n

(* A label of a civil time to the tick is read as that time, if valid.     *)
LEMMA ParsedLabel ==
  ASSUME NEW y, NEW month, NEW d, NEW h, NEW m, NEW s, NEW r \in Int
  PROVE  LET c == Fields(y, month, d, h, m, s, r * NsPerTick)
         IN  ParseTime(Label(c)) = IF IsValid(c) THEN {FromCivil(c)} ELSE {}
<1> DEFINE x == r * NsPerTick
           c == Fields(y, month, d, h, m, s, x)
<1>1. NsPerTick \in Nat \ {0}
  BY Constants
<1>2. x \div NsPerTick = r
  <2>1. x = r * NsPerTick + 0 /\ 0 \in 0..(NsPerTick - 1)
    BY <1>1
  <2>2. QED
    BY <1>1, <2>1, Division
<1>3. x = r * NsPerTick
  OBVIOUS
<1> HIDE DEF x
<1>4. c = [year |-> y, month |-> month, day |-> d, hour |-> h, minute |-> m, second |-> s, nanos |-> x]
  BY DEF Fields
<1> HIDE DEF c
<1>5. [Label(c) EXCEPT !.nanos = @ * NsPerTick] = c
  BY <1>2, <1>3, <1>4, LabelOfCivil
<1>6. ParseTime(Label(c)) = IF IsValid(c) THEN {FromCivil(c)} ELSE {}
  BY <1>5, Zenon DEF ParseTime
<1>7. QED
  BY <1>6 DEF c, x

(* When the fields of a civil time are valid.                              *)
LEMMA FieldsValid ==
  ASSUME NEW y \in Int, NEW month \in 1..12, NEW d \in Int, NEW h \in 0..(HoursPerDay - 1),
         NEW m \in 0..(MinutesPerHour - 1), NEW s \in Nat, s <= SecondsPerMinute,
         NEW x \in Int, x < NsPerSecond
  PROVE  IsValid(Fields(y, month, d, h, m, s, x)) <=> d \in 1..Cal!MonthLength(y, month)
<1> DEFINE c == Fields(y, month, d, h, m, s, x)
<1>1. /\ c.year = y /\ c.month = month /\ c.day = d /\ c.hour = h /\ c.minute = m
      /\ c.second = s /\ c.nanos = x
  BY FieldsAre
<1>2. h < HoursPerDay /\ m < MinutesPerHour
  BY Constants
<1> HIDE DEF c
<1>3. IsValid(c) <=> d >= 1 /\ CivilFromDays(DaysFromCivil(y, month, d)) = <<y, month, d>>
  BY <1>1, <1>2, Zenon DEF IsValid
<1>4. Cal!MonthLength(y, month) \in Int
  BY SMT DEF Cal!MonthLength
<1>5. CivilFromDays(DaysFromCivil(y, month, d)) = <<y, month, d>>
        <=> d \in 1..Cal!MonthLength(y, month)
  BY DateTurned
<1>6. d \in 1..Cal!MonthLength(y, month) => d >= 1
  BY <1>4
<1>7. IsValid(c) <=> d \in 1..Cal!MonthLength(y, month)
  BY <1>3, <1>5, <1>6, Zenon
<1>8. QED
  BY <1>7 DEF c

(* The date of a name that has one, once or more often.                    *)
LEMMA OneDate ==
  ASSUME NEW runs, NEW d, ValidDate(d),
         \A i \in DOMAIN runs : runs[i] = d \/ ~ValidDate(runs[i]),
         \E i \in DOMAIN runs : runs[i] = d
  PROVE  DateFromFilename(runs) = {DateInstant(d)}
<1> DEFINE dates == {e \in {runs[i] : i \in DOMAIN runs} : ValidDate(e)}
<1>1. dates = {d}
  OBVIOUS
<1> HIDE DEF dates
<1>2. Cardinality(dates) = 1
  BY <1>1, FS_Singleton
<1>3. {DateInstant(e) : e \in dates} = {DateInstant(d)}
  BY <1>1
<1>4. DateFromFilename(runs) = IF Cardinality(dates) = 1 THEN {DateInstant(e) : e \in dates} ELSE {}
  BY DEF DateFromFilename, dates
<1>5. QED
  BY <1>2, <1>3, <1>4

(* A name with two dates, or with none, has no date.                       *)
LEMMA TwoDates ==
  ASSUME NEW a, NEW b, ValidDate(a), ValidDate(b), a # b
  PROVE  DateFromFilename(<<a, b>>) = {}
<1> DEFINE runs == <<a, b>>
           dates == {e \in {runs[i] : i \in DOMAIN runs} : ValidDate(e)}
<1>1. dates = {a, b}
  OBVIOUS
<1>2. DateFromFilename(runs) = IF Cardinality(dates) = 1 THEN {DateInstant(e) : e \in dates} ELSE {}
  BY Zenon DEF DateFromFilename
<1> HIDE DEF dates
<1>3. Cardinality(dates) # 1
  <2>1. IsFiniteSet(dates)
    <3>1. IsFiniteSet({b} \cup {a})
      BY FS_Singleton, FS_AddElement
    <3>2. dates = {b} \cup {a}
      BY <1>1
    <3>3. QED
      BY <3>1, <3>2
  <2>2. ~\E x : dates = {x}
    BY <1>1
  <2>3. QED
    BY <2>1, <2>2, FS_Singleton
<1>4. QED
  BY <1>2, <1>3

LEMMA NoDate ==
  ASSUME NEW a, ~ValidDate(a)
  PROVE  DateFromFilename(<<a>>) = {}
<1> DEFINE runs == <<a>>
           dates == {e \in {runs[i] : i \in DOMAIN runs} : ValidDate(e)}
<1>1. dates = {}
  OBVIOUS
<1>2. DateFromFilename(runs) = IF Cardinality(dates) = 1 THEN {DateInstant(e) : e \in dates} ELSE {}
  BY Zenon DEF DateFromFilename
<1> HIDE DEF dates
<1>3. Cardinality(dates) = 0
  BY <1>1, FS_EmptySet
<1>4. QED
  BY <1>2, <1>3

(* A label at a whole second is read as that second, if valid.             *)
LEMMA ParsedSecond ==
  ASSUME NEW y, NEW month, NEW d, NEW h, NEW m, NEW s
  PROVE  LET c == Fields(y, month, d, h, m, s, 0)
         IN  ParseTime(c) = IF IsValid(c) THEN {FromCivil(c)} ELSE {}
<1> DEFINE c == Fields(y, month, d, h, m, s, 0)
<1>1. c.nanos = 0 /\ 0 * NsPerTick = 0
  BY FieldsAre, Constants
<1>2. [c EXCEPT !.nanos = 0 * NsPerTick] = c
  <2>1. PICK a : a = 0 * NsPerTick
    OBVIOUS
  <2>2. [c EXCEPT !.nanos = a] = Fields(y, month, d, h, m, s, a)
    BY DEF Fields
  <2>3. QED
    BY <1>1, <2>1, <2>2
<1>3. [c EXCEPT !.nanos = @ * NsPerTick] = c
  <2> HIDE DEF c
  <2>1. [c EXCEPT !.nanos = @ * NsPerTick] = [c EXCEPT !.nanos = c.nanos * NsPerTick]
    OBVIOUS
  <2>2. QED
    BY <1>1, <1>2, <2>1
<1> HIDE DEF c
<1>4. ParseTime(c) = IF IsValid(c) THEN {FromCivil(c)} ELSE {}
  BY <1>3, Zenon DEF ParseTime
<1>5. QED
  BY <1>4 DEF c

(* The fields of the label of a time, and the day that its date names.     *)
LEMMA PartsOf ==
  ASSUME NEW x \in Int
  PROVE  \E n, h, m, s, r, y, month, d :
           /\ InDay(n, h, m, s, r) /\ x = TimeAt(n, h, m, s, r)
           /\ Civil(x) = Fields(y, month, d, h, m, s, r * NsPerTick)
           /\ CivilFromDays(n) = <<y, month, d>> /\ DaysFromCivil(y, month, d) = n
           /\ y \in Int /\ month \in 1..12 /\ d \in 1..Cal!MonthLength(y, month) /\ d \in Int
<1>1. PICK n, h, m, s, r : InDay(n, h, m, s, r) /\ x = TimeAt(n, h, m, s, r)
  BY SomeAt
<1>2. n \in Int
  BY <1>1 DEF InDay
<1>3. PICK y, month, d : y = CivilFromDays(n)[1] /\ month = CivilFromDays(n)[2] /\ d = CivilFromDays(n)[3]
  OBVIOUS
<1>4. /\ CivilFromDays(n) = <<y, month, d>> /\ DaysFromCivil(y, month, d) = n
      /\ y \in Int /\ month \in 1..12 /\ d \in Int
  BY <1>2, <1>3, CivilDate
<1>5. d \in 1..Cal!MonthLength(y, month)
  BY <1>4, DateTurned
<1>6. Civil(x) = Fields(y, month, d, h, m, s, r * NsPerTick)
  BY <1>1, <1>3, CivilAt, Zenon DEF At
<1>7. QED
  BY <1>1, <1>4, <1>5, <1>6

(* The second that the fields of a civil time name.                        *)
LEMMA SecondOfFields ==
  ASSUME NEW y, NEW month, NEW d, NEW h \in Int, NEW m \in Int, NEW s \in Int, NEW x,
         NEW n \in Int, DaysFromCivil(y, month, d) = n,
         NEW c, c = Fields(y, month, d, h, m, s, x)
  PROVE  UnixOfCivil(c) = EpochUnix + SecondAt(n, h, m, s) /\ c.nanos = x
<1>1. UnixOfCivil(Fields(y, month, d, h, m, s, x))
        = EpochUnix + SecondAt(DaysFromCivil(y, month, d), h, m, s)
  <2>1. DaysFromCivil(y, month, d) \in Int
    OBVIOUS
  <2>2. QED
    BY <2>1, UnixOfFields
<1>2. QED
  BY <1>1, FieldsAre

(* The time that another day of the month names, if the month has it.      *)
LEMMA OtherDay ==
  ASSUME NEW n, NEW h, NEW m, NEW s, NEW r, NEW y \in Int, NEW month \in 1..12, NEW d \in Int,
         InDay(n, h, m, s, r), DaysFromCivil(y, month, d) = n, NEW day \in Int,
         NEW x, x = r * NsPerTick, NEW u, u = TimeAt(n, h, m, s, r) + (day - d) * DayTicks
  PROVE  /\ day \in 1..Cal!MonthLength(y, month) =>
              ParseTime(Label(Fields(y, month, day, h, m, s, x))) = {u}
         /\ day \notin 1..Cal!MonthLength(y, month) =>
              ParseTime(Label(Fields(y, month, day, h, m, s, x))) = {}
<1> DEFINE j == day - d
           c == Fields(y, month, day, h, m, s, x)
<1>1. /\ n \in Int /\ h \in 0..(HoursPerDay - 1) /\ m \in 0..(MinutesPerHour - 1)
      /\ s \in 0..(SecondsPerMinute - 1) /\ r \in 0..(TicksPerSecond - 1)
  BY DEF InDay
<1>2. /\ HoursPerDay \in Nat \ {0} /\ MinutesPerHour \in Nat \ {0}
      /\ SecondsPerMinute \in Nat \ {0} /\ SecondsPerDay \in Nat \ {0}
      /\ TicksPerSecond \in Nat \ {0} /\ NsPerTick \in Nat \ {0} /\ NsPerSecond \in Nat \ {0}
  BY Constants
<1>3. h \in Int /\ m \in Int /\ s \in Nat /\ s \in Int /\ s <= SecondsPerMinute /\ r \in Int /\ j \in Int
  BY <1>1, <1>2
<1>4. x \in Int /\ x < NsPerSecond
  <2>1. r * NsPerTick + NsPerTick <= TicksPerSecond * NsPerTick
    BY <1>1, <1>2, <1>3, MultiplyOrder
  <2>2. QED
    BY <1>2, <1>3, <2>1 DEF NsPerSecond
<1>5. DaysFromCivil(y, month, day) = n + j /\ DaysFromCivil(y, month, day) \in Int
  <2>1. \A e \in Int : DaysFromCivil(y, month, e) = DaysFromCivil(y, month, d) + (e - d)
    BY DateTurned
  <2>2. DaysFromCivil(y, month, day) = n + j
    BY <2>1, Zenon
  <2>3. n + j \in Int
    BY <1>1, <1>3
  <2>4. QED
    BY <2>2, <2>3, Zenon
<1>6. ParseTime(Label(c)) = IF IsValid(c) THEN {FromCivil(c)} ELSE {}
  BY <1>3, ParsedLabel, Zenon
<1>7. IsValid(c) <=> day \in 1..Cal!MonthLength(y, month)
  BY <1>1, <1>3, <1>4, FieldsValid, Zenon
<1>10. c = Fields(y, month, day, h, m, s, x)
  OBVIOUS
<1> HIDE DEF j, c
<1>8. FromCivil(c) = TimeAt(n, h, m, s, r) + j * DayTicks
  <2>1. n + j \in Int
    BY <1>1, <1>3
  <2>2. UnixOfCivil(c) = EpochUnix + SecondAt(n + j, h, m, s) /\ c.nanos = x
    BY <1>3, <1>5, <1>10, <2>1, SecondOfFields
  <2>3. InDay(n + j, h, m, s, r) /\ TimeAt(n + j, h, m, s, r) = TimeAt(n, h, m, s, r) + j * DayTicks
    BY <1>3, DaysAway
  <2>4. SecondAt(n + j, h, m, s) \in Int
    BY <1>1, <2>1, NextSecond, Zenon
  <2>5. c.nanos = r * NsPerTick
    BY <2>2
  <2>8. PICK k \in Int : k = SecondAt(n + j, h, m, s)
    BY <2>4
  <2>9. UnixOfCivil(c) = EpochUnix + k
    BY <2>2, <2>8
  <2>10. FromCivil(c) = k * TicksPerSecond + r
    BY <1>3, <2>5, <2>9, TimeOfCivil
  <2>6. FromCivil(c) = SecondAt(n + j, h, m, s) * TicksPerSecond + r
    BY <2>8, <2>10
  <2>7. QED
    BY <2>3, <2>6, Zenon DEF TimeAt
<1>9. QED
  BY <1>6, <1>7, <1>8, Zenon DEF j, c

(* A leap second is the second after the last of the minute.               *)
LEMMA LeapSecond ==
  ASSUME NEW n, NEW h, NEW m, NEW s, NEW r, NEW y \in Int, NEW month \in 1..12, NEW d \in Int,
         InDay(n, h, m, s, r), DaysFromCivil(y, month, d) = n,
         d \in 1..Cal!MonthLength(y, month)
  PROVE  ParseTime(Fields(y, month, d, h, m, SecondsPerMinute, 0)) =
           {FromCivil(Fields(y, month, d, h, m, SecondsPerMinute - 1, 0)) + TicksPerSecond}
<1> DEFINE S == SecondsPerMinute
           z == S - 1
           k == SecondAt(n, h, m, z)
           c == Fields(y, month, d, h, m, S, 0)
           b == Fields(y, month, d, h, m, z, 0)
<1>1. /\ n \in Int /\ h \in 0..(HoursPerDay - 1) /\ m \in 0..(MinutesPerHour - 1)
  BY DEF InDay
<1>2. /\ HoursPerDay \in Nat \ {0} /\ MinutesPerHour \in Nat \ {0}
      /\ S \in Nat \ {0} /\ TicksPerSecond \in Nat \ {0} /\ NsPerTick \in Nat \ {0}
      /\ NsPerSecond \in Nat \ {0}
  BY Constants
<1>3. /\ h \in Int /\ m \in Int /\ S \in Nat /\ S \in Int /\ S <= S /\ z \in Int
      /\ z \in 0..(S - 1) /\ z + 1 = S /\ 0 \in Int /\ 0 < NsPerSecond /\ 0 * NsPerTick = 0
  BY <1>1, <1>2
<1> HIDE DEF z
<1>4. k \in Int /\ SecondAt(n, h, m, S) = k + 1 /\ k + 1 \in Int
  <2>1. k \in Int /\ SecondAt(n, h, m, z + 1) = k + 1
    BY <1>1, <1>3, NextSecond, Zenon
  <2> HIDE DEF k
  <2>2. QED
    BY <1>3, <2>1
<1>7. IsValid(c)
  BY <1>1, <1>3, FieldsValid, Zenon
<1>8. ParseTime(c) = IF IsValid(c) THEN {FromCivil(c)} ELSE {}
  BY ParsedSecond, Zenon
<1>12. c = Fields(y, month, d, h, m, S, 0) /\ b = Fields(y, month, d, h, m, z, 0)
  OBVIOUS
<1> HIDE DEF S, c, b
<1>13. UnixOfCivil(c) = EpochUnix + SecondAt(n, h, m, S) /\ c.nanos = 0
  BY <1>1, <1>3, <1>12, SecondOfFields
<1>14. UnixOfCivil(b) = EpochUnix + SecondAt(n, h, m, z) /\ b.nanos = 0
  BY <1>1, <1>3, <1>12, SecondOfFields
<1>5. UnixOfCivil(c) = EpochUnix + (k + 1) /\ UnixOfCivil(b) = EpochUnix + k
  BY <1>4, <1>13, <1>14
<1>6. c.nanos = 0 * NsPerTick /\ b.nanos = 0 * NsPerTick
  BY <1>3, <1>13, <1>14
<1> HIDE DEF k
<1>9. FromCivil(c) = (k + 1) * TicksPerSecond + 0 /\ FromCivil(b) = k * TicksPerSecond + 0
  BY <1>3, <1>4, <1>5, <1>6, TimeOfCivil, Zenon
<1>10. FromCivil(c) = FromCivil(b) + TicksPerSecond
  BY <1>2, <1>4, <1>9
<1>11. QED
  BY <1>7, <1>8, <1>10, Zenon DEF c, b, z, S

(* The midnight that a date begins at.                                     *)
LEMMA MidnightOf ==
  ASSUME NEW y \in Int, NEW month \in Int, NEW d \in Int
  PROVE  Midnight(<<y, month, d>>) = Fields(y, month, d, 0, 0, 0, 0)
BY DEF Midnight, Fields

(* The second that the day of a second since the Unix epoch begins with.   *)
MidnightOfSecond(u) == [secs |-> u - (u % SecondsPerDay), nanos |-> 0]

(* The date of a time is a date, and begins at the midnight before it.     *)
LEMMA DatesOfDays ==
  ASSUME NEW n, NEW h, NEW m, NEW s, NEW r, NEW y \in Int, NEW month \in 1..12, NEW d \in Int,
         InDay(n, h, m, s, r), DaysFromCivil(y, month, d) = n,
         d \in 1..Cal!MonthLength(y, month), NEW x
  PROVE  /\ ValidDate(<<y, month, d>>)
         /\ DateInstant(<<y, month, d>>) =
               MidnightOfSecond(UnixOfCivil(Fields(y, month, d, h, m, s, x)))
<1> DEFINE c == Fields(y, month, d, 0, 0, 0, 0)
           sod == (h * MinutesPerHour + m) * SecondsPerMinute + s
           D == SecondsPerDay
           u == UnixOfCivil(Fields(y, month, d, h, m, s, x))
           e == n - EpochDay
<1>1. /\ n \in Int /\ h \in 0..(HoursPerDay - 1) /\ m \in 0..(MinutesPerHour - 1)
      /\ s \in 0..(SecondsPerMinute - 1) /\ month \in Int
  BY DEF InDay
<1>2. /\ HoursPerDay \in Nat \ {0} /\ MinutesPerHour \in Nat \ {0}
      /\ SecondsPerMinute \in Nat \ {0} /\ D \in Nat \ {0} /\ NsPerSecond \in Nat \ {0}
  BY Constants
<1>3. /\ h \in Int /\ m \in Int /\ s \in Int /\ 0 \in Int /\ 0 \in Nat /\ 0 < NsPerSecond
      /\ 0 \in 0..(HoursPerDay - 1) /\ 0 \in 0..(MinutesPerHour - 1) /\ 0 <= SecondsPerMinute
  BY <1>1, <1>2
<1>4. Midnight(<<y, month, d>>) = c
  BY <1>1, MidnightOf, Zenon
<1>5. IsValid(c)
  BY <1>3, FieldsValid, Zenon
<1>6. ValidDate(<<y, month, d>>)
  BY <1>4, <1>5, Zenon DEF ValidDate
<1>7. UnixOfCivil(c) = EpochUnix + SecondAt(n, 0, 0, 0) /\ c.nanos = 0
  <2>1. c = Fields(y, month, d, 0, 0, 0, 0)
    OBVIOUS
  <2> HIDE DEF c
  <2>2. QED
    BY <1>1, <1>3, <2>1, SecondOfFields
<1>8. u = EpochUnix + SecondAt(n, h, m, s)
  <2>1. PICK b : b = Fields(y, month, d, h, m, s, x)
    OBVIOUS
  <2>2. UnixOfCivil(b) = EpochUnix + SecondAt(n, h, m, s)
    BY <1>1, <1>3, <2>1, SecondOfFields
  <2>3. QED
    BY <2>1, <2>2
<1>9. sod \in 0..(D - 1)
  BY <1>1, DayTime
<1>10. SecondAt(n, 0, 0, 0) = e * D + ((0 * MinutesPerHour + 0) * SecondsPerMinute + 0)
  BY DEF SecondAt
<1>11. SecondAt(n, h, m, s) = e * D + sod
  BY DEF SecondAt
<1>12. e \in Int /\ EpochDay \in Int /\ n = EpochDay + e
  BY <1>1, SMT DEF EpochDay
<1>13. EpochUnix = EpochDay * D
  BY DEF EpochUnix, EpochDay
<1>14. c.nanos = 0
  BY <1>7
<1> HIDE DEF e, sod, u, c, D
<1>15. (0 * MinutesPerHour + 0) * SecondsPerMinute + 0 = 0
  BY <1>2
<1>16. PICK p \in Int, q \in Int : p = EpochDay * D /\ q = e * D
  BY <1>2, <1>12
<1>17. n * D = p + q
  <2>1. PICK i \in Int : i = EpochDay
    BY <1>12
  <2>2. (i + e) * D = i * D + e * D
    BY <1>2, <1>12
  <2>3. QED
    BY <1>12, <1>16, <2>1, <2>2
<1>18. UnixOfCivil(c) = n * D /\ u = n * D + sod /\ n * D \in Int
  <2>1. sod \in Int
    BY <1>2, <1>9
  <2>2. UnixOfCivil(c) = p + (q + 0) /\ u = p + (q + sod)
    BY <1>7, <1>8, <1>10, <1>11, <1>13, <1>15, <1>16
  <2>3. QED
    BY <1>17, <2>1, <2>2
<1>19. u % D = sod
  BY <1>1, <1>2, <1>9, <1>18, Division
<1>20. UnixOfCivil(c) = u - (u % D)
  BY <1>2, <1>9, <1>18, <1>19
<1>21. DateInstant(<<y, month, d>>) = [secs |-> u - (u % D), nanos |-> 0]
  BY <1>4, <1>14, <1>20, Zenon DEF DateInstant, InstantOfCivil
<1>22. QED
  BY <1>6, <1>21, Zenon DEF u, D, MidnightOfSecond

(* The date of the next day is a date, and another one.                    *)
LEMMA DayAfter ==
  ASSUME NEW n, NEW h, NEW m, NEW s, NEW r, NEW y, NEW month, NEW d,
         InDay(n, h, m, s, r), DaysFromCivil(y, month, d) = n,
         NEW next, next = Civil(TimeAt(n, h, m, s, r) + DayTicks)
  PROVE  /\ ValidDate(<<next.year, next.month, next.day>>)
         /\ <<next.year, next.month, next.day>> # <<y, month, d>>
<1>1. n \in Int /\ n + 1 \in Int /\ n + 1 # n
  BY DEF InDay
<1>2. InDay(n + 1, h, m, s, r) /\ TimeAt(n + 1, h, m, s, r) = TimeAt(n, h, m, s, r) + DayTicks
  <2>1. 1 * DayTicks = DayTicks
    BY Constants
  <2>2. /\ InDay(n + 1, h, m, s, r)
        /\ TimeAt(n + 1, h, m, s, r) = TimeAt(n, h, m, s, r) + 1 * DayTicks
    BY DaysAway
  <2>3. QED
    BY <2>1, <2>2
<1>3. PICK k : k = n + 1
  OBVIOUS
<1>4. PICK a, b, e : a = CivilFromDays(k)[1] /\ b = CivilFromDays(k)[2] /\ e = CivilFromDays(k)[3]
  OBVIOUS
<1>5. /\ CivilFromDays(k) = <<a, b, e>> /\ DaysFromCivil(a, b, e) = k
      /\ a \in Int /\ b \in 1..12 /\ e \in Int
  BY <1>1, <1>3, <1>4, CivilDate
<1>6. next = Fields(a, b, e, h, m, s, r * NsPerTick)
  <2>1. next = At(k, h, m, s, r)
    BY <1>2, <1>3, CivilAt, SMT
  <2>2. At(k, h, m, s, r) = Fields(a, b, e, h, m, s, r * NsPerTick)
    BY <1>4, Zenon DEF At
  <2>3. QED
    BY <2>1, <2>2
<1>7. next.year = a /\ next.month = b /\ next.day = e
  BY <1>6, FieldsAre
<1>8. e \in 1..Cal!MonthLength(a, b)
  BY <1>5, DateTurned
<1>9. ValidDate(<<a, b, e>>)
  <2>1. InDay(k, h, m, s, r)
    BY <1>2, <1>3
  <2>2. /\ ValidDate(<<a, b, e>>)
        /\ DateInstant(<<a, b, e>>) = MidnightOfSecond(UnixOfCivil(Fields(a, b, e, h, m, s, 0)))
    BY <1>5, <1>8, <2>1, DatesOfDays
  <2>3. QED
    BY <2>2
<1>10. <<a, b, e>> # <<y, month, d>>
  BY <1>1, <1>3, <1>5
<1>11. QED
  BY <1>7, <1>9, <1>10

(* The parsers take the days that the month has and move no other; a leap  *)
(* second is the second after it; the date of a filename is the only one   *)
(* that it names (obs.rs, is_valid; cli/src/lib.rs, date_from_filename).   *)
THEOREM GpsOnlyRealDates == Spec => []OnlyRealDates
<1>1. GpsInv => OnlyRealDates
  <2> SUFFICES ASSUME GpsInv PROVE OnlyRealDates
    OBVIOUS
  <2>1. t \in Int /\ label = Civil(t)
    BY DEF GpsInv
  <2>2. PICK n, h, m, s, r, y, month, d :
           /\ InDay(n, h, m, s, r) /\ t = TimeAt(n, h, m, s, r)
           /\ Civil(t) = Fields(y, month, d, h, m, s, r * NsPerTick)
           /\ CivilFromDays(n) = <<y, month, d>> /\ DaysFromCivil(y, month, d) = n
           /\ y \in Int /\ month \in 1..12 /\ d \in 1..Cal!MonthLength(y, month) /\ d \in Int
    BY <2>1, PartsOf
  <2>3. label = Fields(y, month, d, h, m, s, r * NsPerTick)
    BY <2>1, <2>2
  <2>4. label.year = y /\ label.month = month /\ label.day = d
    BY <2>3, FieldsAre
  <2>5. ASSUME NEW day \in Int
        PROVE  ParseTime(Label([label EXCEPT !.day = day])) =
                 IF day \in 1..Cal!MonthLength(y, month) THEN {t + (day - d) * DayTicks} ELSE {}
    <3>1. [label EXCEPT !.day = day] = Fields(y, month, day, h, m, s, r * NsPerTick)
      <4>1. WithDay(Fields(y, month, d, h, m, s, r * NsPerTick), day)
              = Fields(y, month, day, h, m, s, r * NsPerTick)
        BY OtherDate
      <4>2. QED
        BY <2>3, <4>1, Zenon DEF WithDay
    <3>2. PICK x, u : x = r * NsPerTick /\ u = TimeAt(n, h, m, s, r) + (day - d) * DayTicks
      OBVIOUS
    <3>3. /\ day \in 1..Cal!MonthLength(y, month) =>
               ParseTime(Label(Fields(y, month, day, h, m, s, x))) = {u}
          /\ day \notin 1..Cal!MonthLength(y, month) =>
               ParseTime(Label(Fields(y, month, day, h, m, s, x))) = {}
      BY <2>2, <3>2, OtherDay
    <3>4. QED
      BY <2>2, <3>1, <3>2, <3>3, Zenon
  <2>6. ParseTime([label EXCEPT !.second = SecondsPerMinute, !.nanos = 0]) =
          {FromCivil([label EXCEPT !.second = SecondsPerMinute - 1, !.nanos = 0]) + TicksPerSecond}
    <3>1. ASSUME NEW k
          PROVE  [label EXCEPT !.second = k, !.nanos = 0] = Fields(y, month, d, h, m, k, 0)
      <4> DEFINE e == [label EXCEPT !.second = k, !.nanos = 0]
      <4>1. e \in [year : {y}, month : {month}, day : {d}, hour : {h}, minute : {m}, second : {k},
                   nanos : {0}]
        BY <2>3 DEF Fields
      <4> HIDE DEF e
      <4>2. e = Fields(y, month, d, h, m, k, 0)
        BY <4>1, FieldsOf
      <4>3. QED
        BY <4>2 DEF e
    <3>2. ParseTime(Fields(y, month, d, h, m, SecondsPerMinute, 0)) =
            {FromCivil(Fields(y, month, d, h, m, SecondsPerMinute - 1, 0)) + TicksPerSecond}
      BY <2>2, LeapSecond
    <3>3. QED
      BY <3>1, <3>2, Zenon
  <2> DEFINE date == <<label.year, label.month, label.day>>
             next == Civil(t + DayTicks)
             other == <<next.year, next.month, next.day>>
             none == <<label.year, 13, 1>>
             midnight == [secs |-> UnixOfCivil(label) - (UnixOfCivil(label) % SecondsPerDay), nanos |-> 0]
  <2>7. ValidDate(date) /\ DateInstant(date) = midnight
    <3>1. PICK x : x = r * NsPerTick
      OBVIOUS
    <3>2. /\ ValidDate(<<y, month, d>>)
          /\ DateInstant(<<y, month, d>>) =
               MidnightOfSecond(UnixOfCivil(Fields(y, month, d, h, m, s, x)))
      BY <2>2, DatesOfDays
    <3>3. date = <<y, month, d>> /\ label = Fields(y, month, d, h, m, s, x)
      BY <2>3, <2>4, <3>1
    <3>4. QED
      BY <3>2, <3>3, Zenon DEF MidnightOfSecond
  <2>8. ~ValidDate(none)
    <3>1. Midnight(none).month = 13
      BY DEF Midnight
    <3>2. QED
      BY <3>1 DEF ValidDate, IsValid
  <2>9. ValidDate(other) /\ other # date
    <3>1. PICK c : c = Civil(TimeAt(n, h, m, s, r) + DayTicks)
      OBVIOUS
    <3>2. /\ ValidDate(<<c.year, c.month, c.day>>)
          /\ <<c.year, c.month, c.day>> # <<y, month, d>>
      BY <2>2, <3>1, DayAfter
    <3>3. next = c /\ date = <<y, month, d>>
      BY <2>2, <2>4, <3>1
    <3>4. QED
      BY <3>2, <3>3, Zenon
  <2> HIDE DEF date, other, none, midnight
  <2>10. DateFromFilename(<<none, date, date>>) = {midnight}
    <3> DEFINE runs == <<none, date, date>>
    <3>1. /\ \A i \in DOMAIN runs : runs[i] = date \/ ~ValidDate(runs[i])
          /\ \E i \in DOMAIN runs : runs[i] = date
      BY <2>8
    <3> HIDE DEF runs
    <3>2. DateFromFilename(runs) = {DateInstant(date)}
      BY <2>7, <3>1, OneDate
    <3>3. QED
      BY <2>7, <3>2 DEF runs
  <2>11. DateFromFilename(<<date, other>>) = {}
    BY <2>7, <2>9, TwoDates
  <2>12. DateFromFilename(<<none>>) = {}
    BY <2>8, NoDate
  <2>13. \A day \in {0, label.day} \cup (28..32) :
           IF day \in 1..Cal!MonthLength(label.year, label.month)
             THEN ParseTime(Label([label EXCEPT !.day = day])) = {t + (day - label.day) * DayTicks}
             ELSE ParseTime(Label([label EXCEPT !.day = day])) = {}
    <3>1. \A day \in {0, label.day} \cup (28..32) : day \in Int
      BY <2>2, <2>4
    <3>2. QED
      BY <2>4, <2>5, <3>1, Zenon
  <2>14. QED
    BY <2>6, <2>10, <2>11, <2>12, <2>13, Zenon DEF OnlyRealDates, date, other, none, midnight, next
<1>2. QED
  BY <1>1, GpsInvariant, PTL
=============================================================================
