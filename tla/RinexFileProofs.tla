--------------------------- MODULE RinexFileProofs --------------------------
(***************************************************************************)
(* What holds of RINEX observation files of any number of observations, in *)
(* any order, of any signals, through either backend, and of the files     *)
(* made from them.                                                         *)
(***************************************************************************)
EXTENDS RinexFile, FiniteSetTheorems, WellFoundedInduction, TLAPS

(* A set of naturals has a least member.                                   *)
LEMMA NatMin ==
  ASSUME NEW S \in SUBSET Nat, S # {}
  PROVE  \E m \in S : \A k \in S : m <= k
<1>1. \E m \in S : \A k \in S : ~(<<k, m>> \in OpToRel(<, Nat))
  BY NatLessThanWellFounded, WFMin
<1>2. ASSUME NEW m \in S, NEW k \in S, k < m
      PROVE  <<k, m>> \in OpToRel(<, Nat)
  BY <1>2 DEF OpToRel
<1>3. PICK m \in S : \A k \in S : ~(k < m)
  BY <1>1, <1>2
<1>4. \A k \in S : m <= k
  BY <1>3
<1>5. QED
  BY <1>4

(* So does a set of naturals below a bound have a greatest.                *)
LEMMA NatMax ==
  ASSUME NEW n \in Nat, NEW S \in SUBSET (0..n), S # {}
  PROVE  \E m \in S : \A k \in S : k <= m
<1> DEFINE T == {n - x : x \in S}
<1>1. T \in SUBSET Nat /\ T # {}
  OBVIOUS
<1>2. PICK m \in T : \A k \in T : m <= k
  BY <1>1, NatMin
<1>3. PICK x \in S : m = n - x
  BY <1>2
<1>4. \A y \in S : n - x <= n - y
  BY <1>2, <1>3
<1>5. \A y \in S : y <= x
  BY <1>4
<1>6. QED
  BY <1>5

-----------------------------------------------------------------------------
(* Observations as they come, a signal once in an epoch, and in the order  *)
(* of each signal's time.                                                  *)
Distinct(s) ==
  \A i, j \in DOMAIN s : s[i].key = s[j].key /\ s[i].t = s[j].t => i = j

InOrder(s) ==
  \A i, j \in DOMAIN s : s[i].key = s[j].key => (i < j <=> s[i].t < s[j].t)

LEMMA ObservationFields ==
  ASSUME NEW o \in SignalObservation
  PROVE  /\ o.key \in Keys /\ o.t \in Nat /\ o.arc \in Nat
         /\ o.phase \in BOOLEAN /\ o.code \in BOOLEAN /\ o.hc \in BOOLEAN
BY DEF SignalObservation

(* The place of the i-th observation in the order of time.                 *)
NotAfter(s, i) ==
  {j \in DOMAIN s : s[j].t < s[i].t \/ (s[j].t = s[i].t /\ j <= i)}

(* Two observations have different places, in the order of time.           *)
LEMMA Places ==
  ASSUME NEW s \in Seq(SignalObservation), NEW i \in DOMAIN s
  PROVE  /\ Cardinality(NotAfter(s, i)) \in DOMAIN s
         /\ \A j \in DOMAIN s : i # j /\ (s[j].t < s[i].t \/ (s[j].t = s[i].t /\ j < i))
              => Cardinality(NotAfter(s, j)) < Cardinality(NotAfter(s, i))
<1>1. PICK n \in Nat : n = Len(s) /\ DOMAIN s = 1..n
  OBVIOUS
<1>2. \A j \in DOMAIN s : s[j].t \in Nat /\ j \in Nat
  <2>1. \A j \in DOMAIN s : s[j] \in SignalObservation /\ j \in Nat
    OBVIOUS
  <2>2. QED
    BY <2>1, ObservationFields
<1>3. \A j \in DOMAIN s : NotAfter(s, j) \in SUBSET (1..n) /\ j \in NotAfter(s, j)
  BY <1>1, <1>2 DEF NotAfter
<1>4. IsFiniteSet(1..n) /\ Cardinality(1..n) = n
  BY FS_Interval
<1>5. \A j \in DOMAIN s : /\ IsFiniteSet(NotAfter(s, j)) /\ Cardinality(NotAfter(s, j)) <= n
                          /\ Cardinality(NotAfter(s, j)) \in Nat
  BY <1>3, <1>4, FS_Subset, FS_CardinalityType
<1>6. Cardinality(NotAfter(s, i)) # 0
  BY <1>3, <1>5, FS_EmptySet
<1>7. Cardinality(NotAfter(s, i)) \in DOMAIN s
  BY <1>1, <1>5, <1>6
<1>8. ASSUME NEW j \in DOMAIN s, i # j, s[j].t < s[i].t \/ (s[j].t = s[i].t /\ j < i)
      PROVE  Cardinality(NotAfter(s, j)) < Cardinality(NotAfter(s, i))
  <2>1. NotAfter(s, j) \in SUBSET NotAfter(s, i) /\ i \notin NotAfter(s, j)
    BY <1>2, <1>8 DEF NotAfter
  <2>2. /\ Cardinality(NotAfter(s, j)) <= Cardinality(NotAfter(s, i))
        /\ Cardinality(NotAfter(s, i)) = Cardinality(NotAfter(s, j)) => NotAfter(s, i) = NotAfter(s, j)
    BY <1>5, <2>1, FS_Subset
  <2>3. Cardinality(NotAfter(s, i)) # Cardinality(NotAfter(s, j))
    BY <1>3, <2>1, <2>2
  <2>4. QED
    BY <1>5, <1>8, <2>2, <2>3
<1>9. QED
  BY <1>7, <1>8

(* Sorting keeps the observations, and orders those of each signal.        *)
LEMMA SortedFacts ==
  ASSUME NEW s \in Seq(SignalObservation), Distinct(s)
  PROVE  /\ Sorted(s) \in Seq(SignalObservation)
         /\ DOMAIN Sorted(s) = DOMAIN s
         /\ \A n \in DOMAIN s : \E i \in DOMAIN s : Sorted(s)[n] = s[i]
         /\ \A i \in DOMAIN s : \E n \in DOMAIN s : Sorted(s)[n] = s[i]
         /\ InOrder(Sorted(s))
<1> DEFINE place == [i \in DOMAIN s |-> Cardinality(NotAfter(s, i))]
           D == DOMAIN s
           before(j, i) == s[j].t < s[i].t \/ (s[j].t = s[i].t /\ j < i)
<1>1. place \in [D -> D] /\ \A i \in D : place[i] = Cardinality(NotAfter(s, i))
  BY Places
<1>2. \A i \in D : s[i].t \in Nat /\ i \in Nat /\ place[i] \in Nat /\ s[i] \in SignalObservation
  <2>1. \A i \in D : s[i] \in SignalObservation /\ i \in Nat /\ place[i] \in Nat
    BY <1>1
  <2>2. QED
    BY <2>1, ObservationFields
<1>3. \A i, j \in D : i # j /\ before(j, i) => place[j] < place[i]
  BY <1>1, Places
<1>4. \A i, j \in D : i # j => before(j, i) \/ before(i, j)
  BY <1>2
<1>5. \A i, j \in D : place[i] = place[j] => i = j
  BY <1>2, <1>3, <1>4
<1>6. IsFiniteSet(D)
  <2>1. PICK n \in Nat : D = 1..n
    OBVIOUS
  <2>2. QED
    BY <2>1, FS_Interval
<1>7. place \in Injection(D, D)
  BY <1>1, <1>5 DEF Injection, IsInjective
<1>8. place \in Surjection(D, D)
  BY <1>6, <1>7, FS_Injection
<1>9. \A n \in D : \E i \in D : place[i] = n
  BY <1>8 DEF Surjection
<1>10. Sorted(s) = [n \in D |-> s[CHOOSE i \in D : Cardinality(NotAfter(s, i)) = n]]
  BY DEF Sorted, NotAfter
<1>11. \A n \in D : (CHOOSE i \in D : Cardinality(NotAfter(s, i)) = n) = CHOOSE i \in D : place[i] = n
  BY <1>1, Zenon
<1> DEFINE from(n) == CHOOSE i \in D : place[i] = n
<1>12. \A n \in D : Sorted(s)[n] = s[from(n)] /\ from(n) \in D /\ place[from(n)] = n
  <2>1. ASSUME NEW n \in D PROVE Sorted(s)[n] = s[from(n)] /\ from(n) \in D /\ place[from(n)] = n
    <3>1. Sorted(s)[n] = s[CHOOSE i \in D : Cardinality(NotAfter(s, i)) = n]
      BY <1>10, Zenon
    <3>2. Sorted(s)[n] = s[from(n)]
      BY <1>11, <3>1, Zenon
    <3>3. from(n) \in D /\ place[from(n)] = n
      <4> HIDE DEF place
      <4>1. \E i \in D : place[i] = n
        BY <1>9
      <4>2. QED
        BY <4>1, Zenon
    <3>4. QED
      BY <3>2, <3>3
  <2>2. QED
    BY <2>1
<1> HIDE DEF place, from, before
<1>13. \A n \in D : \E i \in D : Sorted(s)[n] = s[i]
  BY <1>12
<1>14. \A i \in D : \E n \in D : Sorted(s)[n] = s[i]
  <2>1. ASSUME NEW i \in D PROVE \E n \in D : Sorted(s)[n] = s[i]
    <3>1. place[i] \in D
      BY <1>1
    <3>2. from(place[i]) = i
      BY <1>5, <1>12, <3>1
    <3>3. QED
      BY <1>12, <3>1, <3>2
  <2>2. QED
    BY <2>1
<1>15. DOMAIN Sorted(s) = D /\ Sorted(s) \in Seq(SignalObservation)
  <2>1. PICK n \in Nat : D = 1..n
    OBVIOUS
  <2>2. Sorted(s) \in [1..n -> SignalObservation]
    BY <1>2, <1>10, <1>12, <2>1
  <2>3. QED
    BY <2>1, <2>2
<1>16. ASSUME NEW n \in D, NEW m \in D, Sorted(s)[n].key = Sorted(s)[m].key
       PROVE  n < m <=> Sorted(s)[n].t < Sorted(s)[m].t
  <2>1. PICK i \in D : i = from(n) /\ Sorted(s)[n] = s[i] /\ place[i] = n
    BY <1>12
  <2>2. PICK j \in D : j = from(m) /\ Sorted(s)[m] = s[j] /\ place[j] = m
    BY <1>12
  <2>3. CASE i = j
    BY <1>2, <2>1, <2>2, <2>3
  <2>4. CASE i # j
    <3>1. s[i].t # s[j].t
      BY <1>16, <2>1, <2>2, <2>4 DEF Distinct
    <3>2. (before(i, j) <=> s[i].t < s[j].t) /\ (before(j, i) <=> s[j].t < s[i].t)
      BY <1>2, <3>1 DEF before
    <3>3. (before(i, j) => place[i] < place[j]) /\ (before(j, i) => place[j] < place[i])
      BY <1>3, <2>4
    <3>4. before(i, j) \/ before(j, i)
      BY <1>4, <2>4
    <3>5. s[i].t \in Nat /\ s[j].t \in Nat /\ place[i] \in Nat /\ place[j] \in Nat
      BY <1>2
    <3>6. place[i] < place[j] <=> s[i].t < s[j].t
      BY <3>2, <3>3, <3>4, <3>5
    <3>7. QED
      BY <2>1, <2>2, <3>6
  <2>5. QED
    BY <2>3, <2>4
<1>17. QED
  BY <1>13, <1>14, <1>15, <1>16 DEF InOrder

-----------------------------------------------------------------------------
(* Files: a field once, and bits on phases only; no field is for nothing,  *)
(* and the external backend's have values.                                 *)
FileFields ==
  [key : Keys, t : Nat, col : {"C", "L"}, val : BOOLEAN, ll : BOOLEAN, hc : BOOLEAN]

WellFormed(f) ==
  /\ f \in SUBSET FileFields /\ IsFiniteSet(f)
  /\ \A x, y \in f : x.key = y.key /\ x.t = y.t /\ x.col = y.col => x = y
  /\ \A x \in f : x.col = "C" => x.val /\ ~x.ll /\ ~x.hc

Needed(f) == \A x \in f : x.val \/ x.ll \/ x.hc

Valued(b, f) == b = "external" => \A x \in f : x.val

LEMMA FieldTypes ==
  ASSUME NEW f, WellFormed(f), NEW x \in f
  PROVE  /\ x \in FileFields /\ x.key \in Keys /\ x.t \in Nat /\ x.col \in {"C", "L"}
         /\ x.val \in BOOLEAN /\ x.ll \in BOOLEAN /\ x.hc \in BOOLEAN
BY DEF WellFormed, FileFields

(* The bits of a signal up to a time, and after another.                   *)
Bits(f, k, t) == {x \in f : x.key = k /\ x.t <= t /\ x.ll}

BitBetween(f, k, s, t) == \E x \in f : x.key = k /\ s < x.t /\ x.t <= t /\ x.ll

BitOn(f, k, t) == \E x \in f : x.key = k /\ x.t = t /\ x.ll

(* Arc moves exactly where there is a bit.                                 *)
LEMMA ArcMoves ==
  ASSUME NEW f, WellFormed(f), NEW k, NEW s \in Int, NEW t \in Int, s <= t
  PROVE  /\ ArcAt(f, k, s) \in Nat /\ ArcAt(f, k, t) \in Nat
         /\ ArcAt(f, k, s) = ArcAt(f, k, t) <=> ~BitBetween(f, k, s, t)
         /\ ArcAt(f, k, t) = 0 <=> Bits(f, k, t) = {}
<1>1. IsFiniteSet(f) /\ \A x \in f : x.t \in Int
  BY FieldTypes DEF WellFormed
<1>2. Bits(f, k, s) \in SUBSET Bits(f, k, t) /\ Bits(f, k, t) \in SUBSET f
  BY <1>1 DEF Bits
<1>3. /\ IsFiniteSet(Bits(f, k, t)) /\ Cardinality(Bits(f, k, t)) \in Nat
      /\ IsFiniteSet(Bits(f, k, s)) /\ Cardinality(Bits(f, k, s)) \in Nat
      /\ Cardinality(Bits(f, k, t)) = Cardinality(Bits(f, k, s)) => Bits(f, k, t) = Bits(f, k, s)
  BY <1>1, <1>2, FS_Subset, FS_CardinalityType
<1>4. ArcAt(f, k, s) = Cardinality(Bits(f, k, s)) /\ ArcAt(f, k, t) = Cardinality(Bits(f, k, t))
  BY DEF ArcAt, Bits
<1>5. Bits(f, k, t) = Bits(f, k, s) <=> ~BitBetween(f, k, s, t)
  BY <1>1 DEF Bits, BitBetween
<1>6. Cardinality(Bits(f, k, t)) = 0 <=> Bits(f, k, t) = {}
  BY <1>3, FS_EmptySet
<1>7. QED
  BY <1>3, <1>4, <1>5, <1>6

(* What is read of a signal in an epoch.                                   *)
HasPhase(f, k, t) == \E y \in f : y.key = k /\ y.t = t /\ y.col = "L" /\ y.val
HasCode(f, k, t) == \E y \in f : y.key = k /\ y.t = t /\ y.col = "C"
HasHc(f, k, t) == \E y \in f : y.key = k /\ y.t = t /\ y.hc

Seen(f, k, t) ==
  [key |-> k, t |-> t, phase |-> HasPhase(f, k, t), code |-> HasCode(f, k, t),
   arc |-> ArcAt(f, k, t), hc |-> HasHc(f, k, t)]

LEMMA SeenTypes ==
  ASSUME NEW f, WellFormed(f), NEW k \in Keys, NEW t \in Nat
  PROVE  Seen(f, k, t) \in SignalObservation
<1>1. ArcAt(f, k, t) \in Nat
  BY ArcMoves
<1>2. /\ HasPhase(f, k, t) \in BOOLEAN /\ HasCode(f, k, t) \in BOOLEAN
      /\ HasHc(f, k, t) \in BOOLEAN
  BY DEF HasPhase, HasCode, HasHc
<1>3. QED
  BY <1>1, <1>2 DEF Seen, SignalObservation

LEMMA ReadBackFacts ==
  ASSUME NEW f, WellFormed(f)
  PROVE  /\ ReadBack(f) = {Seen(f, x.key, x.t) : x \in f}
         /\ ReadBack(f) \in SUBSET SignalObservation
         /\ IsFiniteSet(ReadBack(f))
         /\ \A a, b \in ReadBack(f) : a.key = b.key /\ a.t = b.t => a = b
<1>1. ReadBack(f) = {Seen(f, x.key, x.t) : x \in f}
  BY DEF ReadBack, Seen, HasPhase, HasCode, HasHc
<1>2. ReadBack(f) \in SUBSET SignalObservation
  BY <1>1, FieldTypes, SeenTypes
<1>3. IsFiniteSet(ReadBack(f))
  <2> DEFINE g == [x \in f |-> Seen(f, x.key, x.t)]
  <2>1. g \in Surjection(f, ReadBack(f))
    BY <1>1 DEF Surjection
  <2>2. QED
    BY <2>1, FS_Surjection DEF WellFormed
<1>4. ASSUME NEW a \in ReadBack(f), NEW b \in ReadBack(f), a.key = b.key, a.t = b.t
      PROVE  a = b
  <2>1. a = Seen(f, a.key, a.t) /\ b = Seen(f, b.key, b.t)
    BY <1>1 DEF Seen
  <2>2. QED
    BY <1>4, <2>1
<1>5. QED
  BY <1>1, <1>2, <1>3, <1>4

(* An observation read, field by field.                                    *)
LEMMA ReadOne ==
  ASSUME NEW f, WellFormed(f), NEW b \in ReadBack(f)
  PROVE  /\ b \in SignalObservation /\ b = Seen(f, b.key, b.t)
         /\ b.key \in Keys /\ b.t \in Nat /\ b.arc = ArcAt(f, b.key, b.t)
         /\ b.phase <=> HasPhase(f, b.key, b.t)
         /\ b.code <=> HasCode(f, b.key, b.t)
         /\ b.hc <=> HasHc(f, b.key, b.t)
         /\ \E x \in f : x.key = b.key /\ x.t = b.t
<1>1. PICK x \in f : b = Seen(f, x.key, x.t)
  BY ReadBackFacts
<1>2. b.key = x.key /\ b.t = x.t
  BY <1>1 DEF Seen
<1>3. b = Seen(f, b.key, b.t)
  BY <1>1, <1>2
<1>4. /\ b.arc = ArcAt(f, b.key, b.t) /\ b.phase = HasPhase(f, b.key, b.t)
      /\ b.code = HasCode(f, b.key, b.t) /\ b.hc = HasHc(f, b.key, b.t)
  <2>1. PICK k, t : k = b.key /\ t = b.t
    OBVIOUS
  <2>2. b = [key |-> k, t |-> t, phase |-> HasPhase(f, k, t), code |-> HasCode(f, k, t),
             arc |-> ArcAt(f, k, t), hc |-> HasHc(f, k, t)]
    BY <1>3, <2>1 DEF Seen
  <2>3. QED
    BY <2>1, <2>2
<1>5. b \in SignalObservation
  BY ReadBackFacts
<1>6. QED
  BY <1>2, <1>3, <1>4, <1>5, ObservationFields

(* Arc of two observations read of a signal differs exactly when there is  *)
(* a bit after the earlier up to the later.                                *)
LEMMA ReadArcs ==
  ASSUME NEW f, WellFormed(f), NEW a \in ReadBack(f), NEW b \in ReadBack(f),
         a.key = b.key, a.t <= b.t
  PROVE  a.arc # b.arc <=> BitBetween(f, b.key, a.t, b.t)
BY ReadOne, ArcMoves

(* The written records.                                                    *)
Kept(b, f) == IF b = "external" THEN {x \in f : x.val} ELSE f

LEMMA KeptFacts ==
  ASSUME NEW b, NEW f, WellFormed(f)
  PROVE  /\ WellFormed(Kept(b, f)) /\ Valued(b, Kept(b, f))
         /\ ReadObservations(b, f) = ReadBack(Kept(b, f))
         /\ Valued(b, f) => Kept(b, f) = f
<1>1. Kept(b, f) \in SUBSET f /\ (Valued(b, f) => Kept(b, f) = f)
  BY DEF Kept, Valued
<1>2. WellFormed(Kept(b, f))
  BY <1>1, FS_Subset DEF WellFormed
<1>3. ReadObservations(b, f) = ReadBack(Kept(b, f))
  BY DEF Kept, ReadObservations, ObservationsFromRecord
<1>4. Valued(b, Kept(b, f))
  BY DEF Valued, Kept
<1>5. QED
  BY <1>1, <1>2, <1>3, <1>4

-----------------------------------------------------------------------------
(* Writing observations that are in order.                                 *)
Ready(u) == u \in Seq(SignalObservation) /\ InOrder(u)

LEMMA ReadyFacts ==
  ASSUME NEW u, Ready(u), NEW i \in DOMAIN u
  PROVE  /\ i \in Nat /\ DOMAIN u = 1..Len(u) /\ Len(u) \in Nat
         /\ u[i] \in SignalObservation
         /\ u[i].key \in Keys /\ u[i].t \in Nat /\ u[i].arc \in Nat
         /\ u[i].phase \in BOOLEAN /\ u[i].code \in BOOLEAN /\ u[i].hc \in BOOLEAN
         /\ Lli(u, i) \in BOOLEAN
         /\ Before(u, i) \in SUBSET (0..i)
         /\ Before(u, i) = {x \in DOMAIN u : u[x].key = u[i].key /\ u[x].t < u[i].t}
<1>1. u \in Seq(SignalObservation)
  BY DEF Ready
<1>2. i \in Nat /\ DOMAIN u = 1..Len(u) /\ Len(u) \in Nat /\ u[i] \in SignalObservation
  BY <1>1
<1>3. Before(u, i) = {x \in DOMAIN u : u[x].key = u[i].key /\ x < i}
  BY <1>2 DEF Before
<1>4. Before(u, i) = {x \in DOMAIN u : u[x].key = u[i].key /\ u[x].t < u[i].t}
  BY <1>3 DEF Ready, InOrder
<1>5. Before(u, i) \in SUBSET (0..i)
  BY <1>2, <1>3
<1>6. QED
  BY <1>2, <1>4, <1>5, ObservationFields DEF Lli

LEMMA ReadyOnce ==
  ASSUME NEW u, Ready(u), NEW i \in DOMAIN u, NEW j \in DOMAIN u,
         u[i].key = u[j].key, u[i].t = u[j].t
  PROVE  i = j
<1>1. i \in Nat /\ j \in Nat /\ u[i].t \in Nat
  BY ReadyFacts
<1>2. ~(i < j) /\ ~(j < i)
  BY <1>1 DEF Ready, InOrder
<1>3. QED
  BY <1>1, <1>2

(* The bit says that arc is not what it was before.                        *)
LEMMA LliFacts ==
  ASSUME NEW u, Ready(u), NEW i \in DOMAIN u
  PROVE  /\ Before(u, i) = {} => (Lli(u, i) <=> u[i].arc # 0)
         /\ \A x \in Before(u, i) : (\A y \in Before(u, i) : y <= x)
              => (Lli(u, i) <=> u[i].arc # u[x].arc)
         /\ Lli(u, i) <=> u[i].arc # ArcBefore(u, i)
<1>1. Before(u, i) \in SUBSET (0..i) /\ i \in Nat
  BY ReadyFacts
<1>2. \A x, y \in Before(u, i) : x <= y /\ y <= x => x = y
  BY <1>1
<1>3. \A x \in Before(u, i) : (\A y \in Before(u, i) : y <= x)
              => (Lli(u, i) <=> u[i].arc # u[x].arc)
  BY <1>2 DEF Lli
<1>4. CASE Before(u, i) = {}
  BY <1>3, <1>4 DEF Lli, ArcBefore
<1>5. CASE Before(u, i) # {}
  <2> DEFINE b == Before(u, i)
             m == Max(b)
  <2>1. PICK g \in b : \A y \in b : y <= g
    BY <1>1, <1>5, NatMax
  <2>2. g \in b /\ \A y \in b : g >= y
    BY <1>1, <2>1
  <2>3. m \in b /\ \A y \in b : m >= y
    <3> HIDE DEF b
    <3>1. QED
      BY <2>2 DEF Max
  <2>4. m \in b /\ \A y \in b : y <= m
    BY <1>1, <2>3
  <2>5. ArcBefore(u, i) = u[m].arc
    BY <1>5 DEF ArcBefore
  <2> HIDE DEF m
  <2>6. QED
    BY <1>3, <1>5, <2>4, <2>5
<1>6. QED
  BY <1>3, <1>4, <1>5

(* Every field that is wanted is written, and no other.                    *)
LEMMA WrittenFields ==
  ASSUME NEW b, NEW u, Ready(u), NEW x
  PROVE  x \in Written(b, u) <=>
           \E i \in DOMAIN u, col \in {"C", "L"} : Wants(b, u, i, col) /\ x = Field(u, i, col)
<1> DEFINE first(i, col) == \A j \in 1..(i - 1) :
             Wants(b, u, j, col) => <<u[j].key, u[j].t>> # <<u[i].key, u[i].t>>
<1>1. ASSUME NEW i \in DOMAIN u, NEW col \in {"C", "L"}, Wants(b, u, i, col)
      PROVE  <<u[i].key, col>> \in Columns(u) /\ first(i, col)
  <2>1. first(i, col)
    <3>1. ASSUME NEW j \in 1..(i - 1) PROVE <<u[j].key, u[j].t>> # <<u[i].key, u[i].t>>
      <4>1. j \in DOMAIN u /\ j # i
        BY ReadyFacts
      <4>2. ~(u[j].key = u[i].key /\ u[j].t = u[i].t)
        BY <4>1, ReadyOnce
      <4>3. QED
        BY <4>2
    <3>2. QED
      BY <3>1
  <2>2. CASE col = "C"
    <3> DEFINE S == {y \in DOMAIN u : u[y].code}
    <3>1. i \in S
      BY <1>1, <2>2 DEF Wants
    <3> HIDE DEF S
    <3>2. <<u[i].key, "C">> \in {<<u[y].key, "C">> : y \in S}
      BY <3>1
    <3>3. QED
      BY <2>1, <2>2, <3>2 DEF Columns, S
  <2>3. CASE col = "L"
    <3>1. u[i].code \/ u[i].phase \/ Lli(u, i) \/ u[i].hc
      BY <1>1, <2>3 DEF Wants, WantsPhase
    <3> DEFINE S == {y \in DOMAIN u : u[y].code \/ u[y].phase \/ Lli(u, y) \/ u[y].hc}
    <3>2. i \in S
      BY <3>1
    <3> HIDE DEF S
    <3>3. <<u[i].key, "L">> \in {<<u[y].key, "L">> : y \in S}
      BY <3>2
    <3>4. QED
      BY <2>1, <2>3, <3>3 DEF Columns, S
  <2>4. QED
    BY <2>1, <2>2, <2>3
<1>2. x \in Written(b, u) <=>
        \E col \in {"C", "L"} : x \in {Field(u, i, col) : i \in
            {y \in DOMAIN u : /\ Wants(b, u, y, col) /\ <<u[y].key, col>> \in Columns(u)
                              /\ first(y, col)}}
  BY DEF Written
<1> HIDE DEF first
<1>3. QED
  BY <1>1, <1>2

LEMMA FieldFacts ==
  ASSUME NEW b, NEW u, Ready(u), NEW i \in DOMAIN u, NEW col \in {"C", "L"}
  PROVE  /\ Field(u, i, col) \in FileFields
         /\ Field(u, i, col).key = u[i].key /\ Field(u, i, col).t = u[i].t
         /\ Field(u, i, col).col = col
         /\ Field(u, i, col).val <=> (IF col = "C" THEN TRUE ELSE u[i].phase)
         /\ Field(u, i, col).ll <=> (col = "L" /\ Lli(u, i))
         /\ Field(u, i, col).hc <=> (col = "L" /\ u[i].hc)
<1> DEFINE v == IF col = "C" THEN TRUE ELSE u[i].phase
           l == col = "L" /\ Lli(u, i)
           h == col = "L" /\ u[i].hc
<1>1. u[i].key \in Keys /\ u[i].t \in Nat /\ v \in BOOLEAN /\ l \in BOOLEAN /\ h \in BOOLEAN
  BY ReadyFacts
<1>2. Field(u, i, col) = [key |-> u[i].key, t |-> u[i].t, col |-> col, val |-> v,
                          ll |-> l, hc |-> h]
  BY DEF Field
<1> HIDE DEF v, l, h
<1>3. /\ Field(u, i, col) \in FileFields
      /\ Field(u, i, col).key = u[i].key /\ Field(u, i, col).t = u[i].t
      /\ Field(u, i, col).col = col /\ Field(u, i, col).val = v
      /\ Field(u, i, col).ll = l /\ Field(u, i, col).hc = h
  BY <1>1, <1>2 DEF FileFields
<1>4. QED
  BY <1>3 DEF v, l, h

LEMMA WrittenFacts ==
  ASSUME NEW b, NEW u, Ready(u)
  PROVE  WellFormed(Written(b, u)) /\ Needed(Written(b, u)) /\ Valued(b, Written(b, u))
<1> DEFINE w == Written(b, u)
<1>1. \A x \in w : \E i \in DOMAIN u, col \in {"C", "L"} : Wants(b, u, i, col) /\ x = Field(u, i, col)
  BY WrittenFields
<1>2. w \in SUBSET FileFields
  BY <1>1, FieldFacts
<1>3. IsFiniteSet(w)
  <2> DEFINE g(col) == [i \in DOMAIN u |-> Field(u, i, col)]
             S(col) == {Field(u, i, col) : i \in DOMAIN u}
  <2>1. IsFiniteSet(DOMAIN u)
    <3>1. PICK n \in Nat : DOMAIN u = 1..n
      BY DEF Ready
    <3>2. QED
      BY <3>1, FS_Interval
  <2>2. ASSUME NEW col PROVE IsFiniteSet(S(col))
    <3>1. g(col) \in Surjection(DOMAIN u, S(col))
      BY DEF Surjection
    <3>2. QED
      BY <2>1, <3>1, FS_Surjection
  <2>3. IsFiniteSet(S("C") \cup S("L"))
    <3>1. PICK A, B : A = S("C") /\ B = S("L")
      OBVIOUS
    <3>2. IsFiniteSet(A) /\ IsFiniteSet(B)
      BY <2>2, <3>1
    <3>3. QED
      BY <3>1, <3>2, FS_Union
  <2>4. w \in SUBSET (S("C") \cup S("L"))
    BY <1>1
  <2>5. QED
    BY <2>3, <2>4, FS_Subset
<1>4. ASSUME NEW x \in w, NEW y \in w, x.key = y.key, x.t = y.t, x.col = y.col
      PROVE  x = y
  <2>1. PICK i \in DOMAIN u, col \in {"C", "L"} : x = Field(u, i, col)
    BY <1>1
  <2>2. PICK j \in DOMAIN u, c \in {"C", "L"} : y = Field(u, j, c)
    BY <1>1
  <2>3. col = c /\ u[i].key = u[j].key /\ u[i].t = u[j].t
    BY <1>4, <2>1, <2>2, FieldFacts
  <2>4. QED
    BY <2>1, <2>2, <2>3, ReadyOnce
<1>5. ASSUME NEW x \in w
      PROVE  /\ x.col = "C" => x.val /\ ~x.ll /\ ~x.hc
             /\ x.val \/ x.ll \/ x.hc
             /\ b = "external" => x.val
  <2>1. PICK i \in DOMAIN u, col \in {"C", "L"} : Wants(b, u, i, col) /\ x = Field(u, i, col)
    BY <1>1
  <2>2. /\ x.col = col /\ (x.val <=> (IF col = "C" THEN TRUE ELSE u[i].phase))
        /\ (x.ll <=> (col = "L" /\ Lli(u, i))) /\ (x.hc <=> (col = "L" /\ u[i].hc))
    BY <2>1, FieldFacts
  <2>3. CASE col = "C"
    BY <2>2, <2>3
  <2>4. CASE col = "L"
    <3>1. u[i].phase \/ (b = "internal" /\ (Lli(u, i) \/ u[i].hc))
      BY <2>1, <2>4 DEF Wants, WantsPhase
    <3>2. QED
      BY <2>2, <2>4, <3>1
  <2>5. QED
    BY <2>3, <2>4
<1>6. QED
  BY <1>2, <1>3, <1>4, <1>5 DEF WellFormed, Needed, Valued

(* What a file has of the i-th observation.                                *)
LEMMA WrittenOf ==
  ASSUME NEW b, NEW u, Ready(u), NEW i \in DOMAIN u, NEW k, NEW t, k = u[i].key, t = u[i].t,
         NEW w, w = Written(b, u)
  PROVE  /\ HasPhase(w, k, t) <=> u[i].phase
         /\ HasCode(w, k, t) <=> u[i].code
         /\ HasHc(w, k, t) <=> u[i].hc /\ WantsPhase(b, u, i)
         /\ BitOn(w, k, t) <=> Lli(u, i) /\ WantsPhase(b, u, i)
         /\ (\E x \in w : x.key = k /\ x.t = t) <=> u[i].code \/ WantsPhase(b, u, i)
<1> DEFINE C == Field(u, i, "C")
           L == Field(u, i, "L")
<1>1. /\ C.key = k /\ C.t = t /\ C.col = "C" /\ C.val /\ ~C.ll /\ ~C.hc
      /\ L.key = k /\ L.t = t /\ L.col = "L" /\ (L.val <=> u[i].phase)
      /\ (L.ll <=> Lli(u, i)) /\ (L.hc <=> u[i].hc)
  BY FieldFacts
<1>2. (C \in w <=> u[i].code) /\ (L \in w <=> WantsPhase(b, u, i))
  <2>1. ASSUME NEW col \in {"C", "L"}
        PROVE  Field(u, i, col) \in w <=> Wants(b, u, i, col)
    <3>1. Wants(b, u, i, col) => Field(u, i, col) \in w
      BY WrittenFields
    <3>2. ASSUME Field(u, i, col) \in w PROVE Wants(b, u, i, col)
      <4>1. PICK j \in DOMAIN u, c \in {"C", "L"} :
              Wants(b, u, j, c) /\ Field(u, i, col) = Field(u, j, c)
        BY <3>2, WrittenFields
      <4>2. c = col /\ u[j].key = u[i].key /\ u[j].t = u[i].t
        BY <4>1, FieldFacts
      <4>3. j = i
        BY <4>2, ReadyOnce
      <4>4. QED
        BY <4>1, <4>2, <4>3
    <3>3. QED
      BY <3>1, <3>2
  <2>2. (Wants(b, u, i, "C") <=> u[i].code) /\ (Wants(b, u, i, "L") <=> WantsPhase(b, u, i))
    <3>1. Wants(b, u, i, "C") = u[i].code
      BY DEF Wants
    <3>2. Wants(b, u, i, "L") = WantsPhase(b, u, i)
      BY DEF Wants
    <3>3. QED
      BY <3>1, <3>2
  <2>3. QED
    BY <2>1, <2>2
<1>3. ASSUME NEW x \in w, x.key = k, x.t = t PROVE x = C \/ x = L
  <2>1. PICK j \in DOMAIN u, c \in {"C", "L"} : x = Field(u, j, c)
    BY WrittenFields
  <2>2. u[j].key = u[i].key /\ u[j].t = u[i].t
    BY <1>3, <2>1, FieldFacts
  <2>3. j = i
    BY <2>2, ReadyOnce
  <2>4. QED
    BY <2>1, <2>3
<1> HIDE DEF C, L
<1>4. u[i].phase => WantsPhase(b, u, i)
  BY DEF WantsPhase
<1>5. QED
  BY <1>1, <1>2, <1>3, <1>4 DEF HasPhase, HasCode, HasHc, BitOn

-----------------------------------------------------------------------------
(* Sequences that hold a set.                                              *)
Enumerates(s, S) ==
  /\ s \in Seq(S)
  /\ \A x \in S : \E i \in DOMAIN s : s[i] = x
  /\ \A i, j \in DOMAIN s : s[i] = s[j] => i = j

LEMMA InjectionsEnumerate ==
  ASSUME NEW S, IsFiniteSet(S), NEW s \in [1..Cardinality(S) -> S], IsInjective(s)
  PROVE  Enumerates(s, S)
<1>1. PICK n \in Nat : n = Cardinality(S)
  BY FS_CardinalityType
<1>2. IsFiniteSet(1..n) /\ Cardinality(1..n) = n
  BY FS_Interval
<1>3. s \in Injection(1..n, S)
  BY <1>1 DEF Injection
<1>4. s \in Surjection(1..n, S)
  BY <1>1, <1>2, <1>3, FS_Injection
<1>5. s \in Seq(S) /\ DOMAIN s = 1..n
  BY <1>1
<1>6. QED
  BY <1>4, <1>5 DEF Enumerates, Surjection, IsInjective

LEMMA SetToSeqsEnumerate ==
  ASSUME NEW S, IsFiniteSet(S), NEW s \in SetToSeqs(S)
  PROVE  Enumerates(s, S)
BY InjectionsEnumerate DEF SetToSeqs, IsInjective

LEMMA SetToSeqEnumerates ==
  ASSUME NEW S, IsFiniteSet(S)
  PROVE  Enumerates(SetToSeq(S), S)
<1> DEFINE F == [1..Cardinality(S) -> S]
<1>1. \E f \in F : IsInjective(f)
  BY FS_CardinalityType DEF ExistsBijection, Bijection, Injection
<1>2. SetToSeq(S) \in F /\ IsInjective(SetToSeq(S))
  <2> HIDE DEF F
  <2>1. SetToSeq(S) = CHOOSE f \in F : IsInjective(f)
    BY DEF SetToSeq, F
  <2>2. QED
    BY <1>1, <2>1
<1>3. QED
  BY <1>2, InjectionsEnumerate

-----------------------------------------------------------------------------
(* The invariant.  What is converted again is what was read of a file that *)
(* can be written.                                                         *)
Once(S) == \A a, b \in S : a.key = b.key /\ a.t = b.t => a = b

Writable(b, f) == WellFormed(f) /\ Needed(f) /\ Valued(b, f)

FileInv ==
  /\ backend \in {"internal", "external"}
  /\ stage \in {"input", "flush", "file", "back", "failed"}
  /\ files \in 0..MaxFiles
  /\ stage = "input" => files = 0
  /\ stage = "flush" => files < MaxFiles
  /\ obs \in Seq(SignalObservation) /\ Distinct(obs)
  /\ Writable(backend, file)
  /\ stage \in {"file", "back"} => file = Written(backend, Sorted(obs))
  /\ back \in SUBSET SignalObservation /\ IsFiniteSet(back) /\ Once(back)
  /\ stage = "back" => back = ReadBack(file)
  /\ stage = "flush" \/ (stage = "file" /\ files > 1) =>
       /\ Enumerates(obs, back)
       /\ \E g : Writable(backend, g) /\ back = ReadBack(g)

LEMMA SortedReady ==
  ASSUME NEW s \in Seq(SignalObservation), Distinct(s)
  PROVE  Ready(Sorted(s))
BY SortedFacts DEF Ready

LEMMA FileInvariant == Spec => []FileInv
<1>1. Init => FileInv
  <2>1. IsFiniteSet({}) /\ WellFormed({}) /\ Needed({}) /\ (\A b : Valued(b, {}))
    BY FS_EmptySet DEF WellFormed, Needed, Valued
  <2>2. QED
    BY <2>1, RinexFileAssumption DEF Init, FileInv, Distinct, Once, Writable
<1>2. FileInv /\ [Next]_vars => FileInv'
  <2> SUFFICES ASSUME FileInv, [Next]_vars PROVE FileInv'
    OBVIOUS
  <2>1. ASSUME NEW o \in Observations, Observation(o) PROVE FileInv'
    <3>1. /\ o \in SignalObservation /\ obs' = Append(obs, o) /\ obs \in Seq(SignalObservation)
          /\ \A i \in DOMAIN obs : ~(obs[i].key = o.key /\ obs[i].t = o.t)
          /\ stage = "input" /\ files = 0
          /\ UNCHANGED <<backend, stage, file, back, files>>
      BY <2>1, RinexFileAssumption DEF Observation, FileInv
    <3>2. obs' \in Seq(SignalObservation) /\ Distinct(obs)'
      <4>1. PICK n \in Nat : n = Len(obs)
        BY <3>1
      <4>2. /\ obs' \in Seq(SignalObservation) /\ DOMAIN obs' = 1..(n + 1) /\ DOMAIN obs = 1..n
            /\ obs'[n + 1] = o /\ \A i \in 1..n : obs'[i] = obs[i]
        BY <3>1, <4>1
      <4>3. ASSUME NEW i \in 1..(n + 1), NEW j \in 1..(n + 1), obs'[i].key = obs'[j].key,
                   obs'[i].t = obs'[j].t
            PROVE  i = j
        <5>1. CASE i \in 1..n /\ j \in 1..n
          BY <4>2, <4>3, <5>1 DEF FileInv, Distinct
        <5>2. CASE i \in 1..n /\ j = n + 1
          BY <3>1, <4>2, <4>3, <5>2
        <5>3. CASE i = n + 1 /\ j \in 1..n
          BY <3>1, <4>2, <4>3, <5>3
        <5>4. QED
          BY <4>1, <5>1, <5>2, <5>3
      <4>4. QED
        BY <4>2, <4>3 DEF Distinct
    <3>3. QED
      BY <3>1, <3>2 DEF FileInv
  <2>2. CASE Flush
    <3>1. CASE stage' = "failed" /\ UNCHANGED <<file, files>>
      BY <2>2, <3>1 DEF Flush, FileInv
    <3>2. CASE stage' = "file" /\ file' = Written(backend, Sorted(obs)) /\ files' = files + 1
      <4>1. Writable(backend, file')
        BY <3>2, SortedReady, WrittenFacts DEF FileInv, Writable
      <4>2. /\ stage \in {"input", "flush"} /\ backend' = backend /\ obs' = obs /\ back' = back
        BY <2>2 DEF Flush
      <4>3. files + 1 \in 0..MaxFiles /\ (files + 1 > 1 => stage = "flush")
        BY <4>2, RinexFileAssumption DEF FileInv
      <4>4. QED
        BY <3>2, <4>1, <4>2, <4>3 DEF FileInv
    <3>3. QED
      BY <2>2, <3>1, <3>2 DEF Flush
  <2>3. CASE Read
    <3>1. /\ stage = "file" /\ stage' = "back" /\ back' = ReadObservations(backend, file)
          /\ UNCHANGED <<backend, obs, file, files>>
      BY <2>3 DEF Read
    <3>2. back' = ReadBack(file)
      BY <3>1, KeptFacts DEF FileInv, Writable
    <3>3. back' \in SUBSET SignalObservation /\ IsFiniteSet(back') /\ Once(back')
      BY <3>2, ReadBackFacts DEF FileInv, Writable, Once
    <3>4. QED
      BY <3>1, <3>2, <3>3 DEF FileInv
  <2>4. CASE Convert
    <3>1. /\ stage = "back" /\ files < MaxFiles /\ stage' = "flush"
          /\ obs' \in SetToSeqs(back)
          /\ UNCHANGED <<backend, file, back, files>>
      BY <2>4 DEF Convert
    <3>2. Enumerates(obs', back)
      BY <3>1, SetToSeqsEnumerate DEF FileInv
    <3>3. obs' \in Seq(SignalObservation) /\ Distinct(obs)'
      <4>1. \A i \in DOMAIN obs' : obs'[i] \in back
        BY <3>2 DEF Enumerates
      <4>2. obs' \in Seq(SignalObservation)
        BY <3>2 DEF Enumerates, FileInv
      <4>3. Distinct(obs)'
        BY <3>2, <4>1 DEF Enumerates, Distinct, FileInv, Once
      <4>4. QED
        BY <4>2, <4>3
    <3>4. back = ReadBack(file) /\ Writable(backend, file)
      BY <3>1 DEF FileInv
    <3>5. QED
      BY <3>1, <3>2, <3>3, <3>4 DEF FileInv
  <2>5. CASE UNCHANGED vars
    BY <2>5 DEF vars, FileInv, Distinct
  <2>6. QED
    BY <2>1, <2>2, <2>3, <2>4, <2>5 DEF Next
<1>3. QED
  BY <1>1, <1>2, PTL DEF Spec

(* The variables have their types, and files and what is read of them a    *)
(* signal once in an epoch.                                                *)
THEOREM RinexFileTypeCorrect == Spec => []TypeOK
<1>1. FileInv => TypeOK
  <2> SUFFICES ASSUME FileInv PROVE TypeOK
    OBVIOUS
  <2>1. \A i \in DOMAIN obs : obs[i] \in SignalObservation
    BY DEF FileInv
  <2>2. file \subseteq FileFields
    BY DEF FileInv, Writable, WellFormed
  <2>3. QED
    BY <2>1, <2>2 DEF FileInv, TypeOK, FileFields, Once
<1>2. QED
  BY <1>1, FileInvariant, PTL

-----------------------------------------------------------------------------
(* Slips and values.                                                       *)

(* The bits in a file between two times are those of the observations      *)
(* then; through the external backend, those with phase.                   *)
LEMMA WrittenBits ==
  ASSUME NEW b \in {"internal", "external"}, NEW u, Ready(u),
         NEW w, w = Written(b, u), NEW k, NEW s \in Int, NEW t \in Int
  PROVE  BitBetween(w, k, s, t) <=>
           \E i \in DOMAIN u : /\ u[i].key = k /\ s < u[i].t /\ u[i].t <= t
                               /\ Lli(u, i) /\ (b = "internal" \/ u[i].phase)
<1>1. \A i \in DOMAIN u : Lli(u, i) => (WantsPhase(b, u, i) <=> b = "internal" \/ u[i].phase)
  BY DEF WantsPhase
<1>2. ASSUME NEW x \in w, x.key = k, s < x.t, x.t <= t, x.ll
      PROVE  \E i \in DOMAIN u : /\ u[i].key = k /\ s < u[i].t /\ u[i].t <= t
                                 /\ Lli(u, i) /\ (b = "internal" \/ u[i].phase)
  <2>1. PICK i \in DOMAIN u, col \in {"C", "L"} : Wants(b, u, i, col) /\ x = Field(u, i, col)
    BY WrittenFields
  <2>2. u[i].key = k /\ u[i].t = x.t /\ col = "L" /\ Lli(u, i)
    BY <1>2, <2>1, FieldFacts
  <2>3. WantsPhase(b, u, i)
    BY <2>1, <2>2 DEF Wants
  <2>4. QED
    BY <1>1, <1>2, <2>2, <2>3
<1>3. ASSUME NEW i \in DOMAIN u, u[i].key = k, s < u[i].t, u[i].t <= t,
             Lli(u, i), b = "internal" \/ u[i].phase
      PROVE  BitBetween(w, k, s, t)
  <2>1. BitOn(w, u[i].key, u[i].t)
    BY <1>1, <1>3, WrittenOf
  <2>2. QED
    BY <1>3, <2>1 DEF BitOn, BitBetween
<1>4. QED
  BY <1>2, <1>3 DEF BitBetween

LEMMA MovesAreBits ==
  ASSUME NEW b \in {"internal", "external"}, NEW u, Ready(u),
         NEW w, w = Written(b, u), NEW counted,
         counted = {x \in DOMAIN u : b = "internal" \/ u[x].phase},
         NEW j \in DOMAIN u
  PROVE  /\ Moves(u, 0, j, counted) <=> BitBetween(w, u[j].key, -1, u[j].t)
         /\ \A i \in Before(u, j) :
              Moves(u, i, j, counted) <=> BitBetween(w, u[j].key, u[i].t, u[j].t)
<1>1. \A i \in DOMAIN u : i \in Nat /\ u[i].t \in Nat /\ i > 0
  BY ReadyFacts
<1>2. \A i \in DOMAIN u : Lli(u, i) <=> u[i].arc # ArcBefore(u, i)
  BY LliFacts
<1>3. \A x \in DOMAIN u : u[x].key = u[j].key => (x <= j <=> u[x].t <= u[j].t)
  <2>1. ASSUME NEW x \in DOMAIN u, u[x].key = u[j].key PROVE x <= j <=> u[x].t <= u[j].t
    <3>1. j < x <=> u[j].t < u[x].t
      BY <2>1 DEF Ready, InOrder
    <3>2. QED
      BY <1>1, <3>1
  <2>2. QED
    BY <2>1
<1>4. Moves(u, 0, j, counted) <=> BitBetween(w, u[j].key, -1, u[j].t)
  <2>1. Moves(u, 0, j, counted) <=>
          \E x \in DOMAIN u : /\ u[x].key = u[j].key /\ x <= j
                              /\ Lli(u, x) /\ (b = "internal" \/ u[x].phase)
    BY <1>1, <1>2 DEF Moves
  <2>2. \A x \in DOMAIN u : -1 < u[x].t
    BY <1>1
  <2>3. u[j].t \in Int /\ -1 \in Int
    BY <1>1
  <2>4. BitBetween(w, u[j].key, -1, u[j].t) <=>
          \E x \in DOMAIN u : /\ u[x].key = u[j].key /\ -1 < u[x].t /\ u[x].t <= u[j].t
                              /\ Lli(u, x) /\ (b = "internal" \/ u[x].phase)
    BY <2>3, WrittenBits
  <2>5. QED
    BY <1>3, <2>1, <2>2, <2>4
<1>5. ASSUME NEW i \in Before(u, j)
      PROVE  Moves(u, i, j, counted) <=> BitBetween(w, u[j].key, u[i].t, u[j].t)
  <2>1. i \in DOMAIN u /\ u[i].key = u[j].key
    BY ReadyFacts
  <2>2. Moves(u, i, j, counted) <=>
          \E x \in DOMAIN u : /\ u[x].key = u[j].key /\ i < x /\ x <= j
                              /\ Lli(u, x) /\ (b = "internal" \/ u[x].phase)
    BY <1>1, <1>2, <2>1 DEF Moves
  <2>3. \A x \in DOMAIN u : u[x].key = u[j].key => (i < x <=> u[i].t < u[x].t)
    BY <2>1 DEF Ready, InOrder
  <2>4. u[i].t \in Int /\ u[j].t \in Int
    BY <1>1, <2>1
  <2>5. BitBetween(w, u[j].key, u[i].t, u[j].t) <=>
          \E x \in DOMAIN u : /\ u[x].key = u[j].key /\ u[i].t < u[x].t /\ u[x].t <= u[j].t
                              /\ Lli(u, x) /\ (b = "internal" \/ u[x].phase)
    BY <2>4, WrittenBits
  <2>6. QED
    BY <1>3, <2>2, <2>3, <2>5
<1>6. QED
  BY <1>4, <1>5

(* A slip survives in arc, through either backend, whatever the order and  *)
(* number of the observations (obsj/src/rinexobs.rs, write_epochs and      *)
(* accumulate_arc; rinex-obsj/src/lib.rs).                                 *)
THEOREM RinexFileSlipsSurvive == Spec => []SlipsSurvive
<1>1. FileInv => SlipsSurvive
  <2> DEFINE u == Sorted(obs)
             counted == {x \in DOMAIN u : backend = "internal" \/ u[x].phase}
  <2>1. SUFFICES ASSUME FileInv, stage = "back",
                        NEW j \in DOMAIN u, NEW b \in back, Became(u, j, b)
                 PROVE  /\ b.arc # 0 <=> Moves(u, 0, j, counted)
                        /\ \A i \in Before(u, j) : \A a \in back : Became(u, i, a) =>
                             (a.arc # b.arc <=> Moves(u, i, j, counted))
    BY DEF SlipsSurvive
  <2>2. /\ Ready(u) /\ file = Written(backend, u) /\ WellFormed(file) /\ back = ReadBack(file)
        /\ backend \in {"internal", "external"}
    BY <2>1, SortedReady DEF FileInv, Writable
  <2> HIDE DEF u
  <2>3. b.key = u[j].key /\ b.t = u[j].t /\ b.t \in Nat
    BY <2>1, <2>2, ReadyFacts DEF Became
  <2>4. b.arc # 0 <=> Moves(u, 0, j, counted)
    <3>1. b.arc # 0 <=> Bits(file, b.key, b.t) # {}
      <4>1. b.arc = ArcAt(file, b.key, b.t)
        BY <2>2, ReadOne
      <4>2. PICK k, t : k = b.key /\ t = b.t
        OBVIOUS
      <4>3. t \in Int /\ t <= t
        BY <2>3, <4>2
      <4>4. ArcAt(file, k, t) = 0 <=> Bits(file, k, t) = {}
        BY <2>2, <4>3, ArcMoves
      <4>5. QED
        BY <4>1, <4>2, <4>4
    <3>2. Bits(file, b.key, b.t) # {} <=> BitBetween(file, b.key, -1, b.t)
      <4>1. \A x \in file : -1 < x.t
        BY <2>2, FieldTypes
      <4>2. QED
        BY <4>1 DEF Bits, BitBetween
    <3>3. Moves(u, 0, j, counted) <=> BitBetween(file, u[j].key, -1, u[j].t)
      BY <2>2, MovesAreBits
    <3>4. QED
      BY <2>3, <3>1, <3>2, <3>3
  <2>5. ASSUME NEW i \in Before(u, j), NEW a \in back, Became(u, i, a)
        PROVE  a.arc # b.arc <=> Moves(u, i, j, counted)
    <3>1. /\ a.key = u[i].key /\ a.t = u[i].t /\ u[i].key = u[j].key /\ u[i].t < u[j].t
          /\ u[i].t \in Nat
      BY <2>2, <2>5, ReadyFacts DEF Became
    <3>2. a.key = b.key /\ a.t <= b.t
      BY <2>3, <3>1
    <3>3. a.arc # b.arc <=> BitBetween(file, b.key, a.t, b.t)
      BY <2>2, <3>2, ReadArcs
    <3>4. Moves(u, i, j, counted) <=> BitBetween(file, u[j].key, u[i].t, u[j].t)
      BY <2>2, <2>5, MovesAreBits
    <3>5. QED
      BY <2>3, <3>1, <3>3, <3>4
  <2>6. QED
    BY <2>4, <2>5
<1>2. QED
  BY <1>1, FileInvariant, PTL

(* What is read of a file is what was written to it.                       *)
LEMMA WrittenRead ==
  ASSUME NEW b \in {"internal", "external"}, NEW s \in Seq(SignalObservation), Distinct(s),
         NEW w, w = Written(b, Sorted(s))
  PROVE  /\ \A x \in ReadBack(w) : \E i \in DOMAIN s :
              /\ x.key = s[i].key /\ x.t = s[i].t /\ x.phase = s[i].phase /\ x.code = s[i].code
              /\ x.hc = (s[i].hc /\ (b = "internal" \/ s[i].phase))
         /\ \A i \in DOMAIN s : s[i].phase \/ s[i].code =>
              \E x \in ReadBack(w) : x.key = s[i].key /\ x.t = s[i].t
<1> DEFINE u == Sorted(s)
<1>1. Ready(u) /\ WellFormed(w)
  BY SortedReady, WrittenFacts
<1>2. /\ DOMAIN u = DOMAIN s
      /\ \A n \in DOMAIN s : \E i \in DOMAIN s : u[n] = s[i]
      /\ \A i \in DOMAIN s : \E n \in DOMAIN s : u[n] = s[i]
  BY SortedFacts
<1> HIDE DEF u
<1>3. ASSUME NEW x \in ReadBack(w)
      PROVE  \E i \in DOMAIN s :
              /\ x.key = s[i].key /\ x.t = s[i].t /\ x.phase = s[i].phase /\ x.code = s[i].code
              /\ x.hc = (s[i].hc /\ (b = "internal" \/ s[i].phase))
  <2>1. PICK y \in w : y.key = x.key /\ y.t = x.t
    BY <1>1, ReadOne
  <2>2. PICK n \in DOMAIN u, col \in {"C", "L"} : y = Field(u, n, col)
    BY <1>1, WrittenFields DEF u
  <2>3. u[n].key = x.key /\ u[n].t = x.t
    BY <1>1, <2>1, <2>2, FieldFacts
  <2>4. /\ x.phase <=> HasPhase(w, x.key, x.t)
        /\ x.code <=> HasCode(w, x.key, x.t)
        /\ x.hc <=> HasHc(w, x.key, x.t)
        /\ x \in SignalObservation
    BY <1>1, ReadOne
  <2>5. /\ HasPhase(w, x.key, x.t) <=> u[n].phase
        /\ HasCode(w, x.key, x.t) <=> u[n].code
        /\ HasHc(w, x.key, x.t) <=> u[n].hc /\ WantsPhase(b, u, n)
    BY <1>1, <2>3, WrittenOf DEF u
  <2>6. u[n].hc => (WantsPhase(b, u, n) <=> b = "internal" \/ u[n].phase)
    BY DEF WantsPhase
  <2>7. /\ x.phase \in BOOLEAN /\ x.code \in BOOLEAN /\ x.hc \in BOOLEAN
        /\ u[n].phase \in BOOLEAN /\ u[n].code \in BOOLEAN /\ u[n].hc \in BOOLEAN
    BY <1>1, <2>4, ObservationFields, ReadyFacts
  <2>8. /\ x.phase = u[n].phase /\ x.code = u[n].code
        /\ x.hc = (u[n].hc /\ (b = "internal" \/ u[n].phase))
    BY <2>4, <2>5, <2>6, <2>7
  <2>9. PICK i \in DOMAIN s : u[n] = s[i]
    BY <1>2
  <2>10. QED
    BY <2>3, <2>8, <2>9
<1>4. ASSUME NEW i \in DOMAIN s, s[i].phase \/ s[i].code
      PROVE  \E x \in ReadBack(w) : x.key = s[i].key /\ x.t = s[i].t
  <2>1. PICK n \in DOMAIN u : u[n] = s[i]
    BY <1>2
  <2>2. u[n].code \/ WantsPhase(b, u, n)
    BY <1>4, <2>1 DEF WantsPhase
  <2>3. PICK y \in w : y.key = u[n].key /\ y.t = u[n].t
    BY <1>1, <2>2, WrittenOf DEF u
  <2>4. Seen(w, y.key, y.t) \in ReadBack(w)
    BY <1>1, ReadBackFacts
  <2>5. Seen(w, y.key, y.t).key = y.key /\ Seen(w, y.key, y.t).t = y.t
    BY DEF Seen
  <2>6. QED
    BY <2>1, <2>3, <2>4, <2>5
<1>5. QED
  BY <1>3, <1>4

(* Through a file no value is lost and none is invented.                   *)
THEOREM RinexFileValuesSurvive == Spec => []ValuesSurvive
<1>1. FileInv => ValuesSurvive
  <2> DEFINE Value(o) == [key |-> o.key, t |-> o.t, phase |-> o.phase, code |-> o.code]
             B == {b \in back : b.phase \/ b.code}
             I == {i \in DOMAIN obs : obs[i].phase \/ obs[i].code}
             E == {Value(b) : b \in B}
             O == {Value(obs[i]) : i \in I}
  <2>1. SUFFICES ASSUME FileInv, stage = "back" PROVE E = O
    BY DEF ValuesSurvive
  <2>2. /\ back = ReadBack(Written(backend, Sorted(obs)))
        /\ backend \in {"internal", "external"} /\ obs \in Seq(SignalObservation) /\ Distinct(obs)
    BY <2>1 DEF FileInv
  <2>3. /\ \A x \in back : \E i \in DOMAIN obs :
              /\ x.key = obs[i].key /\ x.t = obs[i].t
              /\ x.phase = obs[i].phase /\ x.code = obs[i].code
        /\ \A i \in DOMAIN obs : obs[i].phase \/ obs[i].code =>
              \E x \in back : x.key = obs[i].key /\ x.t = obs[i].t
    BY <2>2, WrittenRead
  <2>4. ASSUME NEW b \in B PROVE \E i \in I : Value(b) = Value(obs[i])
    BY <2>3
  <2>5. ASSUME NEW i \in I PROVE \E b \in B : Value(b) = Value(obs[i])
    <3>1. PICK b \in back : b.key = obs[i].key /\ b.t = obs[i].t
      BY <2>3
    <3>2. PICK j \in DOMAIN obs : /\ b.key = obs[j].key /\ b.t = obs[j].t
                                  /\ b.phase = obs[j].phase /\ b.code = obs[j].code
      BY <2>3
    <3>3. i = j
      BY <2>2, <3>1, <3>2 DEF Distinct
    <3>4. QED
      BY <3>1, <3>2, <3>3
  <2> HIDE DEF B, I, Value
  <2>6. QED
    BY <2>4, <2>5
<1>2. QED
  BY <1>1, FileInvariant, PTL

-----------------------------------------------------------------------------
(* Comparing sequences in which a signal is once in an epoch.              *)
Elements(s) == {s[i] : i \in DOMAIN s}

(* The arc of o is not that of the latest earlier observation in S.        *)
Moved(S, o) ==
  \E p \in S : /\ p.key = o.key /\ p.t < o.t
               /\ \A q \in S : q.key = o.key /\ q.t < o.t => q.t <= p.t
               /\ o.arc # p.arc

LEMMA DistinctAt ==
  ASSUME NEW s \in Seq(SignalObservation), Distinct(s), NEW k, NEW t
  PROVE  /\ At(s, t, k) = {i \in DOMAIN s : s[i].t = t /\ s[i].key = k}
         /\ \A i \in DOMAIN s : s[i].t = t /\ s[i].key = k =>
              At(s, t, k) = {i} /\ Obs(s, t, k) = s[i]
<1> DEFINE Here == {i \in DOMAIN s : s[i].t = t /\ s[i].key = k}
<1>1. \A i, j \in Here : i = j
  BY DEF Distinct
<1>2. \A i \in DOMAIN s : \A j \in 1..(i - 1) : j \in DOMAIN s /\ j # i
  OBVIOUS
<1>3. At(s, t, k) = Here
  BY <1>1, <1>2 DEF At
<1>4. ASSUME NEW i \in Here PROVE At(s, t, k) = {i} /\ Obs(s, t, k) = s[i]
  <2>1. At(s, t, k) = {i}
    BY <1>1, <1>3
  <2>2. (CHOOSE j \in {i} : TRUE) = i
    OBVIOUS
  <2>3. QED
    BY <2>1, <2>2 DEF Obs
<1>5. QED
  BY <1>3, <1>4

LEMMA DistinctTransition ==
  ASSUME NEW s \in Seq(SignalObservation), Distinct(s), NEW o \in Elements(s),
         NEW k, NEW t, k = o.key, t = o.t
  PROVE  /\ Present(s, t, k) /\ Obs(s, t, k) = o
         /\ TransitionAt(s, t, k) <=> Moved(Elements(s), o)
<1>1. PICK i \in DOMAIN s : o = s[i]
  BY DEF Elements
<1>2. Present(s, t, k) /\ Obs(s, t, k) = o
  BY <1>1, DistinctAt DEF Present
<1>3. \A j \in DOMAIN s : s[j].key = k => j \in At(s, s[j].t, k)
  BY DistinctAt
<1>4. TransitionAt(s, t, k) <=>
        \E j \in DOMAIN s :
          /\ s[j].key = k /\ s[j].t < t
          /\ \A x \in DOMAIN s : s[x].key = k /\ s[x].t < t => s[x].t <= s[j].t
          /\ o.arc # s[j].arc
  BY <1>2, <1>3 DEF TransitionAt
<1>5. QED
  BY <1>2, <1>4 DEF Moved, Elements

(* When diff_observations reports nothing.                                 *)
Match(x, y, A, B, ignore) ==
  /\ x.code = y.code /\ x.hc = y.hc
  /\ (ignore => x.phase /\ y.phase) =>
       x.phase = y.phase /\ (Moved(A, x) <=> Moved(B, y))

Same(A, B, ignore) ==
  /\ \A x \in A : \E y \in B : y.key = x.key /\ y.t = x.t
  /\ \A y \in B : \E x \in A : y.key = x.key /\ y.t = x.t
  /\ \A x \in A, y \in B : y.key = x.key /\ y.t = x.t => Match(x, y, A, B, ignore)

LEMMA DiffEmpty ==
  ASSUME NEW a \in Seq(SignalObservation), NEW b \in Seq(SignalObservation),
         Distinct(a), Distinct(b), NEW A, NEW B, A = Elements(a), B = Elements(b),
         NEW ignore \in BOOLEAN
  PROVE  Diff(a, b, ignore) = {} <=> Same(A, B, ignore)
<1> DEFINE P == {<<a[i].t, a[i].key>> : i \in DOMAIN a}
                \cup {<<b[i].t, b[i].key>> : i \in DOMAIN b}
           Bad(p) == Present(a, p[1], p[2]) /\ Present(b, p[1], p[2])
                       => Differs(a, b, p[1], p[2], ignore)
<1>1. Diff(a, b, ignore) = {p \in P : Bad(p)}
  BY DEF Diff
<1>2. /\ \A x \in A : <<x.t, x.key>> \in P
      /\ \A y \in B : <<y.t, y.key>> \in P
      /\ \A p \in P : \/ \E x \in A : p = <<x.t, x.key>>
                      \/ \E y \in B : p = <<y.t, y.key>>
  BY DEF Elements
<1>3. \A t, k : (Present(a, t, k) <=> \E x \in A : x.t = t /\ x.key = k)
                /\ (Present(b, t, k) <=> \E y \in B : y.t = t /\ y.key = k)
  BY DistinctAt DEF Present, Elements
<1>4. ASSUME NEW x \in A, NEW y \in B, y.key = x.key, y.t = x.t
      PROVE  Differs(a, b, x.t, x.key, ignore) <=> ~Match(x, y, A, B, ignore)
  <2>1. PICK k, t : k = x.key /\ t = x.t
    OBVIOUS
  <2>2. /\ Obs(a, t, k) = x /\ Obs(b, t, k) = y
        /\ TransitionAt(a, t, k) <=> Moved(A, x)
        /\ TransitionAt(b, t, k) <=> Moved(B, y)
    BY <1>4, <2>1, DistinctTransition
  <2>3. TransitionAt(a, t, k) \in BOOLEAN /\ TransitionAt(b, t, k) \in BOOLEAN
    BY DEF TransitionAt
  <2>4. QED
    BY <2>1, <2>2, <2>3 DEF Differs, Match
<1> HIDE DEF P
<1>5. ASSUME NEW p \in P, NEW x \in A, p = <<x.t, x.key>>
      PROVE  Bad(p) <=> \A y \in B : y.key = x.key /\ y.t = x.t => ~Match(x, y, A, B, ignore)
  <2>1. p[1] = x.t /\ p[2] = x.key /\ Present(a, p[1], p[2])
    BY <1>3, <1>5
  <2>2. \A y, z \in B : y.key = z.key /\ y.t = z.t => y = z
    BY DEF Distinct, Elements
  <2>3. QED
    BY <1>3, <1>4, <2>1, <2>2
<1>6. ASSUME NEW p \in P, NEW y \in B, p = <<y.t, y.key>>
      PROVE  Bad(p) <=> \A x \in A : y.key = x.key /\ y.t = x.t => ~Match(x, y, A, B, ignore)
  <2>1. p[1] = y.t /\ p[2] = y.key /\ Present(b, p[1], p[2])
    BY <1>3, <1>6
  <2>2. \A x, z \in A : x.key = z.key /\ x.t = z.t => x = z
    BY DEF Distinct, Elements
  <2>3. \A x \in A : y.key = x.key /\ y.t = x.t =>
          (Differs(a, b, y.t, y.key, ignore) <=> ~Match(x, y, A, B, ignore))
    BY <1>4
  <2>4. QED
    BY <1>3, <2>1, <2>2, <2>3
<1> HIDE DEF Bad
<1>7. ASSUME Diff(a, b, ignore) = {}
      PROVE  /\ \A x \in A : \E y \in B : y.key = x.key /\ y.t = x.t
             /\ \A y \in B : \E x \in A : y.key = x.key /\ y.t = x.t
             /\ \A x \in A, y \in B : y.key = x.key /\ y.t = x.t => Match(x, y, A, B, ignore)
  <2>1. \A p \in P : ~Bad(p)
    BY <1>1, <1>7
  <2>2. ASSUME NEW x \in A
        PROVE  \E y \in B : y.key = x.key /\ y.t = x.t /\ Match(x, y, A, B, ignore)
    BY <1>2, <1>5, <2>1
  <2>3. ASSUME NEW y \in B
        PROVE  \E x \in A : y.key = x.key /\ y.t = x.t /\ Match(x, y, A, B, ignore)
    BY <1>2, <1>6, <2>1
  <2>4. \A y, z \in B : y.key = z.key /\ y.t = z.t => y = z
    BY DEF Distinct, Elements
  <2>5. QED
    BY <2>2, <2>3, <2>4
<1>8. ASSUME \A x \in A : \E y \in B : y.key = x.key /\ y.t = x.t,
             \A y \in B : \E x \in A : y.key = x.key /\ y.t = x.t,
             \A x \in A, y \in B : y.key = x.key /\ y.t = x.t => Match(x, y, A, B, ignore)
      PROVE  Diff(a, b, ignore) = {}
  <2>1. ASSUME NEW p \in P PROVE ~Bad(p)
    <3>1. CASE \E x \in A : p = <<x.t, x.key>>
      BY <1>5, <1>8, <3>1
    <3>2. CASE \E y \in B : p = <<y.t, y.key>>
      BY <1>6, <1>8, <3>2
    <3>3. QED
      BY <1>2, <3>1, <3>2
  <2>2. QED
    BY <1>1, <2>1
<1>9. QED
  BY <1>7, <1>8 DEF Same

LEMMA EnumeratesElements ==
  ASSUME NEW S \in SUBSET SignalObservation, Once(S), NEW s, Enumerates(s, S)
  PROVE  s \in Seq(SignalObservation) /\ Distinct(s) /\ Elements(s) = S
<1>1. \A i \in DOMAIN s : s[i] \in S
  BY DEF Enumerates
<1>2. s \in Seq(SignalObservation)
  BY DEF Enumerates
<1>3. QED
  BY <1>1, <1>2 DEF Enumerates, Elements, Distinct, Once

(* Of what is read of a file, arc moves where there is a bit, unless the   *)
(* signal is new.                                                          *)
HasEarlier(S, o) == \E a \in S : a.key = o.key /\ a.t < o.t

LEMMA MovedRead ==
  ASSUME NEW f, WellFormed(f), NEW o \in ReadBack(f)
  PROVE  Moved(ReadBack(f), o) <=> HasEarlier(ReadBack(f), o) /\ BitOn(f, o.key, o.t)
<1> DEFINE S == ReadBack(f)
           T == {t \in 0..o.t : \E q \in S : q.key = o.key /\ q.t = t /\ q.t < o.t}
<1>1. \A q \in S : q.t \in Nat
  BY ReadOne
<1>2. ASSUME NEW p \in S, p.key = o.key, p.t < o.t,
             \A q \in S : q.key = o.key /\ q.t < o.t => q.t <= p.t
      PROVE  o.arc # p.arc <=> BitOn(f, o.key, o.t)
  <2>1. o.arc # p.arc <=> BitBetween(f, o.key, p.t, o.t)
    BY <1>1, <1>2, ReadArcs
  <2>2. ASSUME NEW x \in f, x.key = o.key, p.t < x.t, x.t <= o.t PROVE x.t = o.t
    <3>1. Seen(f, x.key, x.t) \in S /\ x.t \in Nat
      BY ReadBackFacts, FieldTypes
    <3>2. Seen(f, x.key, x.t).key = x.key /\ Seen(f, x.key, x.t).t = x.t
      BY DEF Seen
    <3>3. ~(x.t < o.t)
      BY <1>1, <1>2, <2>2, <3>1, <3>2
    <3>4. QED
      BY <1>1, <2>2, <3>1, <3>3
  <2>3. BitBetween(f, o.key, p.t, o.t) <=> BitOn(f, o.key, o.t)
    BY <1>1, <1>2, <2>2 DEF BitBetween, BitOn
  <2>4. QED
    BY <2>1, <2>3
<1>3. ASSUME HasEarlier(S, o)
      PROVE  \E p \in S : /\ p.key = o.key /\ p.t < o.t
                          /\ \A q \in S : q.key = o.key /\ q.t < o.t => q.t <= p.t
  <2>1. T \in SUBSET (0..o.t) /\ T # {}
    BY <1>1, <1>3 DEF HasEarlier
  <2> HIDE DEF S
  <2>2. o.t \in Nat
    BY <1>1 DEF S
  <2>3. \A q \in S : q.key = o.key /\ q.t < o.t => q.t \in T
    BY <1>1, <2>2
  <2>4. PICK m \in T : \A t \in T : t <= m
    <3> HIDE DEF T
    <3>1. QED
      BY <2>1, <2>2, NatMax
  <2>5. PICK p \in S : p.key = o.key /\ p.t = m /\ p.t < o.t
    BY <2>4
  <2>6. QED
    BY <2>3, <2>4, <2>5
<1>4. QED
  BY <1>2, <1>3 DEF Moved, HasEarlier

(* Of what is in order, arc moves where the writer sets the bit, too.      *)
LEMMA MovedReady ==
  ASSUME NEW u, Ready(u), NEW n \in DOMAIN u
  PROVE  Moved(Elements(u), u[n]) <=> Before(u, n) # {} /\ Lli(u, n)
<1>1. /\ Before(u, n) = {x \in DOMAIN u : u[x].key = u[n].key /\ u[x].t < u[n].t}
      /\ Before(u, n) \in SUBSET (0..n) /\ n \in Nat
  BY ReadyFacts
<1>2. \A x, y \in Before(u, n) : y <= x <=> u[y].t <= u[x].t
  <2>1. ASSUME NEW x \in Before(u, n), NEW y \in Before(u, n) PROVE y <= x <=> u[y].t <= u[x].t
    <3>1. /\ x \in DOMAIN u /\ y \in DOMAIN u /\ u[x].key = u[y].key
          /\ x \in Nat /\ y \in Nat
      BY <1>1
    <3>2. u[x].t \in Nat /\ u[y].t \in Nat
      BY <3>1, ReadyFacts
    <3>3. x < y <=> u[x].t < u[y].t
      BY <3>1 DEF Ready, InOrder
    <3>4. QED
      BY <3>1, <3>2, <3>3
  <2>2. QED
    BY <2>1
<1>3. Moved(Elements(u), u[n]) <=>
        \E p \in Before(u, n) : /\ \A q \in Before(u, n) : u[q].t <= u[p].t
                                /\ u[n].arc # u[p].arc
  BY <1>1 DEF Moved, Elements
<1>4. Moved(Elements(u), u[n]) <=>
        \E p \in Before(u, n) : /\ \A q \in Before(u, n) : q <= p
                                /\ u[n].arc # u[p].arc
  BY <1>2, <1>3
<1>5. QED
  BY <1>4 DEF Lli

(* The comparison of what was written and what is read back finds nothing. *)
THEOREM RinexFileRoundTripEqual == Spec => []RoundTripEqual
<1>1. FileInv => RoundTripEqual
  <2> DEFINE external == backend = "external"
             s == SetToSeq(back)
             A == Elements(obs)
             u == Sorted(obs)
  <2>1. SUFFICES ASSUME FileInv, stage = "back",
                        \A i \in DOMAIN obs : obs[i].phase \/ obs[i].code,
                        external => \A i \in DOMAIN obs : obs[i].hc => obs[i].phase
                 PROVE  Diff(obs, s, external) = {}
    BY DEF RoundTripEqual
  <2>2. /\ backend \in {"internal", "external"}
        /\ obs \in Seq(SignalObservation) /\ Distinct(obs)
        /\ file = Written(backend, u) /\ back = ReadBack(file) /\ WellFormed(file)
        /\ back \in SUBSET SignalObservation /\ IsFiniteSet(back) /\ Once(back)
    BY <2>1 DEF FileInv, Writable
  <2>3. Ready(u) /\ Elements(u) = A
    <3>1. Ready(u)
      BY <2>2, SortedReady
    <3>2. DOMAIN u = DOMAIN obs /\ (\A n \in DOMAIN obs : \E i \in DOMAIN obs : u[n] = obs[i])
          /\ (\A i \in DOMAIN obs : \E n \in DOMAIN obs : u[n] = obs[i])
      BY <2>2, SortedFacts
    <3> HIDE DEF u
    <3>3. QED
      BY <3>1, <3>2 DEF Elements
  <2>4. s \in Seq(SignalObservation) /\ Distinct(s) /\ Elements(s) = back
    BY <2>2, SetToSeqEnumerates, EnumeratesElements
  <2>5. /\ \A y \in back : \E x \in A :
              /\ y.key = x.key /\ y.t = x.t /\ y.phase = x.phase /\ y.code = x.code
              /\ y.hc = (x.hc /\ (backend = "internal" \/ x.phase))
        /\ \A x \in A : \E y \in back : y.key = x.key /\ y.t = x.t
    <3>1. /\ \A y \in back : \E i \in DOMAIN obs :
               /\ y.key = obs[i].key /\ y.t = obs[i].t
               /\ y.phase = obs[i].phase /\ y.code = obs[i].code
               /\ y.hc = (obs[i].hc /\ (backend = "internal" \/ obs[i].phase))
          /\ \A i \in DOMAIN obs : obs[i].phase \/ obs[i].code =>
               \E y \in back : y.key = obs[i].key /\ y.t = obs[i].t
      BY <2>2, WrittenRead
    <3>2. QED
      BY <2>1, <3>1 DEF Elements
  <2>6. \A x, y \in A : x.key = y.key /\ x.t = y.t => x = y
    BY <2>2 DEF Distinct, Elements
  <2>7. \A x \in A : /\ x \in SignalObservation /\ x.hc \in BOOLEAN /\ x.phase \in BOOLEAN
                     /\ external => (x.hc => x.phase)
    <3>1. \A i \in DOMAIN obs : obs[i] \in SignalObservation
      BY <2>2
    <3>2. QED
      BY <2>1, <3>1, ObservationFields DEF Elements
  <2> HIDE DEF A, s, u
  <2>8. ASSUME NEW x \in A, NEW y \in back, y.key = x.key, y.t = x.t
        PROVE  Match(x, y, A, back, external)
    <3>1. /\ y.phase = x.phase /\ y.code = x.code
          /\ y.hc = (x.hc /\ (backend = "internal" \/ x.phase))
      BY <2>5, <2>6, <2>8
    <3>2. y.hc = x.hc
      BY <2>2, <2>7, <3>1
    <3>3. ASSUME external => x.phase PROVE Moved(A, x) <=> Moved(back, y)
      <4>1. PICK n \in DOMAIN u : x = u[n]
        BY <2>3 DEF Elements
      <4>2. Moved(A, x) <=> Before(u, n) # {} /\ Lli(u, n)
        BY <2>3, <4>1, MovedReady
      <4>3. Moved(back, y) <=> HasEarlier(back, y) /\ BitOn(file, y.key, y.t)
        BY <2>2, MovedRead
      <4>4. BitOn(file, y.key, y.t) <=> Lli(u, n) /\ WantsPhase(backend, u, n)
        BY <2>2, <2>3, <2>8, <4>1, WrittenOf
      <4>5. Lli(u, n) => WantsPhase(backend, u, n)
        BY <2>2, <3>3, <4>1 DEF WantsPhase
      <4>6. HasEarlier(back, y) <=> Before(u, n) # {}
        <5>1. Before(u, n) = {z \in DOMAIN u : u[z].key = x.key /\ u[z].t < x.t}
          BY <2>3, <4>1, ReadyFacts
        <5>2. Before(u, n) # {} <=> \E z \in A : z.key = x.key /\ z.t < x.t
          BY <2>3, <5>1 DEF Elements
        <5>3. QED
          BY <2>5, <2>8, <5>2 DEF HasEarlier
      <4>7. QED
        BY <4>2, <4>3, <4>4, <4>5, <4>6
    <3>4. QED
      BY <3>1, <3>2, <3>3 DEF Match
  <2>9. external \in BOOLEAN
    OBVIOUS
  <2>10. \A y \in back : \E x \in A : y.key = x.key /\ y.t = x.t
    BY <2>5
  <2> HIDE DEF external
  <2>11. QED
    <3>1. Same(A, back, external)
      BY <2>5, <2>8, <2>10 DEF Same
    <3>2. QED
      BY <2>2, <2>4, <2>9, <3>1, DiffEmpty DEF A
<1>2. QED
  BY <1>1, FileInvariant, PTL

-----------------------------------------------------------------------------
(* A file with some bits wrong.                                            *)
Flipped(x, wrong) == IF x \in wrong THEN [x EXCEPT !.ll = ~x.ll] ELSE x

LEMMA FlippedField ==
  ASSUME NEW wrong, NEW x \in FileFields, NEW y, y = Flipped(x, wrong)
  PROVE  /\ y \in FileFields /\ y.key = x.key /\ y.t = x.t /\ y.col = x.col
         /\ y.val = x.val /\ y.hc = x.hc
         /\ y.ll <=> (IF x \in wrong THEN ~x.ll ELSE x.ll)
<1>1. x.ll \in BOOLEAN
  BY DEF FileFields
<1>2. CASE x \in wrong
  <2>1. y = [x EXCEPT !.ll = ~x.ll]
    BY <1>2 DEF Flipped
  <2>2. QED
    BY <1>1, <1>2, <2>1 DEF FileFields
<1>3. CASE x \notin wrong
  BY <1>3 DEF Flipped
<1>4. QED
  BY <1>2, <1>3

(* Fields that differ in their loss-of-lock bits at most.                  *)
Alike(x, y) ==
  /\ x.key = y.key /\ x.t = y.t /\ x.col = y.col
  /\ (x.val <=> y.val) /\ (x.hc <=> y.hc)

SameFields(f, g) ==
  \A k, t : /\ HasPhase(g, k, t) <=> HasPhase(f, k, t)
            /\ HasCode(g, k, t) <=> HasCode(f, k, t)
            /\ HasHc(g, k, t) <=> HasHc(f, k, t)
            /\ (\E x \in g : x.key = k /\ x.t = t) <=> \E x \in f : x.key = k /\ x.t = t

LEMMA AlikeFiles ==
  ASSUME NEW f, NEW g, \A x \in f : \E y \in g : Alike(x, y),
         \A y \in g : \E x \in f : Alike(x, y)
  PROVE  SameFields(f, g) /\ \A b : Valued(b, f) => Valued(b, g)
<1>1. ASSUME NEW k, NEW t
      PROVE  /\ HasPhase(g, k, t) <=> HasPhase(f, k, t)
             /\ HasCode(g, k, t) <=> HasCode(f, k, t)
             /\ HasHc(g, k, t) <=> HasHc(f, k, t)
             /\ (\E x \in g : x.key = k /\ x.t = t) <=> \E x \in f : x.key = k /\ x.t = t
  <2>1. HasPhase(g, k, t) <=> HasPhase(f, k, t)
    BY DEF HasPhase, Alike
  <2>2. HasCode(g, k, t) <=> HasCode(f, k, t)
    BY DEF HasCode, Alike
  <2>3. HasHc(g, k, t) <=> HasHc(f, k, t)
    BY DEF HasHc, Alike
  <2>4. (\E x \in g : x.key = k /\ x.t = t) <=> \E x \in f : x.key = k /\ x.t = t
    BY DEF Alike
  <2>5. QED
    BY <2>1, <2>2, <2>3, <2>4
<1>2. \A b : Valued(b, f) => Valued(b, g)
  BY DEF Valued, Alike
<1>3. QED
  BY <1>1, <1>2 DEF SameFields

WrongBits(f, g, wrong) ==
  /\ \A x \in wrong : BitOn(g, x.key, x.t) <=> ~BitOn(f, x.key, x.t)
  /\ \A k, t : (\A x \in wrong : ~(x.key = k /\ x.t = t)) => (BitOn(g, k, t) <=> BitOn(f, k, t))

LEMMA FlippedFile ==
  ASSUME NEW b, NEW f, WellFormed(f), Valued(b, f),
         NEW wrong \in SUBSET {x \in f : x.col = "L"},
         NEW g, g = {Flipped(x, wrong) : x \in f}
  PROVE  WellFormed(g) /\ Valued(b, g) /\ SameFields(f, g) /\ WrongBits(f, g, wrong)
<1> DEFINE F == [x \in f |-> Flipped(x, wrong)]
<1>1. \A x \in f :
        /\ F[x] \in FileFields /\ F[x].key = x.key /\ F[x].t = x.t /\ F[x].col = x.col
        /\ F[x].val = x.val /\ F[x].hc = x.hc
        /\ F[x].ll <=> (IF x \in wrong THEN ~x.ll ELSE x.ll)
  BY FieldTypes, FlippedField
<1>2. F \in Surjection(f, g)
  BY DEF Surjection
<1>3. /\ \A x \in f : F[x] \in g
      /\ \A y \in g : \E x \in f : y = F[x]
  OBVIOUS
<1> HIDE DEF F
<1>99. /\ \A x \in f : \E y \in g : Alike(x, y)
      /\ \A y \in g : \E x \in f : Alike(x, y)
  <2>1. \A x \in f : Alike(x, F[x])
    BY <1>1 DEF Alike
  <2>2. QED
    BY <1>3, <2>1
<1>4. IsFiniteSet(g)
  BY <1>2, FS_Surjection DEF WellFormed
<1>5. \A x \in f : x.col = "C" => x.val /\ ~x.ll /\ ~x.hc /\ x \notin wrong
  BY DEF WellFormed
<1>6. WellFormed(g)
  <2>1. g \in SUBSET FileFields
    BY <1>1, <1>3
  <2>2. ASSUME NEW x \in g, NEW y \in g, x.key = y.key, x.t = y.t, x.col = y.col
        PROVE  x = y
    <3>1. PICK a \in f : x = F[a]
      BY <1>3
    <3>2. PICK c \in f : y = F[c]
      BY <1>3
    <3>3. a.key = c.key /\ a.t = c.t /\ a.col = c.col
      BY <1>1, <2>2, <3>1, <3>2
    <3>4. a = c
      BY <3>3 DEF WellFormed
    <3>5. QED
      BY <3>1, <3>2, <3>4
  <2>3. ASSUME NEW x \in g, x.col = "C" PROVE x.val /\ ~x.ll /\ ~x.hc
    <3>1. PICK a \in f : x = F[a]
      BY <1>3
    <3>2. QED
      BY <1>1, <1>5, <2>3, <3>1
  <2>4. QED
    BY <1>4, <2>1, <2>2, <2>3 DEF WellFormed
<1>7. Valued(b, g)
  BY <1>99, AlikeFiles
<1>8. SameFields(f, g)
  BY <1>99, AlikeFiles
<1>9. ASSUME NEW x \in wrong PROVE BitOn(g, x.key, x.t) <=> ~BitOn(f, x.key, x.t)
  <2>1. x \in f /\ x.col = "L"
    OBVIOUS
  <2>2. \A y \in f : y.key = x.key /\ y.t = x.t => y = x \/ y.col = "C"
    BY <2>1, FieldTypes DEF WellFormed
  <2>3. BitOn(f, x.key, x.t) <=> x.ll
    BY <1>5, <2>1, <2>2 DEF BitOn
  <2>4. BitOn(g, x.key, x.t) <=> F[x].ll
    <3>1. ASSUME NEW y \in g, y.key = x.key, y.t = x.t, y.ll PROVE F[x].ll
      <4>1. PICK a \in f : y = F[a]
        BY <1>3
      <4>2. a.key = x.key /\ a.t = x.t
        BY <1>1, <3>1, <4>1
      <4>3. a = x
        BY <1>1, <1>5, <2>2, <3>1, <4>1, <4>2
      <4>4. QED
        BY <3>1, <4>1, <4>3
    <3>2. QED
      BY <1>1, <1>3, <2>1, <3>1 DEF BitOn
  <2>5. QED
    BY <1>1, <2>1, <2>3, <2>4
<1>10. ASSUME NEW k, NEW t, \A x \in wrong : ~(x.key = k /\ x.t = t)
       PROVE  BitOn(g, k, t) <=> BitOn(f, k, t)
  <2>1. \A x \in f : x.key = k /\ x.t = t => x \notin wrong
    BY <1>10
  <2>2. ASSUME NEW x \in f, x.key = k, x.t = t, x.ll PROVE BitOn(g, k, t)
    <3>1. F[x] \in g /\ F[x].key = k /\ F[x].t = t /\ F[x].ll
      BY <1>1, <1>3, <2>1, <2>2
    <3>2. QED
      BY <3>1 DEF BitOn
  <2>3. ASSUME NEW y \in g, y.key = k, y.t = t, y.ll PROVE BitOn(f, k, t)
    <3>1. PICK x \in f : y = F[x]
      BY <1>3
    <3>2. x.key = k /\ x.t = t /\ x.ll
      BY <1>1, <2>1, <2>3, <3>1
    <3>3. QED
      BY <3>2 DEF BitOn
  <2>4. QED
    BY <2>2, <2>3 DEF BitOn
<1>11. QED
  BY <1>6, <1>7, <1>8, <1>9, <1>10 DEF WrongBits

(* The comparison sees every wrong bit but those on a signal's first       *)
(* observation.                                                            *)
THEOREM RinexFileDiffSeesSlips == Spec => []DiffSeesSlips
<1>1. FileInv => DiffSeesSlips
  <2> DEFINE ignore == backend = "external"
             other(wrong) == (file \ wrong) \cup {[x EXCEPT !.ll = ~x.ll] : x \in wrong}
             later(wrong) == {x \in wrong : \E b \in back : b.key = x.key /\ b.t < x.t}
  <2>1. SUFFICES ASSUME FileInv, stage = "back",
                        NEW wrong \in SUBSET {x \in file : x.col = "L"}
                 PROVE  Diff(SetToSeq(back), SetToSeq(ReadObservations(backend, other(wrong))),
                             ignore) = {}
                          <=> later(wrong) = {}
    BY DEF DiffSeesSlips
  <2>2. PICK g : g = {Flipped(x, wrong) : x \in file}
    OBVIOUS
  <2>3. other(wrong) = g
    BY <2>2 DEF Flipped
  <2>4. /\ WellFormed(file) /\ Valued(backend, file) /\ back = ReadBack(file)
        /\ back \in SUBSET SignalObservation /\ IsFiniteSet(back) /\ Once(back)
    BY <2>1 DEF FileInv, Writable
  <2>5. /\ WellFormed(g) /\ Valued(backend, g)
        /\ SameFields(file, g) /\ WrongBits(file, g, wrong)
    BY <2>2, <2>4, FlippedFile
  <2>6. PICK S : S = ReadBack(g)
    OBVIOUS
  <2>7. /\ ReadObservations(backend, other(wrong)) = S
        /\ S \in SUBSET SignalObservation /\ IsFiniteSet(S) /\ Once(S)
    <3>1. Kept(backend, g) = g /\ ReadObservations(backend, g) = ReadBack(Kept(backend, g))
      BY <2>5, KeptFacts
    <3>2. ReadObservations(backend, other(wrong)) = S
      BY <2>3, <2>6, <3>1
    <3>3. S \in SUBSET SignalObservation /\ IsFiniteSet(S) /\ Once(S)
      BY <2>5, <2>6, ReadBackFacts DEF Once
    <3>4. QED
      BY <3>2, <3>3
  <2>8. PICK a, c : a = SetToSeq(back) /\ c = SetToSeq(S)
    OBVIOUS
  <2>9. /\ a \in Seq(SignalObservation) /\ Distinct(a) /\ Elements(a) = back
        /\ c \in Seq(SignalObservation) /\ Distinct(c) /\ Elements(c) = S
    BY <2>4, <2>7, <2>8, SetToSeqEnumerates, EnumeratesElements
  <2>10. /\ \A x \in back : \E y \in S : y.key = x.key /\ y.t = x.t
         /\ \A y \in S : \E x \in back : y.key = x.key /\ y.t = x.t
    <3>1. ASSUME NEW f, WellFormed(f), NEW h, WellFormed(h), NEW x \in ReadBack(f),
                 \E z \in h : z.key = x.key /\ z.t = x.t
          PROVE  \E y \in ReadBack(h) : y.key = x.key /\ y.t = x.t
      <4>1. PICK z \in h : z.key = x.key /\ z.t = x.t
        BY <3>1
      <4>2. Seen(h, z.key, z.t) \in ReadBack(h)
        BY <3>1, ReadBackFacts
      <4>3. Seen(h, z.key, z.t).key = z.key /\ Seen(h, z.key, z.t).t = z.t
        BY DEF Seen
      <4>4. QED
        BY <4>1, <4>2, <4>3
    <3>2. ASSUME NEW x \in back PROVE \E y \in S : y.key = x.key /\ y.t = x.t
      <4>1. \E z \in file : z.key = x.key /\ z.t = x.t
        BY <2>4, ReadOne
      <4>2. \E z \in g : z.key = x.key /\ z.t = x.t
        BY <2>5, <4>1 DEF SameFields
      <4>3. QED
        BY <2>4, <2>5, <2>6, <3>1, <4>2
    <3>3. ASSUME NEW y \in S PROVE \E x \in back : y.key = x.key /\ y.t = x.t
      <4>1. \E z \in g : z.key = y.key /\ z.t = y.t
        BY <2>5, <2>6, ReadOne
      <4>2. \E z \in file : z.key = y.key /\ z.t = y.t
        BY <2>5, <4>1 DEF SameFields
      <4>3. \E x \in back : x.key = y.key /\ x.t = y.t
        BY <2>4, <2>5, <2>6, <3>1, <4>2
      <4>4. QED
        BY <4>3
    <3>4. QED
      BY <3>2, <3>3
  <2>11. ASSUME NEW x \in back, NEW y \in S, y.key = x.key, y.t = x.t
         PROVE  /\ x.phase = y.phase /\ x.code = y.code /\ x.hc = y.hc
                /\ x.phase <=> HasPhase(file, x.key, x.t)
                /\ Moved(back, x) <=> HasEarlier(back, x) /\ BitOn(file, x.key, x.t)
                /\ Moved(S, y) <=> HasEarlier(back, x) /\ BitOn(g, x.key, x.t)
    <3>1. /\ x.phase <=> HasPhase(file, x.key, x.t)
          /\ x.code <=> HasCode(file, x.key, x.t)
          /\ x.hc <=> HasHc(file, x.key, x.t)
          /\ x \in SignalObservation
      BY <2>4, ReadOne
    <3>2. /\ y.phase <=> HasPhase(g, x.key, x.t)
          /\ y.code <=> HasCode(g, x.key, x.t)
          /\ y.hc <=> HasHc(g, x.key, x.t)
          /\ y \in SignalObservation
      BY <2>5, <2>6, <2>11, ReadOne
    <3>3. /\ x.phase <=> y.phase
          /\ x.code <=> y.code
          /\ x.hc <=> y.hc
      BY <2>5, <3>1, <3>2 DEF SameFields
    <3>4. x.phase = y.phase /\ x.code = y.code /\ x.hc = y.hc
      BY <3>1, <3>2, <3>3, ObservationFields
    <3>5. Moved(back, x) <=> HasEarlier(back, x) /\ BitOn(file, x.key, x.t)
      BY <2>4, MovedRead
    <3>6. Moved(S, y) <=> HasEarlier(S, y) /\ BitOn(g, y.key, y.t)
      BY <2>5, <2>6, MovedRead
    <3>7. HasEarlier(S, y) <=> HasEarlier(back, x)
      BY <2>10, <2>11 DEF HasEarlier
    <3>8. QED
      BY <2>11, <3>1, <3>4, <3>5, <3>6, <3>7
  <2>12. Diff(a, c, ignore) = {} <=>
           \A x \in back, y \in S : y.key = x.key /\ y.t = x.t => Match(x, y, back, S, ignore)
    <3>1. ignore \in BOOLEAN
      OBVIOUS
    <3> HIDE DEF ignore
    <3>2. Diff(a, c, ignore) = {} <=> Same(back, S, ignore)
      BY <2>9, <3>1, DiffEmpty
    <3>3. QED
      BY <2>10, <3>2 DEF Same
  <2>13. ASSUME later(wrong) # {}
         PROVE  \E x \in back, y \in S :
                  y.key = x.key /\ y.t = x.t /\ ~Match(x, y, back, S, ignore)
    <3>1. PICK z \in wrong : \E b \in back : b.key = z.key /\ b.t < z.t
      BY <2>13
    <3>2. z \in file /\ z.col = "L"
      BY <2>1
    <3>3. PICK x : x = Seen(file, z.key, z.t)
      OBVIOUS
    <3>4. x \in back /\ x.key = z.key /\ x.t = z.t
      BY <2>4, <3>2, <3>3, ReadBackFacts DEF Seen
    <3>5. PICK y \in S : y.key = x.key /\ y.t = x.t
      BY <2>10, <3>4
    <3>6. HasEarlier(back, x)
      BY <3>1, <3>4 DEF HasEarlier
    <3>7. BitOn(g, x.key, x.t) <=> ~BitOn(file, x.key, x.t)
      BY <2>5, <3>4 DEF WrongBits
    <3>8. ignore => x.phase /\ y.phase
      <4>1. ignore => HasPhase(file, x.key, x.t)
        BY <2>4, <3>2, <3>4 DEF Valued, HasPhase
      <4>2. QED
        BY <2>11, <3>4, <3>5, <4>1
    <3>9. ~(Moved(back, x) <=> Moved(S, y))
      BY <2>11, <3>4, <3>5, <3>6, <3>7
    <3>10. QED
      BY <3>4, <3>5, <3>8, <3>9 DEF Match
  <2>14. ASSUME later(wrong) = {}, NEW x \in back, NEW y \in S, y.key = x.key, y.t = x.t
         PROVE  Match(x, y, back, S, ignore)
    <3>1. HasEarlier(back, x) => \A z \in wrong : ~(z.key = x.key /\ z.t = x.t)
      BY <2>14 DEF HasEarlier
    <3>2. HasEarlier(back, x) => (BitOn(g, x.key, x.t) <=> BitOn(file, x.key, x.t))
      BY <2>5, <3>1 DEF WrongBits
    <3>3. QED
      BY <2>11, <2>14, <3>2 DEF Match
  <2>15. Diff(a, c, ignore) = {} <=> later(wrong) = {}
    BY <2>12, <2>13, <2>14
  <2>16. QED
    BY <2>7, <2>8, <2>15
<1>2. QED
  BY <1>1, FileInvariant, PTL

-----------------------------------------------------------------------------
(* What is read of a file that can be written is written to the same file. *)
LEMMA SameField ==
  ASSUME NEW x \in FileFields, NEW y \in FileFields,
         x.key = y.key, x.t = y.t, x.col = y.col,
         x.val <=> y.val, x.ll <=> y.ll, x.hc <=> y.hc
  PROVE  x = y
BY DEF FileFields

LEMMA RewrittenBit ==
  ASSUME NEW g, WellFormed(g), NEW u, Ready(u), Elements(u) = ReadBack(g),
         NEW n \in DOMAIN u
  PROVE  Lli(u, n) <=> BitOn(g, u[n].key, u[n].t)
<1>1. PICK o \in ReadBack(g) : o = u[n]
  BY DEF Elements
<1>2. /\ Before(u, n) = {x \in DOMAIN u : u[x].key = o.key /\ u[x].t < o.t}
      /\ o.t \in Nat /\ o.arc = ArcAt(g, o.key, o.t)
  BY <1>1, ReadyFacts, ReadOne
<1>3. HasEarlier(ReadBack(g), o) <=> Before(u, n) # {}
  <2>1. Before(u, n) # {} <=> \E a \in Elements(u) : a.key = o.key /\ a.t < o.t
    BY <1>2 DEF Elements
  <2>2. QED
    BY <2>1 DEF HasEarlier
<1>4. CASE Before(u, n) = {}
  <2>1. Lli(u, n) <=> o.arc # 0
    BY <1>1, <1>4, LliFacts
  <2>2. o.arc # 0 <=> Bits(g, o.key, o.t) # {}
    <3>1. PICK k, t : k = o.key /\ t = o.t
      OBVIOUS
    <3>2. t \in Int /\ t <= t
      BY <1>2, <3>1
    <3>3. ArcAt(g, k, t) = 0 <=> Bits(g, k, t) = {}
      BY <3>2, ArcMoves
    <3>4. QED
      BY <1>2, <3>1, <3>3
  <2>3. ASSUME NEW x \in g, x.key = o.key, x.t <= o.t PROVE x.t = o.t
    <3>1. Seen(g, x.key, x.t) \in ReadBack(g) /\ x.t \in Nat
      BY ReadBackFacts, FieldTypes
    <3>2. Seen(g, x.key, x.t).key = x.key /\ Seen(g, x.key, x.t).t = x.t
      BY DEF Seen
    <3>3. ~(x.t < o.t)
      BY <1>3, <1>4, <2>3, <3>1, <3>2 DEF HasEarlier
    <3>4. QED
      BY <1>2, <2>3, <3>1, <3>3
  <2>4. Bits(g, o.key, o.t) # {} <=> BitOn(g, o.key, o.t)
    BY <1>2, <2>3 DEF Bits, BitOn
  <2>5. QED
    BY <1>1, <2>1, <2>2, <2>4
<1>5. CASE Before(u, n) # {}
  <2>1. Moved(Elements(u), u[n]) <=> Before(u, n) # {} /\ Lli(u, n)
    BY MovedReady
  <2>2. Moved(ReadBack(g), o) <=> HasEarlier(ReadBack(g), o) /\ BitOn(g, o.key, o.t)
    BY MovedRead
  <2>3. QED
    BY <1>1, <1>3, <1>5, <2>1, <2>2
<1>6. QED
  BY <1>4, <1>5

LEMMA RewrittenField ==
  ASSUME NEW b \in {"internal", "external"}, NEW g, Writable(b, g),
         NEW u, Ready(u), Elements(u) = ReadBack(g),
         NEW n \in DOMAIN u, NEW col \in {"C", "L"}
  PROVE  /\ Wants(b, u, n, col) => \E y \in g : y.key = u[n].key /\ y.t = u[n].t /\ y.col = col
         /\ \A y \in g : y.key = u[n].key /\ y.t = u[n].t /\ y.col = col =>
              Wants(b, u, n, col) /\ y = Field(u, n, col)
<1>1. WellFormed(g) /\ Needed(g) /\ Valued(b, g)
  BY DEF Writable
<1>2. PICK k, t : k = u[n].key /\ t = u[n].t
  OBVIOUS
<1>3. /\ u[n].phase <=> HasPhase(g, k, t)
      /\ u[n].code <=> HasCode(g, k, t)
      /\ u[n].hc <=> HasHc(g, k, t)
      /\ Lli(u, n) <=> BitOn(g, k, t)
  <2>1. PICK o \in ReadBack(g) : o = u[n]
    BY DEF Elements
  <2>2. /\ o.phase <=> HasPhase(g, o.key, o.t)
        /\ o.code <=> HasCode(g, o.key, o.t)
        /\ o.hc <=> HasHc(g, o.key, o.t)
    BY <1>1, ReadOne
  <2>3. Lli(u, n) <=> BitOn(g, u[n].key, u[n].t)
    BY <1>1, RewrittenBit
  <2>4. QED
    BY <1>2, <2>1, <2>2, <2>3
<1>4. \A y \in g : y.col = "C" => y.val /\ ~y.ll /\ ~y.hc
  BY <1>1 DEF WellFormed
<1>5. \A y \in g : y \in FileFields /\ y.col \in {"C", "L"}
  BY <1>1, FieldTypes
<1>6. /\ Field(u, n, col) \in FileFields
      /\ Field(u, n, col).key = k /\ Field(u, n, col).t = t /\ Field(u, n, col).col = col
      /\ Field(u, n, col).val <=> (IF col = "C" THEN TRUE ELSE u[n].phase)
      /\ Field(u, n, col).ll <=> (col = "L" /\ Lli(u, n))
      /\ Field(u, n, col).hc <=> (col = "L" /\ u[n].hc)
  BY <1>2, FieldFacts
<1>7. CASE col = "C"
  <2>1. Wants(b, u, n, col) <=> HasCode(g, k, t)
    BY <1>3, <1>7 DEF Wants
  <2>2. ASSUME NEW y \in g, y.key = k, y.t = t, y.col = col PROVE y = Field(u, n, col)
    BY <1>4, <1>5, <1>6, <1>7, <2>2, SameField
  <2>3. HasCode(g, k, t) <=> \E y \in g : y.key = k /\ y.t = t /\ y.col = col
    BY <1>7 DEF HasCode
  <2>4. QED
    BY <1>2, <2>1, <2>2, <2>3
<1>8. CASE col = "L"
  <2>1. Wants(b, u, n, col) <=>
          HasPhase(g, k, t) \/ (b = "internal" /\ (BitOn(g, k, t) \/ HasHc(g, k, t)))
    <3>1. Wants(b, u, n, col) = WantsPhase(b, u, n)
      BY <1>8 DEF Wants
    <3>2. WantsPhase(b, u, n) <=> u[n].phase \/ (b = "internal" /\ (Lli(u, n) \/ u[n].hc))
      BY DEF WantsPhase
    <3>3. QED
      BY <1>3, <3>1, <3>2
  <2>2. ASSUME Wants(b, u, n, col)
        PROVE  \E y \in g : y.key = k /\ y.t = t /\ y.col = col
    <3>1. CASE HasPhase(g, k, t)
      BY <1>8, <3>1 DEF HasPhase
    <3>2. CASE BitOn(g, k, t) \/ HasHc(g, k, t)
      <4>1. PICK y \in g : y.key = k /\ y.t = t /\ (y.ll \/ y.hc)
        BY <3>2 DEF BitOn, HasHc
      <4>2. y.col = "L"
        BY <1>4, <1>5, <4>1
      <4>3. QED
        BY <1>8, <4>1, <4>2
    <3>3. QED
      BY <2>1, <2>2, <3>1, <3>2
  <2>3. ASSUME NEW y \in g, y.key = k, y.t = t, y.col = "L"
        PROVE  Wants(b, u, n, col) /\ y = Field(u, n, col)
    <3>1. \A z \in g : z.key = k /\ z.t = t /\ z.col = "L" => z = y
      BY <1>1, <2>3 DEF WellFormed
    <3>2. \A z \in g : z.key = k /\ z.t = t /\ (z.ll \/ z.hc) => z = y
      BY <1>4, <1>5, <3>1
    <3>3. /\ HasPhase(g, k, t) <=> y.val
          /\ BitOn(g, k, t) <=> y.ll
          /\ HasHc(g, k, t) <=> y.hc
      <4>1. HasPhase(g, k, t) <=> y.val
        BY <2>3, <3>1 DEF HasPhase
      <4>2. BitOn(g, k, t) <=> y.ll
        BY <2>3, <3>2 DEF BitOn
      <4>3. HasHc(g, k, t) <=> y.hc
        BY <2>3, <3>2 DEF HasHc
      <4>4. QED
        BY <4>1, <4>2, <4>3
    <3>4. y.val \/ (b = "internal" /\ (y.ll \/ y.hc))
      BY <1>1 DEF Needed, Valued
    <3>5. Wants(b, u, n, col)
      BY <2>1, <3>3, <3>4
    <3>6. /\ Field(u, n, col).val <=> y.val
          /\ Field(u, n, col).ll <=> y.ll
          /\ Field(u, n, col).hc <=> y.hc
      BY <1>3, <1>6, <1>8, <3>3
    <3>7. y = Field(u, n, col)
      BY <1>5, <1>6, <1>8, <2>3, <3>6, SameField
    <3>8. QED
      BY <3>5, <3>7
  <2>4. QED
    BY <1>2, <1>8, <2>2, <2>3
<1>9. QED
  BY <1>7, <1>8

LEMMA Rewritten ==
  ASSUME NEW b \in {"internal", "external"}, NEW g, Writable(b, g),
         NEW s, Enumerates(s, ReadBack(g))
  PROVE  Written(b, Sorted(s)) = g
<1>1. PICK u : u = Sorted(s)
  OBVIOUS
<1>2. WellFormed(g)
  BY DEF Writable
<1>3. ReadBack(g) \in SUBSET SignalObservation /\ Once(ReadBack(g))
  BY <1>2, ReadBackFacts DEF Once
<1>4. s \in Seq(SignalObservation) /\ Distinct(s) /\ Elements(s) = ReadBack(g)
  BY <1>3, EnumeratesElements
<1>5. Ready(u) /\ Elements(u) = ReadBack(g)
  <2>1. Ready(u)
    BY <1>1, <1>4, SortedReady
  <2>2. /\ DOMAIN u = DOMAIN s
        /\ \A n \in DOMAIN s : \E i \in DOMAIN s : u[n] = s[i]
        /\ \A i \in DOMAIN s : \E n \in DOMAIN s : u[n] = s[i]
    BY <1>1, <1>4, SortedFacts
  <2>3. Elements(u) = Elements(s)
    BY <2>2 DEF Elements
  <2>4. QED
    BY <1>4, <2>1, <2>3
<1>6. ASSUME NEW x \in Written(b, u) PROVE x \in g
  <2>1. PICK n \in DOMAIN u, col \in {"C", "L"} : Wants(b, u, n, col) /\ x = Field(u, n, col)
    BY <1>5, WrittenFields
  <2>2. PICK y \in g : y.key = u[n].key /\ y.t = u[n].t /\ y.col = col
    BY <1>5, <2>1, RewrittenField
  <2>3. y = Field(u, n, col)
    BY <1>5, <2>2, RewrittenField
  <2>4. QED
    BY <2>1, <2>2, <2>3
<1>7. ASSUME NEW x \in g PROVE x \in Written(b, u)
  <2>1. PICK o \in ReadBack(g) : o = Seen(g, x.key, x.t)
    BY <1>2, ReadBackFacts
  <2>2. o.key = x.key /\ o.t = x.t
    BY <2>1 DEF Seen
  <2>3. PICK n \in DOMAIN u : u[n] = o
    BY <1>5 DEF Elements
  <2>4. x.col \in {"C", "L"}
    BY <1>2, FieldTypes
  <2>5. Wants(b, u, n, x.col) /\ x = Field(u, n, x.col)
    BY <1>5, <2>2, <2>3, <2>4, RewrittenField
  <2>6. QED
    BY <1>5, <2>4, <2>5, WrittenFields
<1>8. QED
  BY <1>1, <1>6, <1>7

(* A file made from a file reads back as that file did, in every field of  *)
(* every observation, arc included.                                        *)
THEOREM RinexFileStable == Spec => Stable
<1>1. FileInv /\ [Next]_vars => [Read /\ files > 1 => back' = back]_vars
  <2> SUFFICES ASSUME FileInv, Read, files > 1 PROVE back' = back
    OBVIOUS
  <2>1. /\ stage = "file" /\ back' = ReadObservations(backend, file)
        /\ file = Written(backend, Sorted(obs)) /\ Enumerates(obs, back)
        /\ backend \in {"internal", "external"} /\ Writable(backend, file)
    BY DEF Read, FileInv
  <2>2. PICK g : Writable(backend, g) /\ back = ReadBack(g)
    BY <2>1 DEF FileInv
  <2>3. file = g
    BY <2>1, <2>2, Rewritten
  <2>4. ReadObservations(backend, file) = ReadBack(file)
    BY <2>1, KeptFacts DEF Writable
  <2>5. QED
    BY <2>1, <2>2, <2>3, <2>4
<1>2. QED
  BY <1>1, FileInvariant, PTL DEF Spec, Stable
=============================================================================
