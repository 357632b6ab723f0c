------------------------ MODULE DeferredSlipsProofs ------------------------
(***************************************************************************)
(* For every set of signals, every filter setting and every bound, a       *)
(* deferred-slip detector in front of the sinks keeps the promise of arc;  *)
(* the RTCM path is such a detector, and inherits this.  RtcmPath has an   *)
(* instance of the detector in which its map slip is pending.  Nothing     *)
(* else of RtcmPath is used of the detector, so that slip stands for the   *)
(* pending slips of any converter: UbxPathProofs puts its own in its place.*)
(***************************************************************************)
EXTENDS RtcmPath, WellFoundedInduction, TLAPS

(* A record of signal k as Forward writes it. *)
Rec(k, t, phase, a, n) ==
  [key |-> k, t |-> t, phase |-> phase, arc |-> a, slips |-> n]

(* The clock only takes times within its bound. *)
LEMMA EpochTimesInRange ==
  ASSUME NEW k \in Keys, NEW t \in Detector!EpochTimes(k)
  PROVE  t \in 0..MaxEpoch
BY DEF Detector!EpochTimes

(* What one measurement does to the signal it measures. *)
LEMMA MeasuredSignal ==
  ASSUME Detector!TypeOK, NEW k \in Keys, NEW t \in Detector!EpochTimes(k),
         NEW phase \in BOOLEAN, NEW found \in BOOLEAN, NEW ll \in BOOLEAN,
         Detector!Measure(k, t, phase, found, ll)
  PROVE  /\ arc'[k] \in 0..MaxArc
         /\ slips'[k] \in 0..MaxSlips
         /\ slips'[k] = IF found THEN slips[k] + 1 ELSE slips[k]
         /\ slip'[k] = ((slip[k] \/ found) /\ ~phase)
         /\ \/ arc'[k] = IF ll THEN arc[k] + 1 ELSE arc[k]
            \/ ~phase /\ arc'[k] = arc[k]
<1>1. /\ slips[k] \in 0..MaxSlips /\ slips[k] < MaxSlips
      /\ arc[k] \in 0..MaxArc /\ arc[k] < MaxArc
  BY DEF Detector!Measure, Detector!WithinBounds, Detector!TypeOK,
     Detector!SinksTypeOK
<1>2. slips'[k] = IF found THEN slips[k] + 1 ELSE slips[k]
  BY DEF Detector!Measure, Detector!Note, Detector!TypeOK, Detector!SinksTypeOK
<1>3. slip'[k] = ((slip[k] \/ found) /\ ~phase)
  BY DEF Detector!Measure, Detector!TypeOK
<1>4. \/ arc'[k] = IF ll THEN arc[k] + 1 ELSE arc[k]
      \/ ~phase /\ arc'[k] = arc[k]
  BY DEF Detector!Measure, Detector!Forward, Detector!TypeOK,
     Detector!SinksTypeOK
<1>5. arc'[k] \in 0..MaxArc /\ slips'[k] \in 0..MaxSlips
  BY <1>1, <1>2, <1>4, SinksAssumption
<1>6. QED
  BY <1>2, <1>3, <1>4, <1>5

(* What one measurement leaves alone, and the types it keeps. *)
LEMMA MeasureFrame ==
  ASSUME Detector!TypeOK, NEW k \in Keys, NEW t \in Detector!EpochTimes(k),
         NEW phase \in BOOLEAN, NEW found \in BOOLEAN, NEW ll \in BOOLEAN,
         Detector!Measure(k, t, phase, found, ll)
  PROVE  /\ arc' \in [Keys -> 0..MaxArc]
         /\ slips' \in [Keys -> 0..MaxSlips]
         /\ slip' \in [Keys -> BOOLEAN]
         /\ \A q \in Keys \ {k} : /\ arc'[q] = arc[q]
                                  /\ slips'[q] = slips[q]
                                  /\ slip'[q] = slip[q]
<1>1. /\ arc'[k] \in 0..MaxArc
      /\ slips'[k] \in 0..MaxSlips
  BY MeasuredSignal
<1>2. arc' \in [Keys -> 0..MaxArc] /\ \A q \in Keys \ {k} : arc'[q] = arc[q]
  BY <1>1 DEF Detector!Measure, Detector!Forward, Detector!TypeOK,
     Detector!SinksTypeOK
<1>3. slips' \in [Keys -> 0..MaxSlips]
      /\ \A q \in Keys \ {k} : slips'[q] = slips[q]
  BY <1>1 DEF Detector!Measure, Detector!Note, Detector!TypeOK,
     Detector!SinksTypeOK
<1>4. slip' = [slip EXCEPT ![k] = (slip[k] \/ found) /\ ~phase]
  BY DEF Detector!Measure
<1>5. slip' \in [Keys -> BOOLEAN] /\ \A q \in Keys \ {k} : slip'[q] = slip[q]
  BY <1>4 DEF Detector!TypeOK
<1>6. QED
  BY <1>2, <1>3, <1>5

(* What one measurement writes: nothing, or one record that holds arc and  *)
(* slips as they are after the step.                                       *)
LEMMA MeasureOutput ==
  ASSUME Detector!TypeOK, NEW k \in Keys, NEW t \in Detector!EpochTimes(k),
         NEW phase \in BOOLEAN, NEW found \in BOOLEAN, NEW ll \in BOOLEAN,
         Detector!Measure(k, t, phase, found, ll)
  PROVE  \/ out' = out
         \/ /\ Len(out) < MaxOut
            /\ arc'[k] = IF ll THEN arc[k] + 1 ELSE arc[k]
            /\ out' = Append(out, Rec(k, t, phase, arc'[k], slips'[k]))
<1>1. slips'[k] = IF found THEN slips[k] + 1 ELSE slips[k]
  BY MeasuredSignal
<1>2. CASE Detector!Forward(k, t, phase, ll, found)
  <2>1. arc'[k] = IF ll THEN arc[k] + 1 ELSE arc[k]
    BY <1>2 DEF Detector!Forward, Detector!TypeOK, Detector!SinksTypeOK
  <2>2. \/ out' = out
        \/ out' = Append(out, Rec(k, t, phase, arc'[k], slips'[k]))
    BY <1>1, <1>2, <2>1 DEF Detector!Forward, Rec
  <2>3. Len(out) < MaxOut
    BY DEF Detector!Measure, Detector!WithinBounds
  <2>4. QED
    BY <2>1, <2>2, <2>3
<1>3. CASE out' = out
  BY <1>3
<1>4. QED
  BY <1>2, <1>3 DEF Detector!Measure

(* A written record stays linked to the converter's state. *)
LEMMA LinkedStep ==
  ASSUME Detector!TypeOK, NEW k \in Keys, NEW t \in Detector!EpochTimes(k),
         NEW phase \in BOOLEAN, NEW found \in BOOLEAN, NEW ll \in BOOLEAN,
         Detector!Measure(k, t, phase, found, ll),
         NEW r \in Detector!Written,
         Detector!Linked(r, arc[r.key], slips[r.key], slip[r.key])
  PROVE  Detector!Linked(r, arc'[r.key], slips'[r.key], slip'[r.key])
<1>1. /\ r.key \in Keys /\ r.arc \in Nat /\ r.slips \in Nat
      /\ arc[r.key] \in Nat /\ slips[r.key] \in Nat
      /\ slip[r.key] \in BOOLEAN
  BY SinksAssumption DEF Detector!Written, Detector!TypeOK,
     Detector!SinksTypeOK
<1>2. CASE r.key # k
  <2>1. /\ arc'[r.key] = arc[r.key]
        /\ slips'[r.key] = slips[r.key]
        /\ slip'[r.key] = slip[r.key]
    BY <1>1, <1>2, MeasureFrame
  <2>2. QED
    BY <2>1 DEF Detector!Linked
<1>3. CASE r.key = k
  <2>1. /\ slips'[k] = IF found THEN slips[k] + 1 ELSE slips[k]
        /\ slip'[k] = ((slip[k] \/ found) /\ ~phase)
        /\ \/ arc'[k] = IF ll THEN arc[k] + 1 ELSE arc[k]
           \/ ~phase /\ arc'[k] = arc[k]
    BY MeasuredSignal
  <2>2. /\ ll => slip[k] \/ found
        /\ phase /\ (slip[k] \/ found) => ll
    BY DEF Detector!Measure
  <2>3. QED
    BY <1>1, <1>3, <2>1, <2>2 DEF Detector!Linked
<1>4. QED
  BY <1>2, <1>3

(* The record just written is linked to the state that wrote it. *)
LEMMA NewRecordLinked ==
  ASSUME Detector!TypeOK, NEW k \in Keys, NEW t \in Detector!EpochTimes(k),
         NEW phase \in BOOLEAN, NEW found \in BOOLEAN, NEW ll \in BOOLEAN,
         Detector!Measure(k, t, phase, found, ll)
  PROVE  Detector!Linked(Rec(k, t, phase, arc'[k], slips'[k]),
                arc'[k], slips'[k], slip'[k])
<1>1. /\ arc'[k] \in 0..MaxArc /\ slips'[k] \in 0..MaxSlips
      /\ slip'[k] = ((slip[k] \/ found) /\ ~phase)
  BY MeasuredSignal
<1>2. arc'[k] \in Nat /\ slips'[k] \in Nat
  BY <1>1, SinksAssumption
<1>3. phase => ~slip'[k]
  BY <1>1
<1>4. QED
  BY <1>2, <1>3 DEF Detector!Linked, Rec

(* Indices of the output after a step. *)
LEMMA OutputIndices ==
  ASSUME NEW s \in Seq(Detector!Written), NEW r \in Detector!Written
  PROVE  /\ Append(s, r) \in Seq(Detector!Written)
         /\ Len(Append(s, r)) = Len(s) + 1
         /\ DOMAIN Append(s, r) = DOMAIN s \cup {Len(s) + 1}
         /\ \A i \in DOMAIN s : Append(s, r)[i] = s[i] /\ i <= Len(s)
         /\ Append(s, r)[Len(s) + 1] = r
OBVIOUS

(* A step that writes nothing keeps the invariant. *)
LEMMA QuietStep ==
  ASSUME Detector!IInv, out' = out, Detector!AllLinked', Detector!TypeOK'
  PROVE  Detector!IInv'
BY DEF Detector!IInv, Detector!ArcTellsSlips, Detector!SlipReachesPhase,
   Detector!Earlier

(* A step that writes one record keeps the two promises: the new record is *)
(* compared with each earlier one through Linked.                          *)
LEMMA WritingStep ==
  ASSUME Detector!IInv, NEW k \in Keys, NEW r \in Detector!Written,
         out' = Append(out, r), r.key = k,
         Detector!TypeOK', Detector!AllLinked',
         r.arc = arc'[k], r.slips = slips'[k], r.phase => ~slip'[k]
  PROVE  Detector!ArcTellsSlips' /\ Detector!SlipReachesPhase'
<1> DEFINE n == Len(out) + 1
<1>1. /\ out \in Seq(Detector!Written)
      /\ DOMAIN out' = DOMAIN out \cup {n}
      /\ \A i \in DOMAIN out : out'[i] = out[i] /\ i \in 1..Len(out)
      /\ out'[n] = r
      /\ n \in Nat
  <2>1. out \in Seq(Detector!Written)
    BY DEF Detector!IInv, Detector!TypeOK, Detector!SinksTypeOK
  <2>2. QED
    BY <2>1, OutputIndices
<1>2. ASSUME NEW i \in DOMAIN out, out[i].key = k
      PROVE  /\ r.phase /\ out[i].phase
                   => (out[i].arc # r.arc <=> out[i].slips # r.slips)
             /\ r.phase /\ out[i].slips < r.slips => out[i].arc < r.arc
  <2>1. out'[i] = out[i] /\ out[i] \in Detector!Written
    BY <1>1
  <2>2. Detector!Linked(out[i], arc'[k], slips'[k], slip'[k])
    BY <1>1, <1>2, <2>1 DEF Detector!AllLinked
  <2>3. /\ out[i].arc \in Nat /\ out[i].slips \in Nat
        /\ r.arc \in Nat /\ r.slips \in Nat
    BY <2>1 DEF Detector!Written
  <2>4. /\ out[i].arc <= r.arc
        /\ out[i].slips <= r.slips
        /\ out[i].slips < r.slips => out[i].arc < r.arc \/ slip'[k]
        /\ out[i].phase /\ (out[i].arc < r.arc \/ slip'[k])
              => out[i].slips < r.slips
    BY <2>2 DEF Detector!Linked
  <2>5. QED
    BY <2>3, <2>4
<1>3. \A i, j \in DOMAIN out' : Detector!Earlier(i, j)' =>
          i \in DOMAIN out /\ (j = n \/ j \in DOMAIN out)
  <2>1. SUFFICES ASSUME NEW i \in DOMAIN out', NEW j \in DOMAIN out', i < j
                 PROVE  i \in DOMAIN out
    BY <1>1 DEF Detector!Earlier
  <2>2. CASE i = n
    BY <1>1, <2>1, <2>2
  <2>3. QED
    BY <1>1, <2>1, <2>2
<1>4. Detector!ArcTellsSlips'
  <2>1. SUFFICES ASSUME NEW i \in DOMAIN out', NEW j \in DOMAIN out',
                        Detector!Earlier(i, j)', out'[i].phase, out'[j].phase
                 PROVE  out'[i].arc # out'[j].arc
                          <=> out'[i].slips # out'[j].slips
    BY DEF Detector!ArcTellsSlips
  <2>2. CASE j \in DOMAIN out
    BY <1>1, <1>3, <2>1, <2>2
    DEF Detector!IInv, Detector!ArcTellsSlips, Detector!Earlier
  <2>3. CASE j = n
    BY <1>1, <1>2, <1>3, <2>1, <2>3 DEF Detector!Earlier
  <2>4. QED
    BY <1>3, <2>1, <2>2, <2>3
<1>5. Detector!SlipReachesPhase'
  <2>1. SUFFICES ASSUME NEW i \in DOMAIN out', NEW j \in DOMAIN out',
                        Detector!Earlier(i, j)', out'[j].phase,
                        out'[i].slips < out'[j].slips
                 PROVE  out'[i].arc < out'[j].arc
    BY DEF Detector!SlipReachesPhase
  <2>2. CASE j \in DOMAIN out
    BY <1>1, <1>3, <2>1, <2>2
    DEF Detector!IInv, Detector!SlipReachesPhase, Detector!Earlier
  <2>3. CASE j = n
    BY <1>1, <1>2, <1>3, <2>1, <2>3 DEF Detector!Earlier
  <2>4. QED
    BY <1>3, <2>1, <2>2, <2>3
<1>6. QED
  BY <1>4, <1>5

-----------------------------------------------------------------------------
LEMMA InitInv == Detector!Init => Detector!IInv
BY SinksAssumption
DEF Detector!Init, Detector!SinksInit, Detector!IInv, Detector!TypeOK,
    Detector!SinksTypeOK, Detector!AllLinked, Detector!ArcTellsSlips,
    Detector!SlipReachesPhase

LEMMA MeasureInv ==
  ASSUME Detector!IInv, NEW k \in Keys, NEW t \in Detector!EpochTimes(k),
         NEW phase \in BOOLEAN, NEW found \in BOOLEAN, NEW ll \in BOOLEAN,
         Detector!Measure(k, t, phase, found, ll)
  PROVE  Detector!IInv'
<1> DEFINE r == Rec(k, t, phase, arc'[k], slips'[k])
<1>1. Detector!TypeOK /\ Detector!AllLinked
      /\ out \in Seq(Detector!Written) /\ Len(out) <= MaxOut
  BY DEF Detector!IInv, Detector!TypeOK, Detector!SinksTypeOK
<1>2. /\ arc' \in [Keys -> 0..MaxArc]
      /\ slips' \in [Keys -> 0..MaxSlips]
      /\ slip' \in [Keys -> BOOLEAN]
  BY <1>1, MeasureFrame
<1>3. at' \in [Keys -> -1..MaxEpoch] /\ t \in 0..MaxEpoch
  <2>1. at' = [at EXCEPT ![k] = t] /\ t \in 0..MaxEpoch
    BY EpochTimesInRange DEF Detector!Measure, Detector!Note
  <2>2. t \in -1..MaxEpoch
    BY <2>1, SinksAssumption
  <2>3. at \in [Keys -> -1..MaxEpoch]
    BY <1>1 DEF Detector!TypeOK, Detector!SinksTypeOK
  <2>4. QED
    BY <2>1, <2>2, <2>3
<1>4. r \in Detector!Written
  BY <1>2, <1>3, SinksAssumption DEF Rec, Detector!Written
<1>5. out' = out \/ (Len(out) < MaxOut /\ out' = Append(out, r))
  BY <1>1, MeasureOutput
<1>6. \A i \in DOMAIN out :
        LET q == out[i].key
        IN  Detector!Linked(out[i], arc'[q], slips'[q], slip'[q])
  BY <1>1, LinkedStep DEF Detector!AllLinked
<1>7. Detector!Linked(r, arc'[k], slips'[k], slip'[k]) /\ r.key = k
  BY <1>1, NewRecordLinked DEF Rec
<1>8. CASE out' = out
  <2>1. Detector!TypeOK'
    BY <1>1, <1>2, <1>3, <1>8 DEF Detector!TypeOK, Detector!SinksTypeOK
  <2>2. Detector!AllLinked'
    BY <1>6, <1>8 DEF Detector!AllLinked
  <2>3. QED
    BY <1>8, <2>1, <2>2, QuietStep
<1>9. CASE Len(out) < MaxOut /\ out' = Append(out, r)
  <2>1. /\ out' \in Seq(Detector!Written) /\ Len(out') = Len(out) + 1
        /\ DOMAIN out' = DOMAIN out \cup {Len(out) + 1}
        /\ \A i \in DOMAIN out : out'[i] = out[i]
        /\ out'[Len(out) + 1] = r
    BY <1>1, <1>4, <1>9, OutputIndices
  <2>2. Detector!TypeOK'
    <3>1. Len(out') <= MaxOut
      BY <1>1, <1>9, <2>1, SinksAssumption
    <3>2. QED
      BY <1>2, <1>3, <2>1, <3>1 DEF Detector!TypeOK, Detector!SinksTypeOK
  <2>3. Detector!AllLinked'
    <3>1. SUFFICES ASSUME NEW i \in DOMAIN out'
                   PROVE  LET q == out'[i].key
                          IN  Detector!Linked(out'[i], arc'[q],
                                              slips'[q], slip'[q])
      BY DEF Detector!AllLinked
    <3>2. CASE i \in DOMAIN out
      BY <1>6, <2>1, <3>2
    <3>3. CASE i = Len(out) + 1
      BY <1>7, <2>1, <3>3
    <3>4. QED
      BY <2>1, <3>2, <3>3
  <2>4. r.key = k /\ r.arc = arc'[k] /\ r.slips = slips'[k] /\ r.phase = phase
    BY DEF Rec
  <2>5. phase => ~slip'[k]
    BY <1>1, MeasuredSignal
  <2>6. Detector!ArcTellsSlips' /\ Detector!SlipReachesPhase'
    <3> HIDE DEF r
    <3>1. QED
      BY <1>4, <1>9, <2>2, <2>3, <2>4, <2>5, WritingStep
  <2>7. QED
    BY <2>2, <2>3, <2>6 DEF Detector!IInv
<1>10. QED
  BY <1>5, <1>8, <1>9

LEMMA StepInv ==
  Detector!IInv /\ [Detector!Next]_(Detector!vars) => Detector!IInv'
<1>1. CASE Detector!IInv /\ Detector!Next
  BY <1>1, MeasureInv DEF Detector!Next
<1>2. CASE Detector!IInv /\ UNCHANGED Detector!vars
  BY <1>2
  DEF Detector!vars, Detector!IInv, Detector!TypeOK, Detector!SinksTypeOK,
      Detector!AllLinked, Detector!Linked, Detector!ArcTellsSlips,
      Detector!SlipReachesPhase, Detector!Earlier
<1>3. QED
  BY <1>1, <1>2

(* The inductive invariant holds in every behaviour of the detector. *)
THEOREM DeferralInvariant == Detector!Spec => []Detector!IInv
<1>1. Detector!Init => Detector!IInv
  BY InitInv
<1>2. Detector!IInv /\ [Detector!Next]_(Detector!vars) => Detector!IInv'
  BY StepInv
<1>3. QED
  BY <1>1, <1>2, PTL DEF Detector!Spec

(* Between two written observations of a signal that carry phase, arc      *)
(* differs exactly when a slip was detected between them.                  *)
THEOREM DeferralArcTellsSlips == Detector!Spec => []Detector!ArcTellsSlips
<1>1. Detector!IInv => Detector!ArcTellsSlips
  BY DEF Detector!IInv
<1>2. QED
  BY <1>1, DeferralInvariant, PTL

(* A written observation with phase has a larger arc than every earlier    *)
(* record of the signal that precedes a slip.                              *)
THEOREM DeferralSlipReachesPhase ==
  Detector!Spec => []Detector!SlipReachesPhase
<1>1. Detector!IInv => Detector!SlipReachesPhase
  BY DEF Detector!IInv
<1>2. QED
  BY <1>1, DeferralInvariant, PTL

-----------------------------------------------------------------------------
(* A set of naturals has a least member.                                   *)
LEMMA NatMin ==
  ASSUME NEW S \in SUBSET Nat, S # {}
  PROVE  \E m \in S : \A k \in S : m <= k
<1>1. \E m \in S : \A k \in S : ~(<<k, m>> \in OpToRel(<, Nat))
  BY NatLessThanWellFounded, WFMin
<1>2. ASSUME NEW m \in S, NEW k \in S, k < m
      PROVE  <<k, m>> \in OpToRel(<, Nat)
  BY <1>2 DEF OpToRel
<1>3. PICK m \in S : \A k \in S : ~(k < m)
  BY <1>1, <1>2
<1>4. \A k \in S : m <= k
  BY <1>3
<1>5. QED
  BY <1>4

(* So does a set of naturals below a bound have a greatest.                *)
LEMMA NatMax ==
  ASSUME NEW n \in Nat, NEW S \in SUBSET (0..n), S # {}
  PROVE  \E m \in S : \A k \in S : k <= m
<1> DEFINE T == {n - x : x \in S}
<1>1. T \in SUBSET Nat /\ T # {}
  OBVIOUS
<1>2. PICK m \in T : \A k \in T : m <= k
  BY <1>1, NatMin
<1>3. PICK x \in S : m = n - x
  BY <1>2
<1>4. \A y \in S : n - x <= n - y
  BY <1>2, <1>3
<1>5. \A y \in S : y <= x
  BY <1>4
<1>6. QED
  BY <1>5

-----------------------------------------------------------------------------
(* The records of a signal before one of the output, the last of which its *)
(* bit is told by.                                                         *)
Before(i) == {x \in 1..(i - 1) : out[x].key = out[i].key}

LEMMA LastBefore ==
  ASSUME NEW i \in Nat, Before(i) # {}
  PROVE  \E x \in Before(i) : /\ \A y \in Before(i) : y <= x
                              /\ Detector!Lli(i) <=> out[i].arc # out[x].arc
<1> DEFINE Last(x) == \A y \in Before(i) : y <= x
           x == CHOOSE x \in Before(i) : Last(x)
<1>1. Before(i) \in SUBSET (0..i)
  BY DEF Before
<1>2. \E m \in Before(i) : Last(m)
  BY <1>1, NatMax
<1>3. x \in Before(i) /\ Last(x)
  BY <1>2
<1>4. Detector!Lli(i) <=> out[i].arc # out[x].arc
  BY DEF Detector!Lli, Before
<1>5. QED
  BY <1>3, <1>4

(* With --ppp-ar every record has a phase: between two of them arc moves   *)
(* on one, which has the bit.                                              *)
LEMMA SurfacesAmongPhases ==
  ASSUME Detector!IInv, \A i \in DOMAIN out : out[i].phase
  PROVE  Detector!SlipSurfacesOnPhase
<1>1. SUFFICES ASSUME NEW i \in DOMAIN out, NEW j \in DOMAIN out,
                      Detector!Earlier(i, j),
                      out[i].slips < out[j].slips
               PROVE  \E x \in (i + 1)..j :
                        out[x].key = out[j].key /\ out[x].phase
                        /\ Detector!Lli(x)
  BY DEF Detector!SlipSurfacesOnPhase
<1>2. out \in Seq(Detector!Written) /\ DOMAIN out = 1..Len(out)
      /\ Len(out) \in Nat
  BY DEF Detector!IInv, Detector!TypeOK, Detector!SinksTypeOK
<1>3. i \in 1..Len(out) /\ j \in 1..Len(out) /\ i < j
      /\ out[i].key = out[j].key
  BY <1>1, <1>2 DEF Detector!Earlier
<1> DEFINE S == {x \in (i + 1)..j : /\ out[x].key = out[j].key
                                    /\ out[x].arc # out[i].arc}
<1>4. j \in S
  <2>1. out[i].arc < out[j].arc
    BY <1>1 DEF Detector!IInv, Detector!SlipReachesPhase
  <2>2. out[i] \in Detector!Written /\ out[j] \in Detector!Written
    BY <1>2
  <2>3. out[i].arc \in Nat /\ out[j].arc \in Nat
    BY <2>2 DEF Detector!Written
  <2>4. QED
    BY <1>3, <2>1, <2>3
<1>5. S \in SUBSET Nat
  BY <1>3
<1>6. PICK x \in S : \A y \in S : x <= y
  BY <1>4, <1>5, NatMin
<1>7. x \in (i + 1)..j /\ x \in 1..Len(out) /\ x \in Nat
      /\ out[x].key = out[j].key /\ out[x].arc # out[i].arc
  BY <1>3, <1>6
<1>8. i \in Before(x)
  BY <1>3, <1>7 DEF Before
<1>9. PICK p \in Before(x) : /\ \A y \in Before(x) : y <= p
                             /\ Detector!Lli(x) <=> out[x].arc # out[p].arc
  BY <1>7, <1>8, LastBefore
<1>10. p \in 1..(x - 1) /\ i <= p /\ out[p].key = out[j].key
  BY <1>7, <1>8, <1>9 DEF Before
<1>11. out[p].arc = out[i].arc
  <2>1. CASE p = i
    BY <2>1
  <2>2. CASE p # i
    <3>1. p \in (i + 1)..j /\ ~(x <= p)
      BY <1>3, <1>7, <1>10, <2>2
    <3>2. p \notin S
      BY <1>6, <3>1
    <3>3. QED
      BY <1>10, <3>1, <3>2
  <2>3. QED
    BY <2>1, <2>2
<1>12. Detector!Lli(x) /\ out[x].phase
  BY <1>2, <1>7, <1>9, <1>11
<1>13. QED
  BY <1>7, <1>12

(* A slip after a record with phase is still pending, or there is a later  *)
(* record with phase and the bit.                                          *)
Surfaced(i) ==
  LET k == out[i].key
  IN  out[i].phase /\ out[i].slips < slips[k] =>
        \/ slip[k]
        \/ \E x \in DOMAIN out :
             i < x /\ out[x].key = k /\ out[x].phase /\ Detector!Lli(x)

SurfacedInv ==
  /\ Detector!IInv
  /\ \A i \in DOMAIN out : Surfaced(i)
  /\ Detector!SlipSurfacesOnPhase

(* A record written later takes no bit away and gives none.                *)
LEMMA LliKept ==
  ASSUME out \in Seq(Detector!Written), out' \in Seq(Detector!Written),
         NEW i \in DOMAIN out,
         \A x \in DOMAIN out : x \in DOMAIN out' /\ out'[x] = out[x]
  PROVE  Detector!Lli(i)' <=> Detector!Lli(i)
<1> DEFINE b == {x \in 1..(i - 1) : out[x].key = out[i].key}
           d == {x \in 1..(i - 1) : out'[x].key = out'[i].key}
<1>1. i \in 1..Len(out) /\ Len(out) \in Nat /\ DOMAIN out = 1..Len(out)
  OBVIOUS
<1>2. b = d /\ out'[i] = out[i]
  BY <1>1
<1>3. CASE b = {}
  BY <1>2, <1>3 DEF Detector!Lli
<1>4. CASE b # {}
  <2>1. b \in SUBSET (0..i) /\ i \in Nat
    BY <1>1
  <2>2. \E m \in b : \A y \in b : y <= m
    <3> HIDE DEF b
    <3>1. QED
      BY <1>4, <2>1, NatMax
  <2> DEFINE c == CHOOSE x \in b : \A y \in b : y <= x
  <2>3. c \in b
    <3> HIDE DEF b
    <3>1. QED
      BY <2>2
  <2>4. c \in DOMAIN out
    <3> HIDE DEF c
    <3>1. QED
      BY <1>1, <2>3
  <2>5. out'[c] = out[c]
    BY <2>4
  <2>6. Detector!Lli(i) <=> out[i].arc # out[c].arc
    BY <1>4 DEF Detector!Lli
  <2>7. Detector!Lli(i)' <=>
          out'[i].arc # out'[CHOOSE x \in d : \A y \in d : y <= x].arc
    BY <1>2, <1>4 DEF Detector!Lli
  <2> HIDE DEF b, d
  <2>8. QED
    BY <1>2, <2>5, <2>6, <2>7
<1>5. QED
  BY <1>3, <1>4

(* With every epoch handed on, a reported slip is in the record.           *)
LEMMA SurfacedStep ==
  ASSUME Interval = 0, SurfacedInv, Detector!IInv', NEW k \in Keys,
         NEW t \in Detector!EpochTimes(k),
         NEW phase \in BOOLEAN, NEW found \in BOOLEAN, NEW ll \in BOOLEAN,
         Detector!Measure(k, t, phase, found, ll)
  PROVE  SurfacedInv'
<1> DEFINE owed == slip[k] \/ found
<1>1. /\ Detector!TypeOK /\ out \in Seq(Detector!Written)
      /\ out' \in Seq(Detector!Written)
      /\ DOMAIN out = 1..Len(out) /\ Len(out) \in Nat
      /\ arc' \in [Keys -> 0..MaxArc] /\ slips' \in [Keys -> 0..MaxSlips]
      /\ arc[k] \in Nat
  BY SinksAssumption DEF SurfacedInv, Detector!IInv, Detector!TypeOK,
     Detector!SinksTypeOK
<1>2. /\ slips'[k] = IF found THEN slips[k] + 1 ELSE slips[k]
      /\ slip'[k] = (owed /\ ~phase)
      /\ \A q \in Keys \ {k} : slips'[q] = slips[q] /\ slip'[q] = slip[q]
  BY <1>1, MeasuredSignal, MeasureFrame
<1>3. PICK n, r : n = Len(out) + 1 /\ r = Rec(k, t, phase, arc'[k], slips'[k])
  OBVIOUS
<1>4. \/ out' = out
      \/ out' = Append(out, r) /\ arc'[k] = IF ll THEN arc[k] + 1 ELSE arc[k]
  BY <1>1, <1>3, MeasureOutput
<1>5. /\ r \in Detector!Written /\ r.key = k /\ r.phase = phase
      /\ r.arc = arc'[k] /\ r.slips = slips'[k] /\ r.slips \in Nat
  BY <1>1, <1>3, EpochTimesInRange, SinksAssumption DEF Rec, Detector!Written
<1>6. /\ out' = out => DOMAIN out' = DOMAIN out
      /\ out' = Append(out, r)
           => DOMAIN out' = DOMAIN out \cup {n} /\ out'[n] = r
      /\ \A i \in DOMAIN out : i \in DOMAIN out' /\ out'[i] = out[i]
  <2>1. CASE out' = out
    <3>1. PICK a : a = Append(out, r)
      OBVIOUS
    <3>2. Len(a) = Len(out) + 1
      BY <1>1, <1>5, <3>1
    <3>3. Len(a) # Len(out)
      <4>1. Len(out) \in Nat
        BY <1>1
      <4>2. QED
        BY <3>2, <4>1
    <3>4. out' # a
      BY <2>1, <3>3
    <3>5. QED
      BY <2>1, <3>1, <3>4
  <2>2. CASE out' = Append(out, r)
    <3>1. /\ DOMAIN out' = DOMAIN out \cup {n} /\ out'[n] = r
          /\ \A i \in DOMAIN out : out'[i] = out[i]
      BY <1>1, <1>3, <1>5, <2>2, OutputIndices
    <3>2. Len(out') = Len(out) + 1
      BY <1>1, <1>5, <2>2
    <3>3. Len(out') # Len(out)
      <4>1. Len(out) \in Nat
        BY <1>1
      <4>2. QED
        BY <3>2, <4>1
    <3>4. out' # out
      BY <3>3
    <3>5. QED
      BY <3>1, <3>4
  <2>3. QED
    BY <1>4, <2>1, <2>2
<1>7. /\ n \in Nat
      /\ \A i \in DOMAIN out : i \in Nat /\ i < n
      /\ \A x \in 1..(n - 1) : x \in DOMAIN out
  BY <1>1, <1>3
<1>8. n \in DOMAIN out' => out' = Append(out, r)
  BY <1>1, <1>3, <1>4
<1>9. \A i \in DOMAIN out : Detector!Lli(i)' <=> Detector!Lli(i)
  BY <1>1, <1>6, LliKept
<1>10. \A i \in DOMAIN out : out[i] \in Detector!Written /\ out[i].key \in Keys
  <2>1. \A i \in DOMAIN out : out[i] \in Detector!Written
    BY <1>1
  <2>2. QED
    BY <2>1 DEF Detector!Written
<1>11. ASSUME phase, owed
      PROVE  /\ n \in DOMAIN out' /\ out'[n].key = k /\ out'[n].phase
             /\ Detector!Lli(n)'
  <2>1. Detector!Forward(k, t, phase, ll, found) /\ ll
    BY <1>11 DEF Detector!Measure
  <2>2. out' = Append(out, r) /\ arc'[k] = arc[k] + 1
    <3>1. Len(out') = Len(out) + 1
      BY <1>11, <1>1, <2>1 DEF Detector!Forward, Detector!Kept
    <3>2. out' # out
      BY <1>1, <3>1
    <3>3. QED
      BY <1>4, <2>1, <3>2
  <2>3. out'[n] = r /\ n \in DOMAIN out' /\ n \in Nat
    BY <1>1, <1>6, <1>7, <1>8, <2>2
  <2>4. r.key = k /\ r.phase /\ r.arc = arc[k] + 1
    BY <1>5, <1>11, <2>2
  <2>5. ASSUME NEW x \in 1..(n - 1), out'[x].key = k
        PROVE  out'[x].arc # arc[k] + 1
    <3>1. x \in DOMAIN out /\ out'[x] = out[x]
      BY <1>1, <1>6, <1>7, <1>8
    <3>2. out[x].arc <= arc[k] /\ out[x].arc \in Nat
      BY <1>10, <2>5, <3>1
      DEF SurfacedInv, Detector!IInv, Detector!AllLinked, Detector!Linked,
          Detector!Written
    <3>3. QED
      BY <1>1, <3>1, <3>2
  <2>6. Detector!Lli(n)'
    <3> DEFINE b == {x \in 1..(n - 1) : out'[x].key = out'[n].key}
    <3>1. Detector!Lli(n)' <=> IF b = {} THEN out'[n].arc # 0
                      ELSE out'[n].arc #
                             out'[CHOOSE x \in b : \A y \in b : y <= x].arc
      BY DEF Detector!Lli
    <3>2. CASE b = {}
      BY <1>1, <2>3, <2>4, <3>1, <3>2
    <3>3. CASE b # {}
      <4>1. b \in SUBSET (0..n)
        BY <2>3
      <4>2. \A x \in b : out'[x].arc # out'[n].arc
        BY <2>3, <2>4, <2>5
      <4> HIDE DEF b
      <4>3. \E m \in b : \A y \in b : y <= m
        BY <2>3, <3>3, <4>1, NatMax
      <4>4. (CHOOSE x \in b : \A y \in b : y <= x) \in b
        BY <4>3
      <4>5. QED
        BY <3>1, <3>3, <4>2, <4>4
    <3>4. QED
      BY <3>2, <3>3
  <2>7. QED
    BY <2>3, <2>4, <2>6
<1>12. ASSUME NEW i \in DOMAIN out PROVE Surfaced(i)'
  <2> DEFINE q == out[i].key
  <2>1. out'[i] = out[i] /\ q \in Keys
    BY <1>6, <1>7, <1>8, <1>10
  <2>2. SUFFICES ASSUME out[i].phase, out[i].slips < slips'[q], ~slip'[q]
                 PROVE  \E x \in DOMAIN out' :
                          i < x /\ out'[x].key = q /\ out'[x].phase
                          /\ Detector!Lli(x)'
    BY <2>1 DEF Surfaced
  <2>3. CASE out[i].slips < slips[q] /\ ~slip[q]
    <3>1. PICK x \in DOMAIN out :
                 i < x /\ out[x].key = q /\ out[x].phase /\ Detector!Lli(x)
      BY <2>2, <2>3 DEF SurfacedInv, Surfaced
    <3>2. QED
      BY <1>6, <1>7, <1>8, <1>9, <3>1
  <2>4. CASE q = k /\ owed
    <3>1. phase
      BY <1>2, <2>2, <2>4
    <3>2. QED
      BY <1>6, <1>7, <1>8, <1>11, <2>4, <3>1
  <2>5. (out[i].slips < slips[q] /\ ~slip[q]) \/ (q = k /\ owed)
    BY <1>2, <2>1, <2>2
  <2>6. QED
    BY <2>3, <2>4, <2>5
<1>13. \A i \in DOMAIN out' : Surfaced(i)'
  <2>1. SUFFICES ASSUME n \in DOMAIN out' PROVE Surfaced(n)'
    BY <1>4, <1>6, <1>7, <1>8, <1>12
  <2>2. out'[n] = r
    BY <1>6, <1>7, <1>8, <2>1
  <2>3. r.key = k /\ r.slips = slips'[k] /\ slips'[k] \in Nat
    BY <1>5
  <2>4. ~(slips'[k] < slips'[k])
    BY <2>3
  <2>5. QED
    BY <2>2, <2>3, <2>4 DEF Surfaced
<1>14. Detector!SlipSurfacesOnPhase'
  <2>1. SUFFICES ASSUME NEW i \in DOMAIN out', NEW j \in DOMAIN out',
                        Detector!Earlier(i, j)',
                        out'[i].phase, out'[j].phase,
                        out'[i].slips < out'[j].slips
                 PROVE  \E x \in (i + 1)..j :
                          out'[x].key = out'[j].key /\ out'[x].phase
                          /\ Detector!Lli(x)'
    BY DEF Detector!SlipSurfacesOnPhase
  <2>2. i < j /\ out'[i].key = out'[j].key
    BY <2>1 DEF Detector!Earlier
  <2>3. CASE j \in DOMAIN out
    <3>1. i \in DOMAIN out
      BY <1>1, <2>2, <2>3
    <3>2. PICK x \in (i + 1)..j :
                 out[x].key = out[j].key /\ out[x].phase /\ Detector!Lli(x)
      BY <1>6, <1>7, <1>8, <2>1, <2>2, <2>3, <3>1
      DEF SurfacedInv, Detector!SlipSurfacesOnPhase, Detector!Earlier
    <3>3. x \in DOMAIN out
      BY <1>1, <2>3, <3>1
    <3>4. QED
      BY <1>6, <1>7, <1>8, <1>9, <2>3, <3>2, <3>3
  <2>4. CASE j = n /\ n \in DOMAIN out'
    <3>1. out' = Append(out, r) /\ out'[n] = r
      BY <1>6, <1>7, <1>8, <2>4
    <3>2. r.key = k /\ r.slips = slips'[k] /\ r.phase = phase
      BY <1>5
    <3>3. i \in DOMAIN out /\ out'[i] = out[i] /\ out[i].key = k
      <4>1. i \in DOMAIN out \/ i = n
        BY <1>6, <3>1
      <4>2. i < n
        BY <2>2, <2>4
      <4>3. i # n
        BY <1>7, <4>2
      <4>4. i \in DOMAIN out /\ out'[i] = out[i]
        BY <1>6, <4>1, <4>3
      <4>5. QED
        BY <2>2, <2>4, <3>1, <3>2, <4>4
    <3>4. ~slip'[k] /\ out[i].slips < slips'[k]
      BY <1>2, <2>1, <2>4, <3>1, <3>2, <3>3
    <3>5. PICK x \in DOMAIN out' :
                 i < x /\ out'[x].key = k /\ out'[x].phase /\ Detector!Lli(x)'
      BY <1>13, <2>1, <3>3, <3>4 DEF Surfaced
    <3>6. x \in (i + 1)..j
      <4>1. x \in Nat /\ x <= n /\ i \in Nat
        BY <1>6, <1>7, <3>1, <3>3, <3>5
      <4>2. QED
        BY <1>7, <2>4, <3>5, <4>1
    <3>7. QED
      BY <2>4, <3>1, <3>2, <3>5, <3>6
  <2>5. QED
    BY <1>4, <1>6, <1>7, <1>8, <2>3, <2>4
<1>15. QED
  BY <1>13, <1>14 DEF SurfacedInv

(* Unless output is decimated with phaseless observations in it, a slip    *)
(* between two records with phase puts the bit on a record with phase.     *)
THEOREM DeferralSlipSurfacesOnPhase ==
  ASSUME Interval = 0 \/ RequireCp
  PROVE  Detector!Spec => []Detector!SlipSurfacesOnPhase
<1>1. CASE Interval = 0
  <2>1. Detector!IInv /\ Detector!Init => SurfacedInv
    BY DEF Detector!Init, Detector!SinksInit, SurfacedInv,
       Detector!SlipSurfacesOnPhase
  <2>2. Detector!IInv /\ Detector!IInv' /\ SurfacedInv
        /\ [Detector!Next]_(Detector!vars) => SurfacedInv'
    <3>1. ASSUME Detector!IInv', SurfacedInv, Detector!Next PROVE SurfacedInv'
      BY <1>1, <3>1, SurfacedStep DEF Detector!Next
    <3>2. ASSUME Detector!IInv', SurfacedInv, UNCHANGED Detector!vars
          PROVE  SurfacedInv'
      <4>1. /\ Surfaced(0)' = Surfaced(0)
            /\ Detector!SlipSurfacesOnPhase' = Detector!SlipSurfacesOnPhase
            /\ \A i \in DOMAIN out : Surfaced(i)' <=> Surfaced(i)
        BY <3>2 DEF Detector!vars, Surfaced, Detector!SlipSurfacesOnPhase,
           Detector!Earlier, Detector!Lli
      <4>2. QED
        BY <3>2, <4>1 DEF Detector!vars, SurfacedInv
    <3>3. QED
      BY <3>1, <3>2
  <2>3. SurfacedInv => Detector!SlipSurfacesOnPhase
    BY DEF SurfacedInv
  <2>4. QED
    BY <2>1, <2>2, <2>3, DeferralInvariant, PTL DEF Detector!Spec
<1>2. CASE RequireCp
  <2> DEFINE AllPhase == \A i \in DOMAIN out : out[i].phase
  <2>1. Detector!Init => AllPhase
    BY DEF Detector!Init, Detector!SinksInit
  <2>2. Detector!IInv /\ AllPhase
        /\ [Detector!Next]_(Detector!vars) => AllPhase'
    <3>1. ASSUME Detector!IInv, AllPhase, NEW k \in Keys,
                 NEW t \in Detector!EpochTimes(k),
                 NEW phase \in BOOLEAN, NEW found \in BOOLEAN,
                 NEW ll \in BOOLEAN,
                 Detector!Measure(k, t, phase, found, ll)
          PROVE  AllPhase'
      <4>1. Detector!TypeOK /\ out \in Seq(Detector!Written)
        BY <3>1 DEF Detector!IInv, Detector!TypeOK, Detector!SinksTypeOK
      <4>2. CASE phase
        <5>1. \/ out' = out
              \/ out' = Append(out, Rec(k, t, phase, arc'[k], slips'[k]))
          BY <3>1, <4>1, MeasureOutput
        <5>2. Rec(k, t, phase, arc'[k], slips'[k]).phase
          BY <4>2 DEF Rec
        <5>3. QED
          BY <3>1, <4>1, <5>1, <5>2
      <4>3. CASE ~phase
        <5>1. out' = out
          BY <1>2, <3>1, <4>3
          DEF Detector!Measure, Detector!Forward, Detector!Kept
        <5>2. QED
          BY <3>1, <5>1
      <4>4. QED
        BY <4>2, <4>3
    <3>2. QED
      BY <3>1 DEF Detector!Next, Detector!vars
  <2>3. Detector!IInv /\ AllPhase => Detector!SlipSurfacesOnPhase
    BY SurfacesAmongPhases
  <2>4. QED
    BY <2>1, <2>2, <2>3, DeferralInvariant, PTL DEF Detector!Spec
<1>3. QED
  BY <1>1, <1>2

-----------------------------------------------------------------------------
LEMMA StateStep == StateOK /\ [Next]_vars => StateOK'
<1>1. ASSUME StateOK, NEW k \in Keys, NEW c \in Cells, NEW t \in EpochTimes(k),
             ConvertCell(k, c, t)
      PROVE  StateOK'
  <2>1. lock' \in [Keys -> LockIndicators \cup {0}]
    BY <1>1 DEF ConvertCell, StateOK, Cells
  <2>2. slip' = [slip EXCEPT ![k] = LossOfLock(k, c) /\ ~c.phase]
    BY <1>1 DEF ConvertCell
  <2>3. slip' \in [Keys -> BOOLEAN]
    BY <1>1, <2>2 DEF StateOK
  <2>4. QED
    BY <2>1, <2>3 DEF StateOK
<1>2. CASE StateOK /\ UNCHANGED vars
  BY <1>2 DEF vars, StateOK
<1>3. QED
  BY <1>1, <1>2 DEF Next

LEMMA StateCorrect == Spec => []StateOK
<1>1. Init => StateOK
  BY DEF Init, StateOK
<1>2. QED
  BY <1>1, StateStep, PTL DEF Spec

-----------------------------------------------------------------------------
(* A cell is a step of the abstract detector. *)
LEMMA ConvertCellImplements ==
  ASSUME StateOK, NEW k \in Keys, NEW c \in Cells, NEW t \in EpochTimes(k),
         NEW phase \in BOOLEAN, NEW found \in BOOLEAN, NEW ll \in BOOLEAN,
         phase <=> c.phase, found <=> SlipDetected(k, c),
         ll <=> LossOfLock(k, c),
         ConvertCell(k, c, t)
  PROVE  Detector!Measure(k, t, phase, found, ll)
<1> DEFINE owed == slip[k] \/ found
<1>1. (ll => owed) /\ (phase /\ owed => ll)
  BY DEF LossOfLock
<1>2. slip' = [slip EXCEPT ![k] = owed /\ ~phase]
  BY DEF ConvertCell, LossOfLock
<1>3. \/ Forward(k, t, phase, ll, found)
      \/ ~phase /\ UNCHANGED <<arc, out>>
  BY DEF ConvertCell, HasAnyCode, Forward, Kept, OnGrid
<1>4. WithinBounds(k) /\ Note(k, t, found)
  BY DEF ConvertCell, Note
<1>5. QED
  BY <1>1, <1>2, <1>3, <1>4 DEF Detector!Measure,
     Detector!WithinBounds, WithinBounds, Detector!Note, Note,
     Detector!Forward, Forward, Detector!Kept, Kept, Detector!OnGrid, OnGrid,
     Detector!RoundTime, RoundTime

LEMMA StepImplements ==
  StateOK /\ [Next]_vars => [Detector!Next]_(Detector!vars)
<1>1. ASSUME StateOK, NEW k \in Keys, NEW c \in Cells, NEW t \in EpochTimes(k),
             ConvertCell(k, c, t)
      PROVE  Detector!Next
  <2>1. PICK phase, found, ll \in BOOLEAN : /\ phase <=> c.phase
                                            /\ found <=> SlipDetected(k, c)
                                            /\ ll <=> LossOfLock(k, c)
    BY Zenon
  <2>2. t \in Detector!EpochTimes(k)
    BY <1>1 DEF EpochTimes, Detector!EpochTimes
  <2>3. Detector!Measure(k, t, phase, found, ll)
    BY <1>1, <2>1, ConvertCellImplements
  <2>4. QED
    BY <2>2, <2>3 DEF Detector!Next
<1>2. CASE UNCHANGED vars
  BY <1>2 DEF vars, Detector!vars
<1>3. QED
  BY <1>1, <1>2 DEF Next

(* The RTCM converter in front of the sinks is a deferred-slip detector:   *)
(* every cell is one of its steps.                                         *)
THEOREM RtcmImplementsDeferral == Spec => ImplementsDeferral
<1>1. Init => Detector!Init
  BY DEF Init, Detector!Init, SinksInit, Detector!SinksInit
<1>2. StateOK /\ [Next]_vars => [Detector!Next]_(Detector!vars)
  BY StepImplements
<1>3. QED
  BY <1>1, <1>2, StateCorrect, PTL DEF Spec, ImplementsDeferral, Detector!Spec

(* What every deferred-slip detector keeps, the RTCM path keeps. *)
LEMMA Inherited == Spec => []Detector!IInv
BY RtcmImplementsDeferral, DeferralInvariant, PTL DEF ImplementsDeferral

(* The state of the RTCM path keeps its types. *)
THEOREM RtcmTypeCorrect == Spec => []TypeOK
<1>1. Detector!IInv /\ StateOK => TypeOK
  BY DEF Detector!IInv, Detector!TypeOK, Detector!SinksTypeOK, TypeOK,
     SinksTypeOK, Detector!Written, Written
<1>2. QED
  BY <1>1, Inherited, StateCorrect, PTL

(* Whatever is filtered or dropped, between two written observations of a  *)
(* signal that carry phase arc differs exactly when the RTCM converter     *)
(* detected a slip between them.                                           *)
THEOREM RtcmArcTellsSlips == Spec => []ArcTellsSlips
<1>1. Detector!IInv => ArcTellsSlips
  BY DEF Detector!IInv, Detector!ArcTellsSlips, ArcTellsSlips,
     Detector!Earlier, Earlier
<1>2. QED
  BY <1>1, Inherited, PTL

(* A slip the RTCM converter detects moves arc by the next written         *)
(* observation of the signal that carries phase.                           *)
THEOREM RtcmSlipReachesPhase == Spec => []SlipReachesPhase
<1>1. Detector!IInv => SlipReachesPhase
  BY DEF Detector!IInv, Detector!SlipReachesPhase, SlipReachesPhase,
     Detector!Earlier, Earlier
<1>2. QED
  BY <1>1, Inherited, PTL

(* Unless output is decimated with phaseless observations in it, a slip    *)
(* that the RTCM converter detected between two written records with      *)
(* phase sets the loss-of-lock bit on a record with phase, where a reader  *)
(* of RINEX looks for it.                                                  *)
THEOREM RtcmSlipSurfacesOnPhase ==
  ASSUME Interval = 0 \/ RequireCp
  PROVE  Spec => []SlipSurfacesOnPhase
<1>1. Detector!Spec => []Detector!SlipSurfacesOnPhase
  BY SinksAssumption, DeferralSlipSurfacesOnPhase
<1>2. Detector!SlipSurfacesOnPhase => SlipSurfacesOnPhase
  BY DEF Detector!SlipSurfacesOnPhase, SlipSurfacesOnPhase,
     Detector!Earlier, Earlier, Detector!Lli, Lli
<1>3. QED
  BY <1>1, <1>2, RtcmImplementsDeferral, PTL DEF ImplementsDeferral
=============================================================================
