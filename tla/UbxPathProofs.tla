--------------------------- MODULE UbxPathProofs ---------------------------
(***************************************************************************)
(* The UBX path implements deferred slip detection, and so inherits what   *)
(* is proved of it; and it never reports more than two slips for one.      *)
(***************************************************************************)
EXTENDS UbxPath, TLAPS

(* What is proved of the detector, for the pending slips this converter    *)
(* keeps.  The lock indicators are the RTCM converter's alone.             *)
Deferral == INSTANCE DeferredSlipsProofs
              WITH slip <- [k \in Keys |-> state[k].pending],
                   lock <- [k \in Keys |-> 0], LockIndicators <- {}

-----------------------------------------------------------------------------
LEMMA StateStep == StateOK /\ [Next]_vars => StateOK'
<1>1. ASSUME StateOK, NEW k \in Keys, NEW m \in Meas, NEW t \in EpochTimes(k),
             Observation(k, m, t)
      PROVE  StateOK'
  <2>1. NextState(k, m) \in SignalState
    BY <1>1 DEF NextState, SignalState, SlipDetected, StateOK, Meas
  <2>2. QED
    BY <1>1, <2>1 DEF Observation, StateOK
<1>2. CASE StateOK /\ UNCHANGED vars
  BY <1>2 DEF vars, StateOK
<1>3. QED
  BY <1>1, <1>2 DEF Next

LEMMA StateCorrect == Spec => []StateOK
<1>1. Init => StateOK
  BY DEF Init, StateOK, SignalState
<1>2. QED
  BY <1>1, StateStep, PTL DEF Spec

-----------------------------------------------------------------------------
(* A measurement is a step of the abstract detector. *)
LEMMA ObservationImplements ==
  ASSUME StateOK, NEW k \in Keys, NEW m \in Meas, NEW t \in EpochTimes(k),
         NEW phase \in BOOLEAN, NEW found \in BOOLEAN, NEW ll \in BOOLEAN,
         phase <=> m.phase, found <=> SlipDetected(k, m), ll
           <=> LossOfLock(k, m),
         Observation(k, m, t)
  PROVE  Detector!Measure(k, t, phase, found, ll)
<1> DEFINE pending == [q \in Keys |-> state[q].pending]
           owed    == state[k].pending \/ found
<1>1. (ll => owed) /\ (phase /\ owed => ll)
  BY DEF LossOfLock, SlipDetected
<1>2. pending' = [pending EXCEPT ![k] = owed /\ ~phase]
  <2>1. state' = [state EXCEPT ![k] = NextState(k, m)]
    BY DEF Observation
  <2>2. NextState(k, m).pending = (owed /\ ~phase)
    BY DEF NextState
  <2>3. QED
    BY <2>1, <2>2 DEF StateOK
<1>3. \/ Forward(k, t, phase, ll, found)
      \/ ~phase /\ UNCHANGED <<arc, out>>
  BY DEF Observation, HasAnyCode, Forward, Kept, OnGrid
<1>4. WithinBounds(k) /\ Note(k, t, found)
  BY DEF Observation, Note
<1>5. QED
  BY <1>1, <1>2, <1>3, <1>4 DEF Detector!Measure,
     Detector!WithinBounds, WithinBounds, Detector!Note, Note,
     Detector!Forward, Forward, Detector!Kept, Kept, Detector!OnGrid, OnGrid,
     Detector!RoundTime, RoundTime

LEMMA StepImplements == StateOK
/\ [Next]_vars => [Detector!Next]_(Detector!vars)
<1>1. ASSUME StateOK, NEW k \in Keys, NEW m \in Meas, NEW t \in EpochTimes(k),
             Observation(k, m, t)
      PROVE  Detector!Next
  <2>1. PICK phase, found, ll \in BOOLEAN : /\ phase <=> m.phase
                                            /\ found <=> SlipDetected(k, m)
                                            /\ ll <=> LossOfLock(k, m)
    BY Zenon
  <2>2. t \in Detector!EpochTimes(k)
    BY <1>1 DEF EpochTimes, Detector!EpochTimes
  <2>3. Detector!Measure(k, t, phase, found, ll)
    BY <1>1, <2>1, ObservationImplements
  <2>4. QED
    BY <2>2, <2>3 DEF Detector!Next
<1>2. CASE UNCHANGED vars
  BY <1>2 DEF vars, Detector!vars
<1>3. QED
  BY <1>1, <1>2 DEF Next

(* The UBX converter in front of the sinks is a deferred-slip detector:    *)
(* every measurement is one of its steps.                                  *)
THEOREM UbxImplementsDeferral == Spec => ImplementsDeferral
<1>1. Init => Detector!Init
  BY DEF Init, Detector!Init, SinksInit, Detector!SinksInit
<1>2. StateOK /\ [Next]_vars => [Detector!Next]_(Detector!vars)
  BY StepImplements
<1>3. QED
  BY <1>1, <1>2, StateCorrect, PTL DEF Spec, ImplementsDeferral, Detector!Spec

(* Detector, which the runs check, and Deferral, which holds the theorems, *)
(* are instances of one specification.                                     *)
LEMMA SameDetector == Detector!Spec => Deferral!Detector!Spec
<1>1. Detector!Init => Deferral!Detector!Init
  BY DEF Detector!Init, Deferral!Detector!Init, Detector!SinksInit,
     Deferral!Detector!SinksInit
<1>2. Detector!Next => Deferral!Detector!Next
  BY DEF Detector!Next, Deferral!Detector!Next, Detector!Measure,
     Deferral!Detector!Measure,
     Detector!EpochTimes, Deferral!Detector!EpochTimes, Detector!WithinBounds,
     Deferral!Detector!WithinBounds, Detector!Note, Deferral!Detector!Note,
     Detector!Forward,
     Deferral!Detector!Forward, Detector!Kept, Deferral!Detector!Kept,
     Detector!OnGrid,
     Deferral!Detector!OnGrid, Detector!RoundTime, Deferral!Detector!RoundTime
<1>3. [Detector!Next]_(Detector!vars)
        => [Deferral!Detector!Next]_(Deferral!Detector!vars)
  BY <1>2 DEF Detector!vars, Deferral!Detector!vars
<1>4. QED
  BY <1>1, <1>3, PTL DEF Detector!Spec, Deferral!Detector!Spec

(* What every deferred-slip detector keeps, the UBX path keeps. *)
LEMMA Inherited == Spec => []Deferral!Detector!IInv
<1>1. Deferral!Detector!Spec => []Deferral!Detector!IInv
  BY SinksAssumption, Deferral!DeferralInvariant
<1>2. QED
  BY <1>1, SameDetector, UbxImplementsDeferral, PTL DEF ImplementsDeferral

(* The state of the UBX path keeps its types. *)
THEOREM UbxTypeCorrect == Spec => []TypeOK
<1>1. Deferral!Detector!IInv /\ StateOK => TypeOK
  BY DEF Deferral!Detector!IInv, Deferral!Detector!TypeOK,
     Deferral!Detector!SinksTypeOK, TypeOK,
     SinksTypeOK, Deferral!Detector!Written, Written
<1>2. QED
  BY <1>1, Inherited, StateCorrect, PTL

(* Whatever is filtered or dropped, between two written observations of a  *)
(* signal that carry phase arc differs exactly when the UBX converter      *)
(* detected a slip between them.                                           *)
THEOREM UbxArcTellsSlips == Spec => []ArcTellsSlips
<1>1. Deferral!Detector!IInv => ArcTellsSlips
  BY DEF Deferral!Detector!IInv, Deferral!Detector!ArcTellsSlips,
     ArcTellsSlips,
     Deferral!Detector!Earlier, Earlier
<1>2. QED
  BY <1>1, Inherited, PTL

(* A slip the UBX converter detects moves arc by the next written          *)
(* observation of the signal that carries phase.                           *)
THEOREM UbxSlipReachesPhase == Spec => []SlipReachesPhase
<1>1. Deferral!Detector!IInv => SlipReachesPhase
  BY DEF Deferral!Detector!IInv, Deferral!Detector!SlipReachesPhase,
     SlipReachesPhase,
     Deferral!Detector!Earlier, Earlier
<1>2. QED
  BY <1>1, Inherited, PTL

-----------------------------------------------------------------------------
(* A slip adds two to the budget of arc; a report takes one, and leaves    *)
(* one more to be taken only while the slip is pending.                    *)
LEMMA BudgetStep ==
  ASSUME TypeOK, AtMostTwicePerSlip,
         NEW k \in Keys, NEW m \in Meas, NEW t \in EpochTimes(k),
         Observation(k, m, t)
  PROVE  AtMostTwicePerSlip'
<1> DEFINE Owed(q) == IF state[q].pending THEN 1 ELSE 0
           owed == state[k].pending \/ SlipDetected(k, m)
<1>1. /\ arc \in [Keys -> 0..MaxArc] /\ slips \in [Keys -> 0..MaxSlips]
      /\ state \in [Keys -> SignalState]
  BY DEF TypeOK, SinksTypeOK, StateOK
<1>2. slips'[k] = IF SlipDetected(k, m) THEN slips[k] + 1 ELSE slips[k]
  BY <1>1 DEF Observation, Note
<1>3. state'[k].pending = (owed /\ ~m.phase)
  BY <1>1 DEF Observation, NextState
<1>4. \/ arc'[k] = IF LossOfLock(k, m) THEN arc[k] + 1 ELSE arc[k]
      \/ arc'[k] = arc[k]
  BY <1>1 DEF Observation, Forward
<1>5. LossOfLock(k, m) => SlipDetected(k, m) \/ (m.phase /\ state[k].pending)
  BY DEF LossOfLock, SlipDetected
<1>6. arc[k] \in Nat /\ slips[k] \in Nat /\ arc[k] + Owed(k) <= 2 * slips[k]
  BY <1>1, SinksAssumption DEF AtMostTwicePerSlip
<1>7. arc'[k] + Owed(k)' <= 2 * slips'[k]
  <2>1. Owed(k) \in {0, 1} /\ Owed(k)' \in {0, 1}
    OBVIOUS
  <2>2. CASE SlipDetected(k, m)
    <3>1. slips'[k] = slips[k] + 1
      BY <1>2, <2>2
    <3>2. arc'[k] = arc[k] \/ arc'[k] = arc[k] + 1
      BY <1>4
    <3>3. CASE Owed(k)' = 0
      BY <1>6, <2>1, <3>1, <3>2, <3>3
    <3>4. CASE Owed(k)' = 1 /\ LossOfLock(k, m)
      BY <1>6, <2>1, <3>1, <3>2, <3>4
    <3>5. CASE Owed(k)' = 1 /\ ~LossOfLock(k, m)
      BY <1>6, <2>1, <3>1, <3>2, <3>5
    <3>6. QED
      BY <2>1, <3>3, <3>4, <3>5
  <2>3. CASE ~SlipDetected(k, m)
    <3>1. slips'[k] = slips[k]
      BY <1>2, <2>3
    <3>2. CASE LossOfLock(k, m)
      <4>1. state[k].pending /\ m.phase
        BY <1>5, <2>3, <3>2
      <4>2. Owed(k) = 1 /\ Owed(k)' = 0
        BY <1>3, <4>1
      <4>3. QED
        BY <1>4, <1>6, <3>1, <3>2, <4>2
    <3>3. CASE ~LossOfLock(k, m)
      <4>1. state'[k].pending => state[k].pending
        BY <1>3, <2>3
      <4>2. Owed(k)' = 0 \/ Owed(k) = 1
        BY <4>1
      <4>3. arc'[k] = arc[k]
        BY <1>4, <3>3
      <4>4. QED
        BY <1>6, <2>1, <3>1, <4>2, <4>3
    <3>4. QED
      BY <3>2, <3>3
  <2>4. QED
    BY <2>2, <2>3
<1>8. \A q \in Keys \ {k} : /\ arc'[q] = arc[q] /\ slips'[q] = slips[q]
                            /\ state'[q] = state[q]
  BY <1>1 DEF Observation, Note, Forward
<1>9. QED
  BY <1>7, <1>8 DEF AtMostTwicePerSlip

(* One slip moves arc of the UBX path at most twice. *)
THEOREM UbxAtMostTwicePerSlip == Spec => []AtMostTwicePerSlip
<1>1. Init => AtMostTwicePerSlip
  <2>1. ASSUME Init, NEW k \in Keys
        PROVE  arc[k] = 0 /\ slips[k] = 0 /\ ~state[k].pending
    BY <2>1 DEF Init, SinksInit
  <2>2. ASSUME Init, NEW k \in Keys
        PROVE  arc[k] + (IF state[k].pending THEN 1 ELSE 0) <= 2 * slips[k]
    BY <2>1, <2>2
  <2>3. QED
    BY <2>2 DEF AtMostTwicePerSlip
<1>2. TypeOK /\ AtMostTwicePerSlip /\ [Next]_vars => AtMostTwicePerSlip'
  <2>1. CASE UNCHANGED vars
    BY <2>1 DEF vars, AtMostTwicePerSlip
  <2>2. QED
    BY <2>1, BudgetStep DEF Next
<1>3. QED
  BY <1>1, <1>2, UbxTypeCorrect, PTL DEF Spec

(* Unless output is decimated with phaseless observations in it, a slip    *)
(* that the UBX converter detected between two written records with       *)
(* phase sets the loss-of-lock bit on a record with phase, where a reader  *)
(* of RINEX looks for it.                                                  *)
THEOREM UbxSlipSurfacesOnPhase ==
  ASSUME Interval = 0 \/ RequireCp
  PROVE  Spec => []SlipSurfacesOnPhase
<1>1. Deferral!Detector!Spec => []Deferral!Detector!SlipSurfacesOnPhase
  BY SinksAssumption, Deferral!DeferralSlipSurfacesOnPhase
<1>2. Deferral!Detector!SlipSurfacesOnPhase => SlipSurfacesOnPhase
  BY DEF Deferral!Detector!SlipSurfacesOnPhase, SlipSurfacesOnPhase,
     Deferral!Detector!Earlier, Earlier, Deferral!Detector!Lli, Lli
<1>3. QED
  BY <1>1, <1>2, SameDetector, UbxImplementsDeferral, PTL
  DEF ImplementsDeferral
=============================================================================
