------------------------------ MODULE UbxPath ------------------------------
(***************************************************************************)
(* The UBX converter's slip detection (obsj/src/ubx.rs) feeding the sinks. *)
(* One action: a measurement of an RXM-RAWX message is turned into an      *)
(* observation, or dropped, by Converter::observation.                     *)
(***************************************************************************)
EXTENDS Sinks

CONSTANTS
  LockTimes,      \* values of lock_time (0 .. 64500 ms in the protocol)
  CpStdevs,       \* values of the masked cp_stdev, 0 .. 15
  SlipThreshold   \* Options.slip_threshold as given, 0 for the default

ASSUME UbxAssumption ==
  /\ LockTimes \subseteq Nat
  /\ CpStdevs \subseteq 0..15
  /\ SlipThreshold \in Nat

VARIABLE state    \* Converter.state, the default SignalState when absent

vars == <<at, arc, slips, out, state>>

SignalState == [lock : LockTimes \cup {0}, sub_half_cyc : BOOLEAN,
                pending : BOOLEAN, seen : BOOLEAN]

(* A measurement: phase - it has a valid carrier phase; code - it has any  *)
(* other value (pseudorange, Doppler, C/N0).                               *)
Meas == [lock_time : LockTimes, cp_stdev : CpStdevs, sub : BOOLEAN,
         phase : BOOLEAN, code : BOOLEAN]

Threshold == IF SlipThreshold = 0 THEN 15 ELSE SlipThreshold

Init ==
  /\ SinksInit
  /\ state = [k \in Keys |-> [lock |-> 0, sub_half_cyc |-> FALSE,
                              pending |-> FALSE, seen |-> FALSE]]

-----------------------------------------------------------------------------
SubChanged(k, m) == m.sub # state[k].sub_half_cyc

(* The measurement shows a slip. *)
SlipDetected(k, m) ==
  \/ m.lock_time = 0
  \/ state[k].seen /\ m.lock_time < state[k].lock
  \/ SubChanged(k, m)
  \/ m.cp_stdev >= Threshold

(* Faulty variants of the definitions below, used only to confirm that the *)
(* properties notice them: a slip seen without phase is forgotten ...      *)
LossOfLockForgets(k, m) == SubChanged(k, m) \/ (m.phase /\ SlipDetected(k, m))

(* ... the next state remembers a difference of lock times ...             *)
NextStateDelta(k, m) ==
  [lock |-> m.lock_time - state[k].lock, sub_half_cyc |-> m.sub,
   pending |-> (state[k].pending \/ SlipDetected(k, m)) /\ ~m.phase, seen |-> TRUE]

(* ... pending is never reset ...                                          *)
NextStateSticky(k, m) ==
  [lock |-> m.lock_time, sub_half_cyc |-> m.sub,
   pending |-> state[k].pending \/ SlipDetected(k, m), seen |-> TRUE]

(* ... pending is reset by an observation without phase.                   *)
NextStateAnyCode(k, m) ==
  [lock |-> m.lock_time, sub_half_cyc |-> m.sub,
   pending |-> (state[k].pending \/ SlipDetected(k, m)) /\ ~(m.phase \/ m.code),
   seen |-> TRUE]

(* The loss-of-lock flag slip_hc returns. *)
LossOfLock(k, m) ==
  \/ SubChanged(k, m)
  \/ m.phase /\ (state[k].pending \/ SlipDetected(k, m))

NextState(k, m) ==
  [lock |-> m.lock_time,
   sub_half_cyc |-> m.sub,
   pending |-> (state[k].pending \/ SlipDetected(k, m)) /\ ~m.phase,
   seen |-> TRUE]

HasAnyCode(m) == m.phase \/ m.code

(* Faulty variant: a measurement without values is dropped before slip_hc. *)
ObservationDropsFirst(k, m, t) ==
  /\ WithinBounds(k)
  /\ Note(k, t, SlipDetected(k, m))
  /\ IF HasAnyCode(m)
       THEN /\ Forward(k, t, m.phase, LossOfLock(k, m), SlipDetected(k, m))
            /\ state' = [state EXCEPT ![k] = NextState(k, m)]
       ELSE UNCHANGED <<arc, out, state>>

(* Converter::observation: the slip state advances before the measurement  *)
(* is dropped for having no value.                                         *)
Observation(k, m, t) ==
  /\ WithinBounds(k)
  /\ state' = [state EXCEPT ![k] = NextState(k, m)]
  /\ Note(k, t, SlipDetected(k, m))
  /\ IF HasAnyCode(m)
       THEN Forward(k, t, m.phase, LossOfLock(k, m), SlipDetected(k, m))
       ELSE UNCHANGED <<arc, out>>

Next == \E k \in Keys, m \in Meas : \E t \in EpochTimes(k) : Observation(k, m, t)

Spec == Init /\ [][Next]_vars

-----------------------------------------------------------------------------
StateOK == state \in [Keys -> SignalState]

TypeOK == SinksTypeOK /\ StateOK

(* One slip moves arc at most twice: once early, when the subtracted half  *)
(* cycle changes without phase, and once with the next phase.  So arc is   *)
(* not a count of slips, but it never runs ahead of twice their number     *)
(* (ubx.rs:204-217).                                                       *)
AtMostTwicePerSlip ==
  \A k \in Keys : arc[k] + (IF state[k].pending THEN 1 ELSE 0) <= 2 * slips[k]

(* The UBX converter is a deferred-slip detector. *)
Detector == INSTANCE DeferredSlips
              WITH pending <- [k \in Keys |-> state[k].pending]

ImplementsDeferral == Detector!Spec
=============================================================================
