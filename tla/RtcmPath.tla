------------------------------ MODULE RtcmPath -----------------------------
(***************************************************************************)
(* The RTCM converter's slip detection (obsj/src/rtcm.rs) feeding the      *)
(* sinks.  One action: a cell of an MSM7 message is turned into an         *)
(* observation, or dropped, by Converter::convert_cell.                    *)
(***************************************************************************)
EXTENDS Sinks

CONSTANT LockIndicators   \* values of the lock time indicator, 0 .. 704

ASSUME RtcmPathAssumption == LockIndicators \subseteq Nat

VARIABLES
  lock,   \* Converter.lock, 0 for a signal not in the map
  slip    \* Converter.slip, FALSE for a signal not in the map

vars == <<at, arc, slips, out, lock, slip>>

(* A cell: phase - it yields a carrier phase; code - any other value.      *)
Cells == [lock : LockIndicators, phase : BOOLEAN, code : BOOLEAN]

Init ==
  /\ SinksInit
  /\ lock = [k \in Keys |-> 0]
  /\ slip = [k \in Keys |-> FALSE]

-----------------------------------------------------------------------------
SlipDetected(k, c) ==
  \/ c.lock < lock[k]
  \/ c.lock = 0 /\ lock[k] = 0

(* Faulty variant: the slip map is not consulted. *)
LossOfLockForgets(k, c) == SlipDetected(k, c)

(* The loss-of-lock flag slip_hc returns, with phase or without. *)
LossOfLock(k, c) == slip[k] \/ SlipDetected(k, c)

HasAnyCode(c) == c.phase \/ c.code

(* Faulty variants of convert_cell: cells without values are dropped       *)
(* before slip_hc ...                                                      *)
ConvertCellDropsFirst(k, c, t) ==
  /\ WithinBounds(k)
  /\ Note(k, t, SlipDetected(k, c))
  /\ IF HasAnyCode(c)
       THEN /\ Forward(k, t, c.phase, LossOfLock(k, c), SlipDetected(k, c))
            /\ lock' = [lock EXCEPT ![k] = c.lock]
            /\ slip' = [slip EXCEPT ![k] = LossOfLock(k, c) /\ ~c.phase]
       ELSE UNCHANGED <<arc, out, lock, slip>>

(* ... a slip, once in the map, is never removed ...                       *)
ConvertCellNoRemove(k, c, t) ==
  /\ WithinBounds(k)
  /\ lock' = [lock EXCEPT ![k] = c.lock]
  /\ slip' = [slip EXCEPT ![k] = LossOfLock(k, c)]
  /\ Note(k, t, SlipDetected(k, c))
  /\ IF HasAnyCode(c)
       THEN Forward(k, t, c.phase, LossOfLock(k, c), SlipDetected(k, c))
       ELSE UNCHANGED <<arc, out>>

(* ... the lock map remembers a difference of lock indicators.             *)
ConvertCellDelta(k, c, t) ==
  /\ WithinBounds(k)
  /\ lock' = [lock EXCEPT ![k] = c.lock - @]
  /\ slip' = [slip EXCEPT ![k] = LossOfLock(k, c) /\ ~c.phase]
  /\ Note(k, t, SlipDetected(k, c))
  /\ IF HasAnyCode(c)
       THEN Forward(k, t, c.phase, LossOfLock(k, c), SlipDetected(k, c))
       ELSE UNCHANGED <<arc, out>>

(* Converter::convert_cell: the slip state advances before the cell is     *)
(* dropped for having no value.                                            *)
ConvertCell(k, c, t) ==
  /\ WithinBounds(k)
  /\ lock' = [lock EXCEPT ![k] = c.lock]
  /\ slip' = [slip EXCEPT ![k] = LossOfLock(k, c) /\ ~c.phase]
  /\ Note(k, t, SlipDetected(k, c))
  /\ IF HasAnyCode(c)
       THEN Forward(k, t, c.phase, LossOfLock(k, c), SlipDetected(k, c))
       ELSE UNCHANGED <<arc, out>>

Next == \E k \in Keys, c \in Cells : \E t \in EpochTimes(k) : ConvertCell(k, c, t)

Spec == Init /\ [][Next]_vars

-----------------------------------------------------------------------------
StateOK ==
  /\ lock \in [Keys -> LockIndicators \cup {0}]
  /\ slip \in [Keys -> BOOLEAN]

TypeOK == SinksTypeOK /\ StateOK

(* The RTCM converter is a deferred-slip detector. *)
Detector == INSTANCE DeferredSlips WITH pending <- slip

ImplementsDeferral == Detector!Spec
=============================================================================
