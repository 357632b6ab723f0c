--------------------------- MODULE DeferredSlips ---------------------------
(***************************************************************************)
(* Abstract specification of a converter's slip detection, whatever the    *)
(* receiver protocol: a slip is remembered (pending) until an observation  *)
(* with phase reports it.  It leaves open what each protocol decides:      *)
(* when a slip is detected, whether an observation without phase reports   *)
(* it early, and which phaseless observations are dropped.                 *)
(***************************************************************************)
EXTENDS Sinks

VARIABLE pending    \* slips not yet reported with phase, per signal

vars == <<at, arc, slips, out, pending>>

Init == SinksInit /\ pending = [k \in Keys |-> FALSE]

(* One measurement of k: slip - it shows a slip; ll - it is reported.      *)
Measure(k, t, phase, slip, ll) ==
  LET owed == pending[k] \/ slip
  IN  /\ WithinBounds(k)
      /\ ll => owed
      /\ phase /\ owed => ll
      /\ Note(k, t, slip)
      /\ pending' = [pending EXCEPT ![k] = owed /\ ~phase]
      /\ \/ Forward(k, t, phase, ll, slip)
         \/ ~phase /\ UNCHANGED <<arc, out>>

Next ==
  \E k \in Keys : \E t \in EpochTimes(k), phase, slip, ll \in BOOLEAN :
    Measure(k, t, phase, slip, ll)

Spec == Init /\ [][Next]_vars

-----------------------------------------------------------------------------
TypeOK == SinksTypeOK /\ pending \in [Keys -> BOOLEAN]

(* How a written record r relates to its signal's present arc a, slip      *)
(* count n and pending flag p: a slip after the record has moved arc or is *)
(* pending, and after a record with phase arc moves, or a slip is pending, *)
(* only because of a later slip.                                           *)
Linked(r, a, n, p) ==
  /\ r.arc <= a
  /\ r.slips <= n
  /\ r.slips < n => r.arc < a \/ p
  /\ r.phase /\ (r.arc < a \/ p) => r.slips < n

AllLinked ==
  \A i \in DOMAIN out :
    LET k == out[i].key IN Linked(out[i], arc[k], slips[k], pending[k])

(* The inductive invariant behind ArcTellsSlips and SlipReachesPhase.      *)
IInv ==
  /\ TypeOK
  /\ AllLinked
  /\ ArcTellsSlips
  /\ SlipReachesPhase
=============================================================================
