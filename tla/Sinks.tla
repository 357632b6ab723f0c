------------------------------- MODULE Sinks -------------------------------
(***************************************************************************)
(* The streaming sinks between a converter and the writer                  *)
(* (obsj/src/arc.rs, obsj/src/sink.rs), in the order cli/src/lib.rs builds *)
(* them for packet input:                                                  *)
(*                                                                         *)
(*   LossOfLockSink -> RequireCpFilter -> DecimationSink -> writer         *)
(*                                                                         *)
(* An observation travels the whole chain inside one call, so the chain is *)
(* one operator, Forward, that a converter's action applies.               *)
(***************************************************************************)
EXTENDS EpochGrid, Integers, Sequences

CONSTANTS
  Keys,       \* the signals: (satellite, signal) pairs, obs.rs SignalKey
  RoundUnit,  \* DECIMATION_ROUND_TICKS: epoch labels are rounded to it
  Interval,   \* decimation interval in ticks, 0 when --interval is absent
  RequireCp,  \* TRUE for --ppp-ar: keep only observations with phase
  MaxEpoch,   \* bound on epoch times
  MaxArc,     \* bound on the loss-of-lock counters
  MaxSlips,   \* bound on the slips of one signal
  MaxOut      \* bound on the written observations

ASSUME SinksAssumption ==
  /\ RoundUnit \in Nat \ {0}
  /\ Interval \in Nat
  /\ RequireCp \in BOOLEAN
  /\ MaxEpoch \in Nat
  /\ MaxArc \in Nat
  /\ MaxSlips \in Nat
  /\ MaxOut \in Nat

VARIABLES
  at,     \* time of the latest measurement, per signal, -1 before any
  arc,    \* LossOfLockSink.arc, per signal
  slips,  \* history: slips the converter has detected so far, per signal
  out     \* what reaches the writer, in order (RinexSink.obs, obsj lines)

-----------------------------------------------------------------------------
OnGrid(t) == RoundTime(t, RoundUnit) % Interval = 0

(* The filters that build_sink puts in front of the writer. *)
Kept(t, phase) ==
  /\ RequireCp => phase
  /\ Interval # 0 => OnGrid(t)

Written == [key : Keys, t : Int, phase : BOOLEAN, arc : Nat, slips : Nat]

(* One observation of signal k at time t enters the chain: ll is the       *)
(* converter's slip flag, slip whether this measurement is a slip.  The    *)
(* written record also carries the number of slips seen so far, which the  *)
(* code does not keep: it is what the properties compare arc with.         *)
Forward(k, t, phase, ll, slip) ==
  LET a == IF ll THEN arc[k] + 1 ELSE arc[k]
      n == IF slip THEN slips[k] + 1 ELSE slips[k]
  IN  /\ arc' = [arc EXCEPT ![k] = a]
      /\ out' = IF Kept(t, phase)
                  THEN Append(out, [key |-> k, t |-> t, phase |-> phase,
                                    arc |-> a, slips |-> n])
                  ELSE out

(* A converter measures k at time t, with a slip or without: the history.  *)
Note(k, t, slip) ==
  /\ slips' = [slips EXCEPT ![k] = IF slip THEN @ + 1 ELSE @]
  /\ at' = [at EXCEPT ![k] = t]

(* A receiver measures a signal at most once in an epoch, and its epochs   *)
(* come in the order of time; a signal may be absent from any of them.     *)
EpochTimes(k) == {t \in 0..MaxEpoch : at[k] < t /\ \A q \in Keys : at[q] <= t}

WithinBounds(k) ==
  /\ slips[k] < MaxSlips
  /\ arc[k] < MaxArc
  /\ Len(out) < MaxOut

SinksInit ==
  /\ at = [k \in Keys |-> -1]
  /\ arc = [k \in Keys |-> 0]
  /\ slips = [k \in Keys |-> 0]
  /\ out = <<>>

SinksTypeOK ==
  /\ at \in [Keys -> -1..MaxEpoch]
  /\ arc \in [Keys -> 0..MaxArc]
  /\ slips \in [Keys -> 0..MaxSlips]
  /\ out \in Seq(Written)
  /\ Len(out) <= MaxOut

-----------------------------------------------------------------------------
(* What a reader of the output can conclude from arc.  p and r are written *)
(* observations of one signal, p before r.                                 *)
Earlier(i, j) == i < j /\ out[i].key = out[j].key

(* Loss of lock as the output promises it: between two observations that   *)
(* both carry phase, arc differs exactly when a slip was detected in       *)
(* between, whatever was dropped by has_any_code, --ppp-ar or --interval,  *)
(* and whatever phaseless epochs lay between them (arc.rs:20-21).          *)
ArcTellsSlips ==
  \A i, j \in DOMAIN out :
    Earlier(i, j) /\ out[i].phase /\ out[j].phase
      => (out[i].arc # out[j].arc <=> out[i].slips # out[j].slips)

(* A slip never waits past the next written phase: relative to ANY earlier *)
(* record of the signal, also one without phase, a record with phase has a *)
(* larger arc when a slip was detected since.                              *)
SlipReachesPhase ==
  \A i, j \in DOMAIN out :
    Earlier(i, j) /\ out[j].phase /\ out[i].slips < out[j].slips
      => out[i].arc < out[j].arc

(* The loss-of-lock bit ArcToLl::lli gives record i when a RINEX writer    *)
(* goes through out: arc differs from the signal's record before, or from  *)
(* 0 when there is none.                                                   *)
Lli(i) ==
  LET before == {x \in 1..(i - 1) : out[x].key = out[i].key}
  IN  IF before = {} THEN out[i].arc # 0
      ELSE out[i].arc # out[CHOOSE x \in before : \A y \in before : y <= x].arc

(* arc.rs:20-21: "a slip occurring inside a dropped gap still bumps `arc`  *)
(* and therefore surfaces on the next kept epoch".  The external backend   *)
(* writes the bit only with a phase (rinex-obsj/src/lib.rs:191-199), so    *)
(* between two phases with a slip between them the bit has to be on a      *)
(* record with phase.                                                      *)
SlipSurfacesOnPhase ==
  \A i, j \in DOMAIN out :
    Earlier(i, j) /\ out[i].phase /\ out[j].phase /\ out[i].slips < out[j].slips
      => \E x \in (i + 1)..j : out[x].key = out[j].key /\ out[x].phase /\ Lli(x)
=============================================================================
