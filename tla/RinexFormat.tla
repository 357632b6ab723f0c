----------------------------- MODULE RinexFormat ----------------------------
(***************************************************************************)
(* What a RINEX observation file can hold, written and read                *)
(* (obsj/src/rinexobs.rs and, for the external backend,                    *)
(* rinex-obsj/src/lib.rs).  The format has no arc: the writer turns it     *)
(* into loss-of-lock bits on phase fields, and the reader counts the bits  *)
(* into a new arc.                                                         *)
(*                                                                         *)
(* An observation has a carrier phase or not, any other values (code) or   *)
(* not, and the half-cycle bit; the other bit of LLI, BOC tracking, goes   *)
(* the way of the half-cycle bit and is left out.  Backend is "internal"   *)
(* or "external", the feature the program is built with.                   *)
(***************************************************************************)
EXTENDS ArcToLl, FiniteSets, SequencesExt

CONSTANT Keys   \* the signals

SignalObservation ==
  [key : Keys, t : Nat, phase : BOOLEAN, code : BOOLEAN, arc : Nat, hc : BOOLEAN]

(* The observations sorted by time, those of one epoch as they came.       *)
Sorted(s) ==
  LET Place(i) == Cardinality({j \in DOMAIN s :
                    s[j].t < s[i].t \/ (s[j].t = s[i].t /\ j <= i)})
  IN  [n \in DOMAIN s |-> s[CHOOSE i \in DOMAIN s : Place(i) = n]]

(* Faulty variant of WantsPhase: no blank phase.                           *)
WantsPhaseNoBlank(backend, s, i) == s[i].phase

(* The fields that the i-th observation of s wants in the file: its values *)
(* and its phase.  The internal backend writes a blank phase to carry LLI  *)
(* when there is no phase, the external one cannot.                        *)
WantsPhase(backend, s, i) ==
  \/ s[i].phase
  \/ backend = "internal" /\ (Lli(s, i) \/ s[i].hc)

Wants(backend, s, i, col) ==
  IF col = "C" THEN s[i].code ELSE WantsPhase(backend, s, i)

Field(s, i, col) ==
  [key |-> s[i].key, t |-> s[i].t, col |-> col,
   val |-> IF col = "C" THEN TRUE ELSE s[i].phase,
   ll |-> col = "L" /\ Lli(s, i),
   hc |-> col = "L" /\ s[i].hc]

(* Faulty variant of Columns: only a phase makes a phase column.           *)
ColumnsPhaseOnly(s) ==
  {<<s[i].key, "C">> : i \in {i \in DOMAIN s : s[i].code}}
  \cup {<<s[i].key, "L">> : i \in {i \in DOMAIN s : s[i].phase}}

(* writer_codes: the columns that the header lists, which every epoch has. *)
(* Any value makes a phase column.                                         *)
Columns(s) ==
  {<<s[i].key, "C">> : i \in {i \in DOMAIN s : s[i].code}}
  \cup {<<s[i].key, "L">> :
          i \in {i \in DOMAIN s : s[i].code \/ s[i].phase \/ Lli(s, i) \/ s[i].hc}}

(* build_obs_file: the first observation of a signal in an epoch has the   *)
(* field (add_obs_field), and write_epochs writes it if it has a column.   *)
Written(backend, s) ==
  UNION {{Field(s, i, col) : i \in
            {x \in DOMAIN s :
               /\ Wants(backend, s, x, col) /\ <<s[x].key, col>> \in Columns(s)
               /\ \A j \in 1..(x - 1) :
                    Wants(backend, s, j, col) => <<s[j].key, s[j].t>> # <<s[x].key, s[x].t>>}} :
         col \in {"C", "L"}}

(* Faulty variant of ArcAt: arc is the bit of the epoch.                   *)
ArcAtBit(f, k, t) == Cardinality({x \in f : x.key = k /\ x.t = t /\ x.ll})

(* accumulate_arc over a file: arc counts the bits up to an epoch.         *)
ArcAt(f, k, t) == Cardinality({x \in f : x.key = k /\ x.t <= t /\ x.ll})

(* Faulty variant of ReadBack: every field is an observation of its own.   *)
ReadBackFields(f) ==
  {[key |-> x.key, t |-> x.t, phase |-> x.col = "L" /\ x.val,
    code |-> x.col = "C", arc |-> ArcAt(f, x.key, x.t), hc |-> x.hc] : x \in f}

(* read_observation_file: one observation for the fields of a signal in an *)
(* epoch.                                                                  *)
ReadBack(f) ==
  {[key |-> x.key, t |-> x.t,
    phase |-> \E y \in f : y.key = x.key /\ y.t = x.t /\ y.col = "L" /\ y.val,
    code |-> \E y \in f : y.key = x.key /\ y.t = x.t /\ y.col = "C",
    arc |-> ArcAt(f, x.key, x.t),
    hc |-> \E y \in f : y.key = x.key /\ y.t = x.t /\ y.hc] : x \in f}

(* observations_from_record: the rinex crate has fields with values only.  *)
ObservationsFromRecord(f) == ReadBack({x \in f : x.val})

(* read_rinex *)
ReadObservations(backend, f) ==
  IF backend = "external" THEN ObservationsFromRecord(f) ELSE ReadBack(f)
=============================================================================
