----------------------------- MODULE RinexFile -----------------------------
(***************************************************************************)
(* A RINEX observation file (RinexFormat), written and read back.  The     *)
(* observations read may be converted to RINEX again, any number of times. *)
(***************************************************************************)
EXTENDS RinexFormat, ObsDiff

CONSTANTS
  Observations, \* what the input may consist of
  MaxObs,       \* bound on the observations of the input
  MaxFiles      \* bound on the files written one from the other

ASSUME RinexFileAssumption ==
  /\ Observations \subseteq SignalObservation
  /\ MaxObs \in Nat /\ MaxFiles \in Nat \ {0}

VARIABLES
  backend,   \* "internal" or "external", the feature the program is built with
  obs,    \* RinexSink.obs
  stage,  \* "input", "flush", "file", "back" or "failed"
  file,   \* the fields of the file written last
  back,   \* the observations read from it
  files   \* number of files written

vars == <<backend, obs, stage, file, back, files>>

-----------------------------------------------------------------------------
Init ==
  /\ backend \in {"internal", "external"}
  /\ obs = <<>>
  /\ stage = "input"
  /\ file = {}
  /\ back = {}
  /\ files = 0

(* RinexSink::observation.  The input has a signal once in an epoch, and   *)
(* need not be in the order of time.                                       *)
Observation(o) ==
  /\ stage = "input"
  /\ Len(obs) < MaxObs
  /\ \A i \in DOMAIN obs : <<obs[i].key, obs[i].t>> # <<o.key, o.t>>
  /\ obs' = Append(obs, o)
  /\ UNCHANGED <<backend, stage, file, back, files>>

(* RinexSink::flush: an error when there is nothing to write.              *)
Flush ==
  /\ stage \in {"input", "flush"}
  /\ \/ obs = <<>> /\ stage' = "failed" /\ UNCHANGED <<file, files>>
     \/ /\ obs # <<>>
        /\ stage' = "file"
        /\ file' = Written(backend, Sorted(obs))
        /\ files' = files + 1
  /\ UNCHANGED <<backend, obs, back>>

(* read_observation_file of the backend *)
Read ==
  /\ stage = "file"
  /\ back' = ReadObservations(backend, file)
  /\ stage' = "back"
  /\ UNCHANGED <<backend, obs, file, files>>

(* The file is the input of another conversion to RINEX: its observations  *)
(* reach a new sink in the order of time.                                  *)
Convert ==
  /\ stage = "back"
  /\ files < MaxFiles
  /\ \E s \in SetToSeqs(back) :
       /\ \A i, j \in DOMAIN s : i < j => s[i].t <= s[j].t
       /\ obs' = s
  /\ stage' = "flush"
  /\ UNCHANGED <<backend, file, back, files>>

Next == (\E o \in Observations : Observation(o)) \/ Flush \/ Read \/ Convert

Spec == Init /\ [][Next]_vars

-----------------------------------------------------------------------------
(* The variables have their types, and the file, like the input, a signal  *)
(* once in an epoch.                                                       *)
TypeOK ==
  /\ \A i \in DOMAIN obs : obs[i] \in SignalObservation
  /\ stage \in {"input", "flush", "file", "back", "failed"}
  /\ file \subseteq [key : Keys, t : Nat, col : {"C", "L"}, val : BOOLEAN,
                     ll : BOOLEAN, hc : BOOLEAN]
  /\ back \subseteq SignalObservation
  /\ \A a, b \in back : a.key = b.key /\ a.t = b.t => a = b
  /\ files \in 0..MaxFiles

(* b is what the i-th observation of s became. *)
Became(s, i, b) == b.key = s[i].key /\ b.t = s[i].t

(* The arc of a signal before observation x; it starts at 0. *)
ArcBefore(s, x) == IF Before(s, x) = {} THEN 0 ELSE s[Max(Before(s, x))].arc

(* The arc of the signal of observation i moves after observation h (after *)
(* its start, if h is 0) up to i, on one of the observations counted.      *)
Moves(s, h, i, counted) ==
  \E x \in counted \cap (h + 1)..i : s[x].key = s[i].key /\ s[x].arc # ArcBefore(s, x)

(* A slip survives: arc, read back, differs between two observations of a  *)
(* signal exactly when it moved between them, and is 0 as long as it was   *)
(* 0, whatever the order of the input (rinexobs.rs:1205: "the slip must    *)
(* survive as arc, via the LLI").  Through the internal backend every move *)
(* survives, also of observations without phase, through the external one  *)
(* those on observations with phase (rinex-obsj/src/lib.rs:191-199).       *)
SlipsSurvive ==
  LET s == Sorted(obs)
      counted == {x \in DOMAIN s : backend = "internal" \/ s[x].phase}
  IN  stage = "back" =>
        \A j \in DOMAIN s : \A b \in back : Became(s, j, b) =>
          /\ b.arc # 0 <=> Moves(s, 0, j, counted)
          /\ \A i \in Before(s, j) : \A a \in back : Became(s, i, a) =>
               (a.arc # b.arc <=> Moves(s, i, j, counted))

(* No observation with a value is lost, and none is invented.              *)
ValuesSurvive ==
  stage = "back" =>
    {[key |-> b.key, t |-> b.t, phase |-> b.phase, code |-> b.code] :
       b \in {b \in back : b.phase \/ b.code}}
    = {[key |-> obs[i].key, t |-> obs[i].t, phase |-> obs[i].phase,
        code |-> obs[i].code] :
       i \in {i \in DOMAIN obs : obs[i].phase \/ obs[i].code}}

(* The comparison that the round-trip tests use sees no difference between *)
(* the input and what is read back, given that every observation has a     *)
(* value, as the converters see to (has_any_code).  For the external       *)
(* backend it is told to ignore blank phases (diff.rs:64-69,               *)
(* rinex-obsj/src/lib.rs:191-195), and then a half-cycle bit needs a phase,*)
(* as it has in what UBX is converted to (ubx.rs:217): one without, which  *)
(* RTCM can make (rtcm.rs:446), is lost and seen to be.                    *)
RoundTripEqual ==
  LET external == backend = "external"
  IN  /\ stage = "back"
      /\ \A i \in DOMAIN obs : obs[i].phase \/ obs[i].code
      /\ external => \A i \in DOMAIN obs : obs[i].hc => obs[i].phase
      => Diff(obs, SetToSeq(back), external) = {}

(* What the comparison sees of lost and made-up slips: of two files that   *)
(* differ in some loss-of-lock bits only, diffobs finds a difference if    *)
(* one of them is not on a signal's first observation, and none otherwise  *)
(* (diff.rs:117-128).                                                      *)
DiffSeesSlips ==
  stage = "back" =>
    \A wrong \in SUBSET {x \in file : x.col = "L"} :
      LET other == (file \ wrong) \cup {[x EXCEPT !.ll = ~x.ll] : x \in wrong}
          difference == Diff(SetToSeq(back), SetToSeq(ReadObservations(backend, other)),
                             backend = "external")
          later == {x \in wrong : \E b \in back : b.key = x.key /\ b.t < x.t}
      IN  difference = {} <=> later = {}

(* After one pass through the format nothing changes any more: a file made *)
(* from a file reads back as that file did.                                *)
Stable == [][Read /\ files > 1 => back' = back]_vars
=============================================================================
