----------------------------- MODULE ObsInputs -----------------------------
(***************************************************************************)
(* The conversion of one or more observation files into one output         *)
(* (convert_observation_inputs, cli/src/lib.rs).  A RINEX input is read    *)
(* whole before any of it is passed on, and its arc starts at 0 again; an  *)
(* obsj input is read and passed on line by line (stream_obsj,             *)
(* obsj/src/json.rs).  An obsj output is written as records arrive; a      *)
(* RINEX output is written when the sink is flushed, and only then.        *)
(*                                                                         *)
(* The first line of a RINEX input stands for its header, every other is   *)
(* an observation with the loss-of-lock bit ll; a line of an obsj input is *)
(* an observation with arc, a metadata record, blank, or bad: not JSON,    *)
(* without sat or sig, or with a legacy key.                               *)
(***************************************************************************)
EXTENDS RinexFormat

CONSTANTS
  Configs,     \* the conversions: from, to, backend and the filters
  RinexInputs, \* what a RINEX input may be
  ObsjInputs,  \* what an obsj input may be
  MaxInputs    \* bound on the number of inputs

RinexLine ==
  [kind : {"metadata"}] \cup
  [kind : {"observation"},
   o : [key : Keys, t : Nat, phase : BOOLEAN, code : BOOLEAN, ll : BOOLEAN]]

ObsjLine ==
  [kind : {"metadata", "blank", "bad"}] \cup [kind : {"observation"}, o : SignalObservation]

ASSUME ObsInputsAssumption ==
  /\ Configs \subseteq [from : {"rinex", "obsj"}, to : {"rinex", "obsj"},
                        backend : {"internal", "external"},
                        dropped : SUBSET Nat, require_cp : BOOLEAN]
  /\ RinexInputs \subseteq [readable : BOOLEAN, lines : Seq(RinexLine)]
  /\ ObsjInputs \subseteq [readable : BOOLEAN, lines : Seq(ObsjLine)]
  /\ MaxInputs \in Nat \ {0}

VARIABLES
  cfg,     \* the command line
  inputs,  \* the input files, in the order given
  n,       \* number of inputs read to their end
  line,    \* number of lines passed on of the next
  records, \* the observations that reached the writer: those of an obsj output,
           \* or RinexSink.obs
  headers, \* the metadata that reached the writer, by their places
  status   \* "run", "done" or "failed"

vars == <<cfg, inputs, n, line, records, headers, status>>

-----------------------------------------------------------------------------
(* A place is a line of an input.  The metadata of the command line have   *)
(* the place after all inputs.                                             *)
Places == UNION {{i} \X DOMAIN inputs[i].lines : i \in DOMAIN inputs}

CommandLine == <<Len(inputs) + 1, 0>>

Earlier(p, q) == p[1] < q[1] \/ (p[1] = q[1] /\ p[2] < q[2])

LineAt(p) == inputs[p[1]].lines[p[2]]

(* build_sink: --ppp-ar wants a phase, --interval drops whole epochs.      *)
Kept(o) == (cfg.require_cp => o.phase) /\ o.t \notin cfg.dropped

(* The external backend has no blank phase, so no bit either.              *)
BitRead(o) == o.ll /\ (cfg.backend = "internal" \/ o.phase)

(* Faulty variant of BitsUpTo: the counters go on from input to input.     *)
BitsUpToJoint(p, k) ==
  {q \in Places : /\ q = p \/ Earlier(q, p)
                  /\ LineAt(q).kind = "observation"
                  /\ LineAt(q).o.key = k /\ BitRead(LineAt(q).o)}

(* The bits of signal k in a RINEX input, up to the line at p.             *)
BitsUpTo(p, k) ==
  {l \in 1..p[2] : LET x == inputs[p[1]].lines[l]
                   IN  x.kind = "observation" /\ x.o.key = k /\ BitRead(x.o)}

(* The observation at p: as it is in obsj, and with arc from               *)
(* accumulate_arc when read from a RINEX input.                            *)
ObservationAt(p) ==
  LET o == LineAt(p).o
  IN  IF cfg.from = "obsj" THEN o
      ELSE [key |-> o.key, t |-> o.t, phase |-> o.phase, code |-> o.code,
            hc |-> FALSE, arc |-> Cardinality(BitsUpTo(p, o.key))]

(* Faulty variant of Passes: the filters are left out.                     *)
PassesUnfiltered(p) == LineAt(p).kind = "observation"

(* An observation gets past the filters. *)
Passes(p) == LineAt(p).kind = "observation" /\ Kept(LineAt(p).o)

(* Faulty variant of Output: the inputs are not sorted.                    *)
OutputUnsorted == Written(cfg.backend, [x \in DOMAIN records |-> records[x].o])

(* write_observation_file: the RINEX output of a conversion that is done.  *)
Output == Written(cfg.backend, Sorted([x \in DOMAIN records |-> records[x].o]))

-----------------------------------------------------------------------------
Init ==
  /\ cfg \in Configs
  /\ inputs \in UNION {[1..k -> IF cfg.from = "rinex" THEN RinexInputs ELSE ObsjInputs] :
                         k \in 1..MaxInputs}
  /\ n = 0
  /\ line = 0
  /\ records = <<>>
  /\ headers = <<>>
  /\ status = "run"

Reading == status = "run" /\ n < Len(inputs)

(* open_input, and any error in reading a RINEX input, ends the conversion.*)
Unreadable ==
  /\ Reading
  /\ ~inputs[n + 1].readable
  /\ status' = "failed"
  /\ UNCHANGED <<cfg, inputs, n, line, records, headers>>

(* One line is handed to the sinks, by the loop over what read_rinex has   *)
(* read or by stream_obsj.  A line that stream_obsj cannot parse ends the  *)
(* conversion, what came before it has been passed on.                     *)
ReadLine ==
  /\ Reading
  /\ inputs[n + 1].readable
  /\ line < Len(inputs[n + 1].lines)
  /\ LET p == <<n + 1, line + 1>>
     IN  /\ status' = IF LineAt(p).kind = "bad" THEN "failed" ELSE status
         /\ headers' = IF LineAt(p).kind = "metadata" THEN Append(headers, p) ELSE headers
         /\ records' = IF Passes(p) THEN Append(records, [place |-> p, o |-> ObservationAt(p)])
                                    ELSE records
  /\ line' = line + 1
  /\ UNCHANGED <<cfg, inputs, n>>

(* Faulty variant of EndInput: the next input starts where this one ended. *)
EndInputKeepsLine ==
  /\ Reading
  /\ inputs[n + 1].readable
  /\ line = Len(inputs[n + 1].lines)
  /\ n' = n + 1
  /\ UNCHANGED <<cfg, inputs, line, records, headers, status>>

(* The end of an input: on to the next path. *)
EndInput ==
  /\ Reading
  /\ inputs[n + 1].readable
  /\ line = Len(inputs[n + 1].lines)
  /\ n' = n + 1
  /\ line' = 0
  /\ UNCHANGED <<cfg, inputs, records, headers, status>>

(* The command line's metadata comes last, then flush, which for RINEX is  *)
(* an error when there is no observation and writes Output when there is.  *)
Finish ==
  /\ status = "run" /\ n = Len(inputs)
  /\ headers' = Append(headers, CommandLine)
  /\ status' = IF cfg.to = "rinex" /\ records = <<>> THEN "failed" ELSE "done"
  /\ UNCHANGED <<cfg, inputs, n, line, records>>

Next == Unreadable \/ ReadLine \/ EndInput \/ Finish

(* The program does not stop in the middle: there is only the loop.        *)
Spec == Init /\ [][Next]_vars /\ WF_vars(Next)
-----------------------------------------------------------------------------
(* The variables have their types; what is left to read is there, and what *)
(* was handed on comes from where it says.                                 *)
TypeOK ==
  /\ cfg \in Configs
  /\ n \in 0..Len(inputs)
  /\ line # 0 => n < Len(inputs) /\ line <= Len(inputs[n + 1].lines)
  /\ records \in Seq([place : Places, o : SignalObservation])
  /\ headers \in Seq(Places \cup {CommandLine})
  /\ status \in {"run", "done", "failed"}

(* Nothing is wrong with the inputs up to p. *)
SoundUpTo(p) ==
  /\ \A i \in 1..p[1] : inputs[i].readable
  /\ \A q \in Places : q = p \/ Earlier(q, p) => LineAt(q).kind # "bad"

Faultless ==
  /\ \A i \in DOMAIN inputs : inputs[i].readable
  /\ \A p \in Places : LineAt(p).kind # "bad"

(* What is to reach the writer of inputs that may be bad: what is before   *)
(* the first thing that is wrong and, of observations, is kept.            *)
WantedRecords ==
  {p \in Places : SoundUpTo(p) /\ LineAt(p).kind = "observation" /\ Kept(LineAt(p).o)}

WantedHeaders == {p \in Places : SoundUpTo(p) /\ LineAt(p).kind = "metadata"}

(* The places in s are in order, each once, and are the first of those     *)
(* that are wanted: with every one the ones before it.                     *)
IsFirstOf(s, wanted) ==
  /\ \A x, y \in DOMAIN s : x < y => Earlier(s[x], s[y])
  /\ \A x \in DOMAIN s : s[x] \in wanted
  /\ \A x \in DOMAIN s, p \in wanted : Earlier(p, s[x]) => \E y \in DOMAIN s : s[y] = p

(* What is handed to the writer is at any time the first part of what the  *)
(* inputs hold, in their order, and in the end all of it, up to the first  *)
(* error (json.rs:46-64, cli/src/lib.rs:746-771).  The command line's      *)
(* metadata come last and only when nothing was wrong, so that they take   *)
(* precedence.                                                             *)
UpToTheError ==
  LET places == [x \in DOMAIN records |-> records[x].place]
      ends == Faultless /\ status # "run"
  IN  /\ IsFirstOf(places, WantedRecords)
      /\ IsFirstOf(headers, WantedHeaders \cup (IF ends THEN {CommandLine} ELSE {}))
      /\ status # "run" =>
           /\ Range(places) = WantedRecords
           /\ Range(headers) = WantedHeaders \cup (IF Faultless THEN {CommandLine} ELSE {})
      /\ \A x \in DOMAIN records :
           LET o == LineAt(places[x]).o
           IN  records[x].o.key = o.key /\ records[x].o.t = o.t /\ records[x].o.phase = o.phase
      /\ status = "done" => Faultless

(* The observations of all inputs are of different signals or epochs. *)
NoneTwice ==
  \A x, y \in DOMAIN records :
    records[x].o.key = records[y].o.key /\ records[x].o.t = records[y].o.t => x = y

(* A slip within an input survives its being joined with others, in any    *)
(* order of inputs and epochs, and with dropped epochs: if arc differs     *)
(* between two observations of one input, the file has a bit between them. *)
(* It need not when several inputs have a signal in the same epoch: the    *)
(* first is written, but every one moves the writer's memory of arc        *)
(* (rinexobs.rs:100-167).                                                  *)
SlipsSurviveJoin ==
  status = "done" /\ cfg.to = "rinex" /\ cfg.backend = "internal" /\ NoneTwice =>
    \A x, y \in DOMAIN records :
      LET a == records[x].o
          b == records[y].o
      IN  /\ records[x].place[1] = records[y].place[1]
          /\ a.key = b.key /\ a.t < b.t /\ a.arc # b.arc
          => \E f \in Output : f.key = a.key /\ f.ll /\ a.t < f.t /\ f.t <= b.t

(* The observations of the first input alone, which come first.            *)
FirstInput ==
  LET first == {x \in DOMAIN records : records[x].place[1] = 1}
  IN  [x \in 1..Cardinality(first) |-> records[x].o]

(* A RINEX file that is given twice is the same as given once: its arcs    *)
(* are the same both times, so that the duplicates, of which the first     *)
(* wins, do not make or hide a slip.                                       *)
TwiceIsOnce ==
  status = "done" /\ cfg.from = "rinex" /\ cfg.to = "rinex" /\ Len(inputs) = 2
    /\ inputs[1] = inputs[2] =>
      Output = Written(cfg.backend, Sorted(FirstInput))

(* The conversion ends, and with output if nothing is wrong with the       *)
(* inputs and, for RINEX, there is an observation to write.                *)
Completes ==
  /\ <>(status # "run")
  /\ Faultless /\ (cfg.to = "rinex" => WantedRecords # {}) => <>(status = "done")

(* convobs.1.md:197: "a change in the arc index corresponds to RINEX LLI   *)
(* bit 0 being set".  Where the bit is set on an observation of a signal   *)
(* that is in the output before, arc has changed.                          *)
BitChangesArc ==
  cfg.from = "rinex" /\ cfg.to = "obsj" /\ cfg.dropped = {} =>
    \A y \in DOMAIN records :
      LET before == {x \in 1..(y - 1) : records[x].o.key = records[y].o.key}
      IN  before # {} /\ BitRead(LineAt(records[y].place).o)
            => records[Max(before)].o.arc # records[y].o.arc
=============================================================================
