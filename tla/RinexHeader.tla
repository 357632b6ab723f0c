----------------------------- MODULE RinexHeader ---------------------------
(***************************************************************************)
(* What a conversion says in the header of its RINEX file, and in which    *)
(* time system: the options and header file of the command line            *)
(* (cli/src/lib.rs), the station messages of RTCM (obsj/src/rtcm.rs), the  *)
(* headers of RINEX inputs, the sink that merges them, and the writers and *)
(* readers of both backends (obsj/src/rinexobs.rs, rinex-obsj/src/lib.rs,  *)
(* chosen in cli/src/rinex_backend.rs).  The file of one conversion may be *)
(* an input of the next.                                                   *)
(*                                                                         *)
(* An epoch is its true GPS time and the time it is given; what is         *)
(* observed then is in RinexFile.                                          *)
(***************************************************************************)
EXTENDS Metadata, Sequences, FiniteSets, SequencesExt

CONSTANTS
  HeaderFiles,     \* what --header-file sets: sets of fields
  Options,         \* the options used: [set, empty], sets of option names
  Situations,      \* which of the defaults interval and by there are
  ForeignHeaders,  \* the fields set in RINEX files of other programs
  Labels,          \* the time systems in their headers, "" for none
  SystemSets,      \* the systems a file may have observations of
  External,        \* whether the external backend is compiled in
  BackendOptions,  \* the values of --rinex-backend
  Messages,        \* the station messages, by RTCM message number
  Blanks,          \* sets of fields that a message may leave empty
  Times,           \* true times of epochs
  TrueLeap,        \* GPS time ahead of UTC, in seconds
  MaxInputs,       \* bound on the metadata records of a conversion's inputs
  MaxRuns          \* bound on the conversions

OptionNames == {"version", "program", "by", "antenna_type", "position"}

ASSUME CommandLineAssumption ==
  /\ HeaderFiles \subseteq SUBSET Fields
  /\ Options \subseteq [set : SUBSET OptionNames, empty : SUBSET OptionNames]
  /\ Situations \subseteq SUBSET {"interval", "by"}
  /\ BackendOptions \subseteq {"auto", "internal", "external"}

ASSUME InputsAssumption ==
  /\ ForeignHeaders \subseteq SUBSET Fields
  /\ Labels \subseteq {"", "GPS", "GLO", "UTC", "GAL", "BDT"}
  /\ SystemSets \subseteq SUBSET {"GPS", "GLONASS", "Galileo", "BeiDou"}
  /\ Blanks \subseteq SUBSET {"antenna_type", "antenna_number", "receiver", "leap"}
  /\ Times \subseteq Int

ASSUME MessagesAssumption == Messages \subseteq {1005, 1006, 1007, 1008, 1013, 1033, 1230}

ASSUME EnvironmentAssumption == External \in BOOLEAN /\ TrueLeap \in Int

ASSUME BoundsAssumption == MaxInputs \in Nat /\ MaxRuns \in Nat

VARIABLES
  run,      \* number of the conversion
  kind,     \* its input: "packets" or "observations"
  cfg,      \* Config.meta
  option,   \* Config.rinex_backend
  inputs,   \* the metadata records of its inputs, in order
  meta,     \* RinexSink.meta
  epochs,   \* the epochs of RinexSink.obs
  stage,    \* "convert", "done" or "failed"
  file      \* the file written last

vars == <<run, kind, cfg, option, inputs, meta, epochs, stage, file>>

-----------------------------------------------------------------------------
(* The command line.                                                       *)

(* Records are numbered: the command line of a conversion, then its inputs.*)
Rec(n) == run * (MaxInputs + 1) + n

Value(n, by) == [rec |-> Rec(n), by |-> by]

SetBy(S, n, by) == [f \in Fields |-> IF f \in S THEN Value(n, by) ELSE Unset]

(* set_metadata_defaults.  The interval is a default if --interval is     *)
(* given, and by if the user has a name.                                   *)
WithDefaults(m, situation) ==
  [f \in Fields |->
     CASE m[f] = Unset /\ f = "version" -> DefaultVersion
       [] m[f] = Unset /\ f \in {"program", "date"} \cup situation -> Value(0, "default")
       [] OTHER -> m[f]]

(* Faulty variant of WithOptions: no position is the position 0, 0, 0.     *)
WithOptionsZero(m, o) ==
  [f \in Fields |-> IF f \in o.empty THEN IF f = "position" THEN Zero ELSE Unset
                    ELSE IF f \in o.set THEN Value(0, "option") ELSE m[f]]

(* apply_metadata_flags, after the defaults: an empty value suppresses them.*)
WithOptions(m, o) ==
  [f \in Fields |-> IF f \in o.empty THEN Unset
                    ELSE IF f \in o.set THEN Value(0, "option") ELSE m[f]]

(* Faulty variant of CommandFirst: the order of packets for all inputs.    *)
CommandFirstAlways(k) == TRUE

(* Whether the command line's metadata reach the sink before those of the  *)
(* inputs or after them.                                                   *)
CommandFirst(k) == k = "packets"

(* The fields that convert_frame sets from a message.                      *)
StationFields(m) ==
  {"number"} \cup
  CASE m = 1005 -> {"position"}
    [] m = 1006 -> {"position", "delta"}
    [] m = 1007 -> {"antenna_type"}
    [] m = 1008 -> {"antenna_type", "antenna_number"}
    [] m = 1013 -> {"leap"}
    [] m = 1033 -> {"antenna_type", "antenna_number", "receiver"}
    [] m = 1230 -> {}

-----------------------------------------------------------------------------
(* Time systems.                                                           *)

DefaultLeap == 18

BdtOffset == 14

SystemTime(s) ==
  CASE s = "GLONASS" -> "GLO"
    [] s = "Galileo" -> "GAL"
    [] s = "BeiDou" -> "BDT"
    [] OTHER -> "GPS"

(* file_time_system: a file of one system is in that system's time.        *)
FileTime(systems) ==
  IF Cardinality(systems) = 1 THEN SystemTime(CHOOSE s \in systems : TRUE) ELSE "GPS"

(* read_header: the time system of the first epoch's header line, or of    *)
(* the last epoch's, or of the systems.                                    *)
TimeSystem(f) ==
  IF f.first # "" THEN f.first
  ELSE IF f.last # "" THEN f.last ELSE FileTime(f.systems)

(* gps_utc_seconds: the leap seconds of the header, which are right.       *)
LeapSeconds(m) == IF m["leap"] = Unset THEN DefaultLeap ELSE TrueLeap

(* Faulty variant of Shift: GLONASS time taken for GPS time.               *)
ShiftNoGlonass(system, leap) == IF system = "BDT" THEN BdtOffset ELSE 0

(* file_to_gps_time *)
Shift(system, leap) ==
  CASE system \in {"GLO", "UTC"} -> leap
    [] system = "BDT" -> BdtOffset
    [] OTHER -> 0

(* read_epochs: the epochs of a file, in GPS time.  The rinex crate knows  *)
(* the leap seconds of every time.                                         *)
EpochsRead(f, backend) ==
  {[truth |-> e.truth,
    t |-> IF backend = "external" THEN e.truth
          ELSE e.t + Shift(TimeSystem(f), LeapSeconds(f.meta))] : e \in f.epochs}

-----------------------------------------------------------------------------
(* Files.                                                                  *)

(* resolve_input: the backend that reads a file.                           *)
Resolve(crinex) ==
  LET backend == IF option = "auto" /\ crinex THEN "external"
                 ELSE IF option = "auto" THEN "internal" ELSE option
  IN  IF backend = "internal" /\ crinex THEN "error"
      ELSE IF backend = "external" /\ ~External THEN "error" ELSE backend

(* rinex_sink: the backend that writes one.                                *)
Output == Resolve(FALSE)

(* Faulty variant of HeaderRead: the leap seconds are dropped, too.        *)
HeaderReadNoLeap(m, backend) ==
  IF backend = "external"
  THEN [m EXCEPT !["date"] = Unset, !["marker_type"] = Unset, !["delta"] = Unset,
                 !["leap"] = Unset]
  ELSE m

(* metadata_from_header: the external backend does not take the date, the  *)
(* marker's type and the antenna's offset out of a header.                 *)
HeaderRead(m, backend) ==
  IF backend = "external"
  THEN [m EXCEPT !["date"] = Unset, !["marker_type"] = Unset, !["delta"] = Unset]
  ELSE m

(* A RINEX file of another program that sets the fields S, of the given    *)
(* systems and labels.  Its epoch is in the time system that RINEX gives   *)
(* the file, and if that is GLONASS time the header has the leap seconds,  *)
(* or the default is right.                                                *)
Foreign(S, first, last, systems, truth, crinex) ==
  LET f == [meta |-> SetBy(S, Len(inputs) + 1, "other"), first |-> first,
            last |-> last, systems |-> systems, epochs |-> {}, crinex |-> crinex]
      offset == CASE TimeSystem(f) \in {"GLO", "UTC"} -> TrueLeap
                  [] TimeSystem(f) = "BDT" -> 14
                  [] OTHER -> 0
  IN  [f EXCEPT !.epochs = {[truth |-> truth, t |-> truth - offset]}]

Honest(f) ==
  TimeSystem(f) \in {"GLO", "UTC"} /\ f.meta["leap"] = Unset => TrueLeap = DefaultLeap

(* The header written (write_header, build_rinex): a version that is not   *)
(* known becomes the default, positions become zeros, by build_rinex that  *)
(* of the antenna only, whose build_marker leaves out the marker's type.   *)
HeaderWritten(m, backend) ==
  LET filled == IF backend = "external" THEN {"position"} ELSE Positions
  IN  [f \in Fields |->
         CASE backend = "external" /\ f = "marker_type" -> Unset
           [] m[f] = Unset /\ f = "version" -> DefaultVersion
           [] m[f] = Unset /\ f \in filled -> Zero
           [] OTHER -> m[f]]

(* Faulty variant of FileWritten: no time system in the header.            *)
FileWrittenUnlabelled(m, es, systems, backend) ==
  [meta |-> HeaderWritten(m, backend), first |-> "", last |-> "", systems |-> systems,
   epochs |-> es, crinex |-> FALSE]

(* write_observation_file: epochs are written, and said to be, in GPS time.*)
FileWritten(m, es, systems, backend) ==
  [meta |-> HeaderWritten(m, backend), first |-> "GPS", last |-> "GPS",
   systems |-> systems, epochs |-> es, crinex |-> FALSE]

-----------------------------------------------------------------------------
NoFile == [meta |-> Empty, first |-> "", last |-> "", systems |-> {}, epochs |-> {},
           crinex |-> FALSE]

Init ==
  /\ run = 0
  /\ kind = "packets"
  /\ cfg = Empty
  /\ option = "auto"
  /\ inputs = <<>>
  /\ meta = Empty
  /\ epochs = {}
  /\ stage = "done"
  /\ file = NoFile

(* parse_args and the start of the conversion, which needs an output.      *)
Begin(k, h, o, situation, b) ==
  /\ stage = "done" /\ run < MaxRuns
  /\ k = "packets" => run = 0
  /\ kind' = k
  /\ cfg' = WithOptions(WithDefaults(SetBy(h, 0, "file"), situation), o)
  /\ option' = b
  /\ inputs' = <<>>
  /\ meta' = IF CommandFirst(k) THEN Merge(Empty, cfg') ELSE Empty
  /\ epochs' = {}
  /\ stage' = IF Output' = "error" THEN "failed" ELSE "convert"
  /\ run' = run + 1
  /\ UNCHANGED file

Input(m) ==
  /\ stage = "convert" /\ Len(inputs) < MaxInputs
  /\ inputs' = Append(inputs, m)
  /\ meta' = Merge(meta, m)
  /\ UNCHANGED <<run, kind, cfg, option, stage, file>>

(* convert_frame: a station message, some of whose fields may be empty, and*)
(* an epoch resolved to its time.                                          *)
Station(msg, blank, truth) ==
  /\ kind = "packets"
  /\ Input(SetBy(StationFields(msg) \ blank, Len(inputs) + 1, "other"))
  /\ epochs' = epochs \cup {[truth |-> truth, t |-> truth]}

(* convert_observation_inputs: the next input is f.                        *)
Forward(f) ==
  /\ kind = "observations" /\ f.epochs # {}
  /\ \/ /\ Resolve(f.crinex) # "error"
        /\ Input(HeaderRead(f.meta, Resolve(f.crinex)))
        /\ epochs' = epochs \cup EpochsRead(f, Resolve(f.crinex))
     \/ /\ Resolve(f.crinex) = "error" /\ stage = "convert"
        /\ stage' = "failed"
        /\ UNCHANGED <<run, kind, cfg, option, inputs, meta, epochs, file>>

(* The sink is flushed and the file written; an error without epochs.      *)
Flush(systems) ==
  /\ stage = "convert"
  /\ meta' = IF CommandFirst(kind) THEN meta ELSE Merge(meta, cfg)
  /\ \/ /\ epochs # {}
        /\ file' = FileWritten(meta', epochs, systems, Output)
        /\ stage' = "done"
     \/ epochs = {} /\ stage' = "failed" /\ UNCHANGED file
  /\ UNCHANGED <<run, kind, cfg, option, inputs, epochs>>

Next ==
  \/ \E k \in {"packets", "observations"}, h \in HeaderFiles, o \in Options,
          situation \in Situations, b \in BackendOptions : Begin(k, h, o, situation, b)
  \/ \E msg \in Messages, blank \in Blanks, truth \in Times : Station(msg, blank, truth)
  \/ \E S \in ForeignHeaders, first, last \in Labels, truth \in Times,
          systems \in SystemSets, crinex \in BOOLEAN :
       LET f == Foreign(S, first, last, systems, truth, crinex)
       IN  Honest(f) /\ Forward(f)
  \/ Forward(file)
  \/ \E systems \in SystemSets : Flush(systems)

Spec == Init /\ [][Next]_vars

-----------------------------------------------------------------------------
Written == stage = "done" /\ run > 0

(* The program, run-by and date fields speak of one run of one program,    *)
(* and it is this one: none of them comes from an input, and one that was  *)
(* suppressed stays blank (docs/convobs.1.md:119: "Use an empty value to   *)
(* suppress the default.").                                                *)
OneRun == Written => \A f \in RunFields : file.meta[f] = cfg[f]

(* The type of one antenna never appears with the serial number of another:*)
(* they come from one record, through any number of files.                 *)
OneAntenna ==
  LET type == file.meta["antenna_type"]
      number == file.meta["antenna_number"]
  IN  Written /\ type # Unset /\ number # Unset => type.rec = number.rec

(* Every other field has the value of the last record that sets it, where  *)
(* the command line comes last for observation inputs ("it takes           *)
(* precedence", cli/src/lib.rs:766-767) and first for packets, whose       *)
(* station knows better; only the marker's type is never in a file of the  *)
(* external backend.  Where no record sets a field it stays blank, but the *)
(* version is the default and a position may be zero.                      *)
Precedence ==
  LET records == IF kind = "packets" THEN <<cfg>> \o inputs ELSE Append(inputs, cfg)
      Setting(f) == {i \in DOMAIN records : records[i][f] # Unset}
  IN  Written => \A f \in Fields \ (RunFields \cup AntennaFields) :
        IF Output = "external" /\ f = "marker_type" THEN file.meta[f] = Unset
        ELSE IF Setting(f) # {} THEN file.meta[f] = records[Max(Setting(f))][f]
        ELSE file.meta[f] \in CASE f = "version" -> {DefaultVersion}
                                [] f \in Positions -> {Unset, Zero}
                                [] OTHER -> {Unset}

(* The header fields that converting a file may change: the command        *)
(* line's, those that are taken over with them, positions that are not     *)
(* known, and with the external backend the antenna's offset and the       *)
(* marker's type.                                                          *)
Commanded ==
  (UNION {Together(f) : f \in {g \in Fields : cfg[g] # Unset}})
  \cup {f \in Positions : file.meta[f] = Unset}
  \cup IF Output = "external" THEN {"delta", "marker_type"} ELSE {}

(* Converting a file changes only what the command line sets: whichever    *)
(* backends read and write, diffobs (diff_metadata) finds between a file   *)
(* and what was made of it alone no difference in any other header field.  *)
OnlyTheCommandLine ==
  [][/\ kind = "observations" /\ file' # file /\ file # NoFile
     /\ inputs = <<HeaderRead(file.meta, Output)>>
     => DiffMetadata(file.meta, file'.meta, FALSE) \subseteq Commanded]_vars

(* Every epoch has its true time, in the sink and when the file is read    *)
(* again, in whatever time systems the inputs were and whatever systems    *)
(* the file is of (rinexobs.rs:925-938).                                   *)
EpochsSurvive ==
  /\ \A e \in epochs : e.t = e.truth
  /\ \A e \in EpochsRead(file, "internal") : e.t = e.truth

(* The variables have their types; a position is 0, 0, 0 only in a file    *)
(* and in what is made of files.                                           *)
TypeOK ==
  /\ run \in 0..MaxRuns
  /\ kind \in {"packets", "observations"}
  /\ {cfg, meta, file.meta} \cup {inputs[i] : i \in DOMAIN inputs} \subseteq Records
  /\ Zero \notin {cfg[f] : f \in Fields}
  /\ kind = "packets" => Zero \notin {meta[f] : f \in Fields}
  /\ stage \in {"convert", "done", "failed"}
  /\ stage = "convert" => Output \in {"internal", "external"}
=============================================================================
