-------------------------- MODULE RinexHeaderProofs -------------------------
(***************************************************************************)
(* What holds of the headers of all files that any number of conversions   *)
(* of any number of inputs write.                                          *)
(***************************************************************************)
EXTENDS RinexHeader, TLAPS

(* The antenna's type and serial number come from one record.              *)
Coherent(m) ==
  m["antenna_type"] # Unset /\ m["antenna_number"] # Unset
    => m["antenna_type"].rec = m["antenna_number"].rec

(* No position is known to be zero.                                        *)
Known(m) == \A f \in Fields : m[f] # Zero

(* What is set of the antenna was set by one record.                       *)
Single(m, r) == \A f \in AntennaFields : m[f] = Unset \/ m[f].rec = r

SameRun(m, c) == \A f \in RunFields : m[f] = c[f]

(* The inductive invariant: the command line always sets the date, which   *)
(* is why the program, run-by and date fields are its own.                 *)
HeaderInv ==
  /\ run \in 0..MaxRuns
  /\ kind \in {"packets", "observations"}
  /\ option \in {"auto", "internal", "external"}
  /\ stage \in {"convert", "done", "failed"}
  /\ stage = "convert" => Output \in {"internal", "external"}
  /\ cfg \in Records /\ Known(cfg) /\ Coherent(cfg)
  /\ run > 0 => cfg["date"] # Unset
  /\ stage = "convert" => run > 0
  /\ inputs \in Seq(Records)
  /\ meta \in Records /\ Coherent(meta)
  /\ kind = "packets" => Known(meta)
  /\ kind = "packets" /\ stage = "convert" => SameRun(meta, cfg)
  /\ file.meta \in Records /\ Coherent(file.meta)
  /\ stage = "done" /\ run > 0 => SameRun(file.meta, cfg)
  /\ file = NoFile \/ file.meta["version"] # Unset

-----------------------------------------------------------------------------
(* Records.                                                                *)

LEMMA FieldNames ==
  /\ {"program", "by", "date"} \subseteq Fields
  /\ {"antenna_type", "antenna_number"} \subseteq Fields
  /\ {"position", "delta"} \subseteq Fields
  /\ {"version", "marker_type"} \subseteq Fields
  /\ RunFields \subseteq Fields
BY DEF Fields, RunFields, AntennaFields, Positions

LEMMA EmptyRecord == Empty \in Records /\ Known(Empty) /\ Coherent(Empty)
<1>1. Empty \in Records /\ Known(Empty)
  BY MetadataAssumption DEF Empty, Records, Values, Known
<1>2. Empty["antenna_type"] = Unset
  BY FieldNames DEF Empty
<1>3. QED
  BY <1>1, <1>2 DEF Coherent

LEMMA SingleCoherent ==
  ASSUME NEW m \in Records, NEW r, Single(m, r)
  PROVE  Coherent(m)
BY DEF Coherent, Single, AntennaFields

LEMMA SetByRecord ==
  ASSUME NEW S, NEW n \in Nat, NEW by \in {"option", "file", "default", "other"},
         run \in Nat
  PROVE  /\ Value(n, by) \in Sources /\ Value(n, by).rec = Rec(n)
         /\ SetBy(S, n, by) \in Records /\ Known(SetBy(S, n, by))
         /\ Single(SetBy(S, n, by), Rec(n))
         /\ \A f \in Fields \ S : SetBy(S, n, by)[f] = Unset
<1>1. Rec(n) \in Nat
  BY BoundsAssumption DEF Rec
<1>2. Value(n, by) \in Sources /\ Value(n, by).rec = Rec(n)
  <2>1. Value(n, by) \in [rec : Nat, by : {"option", "file", "default", "other"}]
    BY <1>1 DEF Value
  <2>2. Value(n, by).rec = Rec(n)
    BY DEF Value
  <2>3. QED
    BY <2>1, <2>2 DEF Sources
<1>3. Value(n, by) \in Values /\ Value(n, by) # Zero /\ Unset \in Values /\ Unset # Zero
  BY <1>2, MetadataAssumption DEF Values
<1>4. \A f \in Fields : SetBy(S, n, by)[f] = IF f \in S THEN Value(n, by) ELSE Unset
  BY DEF SetBy
<1>5. SetBy(S, n, by) \in Records
  BY <1>3 DEF SetBy, Records
<1>6. QED
  BY <1>2, <1>3, <1>4, <1>5, FieldNames DEF Known, Single, AntennaFields

(* The record of the command line has a date.                              *)
LEMMA CommandLine ==
  ASSUME run \in Nat, NEW h, NEW o, NEW situation, NEW c,
         o \in [set : SUBSET OptionNames, empty : SUBSET OptionNames],
         c = WithOptions(WithDefaults(SetBy(h, 0, "file"), situation), o)
  PROVE  c \in Records /\ Known(c) /\ Coherent(c) /\ c["date"] # Unset
<1> DEFINE file0 == SetBy(h, 0, "file")
           d == WithDefaults(file0, situation)
           ok(f, v) == /\ v \in Values /\ v # Zero
                       /\ f \in AntennaFields => v = Unset \/ v.rec = Rec(0)
<1>1. /\ Value(0, "default") \in Sources /\ Value(0, "default").rec = Rec(0)
      /\ Value(0, "option") \in Sources /\ Value(0, "option").rec = Rec(0)
      /\ file0 \in Records /\ Known(file0) /\ Single(file0, Rec(0))
  BY SetByRecord
<1>2. \A f \in Fields : ok(f, Value(0, "default")) /\ ok(f, Value(0, "option")) /\ ok(f, Unset)
  BY <1>1, MetadataAssumption DEF Values
<1>3. \A f \in Fields : ok(f, file0[f])
  BY <1>1 DEF Records, Known, Single
<1>4. ok("version", DefaultVersion)
  BY MetadataAssumption DEF Values, AntennaFields
<1> HIDE DEF ok, file0
<1>5. \A f \in Fields : ok(f, d[f])
  BY <1>2, <1>3, <1>4 DEF WithDefaults
<1>6. d["date"] # Unset
  <2>1. d["date"] = IF file0["date"] = Unset THEN Value(0, "default") ELSE file0["date"]
    BY FieldNames DEF WithDefaults
  <2>2. Value(0, "default") # Unset
    BY <1>1, MetadataAssumption
  <2>3. QED
    BY <2>1, <2>2
<1> HIDE DEF d
<1>7. c = [f \in Fields |-> IF f \in o.empty THEN Unset
                            ELSE IF f \in o.set THEN Value(0, "option") ELSE d[f]]
  BY DEF WithOptions, d, file0
<1>8. \A f \in Fields : ok(f, c[f])
  BY <1>2, <1>5, <1>7
<1>9. c["date"] # Unset
  BY <1>6, <1>7, FieldNames DEF OptionNames
<1>10. c \in Records /\ Known(c) /\ Single(c, Rec(0))
  <2>1. AntennaFields \subseteq Fields
    BY DEF Fields
  <2>2. QED
    BY <1>7, <1>8, <2>1 DEF ok, Records, Known, Single
<1>11. QED
  BY <1>9, <1>10, SingleCoherent

(* Merging keeps the antenna together.                                     *)
LEMMA MergeRecords ==
  ASSUME NEW a \in Records, NEW b \in Records, Coherent(a), Coherent(b)
  PROVE  /\ Merge(a, b) \in Records /\ Coherent(Merge(a, b))
         /\ Known(a) /\ Known(b) => Known(Merge(a, b))
<1>1. \A f \in Fields : Merge(a, b)[f] = IF \E g \in Together(f) : b[g] # Unset THEN b[f] ELSE a[f]
  BY DEF Merge
<1>2. Merge(a, b) \in Records
  BY DEF Merge, Records
<1>3. Together("antenna_type") = AntennaFields /\ Together("antenna_number") = AntennaFields
  <2>1. ASSUME NEW f \in AntennaFields PROVE Together(f) = AntennaFields
    <3>1. f \notin RunFields
      BY DEF AntennaFields, RunFields
    <3>2. QED
      BY <2>1, <3>1 DEF Together
  <2>2. "antenna_type" \in AntennaFields /\ "antenna_number" \in AntennaFields
    BY DEF AntennaFields
  <2>3. QED
    BY <2>1, <2>2
<1>4. Coherent(Merge(a, b))
  <2>1. CASE \E g \in AntennaFields : b[g] # Unset
    <3>1. /\ Merge(a, b)["antenna_type"] = b["antenna_type"]
          /\ Merge(a, b)["antenna_number"] = b["antenna_number"]
      BY <1>1, <1>3, <2>1, FieldNames
    <3>2. QED
      BY <3>1 DEF Coherent
  <2>2. CASE ~ \E g \in AntennaFields : b[g] # Unset
    <3>1. /\ Merge(a, b)["antenna_type"] = a["antenna_type"]
          /\ Merge(a, b)["antenna_number"] = a["antenna_number"]
      BY <1>1, <1>3, <2>2, FieldNames
    <3>2. QED
      BY <3>1 DEF Coherent
  <2>3. QED
    BY <2>1, <2>2
<1>5. QED
  BY <1>1, <1>2, <1>4 DEF Known

(* A record without a run leaves the run alone, one with a date replaces it.*)
LEMMA MergeRun ==
  ASSUME NEW a, NEW b
  PROVE  /\ (\A f \in RunFields : b[f] = Unset) => SameRun(Merge(a, b), a)
         /\ b["date"] # Unset => SameRun(Merge(a, b), b)
<1>1. \A f \in RunFields : Together(f) = RunFields
  <2>1. ASSUME NEW f \in RunFields PROVE Together(f) = RunFields
    <3>1. f \notin AntennaFields
      BY DEF AntennaFields, RunFields
    <3>2. QED
      BY <2>1, <3>1 DEF Together
  <2>2. QED
    BY <2>1
<1>2. \A f \in RunFields : Merge(a, b)[f] = IF \E g \in RunFields : b[g] # Unset THEN b[f] ELSE a[f]
  BY <1>1, FieldNames DEF Merge
<1>3. "date" \in RunFields
  BY DEF RunFields
<1>4. QED
  BY <1>2, <1>3 DEF SameRun

(* What is read and what is written.                                       *)
LEMMA ReadRecord ==
  ASSUME NEW m \in Records, NEW backend, Coherent(m)
  PROVE  HeaderRead(m, backend) \in Records /\ Coherent(HeaderRead(m, backend))
<1>1. Unset \in Values
  BY DEF Values
<1>2. CASE backend = "external"
  <2> DEFINE r == [[[m EXCEPT !["date"] = Unset] EXCEPT !["marker_type"] = Unset]
                     EXCEPT !["delta"] = Unset]
  <2>1. r \in Records /\ r["antenna_type"] = m["antenna_type"]
        /\ r["antenna_number"] = m["antenna_number"]
    BY <1>1, FieldNames DEF Records
  <2>2. HeaderRead(m, backend) = r
    BY <1>2 DEF HeaderRead
  <2>3. QED
    BY <2>1, <2>2 DEF Coherent
<1>3. CASE backend # "external"
  BY <1>3 DEF HeaderRead
<1>4. QED
  BY <1>2, <1>3

LEMMA WrittenRecord ==
  ASSUME NEW m \in Records, NEW backend, Coherent(m)
  PROVE  /\ HeaderWritten(m, backend) \in Records /\ Coherent(HeaderWritten(m, backend))
         /\ SameRun(HeaderWritten(m, backend), m)
         /\ HeaderWritten(m, backend)["version"] # Unset
<1> DEFINE z == HeaderWritten(m, backend)
<1>1. z \in Records
  BY DEF HeaderWritten, Records, Values
<1>2. \A f \in Fields : f \notin {"position", "delta", "version", "marker_type"} => z[f] = m[f]
  BY DEF HeaderWritten, Positions
<1>3. z["version"] = IF m["version"] = Unset THEN DefaultVersion ELSE m["version"]
  BY FieldNames DEF HeaderWritten, Positions
<1> HIDE DEF z
<1>4. z["antenna_type"] = m["antenna_type"] /\ z["antenna_number"] = m["antenna_number"]
  BY <1>2, FieldNames
<1>5. SameRun(z, m)
  BY <1>2, FieldNames DEF SameRun, RunFields
<1>6. QED
  BY <1>1, <1>3, <1>4, <1>5, MetadataAssumption DEF Coherent, z

LEMMA OutputNames ==
  option \in {"auto", "internal", "external"} => Output \in {"internal", "external", "error"}
BY DEF Output, Resolve

-----------------------------------------------------------------------------
(* The steps.                                                              *)

LEMMA BeginStep ==
  ASSUME HeaderInv, NEW k \in {"packets", "observations"}, NEW h \in HeaderFiles,
         NEW o \in Options, NEW situation \in Situations, NEW b \in BackendOptions,
         Begin(k, h, o, situation, b)
  PROVE  HeaderInv'
<1>1. /\ run \in Nat /\ MaxRuns \in Nat /\ run < MaxRuns /\ run' = run + 1
      /\ kind' = k /\ inputs' = <<>> /\ option' = b /\ file' = file
  BY BoundsAssumption DEF HeaderInv, Begin
<1>2. cfg' \in Records /\ Known(cfg') /\ Coherent(cfg') /\ cfg'["date"] # Unset
  BY <1>1, CommandLine, CommandLineAssumption DEF Begin
<1>3. /\ meta' \in Records /\ Coherent(meta')
      /\ k = "packets" => Known(meta') /\ SameRun(meta', cfg')
  <2>1. CASE CommandFirst(k)
    <3>1. meta' = Merge(Empty, cfg')
      BY <2>1 DEF Begin
    <3>2. Merge(Empty, cfg') \in Records /\ Coherent(Merge(Empty, cfg'))
          /\ Known(Merge(Empty, cfg'))
      BY <1>2, EmptyRecord, MergeRecords
    <3>3. SameRun(Merge(Empty, cfg'), cfg')
      BY <1>2, MergeRun
    <3>4. QED
      BY <3>1, <3>2, <3>3
  <2>2. CASE ~CommandFirst(k)
    BY <2>2, EmptyRecord DEF Begin, CommandFirst
  <2>3. QED
    BY <2>1, <2>2
<1>4. option' \in {"auto", "internal", "external"}
  BY <1>1, CommandLineAssumption
<1>5. Output' \in {"internal", "external", "error"}
  BY <1>4 DEF Output, Resolve
<1>6. stage' = IF Output' = "error" THEN "failed" ELSE "convert"
  BY DEF Begin
<1>7. run' \in 0..MaxRuns /\ run' > 0
  BY <1>1
<1>8. inputs' \in Seq(Records)
  BY <1>1
<1> QED
  BY <1>1, <1>2, <1>3, <1>4, <1>5, <1>6, <1>7, <1>8 DEF HeaderInv

LEMMA InputStep ==
  ASSUME HeaderInv, NEW m \in Records, Coherent(m), Input(m),
         kind = "packets" => Known(m) /\ \A f \in RunFields : m[f] = Unset
  PROVE  HeaderInv'
<1>1. /\ stage = "convert" /\ inputs' = Append(inputs, m) /\ meta' = Merge(meta, m)
      /\ UNCHANGED <<run, kind, cfg, option, stage, file>>
  BY DEF Input
<1>2. meta' \in Records /\ Coherent(meta') /\ (kind = "packets" => Known(meta'))
  BY <1>1, MergeRecords DEF HeaderInv
<1>3. kind = "packets" => SameRun(meta', cfg)
  <2>1. ASSUME kind = "packets" PROVE SameRun(meta', meta)
    BY <1>1, <2>1, MergeRun
  <2>2. kind = "packets" => SameRun(meta, cfg)
    BY <1>1 DEF HeaderInv
  <2>3. QED
    BY <2>1, <2>2 DEF SameRun
<1>4. inputs' \in Seq(Records)
  BY <1>1 DEF HeaderInv
<1>5. Output' = Output
  BY <1>1 DEF Output, Resolve
<1>6. QED
  BY <1>1, <1>2, <1>3, <1>4, <1>5 DEF HeaderInv

LEMMA StationStep ==
  ASSUME HeaderInv, NEW msg \in Messages, NEW blank \in Blanks, NEW truth \in Times,
         Station(msg, blank, truth)
  PROVE  HeaderInv'
<1> DEFINE S == StationFields(msg) \ blank
           n == Len(inputs) + 1
<1>1. run \in Nat /\ n \in Nat
  BY BoundsAssumption DEF HeaderInv
<1>2. \A f \in RunFields : f \notin S
  <2>1. StationFields(msg) \subseteq
          {"number", "position", "delta", "antenna_type", "antenna_number", "leap", "receiver"}
    <3>1. msg \in {1005, 1006, 1007, 1008, 1013, 1033, 1230}
      BY MessagesAssumption
    <3>2. QED
      BY <3>1 DEF StationFields
  <2>2. QED
    BY <2>1 DEF RunFields
<1> HIDE DEF S, n
<1>3. /\ SetBy(S, n, "other") \in Records /\ Known(SetBy(S, n, "other"))
      /\ Coherent(SetBy(S, n, "other"))
      /\ \A f \in RunFields : SetBy(S, n, "other")[f] = Unset
  BY <1>1, <1>2, SetByRecord, SingleCoherent, FieldNames
<1>4. Input(SetBy(S, n, "other"))
  BY DEF Station, S, n
<1>5. QED
  BY <1>3, <1>4, InputStep

LEMMA ForwardStep ==
  ASSUME HeaderInv, NEW f, f.meta \in Records, Coherent(f.meta), Forward(f)
  PROVE  HeaderInv'
<1>1. kind = "observations"
  BY DEF Forward
<1>2. CASE Input(HeaderRead(f.meta, Resolve(f.crinex)))
  BY <1>1, <1>2, ReadRecord, InputStep
<1>3. CASE /\ stage' = "failed"
           /\ UNCHANGED <<run, kind, cfg, option, inputs, meta, epochs, file>>
  BY <1>1, <1>3 DEF HeaderInv
<1>4. QED
  BY <1>2, <1>3 DEF Forward

LEMMA FlushStep ==
  ASSUME HeaderInv, NEW systems, Flush(systems)
  PROVE  HeaderInv'
<1>1. /\ stage = "convert" /\ UNCHANGED <<run, kind, cfg, option, inputs, epochs>>
      /\ meta' = IF CommandFirst(kind) THEN meta ELSE Merge(meta, cfg)
  BY DEF Flush
<1>2. /\ meta' \in Records /\ Coherent(meta') /\ SameRun(meta', cfg)
      /\ kind = "packets" => Known(meta')
  <2>1. CASE kind = "packets"
    BY <1>1, <2>1 DEF HeaderInv, CommandFirst
  <2>2. CASE kind # "packets"
    <3>1. meta' = Merge(meta, cfg)
      BY <1>1, <2>2 DEF CommandFirst
    <3>2. Merge(meta, cfg) \in Records /\ Coherent(Merge(meta, cfg))
      BY MergeRecords DEF HeaderInv
    <3>3. SameRun(Merge(meta, cfg), cfg)
      BY <1>1, MergeRun DEF HeaderInv
    <3>4. QED
      BY <2>2, <3>1, <3>2, <3>3
  <2>3. QED
    BY <2>1, <2>2
<1>3. CASE file' = FileWritten(meta', epochs, systems, Output) /\ stage' = "done"
  <2>1. file'.meta = HeaderWritten(meta', Output)
    BY <1>3 DEF FileWritten
  <2>2. /\ file'.meta \in Records /\ Coherent(file'.meta) /\ SameRun(file'.meta, meta')
        /\ file'.meta["version"] # Unset
    BY <1>2, <2>1, WrittenRecord
  <2>3. SameRun(file'.meta, cfg)
    BY <1>2, <2>2 DEF SameRun
  <2>4. QED
    BY <1>1, <1>2, <1>3, <2>2, <2>3 DEF HeaderInv
<1>4. CASE stage' = "failed" /\ UNCHANGED file
  BY <1>1, <1>2, <1>4 DEF HeaderInv
<1>5. QED
  BY <1>3, <1>4 DEF Flush

(* The invariant from which the theorems on headers follow: every record   *)
(* that is merged has its run and its antenna from one source              *)
(* (cli/src/lib.rs, set_metadata_defaults).                                *)
THEOREM HeaderInvariant == Spec => []HeaderInv
<1>1. Init => HeaderInv
  <2> SUFFICES ASSUME Init PROVE HeaderInv
    OBVIOUS
  <2>1. NoFile.meta = Empty
    BY DEF NoFile
  <2>2. 0 \in 0..MaxRuns
    BY BoundsAssumption
  <2>3. QED
    BY <2>1, <2>2, EmptyRecord DEF Init, HeaderInv
<1>2. HeaderInv /\ [Next]_vars => HeaderInv'
  <2> SUFFICES ASSUME HeaderInv, [Next]_vars PROVE HeaderInv'
    OBVIOUS
  <2>1. ASSUME NEW k \in {"packets", "observations"}, NEW h \in HeaderFiles,
               NEW o \in Options, NEW situation \in Situations,
               NEW b \in BackendOptions, Begin(k, h, o, situation, b)
        PROVE  HeaderInv'
    BY <2>1, BeginStep
  <2>2. ASSUME NEW msg \in Messages, NEW blank \in Blanks, NEW truth \in Times,
               Station(msg, blank, truth)
        PROVE  HeaderInv'
    BY <2>2, StationStep
  <2>3. ASSUME NEW S, NEW first, NEW last, NEW truth, NEW systems, NEW crinex,
               Forward(Foreign(S, first, last, systems, truth, crinex))
        PROVE  HeaderInv'
    <3> DEFINE f == Foreign(S, first, last, systems, truth, crinex)
               n == Len(inputs) + 1
    <3>1. run \in Nat /\ n \in Nat
      BY BoundsAssumption DEF HeaderInv
    <3>2. f.meta = SetBy(S, n, "other")
      BY DEF Foreign
    <3> HIDE DEF n, f
    <3>3. f.meta \in Records /\ Coherent(f.meta)
      BY <3>1, <3>2, SetByRecord, SingleCoherent
    <3>4. QED
      BY <2>3, <3>3, ForwardStep DEF f
  <2>4. CASE Forward(file)
    BY <2>4, ForwardStep DEF HeaderInv
  <2>5. ASSUME NEW systems, Flush(systems) PROVE HeaderInv'
    BY <2>5, FlushStep
  <2>6. CASE UNCHANGED vars
    BY <2>6 DEF vars, HeaderInv, Output, Resolve
  <2>7. QED
    BY <2>1, <2>2, <2>3, <2>4, <2>5, <2>6 DEF Next
<1>3. QED
  BY <1>1, <1>2, PTL DEF Spec

(* The variables have their types.                                         *)
THEOREM HeaderTypeCorrect == Spec => []TypeOK
<1>1. HeaderInv => TypeOK
  <2> SUFFICES ASSUME HeaderInv PROVE TypeOK
    OBVIOUS
  <2>1. \A i \in DOMAIN inputs : inputs[i] \in Records
    BY DEF HeaderInv
  <2>2. QED
    BY <2>1 DEF HeaderInv, TypeOK, Known
<1>2. QED
  BY <1>1, HeaderInvariant, PTL

(* The program, run-by and date fields of a file are those of the command  *)
(* line of the conversion that wrote it (cli/src/lib.rs,                   *)
(* set_metadata_defaults; obs.rs, Metadata::merge).                        *)
THEOREM HeaderOneRun == Spec => []OneRun
<1>1. HeaderInv => OneRun
  BY DEF HeaderInv, OneRun, Written, SameRun
<1>2. QED
  BY <1>1, HeaderInvariant, PTL

(* The type of one antenna never appears with the serial number of another *)
(* (obs.rs, Metadata::merge; rtcm.rs, station messages).                   *)
THEOREM HeaderOneAntenna == Spec => []OneAntenna
<1>1. HeaderInv => OneAntenna
  BY DEF HeaderInv, OneAntenna, Coherent
<1>2. QED
  BY <1>1, HeaderInvariant, PTL

-----------------------------------------------------------------------------
(* Precedence.                                                             *)

Plain == Fields \ (RunFields \cup AntennaFields)

(* v is what the last of the records s that sets the field f sets.         *)
Told(s, f, v) ==
  \/ v = Unset /\ \A i \in DOMAIN s : s[i][f] = Unset
  \/ /\ v # Unset
     /\ \E i \in DOMAIN s : s[i][f] = v /\ \A j \in DOMAIN s : j > i => s[j][f] = Unset

(* w is what is written of the value v of a field f.                       *)
AsWritten(f, v, w) ==
  IF Output = "external" /\ f = "marker_type" THEN w = Unset
  ELSE IF v # Unset THEN w = v
  ELSE w \in CASE f = "version" -> {DefaultVersion}
               [] f \in Positions -> {Unset, Zero}
               [] OTHER -> {Unset}

(* The records merged so far, and in the end.                              *)
Merged == IF kind = "packets" THEN <<cfg>> \o inputs ELSE inputs
Finally == IF kind = "packets" THEN <<cfg>> \o inputs ELSE Append(inputs, cfg)

PrecedenceInv ==
  /\ stage = "convert" => \A f \in Plain : Told(Merged, f, meta[f])
  /\ stage = "done" /\ run > 0 =>
       \A f \in Plain : \E v : Told(Finally, f, v) /\ AsWritten(f, v, file.meta[f])

LEMMA ToldNothing ==
  ASSUME NEW f PROVE Told(<<>>, f, Unset)
BY DEF Told

LEMMA ToldMore ==
  ASSUME NEW s \in Seq(Records), NEW m \in Records, NEW f, NEW v, Told(s, f, v)
  PROVE  Told(Append(s, m), f, IF m[f] # Unset THEN m[f] ELSE v)
<1> DEFINE u == Append(s, m)
           n == Len(s) + 1
<1>1. /\ n \in Nat \ {0} /\ DOMAIN u = 1..n /\ DOMAIN s = 1..(n - 1) /\ u[n] = m
      /\ \A i \in 1..(n - 1) : u[i] = s[i]
  OBVIOUS
<1> HIDE DEF u, n
<1>2. CASE m[f] # Unset
  <2>1. n \in DOMAIN u /\ u[n][f] = m[f] /\ \A j \in DOMAIN u : ~(j > n)
    BY <1>1
  <2>2. Told(u, f, m[f])
    BY <1>2, <2>1 DEF Told
  <2>3. QED
    BY <1>2, <2>2 DEF u
<1>3. CASE m[f] = Unset
  <2>1. CASE v = Unset /\ \A i \in DOMAIN s : s[i][f] = Unset
    <3>1. \A i \in DOMAIN u : u[i][f] = Unset
      BY <1>1, <1>3, <2>1
    <3>2. Told(u, f, v)
      BY <2>1, <3>1 DEF Told
    <3>3. QED
      BY <1>3, <3>2 DEF u
  <2>2. CASE v # Unset
    <3>1. PICK i \in DOMAIN s : s[i][f] = v /\ \A j \in DOMAIN s : j > i => s[j][f] = Unset
      BY <2>2 DEF Told
    <3>2. i \in DOMAIN u /\ u[i][f] = v
      BY <1>1, <3>1
    <3>3. \A j \in DOMAIN u : j > i => u[j][f] = Unset
      BY <1>1, <1>3, <3>1
    <3>4. Told(u, f, v)
      BY <2>2, <3>2, <3>3 DEF Told
    <3>5. QED
      BY <1>3, <3>4 DEF u
  <2>3. QED
    BY <2>1, <2>2 DEF Told
<1>4. QED
  BY <1>2, <1>3

(* Plain fields are merged each by itself.                                 *)
LEMMA MergePlain ==
  ASSUME NEW a, NEW b, NEW f \in Plain
  PROVE  Merge(a, b)[f] = IF b[f] # Unset THEN b[f] ELSE a[f]
<1>1. f \in Fields /\ f \notin RunFields /\ f \notin AntennaFields
  BY DEF Plain
<1>2. Together(f) = {f}
  BY <1>1 DEF Together
<1>3. Merge(a, b)[f] = IF \E g \in Together(f) : b[g] # Unset THEN b[f] ELSE a[f]
  BY <1>1 DEF Merge
<1>4. QED
  BY <1>2, <1>3

LEMMA ToldMerge ==
  ASSUME NEW s \in Seq(Records), NEW a, NEW m \in Records,
         \A f \in Plain : Told(s, f, a[f])
  PROVE  \A f \in Plain : Told(Append(s, m), f, Merge(a, m)[f])
<1> SUFFICES ASSUME NEW f \in Plain PROVE Told(Append(s, m), f, Merge(a, m)[f])
  OBVIOUS
<1>1. Told(Append(s, m), f, IF m[f] # Unset THEN m[f] ELSE a[f])
  BY ToldMore
<1>2. Merge(a, m)[f] = IF m[f] # Unset THEN m[f] ELSE a[f]
  BY MergePlain
<1>3. QED
  BY <1>1, <1>2, Zenon

LEMMA FirstThenRest ==
  ASSUME NEW c \in Records, NEW s \in Seq(Records), NEW m \in Records
  PROVE  /\ <<c>> \o s \in Seq(Records)
         /\ <<c>> \o Append(s, m) = Append(<<c>> \o s, m)
         /\ <<c>> \o <<>> = Append(<<>>, c)
OBVIOUS

LEMMA PrecedenceBegin ==
  ASSUME HeaderInv, HeaderInv', NEW k \in {"packets", "observations"},
         NEW h, NEW o, NEW situation, NEW b, Begin(k, h, o, situation, b)
  PROVE  PrecedenceInv'
<1>1. /\ kind' = k /\ inputs' = <<>> /\ stage' \in {"convert", "failed"}
      /\ meta' = IF CommandFirst(k) THEN Merge(Empty, cfg') ELSE Empty
      /\ cfg' \in Records
  BY DEF Begin, HeaderInv
<1>2. \A f \in Plain : Told(<<>>, f, Empty[f])
  BY ToldNothing DEF Plain, Empty
<1>3. CASE k = "packets"
  <2>1. <<>> \in Seq(Records)
    OBVIOUS
  <2>2. \A f \in Plain : Told(Append(<<>>, cfg'), f, Merge(Empty, cfg')[f])
    BY <1>1, <1>2, <2>1, ToldMerge
  <2>3. Merged' = Append(<<>>, cfg')
    BY <1>1, <1>3, <2>1, FirstThenRest DEF Merged
  <2>4. meta' = Merge(Empty, cfg')
    BY <1>1, <1>3 DEF CommandFirst
  <2>5. QED
    BY <1>1, <2>2, <2>3, <2>4 DEF PrecedenceInv
<1>4. CASE k = "observations"
  <2>1. Merged' = <<>> /\ meta' = Empty
    BY <1>1, <1>4 DEF Merged, CommandFirst
  <2>2. QED
    BY <1>1, <1>2, <2>1 DEF PrecedenceInv
<1>5. QED
  BY <1>3, <1>4

LEMMA PrecedenceInput ==
  ASSUME HeaderInv, PrecedenceInv, NEW m \in Records, Input(m)
  PROVE  PrecedenceInv'
<1>1. /\ stage = "convert" /\ stage' = stage /\ kind' = kind /\ cfg' = cfg
      /\ inputs' = Append(inputs, m) /\ meta' = Merge(meta, m)
  BY DEF Input
<1>2. Merged \in Seq(Records) /\ Merged' = Append(Merged, m)
  BY <1>1, FirstThenRest DEF Merged, HeaderInv
<1>3. \A f \in Plain : Told(Append(Merged, m), f, Merge(meta, m)[f])
  BY <1>1, <1>2, ToldMerge DEF PrecedenceInv
<1>4. QED
  BY <1>1, <1>2, <1>3 DEF PrecedenceInv

LEMMA PrecedenceFlush ==
  ASSUME HeaderInv, PrecedenceInv, NEW systems, Flush(systems)
  PROVE  PrecedenceInv'
<1>1. /\ stage = "convert" /\ kind' = kind /\ cfg' = cfg /\ inputs' = inputs
      /\ meta' = IF CommandFirst(kind) THEN meta ELSE Merge(meta, cfg)
      /\ Finally' = Finally /\ stage' \in {"done", "failed"}
  BY DEF Flush, Finally
<1>2. \A f \in Plain : Told(Finally, f, meta'[f])
  <2>1. CASE kind = "packets"
    BY <1>1, <2>1 DEF PrecedenceInv, Merged, Finally, CommandFirst
  <2>2. CASE kind # "packets"
    <3>1. /\ Merged = inputs /\ Finally = Append(inputs, cfg) /\ inputs \in Seq(Records)
          /\ meta' = Merge(meta, cfg) /\ cfg \in Records
      BY <1>1, <2>2 DEF Merged, Finally, CommandFirst, HeaderInv
    <3>2. \A f \in Plain : Told(inputs, f, meta[f])
      BY <1>1, <3>1 DEF PrecedenceInv
    <3>3. QED
      BY <3>1, <3>2, ToldMerge
  <2>3. QED
    BY <2>1, <2>2
<1>3. CASE stage' = "done" /\ file' = FileWritten(meta', epochs, systems, Output)
  <2>1. ASSUME NEW f \in Plain
        PROVE  AsWritten(f, meta'[f], file'.meta[f])
    <3>1. file'.meta = HeaderWritten(meta', Output) /\ f \in Fields
      BY <1>3 DEF FileWritten, Plain
    <3>2. QED
      BY <3>1 DEF HeaderWritten, AsWritten, Positions
  <2>2. \A f \in Plain : \E v : Told(Finally, f, v) /\ AsWritten(f, v, file'.meta[f])
    BY <1>2, <2>1
  <2>4. Output' = Output
    BY DEF Flush, Output, Resolve
  <2>3. QED
    BY <1>1, <1>3, <2>2, <2>4 DEF PrecedenceInv, AsWritten
<1>4. CASE stage' = "failed"
  BY <1>4 DEF PrecedenceInv
<1>5. QED
  BY <1>3, <1>4 DEF Flush

LEMMA PrecedenceInvariant == Spec => []PrecedenceInv
<1>1. Init => PrecedenceInv
  BY DEF Init, PrecedenceInv
<1>2. HeaderInv /\ HeaderInv' /\ PrecedenceInv /\ [Next]_vars => PrecedenceInv'
  <2> SUFFICES ASSUME HeaderInv, HeaderInv', PrecedenceInv, [Next]_vars
               PROVE  PrecedenceInv'
    OBVIOUS
  <2>1. ASSUME NEW k \in {"packets", "observations"}, NEW h, NEW o, NEW situation, NEW b,
               Begin(k, h, o, situation, b)
        PROVE  PrecedenceInv'
    BY <2>1, PrecedenceBegin
  <2>2. ASSUME NEW msg, NEW blank, NEW truth, Station(msg, blank, truth)
        PROVE  PrecedenceInv'
    <3> DEFINE m == SetBy(StationFields(msg) \ blank, Len(inputs) + 1, "other")
    <3>1. run \in Nat /\ Len(inputs) + 1 \in Nat
      BY BoundsAssumption DEF HeaderInv
    <3>2. m \in Records
      BY <3>1, SetByRecord
    <3> HIDE DEF m
    <3>3. Input(m)
      BY <2>2 DEF Station, m
    <3>4. QED
      BY <3>2, <3>3, PrecedenceInput
  <2>3. ASSUME NEW f, f.meta \in Records, Coherent(f.meta), Forward(f)
        PROVE  PrecedenceInv'
    <3>1. CASE Input(HeaderRead(f.meta, Resolve(f.crinex)))
      BY <2>3, <3>1, ReadRecord, PrecedenceInput
    <3>2. CASE stage' = "failed"
      BY <3>2 DEF PrecedenceInv
    <3>3. QED
      BY <2>3, <3>1, <3>2 DEF Forward
  <2>4. ASSUME NEW S, NEW first, NEW last, NEW truth, NEW systems, NEW crinex,
               Forward(Foreign(S, first, last, systems, truth, crinex))
        PROVE  PrecedenceInv'
    <3> DEFINE f == Foreign(S, first, last, systems, truth, crinex)
               n == Len(inputs) + 1
    <3>1. run \in Nat /\ n \in Nat
      BY BoundsAssumption DEF HeaderInv
    <3>2. f.meta = SetBy(S, n, "other")
      BY DEF Foreign
    <3> HIDE DEF n, f
    <3>3. f.meta \in Records /\ Coherent(f.meta)
      BY <3>1, <3>2, SetByRecord, SingleCoherent
    <3>4. QED
      BY <2>3, <2>4, <3>3 DEF f
  <2>5. CASE Forward(file)
    BY <2>3, <2>5 DEF HeaderInv
  <2>6. ASSUME NEW systems, Flush(systems) PROVE PrecedenceInv'
    BY <2>6, PrecedenceFlush
  <2>7. CASE UNCHANGED vars
    BY <2>7 DEF vars, PrecedenceInv, Merged, Finally, AsWritten, Output, Resolve
  <2>8. QED
    BY <2>1, <2>2, <2>4, <2>5, <2>6, <2>7 DEF Next
<1>3. QED
  BY <1>1, <1>2, HeaderInvariant, PTL DEF Spec

(* Every other field has the value of the last record that sets it, the    *)
(* command line's being the first record for packets and the last for      *)
(* observation inputs (cli/src/lib.rs, convert_observation_inputs).        *)
THEOREM HeaderPrecedence == Spec => []Precedence
<1>1. HeaderInv /\ PrecedenceInv => Precedence
  <2> SUFFICES ASSUME HeaderInv, PrecedenceInv, stage = "done", run > 0 PROVE Precedence
    BY DEF Precedence, Written
  <2> DEFINE Setting(f) == {i \in DOMAIN Finally : Finally[i][f] # Unset}
  <2>1. ASSUME NEW f \in Plain
        PROVE  /\ Setting(f) = {} => AsWritten(f, Unset, file.meta[f])
               /\ Setting(f) # {} =>
                    /\ Finally[Max(Setting(f))][f] # Unset
                    /\ AsWritten(f, Finally[Max(Setting(f))][f], file.meta[f])
    <3>1. PICK v : Told(Finally, f, v) /\ AsWritten(f, v, file.meta[f])
      BY DEF PrecedenceInv
    <3>2. Finally \in Seq(Records)
      BY FirstThenRest DEF Finally, HeaderInv
    <3>3. CASE v = Unset
      BY <3>1, <3>3 DEF Told
    <3>4. CASE v # Unset
      <4>1. PICK i \in DOMAIN Finally :
              Finally[i][f] = v /\ \A j \in DOMAIN Finally : j > i => Finally[j][f] = Unset
        BY <3>1, <3>4 DEF Told
      <4>2. DOMAIN Finally \subseteq Nat
        BY <3>2
      <4>3. i \in Setting(f) /\ \A j \in Setting(f) : j \in Nat /\ i >= j
        BY <3>4, <4>1, <4>2
      <4>4. i \in Nat
        BY <4>3
      <4>5. Max(Setting(f)) = i
        <5> DEFINE T == Setting(f)
        <5>1. i \in T /\ i \in Nat /\ \A j \in T : j \in Nat /\ i >= j
          BY <4>3, <4>4
        <5> HIDE DEF T
        <5>2. \A x \in T : (\A y \in T : x >= y) => x = i
          BY <5>1
        <5>3. Max(T) \in T /\ \A y \in T : Max(T) >= y
          BY <5>1 DEF Max
        <5>4. Max(T) = i
          BY <5>2, <5>3
        <5>5. QED
          BY <5>4 DEF T
      <4>6. QED
        BY <3>1, <3>4, <4>1, <4>3, <4>5
    <3>5. QED
      BY <3>3, <3>4
  <2> HIDE DEF Setting
  <2>2. QED
    <3>1. SUFFICES ASSUME NEW f \in Plain
                   PROVE  IF Output = "external" /\ f = "marker_type" THEN file.meta[f] = Unset
                          ELSE IF Setting(f) # {}
                               THEN file.meta[f] = Finally[Max(Setting(f))][f]
                          ELSE file.meta[f] \in CASE f = "version" -> {DefaultVersion}
                                                  [] f \in Positions -> {Unset, Zero}
                                                  [] OTHER -> {Unset}
      BY DEF Precedence, Setting, Finally, Plain
    <3>2. CASE Setting(f) = {}
      BY <2>1, <3>2 DEF AsWritten
    <3>3. CASE Setting(f) # {}
      <4>1. PICK w : w = Finally[Max(Setting(f))][f]
        OBVIOUS
      <4>2. w # Unset /\ AsWritten(f, w, file.meta[f])
        BY <2>1, <3>3, <4>1
      <4>3. QED
        BY <3>3, <4>1, <4>2 DEF AsWritten
    <3>4. QED
      BY <3>2, <3>3
<1>2. QED
  BY <1>1, HeaderInvariant, PrecedenceInvariant, PTL

-----------------------------------------------------------------------------
(* Epochs.                                                                 *)

AtTruth(es) == \A e \in es : e.truth \in Int /\ e.t = e.truth

(* A file written is in GPS time and says so.                              *)
EpochsInv ==
  /\ AtTruth(epochs) /\ AtTruth(file.epochs)
  /\ file.first = "GPS" \/ file.epochs = {}

(* What is read of a file in GPS time is at its true time.                 *)
LEMMA OwnEpochs ==
  ASSUME EpochsInv, NEW backend
  PROVE  AtTruth(EpochsRead(file, backend))
<1>1. CASE file.epochs = {}
  BY <1>1 DEF AtTruth, EpochsRead
<1>2. CASE file.first = "GPS"
  <2>1. Shift(TimeSystem(file), LeapSeconds(file.meta)) = 0
    BY <1>2 DEF TimeSystem, Shift
  <2>2. QED
    BY <2>1 DEF EpochsInv, AtTruth, EpochsRead
<1>3. QED
  BY <1>1, <1>2 DEF EpochsInv

(* So is what is read of an honest file of any other program.              *)
LEMMA ForeignEpochs ==
  ASSUME NEW S, NEW first, NEW last, NEW systems, NEW truth \in Int, NEW crinex,
         NEW f, f = Foreign(S, first, last, systems, truth, crinex), Honest(f),
         NEW backend
  PROVE  AtTruth(EpochsRead(f, backend))
<1> DEFINE g == [meta |-> SetBy(S, Len(inputs) + 1, "other"), first |-> first,
                 last |-> last, systems |-> systems, epochs |-> {}, crinex |-> crinex]
<1>1. PICK ts : ts = TimeSystem(g)
  OBVIOUS
<1>2. PICK offset : offset = CASE ts \in {"GLO", "UTC"} -> TrueLeap
                               [] ts = "BDT" -> 14
                               [] OTHER -> 0
  OBVIOUS
<1>3. f = [g EXCEPT !.epochs = {[truth |-> truth, t |-> truth - offset]}]
  BY <1>1, <1>2 DEF Foreign
<1>4. /\ f.first = g.first /\ f.last = g.last /\ f.systems = g.systems
      /\ f.epochs = {[truth |-> truth, t |-> truth - offset]}
  BY <1>3
<1>5. TimeSystem(f) = ts
  BY <1>1, <1>4 DEF TimeSystem
<1>6. offset \in Int /\ Shift(ts, LeapSeconds(f.meta)) = offset
  <2>1. CASE ts \in {"GLO", "UTC"}
    <3>1. LeapSeconds(f.meta) = TrueLeap
      BY <1>5, <2>1 DEF Honest, LeapSeconds
    <3>2. QED
      BY <1>2, <2>1, <3>1, EnvironmentAssumption DEF Shift
  <2>2. CASE ts \notin {"GLO", "UTC"}
    BY <1>2, <2>2 DEF Shift, BdtOffset
  <2>3. QED
    BY <2>1, <2>2
<1>7. ASSUME NEW e \in EpochsRead(f, backend) PROVE e.truth \in Int /\ e.t = e.truth
  <2>1. PICK d \in f.epochs :
          e = [truth |-> d.truth,
               t |-> IF backend = "external" THEN d.truth
                     ELSE d.t + Shift(TimeSystem(f), LeapSeconds(f.meta))]
    BY <1>7 DEF EpochsRead
  <2>2. d.truth = truth /\ d.t = truth - offset
    BY <1>4, <2>1
  <2>3. e.truth = truth /\ e.t = IF backend = "external" THEN truth ELSE (truth - offset) + offset
    BY <1>5, <1>6, <2>1, <2>2
  <2>4. QED
    BY <1>6, <2>3
<1>8. QED
  BY <1>7 DEF AtTruth

LEMMA EpochsForward ==
  ASSUME EpochsInv, NEW f, Forward(f), AtTruth(EpochsRead(f, Resolve(f.crinex)))
  PROVE  EpochsInv'
<1>1. file' = file /\ (epochs' = epochs \/ epochs' = epochs \cup EpochsRead(f, Resolve(f.crinex)))
  BY DEF Forward, Input
<1>2. QED
  BY <1>1 DEF EpochsInv, AtTruth

LEMMA EpochsInvariant == Spec => []EpochsInv
<1>1. Init => EpochsInv
  <2>1. NoFile.epochs = {}
    BY DEF NoFile
  <2>2. QED
    BY <2>1, Zenon DEF Init, EpochsInv, AtTruth
<1>2. EpochsInv /\ [Next]_vars => EpochsInv'
  <2> SUFFICES ASSUME EpochsInv, [Next]_vars PROVE EpochsInv'
    OBVIOUS
  <2>1. ASSUME NEW k, NEW h, NEW o, NEW situation, NEW b, Begin(k, h, o, situation, b)
        PROVE  EpochsInv'
    BY <2>1 DEF Begin, EpochsInv, AtTruth
  <2>2. ASSUME NEW msg, NEW blank, NEW truth \in Times, Station(msg, blank, truth)
        PROVE  EpochsInv'
    <3>1. /\ file' = file /\ epochs' = epochs \cup {[truth |-> truth, t |-> truth]}
          /\ truth \in Int
      BY <2>2, InputsAssumption DEF Station, Input
    <3>2. QED
      BY <3>1 DEF EpochsInv, AtTruth
  <2>3. ASSUME NEW S, NEW first, NEW last, NEW truth \in Times, NEW systems, NEW crinex,
               NEW f, f = Foreign(S, first, last, systems, truth, crinex),
               Honest(f), Forward(f)
        PROVE  EpochsInv'
    <3>1. truth \in Int
      BY InputsAssumption
    <3>2. AtTruth(EpochsRead(f, Resolve(f.crinex)))
      BY <2>3, <3>1, ForeignEpochs
    <3>3. QED
      BY <2>3, <3>2, EpochsForward
  <2>4. CASE Forward(file)
    BY <2>4, OwnEpochs, EpochsForward
  <2>5. ASSUME NEW systems, Flush(systems) PROVE EpochsInv'
    <3>1. /\ epochs' = epochs
          /\ \/ file' = FileWritten(meta', epochs, systems, Output)
             \/ file' = file
      BY <2>5 DEF Flush
    <3>2. QED
      BY <3>1 DEF EpochsInv, FileWritten
  <2>6. CASE UNCHANGED vars
    BY <2>6 DEF vars, EpochsInv
  <2>7. QED
    BY <2>1, <2>2, <2>3, <2>4, <2>5, <2>6 DEF Next
<1>3. QED
  BY <1>1, <1>2, PTL DEF Spec

(* Every epoch keeps its true time through files of any time system        *)
(* (rinexobs.rs, file_to_gps_time and write_observation_file).             *)
THEOREM HeaderEpochsSurvive == Spec => []EpochsSurvive
<1>1. EpochsInv => EpochsSurvive
  BY OwnEpochs DEF EpochsInv, AtTruth, EpochsSurvive
<1>2. QED
  BY <1>1, EpochsInvariant, PTL

-----------------------------------------------------------------------------
(* What a conversion of one file changes.                                  *)

(* The sink has merged the one input there was.                            *)
OneInputInv ==
  kind = "observations" /\ stage = "convert" =>
    /\ inputs = <<>> => meta = Empty
    /\ Len(inputs) = 1 => meta = Merge(Empty, inputs[1])

LEMMA OneInputInvariant == Spec => []OneInputInv
<1>1. Init => OneInputInv
  BY DEF Init, OneInputInv
<1>2. HeaderInv /\ OneInputInv /\ [Next]_vars => OneInputInv'
  <2> SUFFICES ASSUME HeaderInv, OneInputInv, [Next]_vars PROVE OneInputInv'
    OBVIOUS
  <2>1. ASSUME NEW k, NEW h, NEW o, NEW situation, NEW b, Begin(k, h, o, situation, b)
        PROVE  OneInputInv'
    BY <2>1 DEF Begin, OneInputInv, CommandFirst
  <2>2. ASSUME NEW m, m \in Records, Input(m) PROVE OneInputInv'
    <3>1. /\ inputs \in Seq(Records) /\ inputs' = Append(inputs, m)
          /\ meta' = Merge(meta, m) /\ kind' = kind /\ stage' = stage /\ stage = "convert"
      BY <2>2 DEF Input, HeaderInv
    <3>2. inputs' # <<>>
      BY <2>2, <3>1
    <3>3. CASE Len(inputs') = 1
      <4>1. inputs = <<>> /\ inputs'[1] = m
        BY <2>2, <3>1, <3>3
      <4>2. QED
        BY <3>1, <3>2, <4>1 DEF OneInputInv
    <3>4. QED
      BY <3>2, <3>3 DEF OneInputInv
  <2>3. ASSUME NEW msg, NEW blank, NEW truth, Station(msg, blank, truth)
        PROVE  OneInputInv'
    BY <2>3 DEF Station, Input, OneInputInv
  <2>4. ASSUME NEW f, f.meta \in Records, Coherent(f.meta), Forward(f)
        PROVE  OneInputInv'
    <3>1. CASE Input(HeaderRead(f.meta, Resolve(f.crinex)))
      BY <2>2, <2>4, <3>1, ReadRecord
    <3>2. CASE stage' = "failed"
      BY <3>2 DEF OneInputInv
    <3>3. QED
      BY <2>4, <3>1, <3>2 DEF Forward
  <2>5. ASSUME NEW S, NEW first, NEW last, NEW truth, NEW systems, NEW crinex,
               Forward(Foreign(S, first, last, systems, truth, crinex))
        PROVE  OneInputInv'
    <3> DEFINE f == Foreign(S, first, last, systems, truth, crinex)
               n == Len(inputs) + 1
    <3>1. run \in Nat /\ n \in Nat
      BY BoundsAssumption DEF HeaderInv
    <3>2. f.meta = SetBy(S, n, "other")
      BY DEF Foreign
    <3> HIDE DEF n, f
    <3>3. f.meta \in Records /\ Coherent(f.meta)
      BY <3>1, <3>2, SetByRecord, SingleCoherent
    <3>4. QED
      BY <2>4, <2>5, <3>3 DEF f
  <2>6. CASE Forward(file)
    BY <2>4, <2>6 DEF HeaderInv
  <2>7. ASSUME NEW systems, Flush(systems) PROVE OneInputInv'
    BY <2>7 DEF Flush, OneInputInv
  <2>8. CASE UNCHANGED vars
    BY <2>8 DEF vars, OneInputInv
  <2>9. QED
    BY <2>1, <2>3, <2>5, <2>6, <2>7, <2>8 DEF Next
<1>3. QED
  BY <1>1, <1>2, HeaderInvariant, PTL DEF Spec

(* Being taken over together is symmetric.                                 *)
LEMMA TogetherSymmetric ==
  ASSUME NEW f \in Fields, NEW g \in Together(f)
  PROVE  g \in Fields /\ f \in Together(g) /\ f \in Together(f)
<1>1. RunFields \cap AntennaFields = {}
  BY DEF RunFields, AntennaFields
<1>2. QED
  BY <1>1, FieldNames DEF Together, AntennaFields

LEMMA OnlyCommanded ==
  ASSUME file.meta \in Records, file.meta["version"] # Unset,
         NEW f \in Fields, f \notin RunFields, f \notin Commanded,
         NEW r, r = HeaderRead(file.meta, Output)
  PROVE  HeaderWritten(Merge(Merge(Empty, r), cfg), Output)[f] = file.meta[f]
<1> DEFINE Unknown == {p \in Positions : file.meta[p] = Unset}
           Set == UNION {Together(g) : g \in {g \in Fields : cfg[g] # Unset}}
           Unread == IF Output = "external" THEN {"delta", "marker_type"} ELSE {}
<1>1. f \notin Unknown /\ f \notin Set /\ (Output = "external" => f \notin {"delta", "marker_type"})
  <2>1. Commanded = Set \cup Unknown \cup Unread
    BY DEF Commanded
  <2>2. Output = "external" => Unread = {"delta", "marker_type"}
    OBVIOUS
  <2> HIDE DEF Unknown, Set, Unread
  <2>3. QED
    BY <2>1, <2>2
<1>2. \A g \in Together(f) : cfg[g] = Unset
  BY <1>1, TogetherSymmetric
<1>3. Merge(Merge(Empty, r), cfg)[f] = Merge(Empty, r)[f]
  BY <1>2 DEF Merge
<1>4. f \in Together(f)
  BY DEF Together
<1>5. Merge(Empty, r)[f] = r[f]
  BY <1>4 DEF Merge, Empty
<1>6. r[f] = file.meta[f]
  <2>1. CASE Output = "external"
    <3>1. r = [[[file.meta EXCEPT !["date"] = Unset] EXCEPT !["marker_type"] = Unset]
                EXCEPT !["delta"] = Unset]
      BY <2>1 DEF HeaderRead
    <3>2. f # "date" /\ f # "delta" /\ f # "marker_type"
      BY <1>1, <2>1 DEF RunFields
    <3>3. QED
      BY <3>1, <3>2 DEF Records
  <2>2. CASE Output # "external"
    BY <2>2 DEF HeaderRead
  <2>3. QED
    BY <2>1, <2>2
<1>7. f \in Positions \cup {"version"} => r[f] # Unset
  BY <1>1, <1>6
<1>8. QED
  BY <1>1, <1>3, <1>5, <1>6, <1>7 DEF HeaderWritten, Positions

(* A conversion of one file changes only what the command line sets.       *)
THEOREM HeaderOnlyTheCommandLine == Spec => OnlyTheCommandLine
<1>1. ASSUME HeaderInv, OneInputInv, [Next]_vars, kind = "observations", file' # file,
             file # NoFile, inputs = <<HeaderRead(file.meta, Output)>>
      PROVE  DiffMetadata(file.meta, file'.meta, FALSE) \subseteq Commanded
  <2>1. PICK systems : Flush(systems)
    BY <1>1 DEF Next, Begin, Station, Forward, Input, vars
  <2>2. PICK r : r = HeaderRead(file.meta, Output)
    OBVIOUS
  <2>3. Len(inputs) = 1 /\ inputs[1] = r
    BY <1>1, <2>2
  <2>4. meta' = Merge(Merge(Empty, r), cfg)
    BY <1>1, <2>1, <2>3 DEF OneInputInv, Flush, CommandFirst
  <2>5. file'.meta = HeaderWritten(Merge(Merge(Empty, r), cfg), Output)
    BY <1>1, <2>1, <2>4 DEF Flush, FileWritten
  <2>6. \A f \in Fields \ RunFields : f \notin Commanded => file'.meta[f] = file.meta[f]
    BY <1>1, <2>2, <2>5, OnlyCommanded DEF HeaderInv
  <2>7. QED
    BY <2>6 DEF DiffMetadata
<1>2. QED
  BY <1>1, HeaderInvariant, OneInputInvariant, PTL DEF Spec, OnlyTheCommandLine
=============================================================================
