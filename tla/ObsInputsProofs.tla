-------------------------- MODULE ObsInputsProofs --------------------------
(***************************************************************************)
(* What holds of the conversion of any number of observation files, of     *)
(* any length and in any order of time, readable or not.                   *)
(***************************************************************************)
EXTENDS ObsInputs, FiniteSetTheorems, WellFoundedInduction, TLAPS

-----------------------------------------------------------------------------
(* The inputs, and what is at a place in them.                             *)
InputsOK ==
  /\ cfg \in Configs
  /\ Len(inputs) \in Nat /\ DOMAIN inputs = 1..Len(inputs)
  /\ \A i \in DOMAIN inputs :
       inputs[i] \in IF cfg.from = "rinex" THEN RinexInputs ELSE ObsjInputs

LEMMA InputTypes ==
  ASSUME InputsOK
  PROVE  /\ cfg.from \in {"rinex", "obsj"} /\ cfg.to \in {"rinex", "obsj"}
         /\ cfg.backend \in {"internal", "external"} /\ cfg.require_cp \in BOOLEAN
         /\ \A i \in DOMAIN inputs :
              /\ inputs[i].readable \in BOOLEAN
              /\ inputs[i].lines \in Seq(RinexLine \cup ObsjLine)
              /\ cfg.from = "rinex" => inputs[i].lines \in Seq(RinexLine)
              /\ cfg.from = "obsj" => inputs[i].lines \in Seq(ObsjLine)
<1>1. cfg \in [from : {"rinex", "obsj"}, to : {"rinex", "obsj"},
               backend : {"internal", "external"},
               dropped : SUBSET Nat, require_cp : BOOLEAN]
  BY ObsInputsAssumption DEF InputsOK
<1>2. ASSUME NEW i \in DOMAIN inputs
      PROVE  /\ inputs[i].readable \in BOOLEAN
             /\ inputs[i].lines \in Seq(RinexLine \cup ObsjLine)
             /\ cfg.from = "rinex" => inputs[i].lines \in Seq(RinexLine)
             /\ cfg.from = "obsj" => inputs[i].lines \in Seq(ObsjLine)
  <2>1. CASE cfg.from = "rinex"
    <3>1. inputs[i] \in [readable : BOOLEAN, lines : Seq(RinexLine)]
      BY <2>1, ObsInputsAssumption DEF InputsOK
    <3>2. QED
      BY <2>1, <3>1
  <2>2. CASE cfg.from # "rinex"
    <3>1. inputs[i] \in [readable : BOOLEAN, lines : Seq(ObsjLine)]
      BY <2>2, ObsInputsAssumption DEF InputsOK
    <3>2. QED
      BY <2>2, <3>1
  <2>3. QED
    BY <2>1, <2>2
<1>3. QED
  BY <1>1, <1>2

LEMMA PlaceFacts ==
  ASSUME InputsOK, NEW p \in Places
  PROVE  /\ p = <<p[1], p[2]>> /\ p[1] \in DOMAIN inputs /\ p[1] \in Nat
         /\ p[2] \in DOMAIN inputs[p[1]].lines
         /\ Len(inputs[p[1]].lines) \in Nat
         /\ p[2] \in 1..Len(inputs[p[1]].lines) /\ p[2] \in Nat
         /\ LineAt(p) \in RinexLine \cup ObsjLine
         /\ cfg.from = "rinex" => LineAt(p) \in RinexLine
         /\ cfg.from = "obsj" => LineAt(p) \in ObsjLine
<1>1. PICK i \in DOMAIN inputs : p \in {i} \X DOMAIN inputs[i].lines
  BY DEF Places
<1>2. p = <<p[1], p[2]>> /\ p[1] = i /\ p[2] \in DOMAIN inputs[i].lines
  BY <1>1
<1>3. /\ inputs[i].lines \in Seq(RinexLine \cup ObsjLine)
      /\ cfg.from = "rinex" => inputs[i].lines \in Seq(RinexLine)
      /\ cfg.from = "obsj" => inputs[i].lines \in Seq(ObsjLine)
  BY InputTypes
<1>4. LineAt(p) = inputs[i].lines[p[2]]
  BY <1>2 DEF LineAt
<1>5. /\ LineAt(p) \in RinexLine \cup ObsjLine
      /\ cfg.from = "rinex" => LineAt(p) \in RinexLine
      /\ cfg.from = "obsj" => LineAt(p) \in ObsjLine
  <2> DEFINE s == inputs[i].lines
  <2>1. p[2] \in DOMAIN s /\ s \in Seq(RinexLine \cup ObsjLine)
        /\ (cfg.from = "rinex" => s \in Seq(RinexLine))
        /\ (cfg.from = "obsj" => s \in Seq(ObsjLine)) /\ LineAt(p) = s[p[2]]
    BY <1>2, <1>3, <1>4
  <2> HIDE DEF s
  <2>2. QED
    BY <2>1
<1>6. i \in Nat /\ Len(inputs[i].lines) \in Nat /\ p[2] \in 1..Len(inputs[i].lines)
  BY <1>2, <1>3 DEF InputsOK
<1>7. QED
  BY <1>1, <1>2, <1>5, <1>6

LEMMA PlaceThere ==
  ASSUME InputsOK, NEW i \in DOMAIN inputs, NEW l \in 1..Len(inputs[i].lines)
  PROVE  <<i, l>> \in Places
<1>1. l \in DOMAIN inputs[i].lines
  BY InputTypes
<1>2. <<i, l>> \in {i} \X DOMAIN inputs[i].lines
  BY <1>1
<1>3. QED
  BY <1>2 DEF Places

(* Places are in one order.                                                *)
LEMMA PlacesOrdered ==
  ASSUME InputsOK, NEW p \in Places, NEW q \in Places
  PROVE  /\ p = q \/ Earlier(p, q) \/ Earlier(q, p)
         /\ ~(Earlier(p, q) /\ Earlier(q, p)) /\ ~Earlier(p, p)
         /\ p # CommandLine /\ Earlier(p, CommandLine) /\ ~Earlier(CommandLine, p)
<1>1. p = <<p[1], p[2]>> /\ p[1] \in Nat /\ p[2] \in Nat /\ p[1] \in DOMAIN inputs
  BY PlaceFacts
<1>2. q = <<q[1], q[2]>> /\ q[1] \in Nat /\ q[2] \in Nat /\ q[1] \in DOMAIN inputs
  BY PlaceFacts
<1>3. \/ p[1] < q[1] \/ q[1] < p[1]
      \/ p[1] = q[1] /\ (p[2] < q[2] \/ q[2] < p[2] \/ p[2] = q[2])
  BY <1>1, <1>2
<1>4. p[1] = q[1] /\ p[2] = q[2] => p = q
  BY <1>1, <1>2
<1>5. p = q \/ Earlier(p, q) \/ Earlier(q, p)
  BY <1>3, <1>4 DEF Earlier
<1>6. ~(Earlier(p, q) /\ Earlier(q, p)) /\ ~Earlier(p, p)
  BY <1>1, <1>2 DEF Earlier
<1>7. p[1] < Len(inputs) + 1 /\ Len(inputs) \in Nat
  BY <1>1 DEF InputsOK
<1>8. CommandLine[1] = Len(inputs) + 1 /\ CommandLine[2] = 0
  BY DEF CommandLine
<1>9. p # CommandLine /\ Earlier(p, CommandLine) /\ ~Earlier(CommandLine, p)
  BY <1>1, <1>7, <1>8 DEF Earlier
<1>10. QED
  BY <1>5, <1>6, <1>9

(* What is at the place of an observation.                                 *)
LEMMA ObservationTypes ==
  ASSUME InputsOK, NEW p \in Places, LineAt(p).kind = "observation"
  PROVE  /\ ObservationAt(p) \in SignalObservation
         /\ ObservationAt(p).key = LineAt(p).o.key
         /\ ObservationAt(p).t = LineAt(p).o.t
         /\ ObservationAt(p).phase = LineAt(p).o.phase
<1>1. cfg.from \in {"rinex", "obsj"}
  BY InputTypes
<1>2. CASE cfg.from = "obsj"
  <2>1. LineAt(p) \in ObsjLine
    BY <1>2, PlaceFacts
  <2>2. LineAt(p).o \in SignalObservation
    BY <2>1 DEF ObsjLine
  <2>3. QED
    BY <1>2, <2>2 DEF ObservationAt
<1>3. CASE cfg.from = "rinex"
  <2> DEFINE o == LineAt(p).o
             bits == BitsUpTo(p, o.key)
  <2>1. LineAt(p) \in RinexLine
    BY <1>3, PlaceFacts
  <2>2. o \in [key : Keys, t : Nat, phase : BOOLEAN, code : BOOLEAN, ll : BOOLEAN]
    BY <2>1 DEF RinexLine
  <2>3. Cardinality(bits) \in Nat
    <3>1. bits \in SUBSET (1..p[2]) /\ p[2] \in Nat
      BY PlaceFacts DEF BitsUpTo
    <3>2. IsFiniteSet(1..p[2])
      BY <3>1, FS_Interval
    <3> HIDE DEF bits
    <3>3. IsFiniteSet(bits)
      BY <3>1, <3>2, FS_Subset
    <3>4. QED
      BY <3>3, FS_CardinalityType
  <2>4. ObservationAt(p) =
          [key |-> o.key, t |-> o.t, phase |-> o.phase, code |-> o.code,
           hc |-> FALSE, arc |-> Cardinality(bits)]
    BY <1>3 DEF ObservationAt
  <2> HIDE DEF o, bits
  <2>5. ObservationAt(p) \in SignalObservation
    BY <2>2, <2>3, <2>4 DEF SignalObservation
  <2>6. QED
    BY <2>4, <2>5 DEF o
<1>4. QED
  BY <1>1, <1>2, <1>3

-----------------------------------------------------------------------------
(* The invariant: what has been read of the inputs, and what of that has   *)
(* reached the writer.                                                     *)
ReadPlaces == {p \in Places : p[1] <= n \/ (p[1] = n + 1 /\ p[2] <= line)}

(* The line that was read last has ended the conversion. *)
EndedByLine == status = "failed" /\ n < Len(inputs) /\ line > 0

Progress ==
  /\ n \in 0..Len(inputs) /\ line \in Nat
  /\ line # 0 => n < Len(inputs) /\ line <= Len(inputs[n + 1].lines)
  /\ \A i \in 1..n : inputs[i].readable
  /\ line # 0 => inputs[n + 1].readable
  /\ \A p \in ReadPlaces :
       LineAt(p).kind = "bad" <=> EndedByLine /\ p = <<n + 1, line>>
  /\ status \in {"run", "done", "failed"}
  /\ status = "done" => n = Len(inputs)
  /\ status = "failed" /\ n < Len(inputs) /\ line = 0 => ~inputs[n + 1].readable

InPlaceOrder(s) == \A x, y \in DOMAIN s : x < y => Earlier(s[x], s[y])

HandedOn ==
  /\ records \in Seq([place : Places, o : SignalObservation])
  /\ \A x, y \in DOMAIN records :
       x < y => Earlier(records[x].place, records[y].place)
  /\ \A x \in DOMAIN records : /\ records[x].place \in ReadPlaces
                               /\ Passes(records[x].place)
                               /\ records[x].o = ObservationAt(records[x].place)
  /\ \A p \in ReadPlaces :
       Passes(p) => \E x \in DOMAIN records : records[x].place = p

Finished == status # "run" /\ n = Len(inputs)

HeadersHandedOn ==
  /\ headers \in Seq(Places \cup {CommandLine})
  /\ InPlaceOrder(headers)
  /\ \A x \in DOMAIN headers :
       \/ headers[x] \in ReadPlaces /\ LineAt(headers[x]).kind = "metadata"
       \/ Finished /\ headers[x] = CommandLine
  /\ \A p \in ReadPlaces :
       LineAt(p).kind = "metadata" => \E x \in DOMAIN headers : headers[x] = p
  /\ Finished => \E x \in DOMAIN headers : headers[x] = CommandLine

JoinInv == InputsOK /\ Progress /\ HandedOn /\ HeadersHandedOn

LEMMA JoinInit == Init => JoinInv
<1> SUFFICES ASSUME Init PROVE JoinInv
  OBVIOUS
<1> DEFINE F == IF cfg.from = "rinex" THEN RinexInputs ELSE ObsjInputs
<1>1. PICK k \in 1..MaxInputs : inputs \in [1..k -> F]
  BY DEF Init
<1>2. k \in Nat /\ Len(inputs) = k /\ DOMAIN inputs = 1..k
  BY <1>1, ObsInputsAssumption
<1>3. InputsOK
  BY <1>1, <1>2 DEF Init, InputsOK
<1>4. n = 0 /\ line = 0 /\ records = <<>> /\ headers = <<>> /\ status = "run"
  BY DEF Init
<1>5. ReadPlaces = {}
  <2>1. ASSUME NEW p \in Places, p[1] <= 0 \/ (p[1] = 0 + 1 /\ p[2] <= 0) PROVE FALSE
    <3>1. p[1] \in DOMAIN inputs /\ p[2] \in 1..Len(inputs[p[1]].lines)
      BY <1>3, PlaceFacts
    <3>2. p[1] > 0 /\ p[1] \in Nat /\ p[2] > 0 /\ p[2] \in Nat
      BY <1>2, <1>3, <3>1, PlaceFacts
    <3>3. QED
      BY <2>1, <3>2
  <2>2. QED
    BY <1>4, <2>1 DEF ReadPlaces
<1>6. Progress
  BY <1>2, <1>4, <1>5 DEF Progress
<1>7. HandedOn
  BY <1>4, <1>5 DEF HandedOn
<1>8. HeadersHandedOn
  BY <1>4, <1>5 DEF HeadersHandedOn, InPlaceOrder, Finished
<1>9. QED
  BY <1>3, <1>6, <1>7, <1>8 DEF JoinInv

(* What is left alone by every step. *)
LEMMA InputsKept ==
  ASSUME UNCHANGED <<cfg, inputs>>
  PROVE  /\ InputsOK' <=> InputsOK
         /\ Places' = Places /\ CommandLine' = CommandLine
         /\ \A p : LineAt(p)' = LineAt(p)
         /\ \A p : Passes(p)' = Passes(p)
         /\ \A p : ObservationAt(p)' = ObservationAt(p)
<1>1. \A p : LineAt(p)' = LineAt(p)
  BY DEF LineAt
<1>2. \A p : Passes(p)' = Passes(p)
  BY DEF LineAt, Passes, Kept
<1>3. \A p, k : BitsUpTo(p, k)' = BitsUpTo(p, k)
  BY DEF BitsUpTo, BitRead
<1>4. \A p : ObservationAt(p)' = ObservationAt(p)
  BY <1>1, <1>3 DEF ObservationAt, LineAt
<1>5. (InputsOK' <=> InputsOK) /\ Places' = Places /\ CommandLine' = CommandLine
  BY DEF InputsOK, Places, CommandLine
<1>6. QED
  BY <1>1, <1>2, <1>4, <1>5

LEMMA Appended ==
  ASSUME NEW S, NEW s \in Seq(S), NEW e \in S
  PROVE  /\ Append(s, e) \in Seq(S) /\ Len(s) \in Nat
         /\ DOMAIN Append(s, e) = DOMAIN s \cup {Len(s) + 1}
         /\ \A x \in DOMAIN s : Append(s, e)[x] = s[x] /\ x \in Nat /\ x < Len(s) + 1
         /\ Append(s, e)[Len(s) + 1] = e
OBVIOUS

LEMMA Counters ==
  ASSUME InputsOK, Progress
  PROVE  /\ n \in Nat /\ line \in Nat /\ Len(inputs) \in Nat /\ n <= Len(inputs)
         /\ n \in 0..Len(inputs)
         /\ n < Len(inputs) =>
              n + 1 \in DOMAIN inputs /\ Len(inputs[n + 1].lines) \in Nat
<1>1. Len(inputs) \in Nat /\ DOMAIN inputs = 1..Len(inputs)
  BY DEF InputsOK
<1>2. n \in 0..Len(inputs) /\ line \in Nat
  BY DEF Progress
<1>3. n < Len(inputs) => n + 1 \in DOMAIN inputs
  BY <1>1, <1>2
<1>4. \A i \in DOMAIN inputs : Len(inputs[i].lines) \in Nat
  BY InputTypes
<1>5. QED
  BY <1>1, <1>2, <1>3, <1>4

(* A line that is passed on goes to the end of what has been read.         *)
LEMMA NextPlace ==
  ASSUME InputsOK, Progress, ReadLine
  PROVE  LET p == <<n + 1, line + 1>>
         IN  /\ p \in Places /\ n + 1 \in DOMAIN inputs
             /\ ReadPlaces' = ReadPlaces \cup {p}
             /\ \A q \in ReadPlaces : q \in Places /\ Earlier(q, p) /\ q # p
<1> DEFINE p == <<n + 1, line + 1>>
<1>1. /\ n < Len(inputs) /\ line < Len(inputs[n + 1].lines) /\ line' = line + 1
      /\ n' = n /\ UNCHANGED <<cfg, inputs>>
  BY DEF ReadLine, Reading
<1>2. n \in Nat /\ line \in Nat /\ n + 1 \in DOMAIN inputs /\ Len(inputs) \in Nat
  BY <1>1, Counters
<1>3. Len(inputs[n + 1].lines) \in Nat
  BY <1>1, Counters
<1>4. p \in Places
  BY <1>1, <1>2, <1>3, PlaceThere
<1>5. Places' = Places
  BY <1>1, InputsKept
<1>6. ASSUME NEW q \in Places
      PROVE  /\ q \in ReadPlaces => Earlier(q, p) /\ q # p
             /\ q[1] <= n' \/ (q[1] = n' + 1 /\ q[2] <= line') <=>
                  q = p \/ q[1] <= n \/ (q[1] = n + 1 /\ q[2] <= line)
  <2>1. q = <<q[1], q[2]>> /\ q[1] \in Nat /\ q[2] \in Nat
    BY PlaceFacts
  <2>2. q = p <=> q[1] = n + 1 /\ q[2] = line + 1
    BY <2>1
  <2>3. q \in ReadPlaces => Earlier(q, p)
    BY <1>2, <2>1 DEF ReadPlaces, Earlier
  <2>4. q \in ReadPlaces => q # p
    BY <1>2, <2>1, <2>2 DEF ReadPlaces
  <2>5. q[1] <= n' \/ (q[1] = n' + 1 /\ q[2] <= line') <=>
          q = p \/ q[1] <= n \/ (q[1] = n + 1 /\ q[2] <= line)
    BY <1>1, <1>2, <2>1, <2>2
  <2>6. QED
    BY <2>3, <2>4, <2>5
<1>7. ReadPlaces' = ReadPlaces \cup {p}
  BY <1>4, <1>5, <1>6 DEF ReadPlaces
<1>8. QED
  BY <1>2, <1>4, <1>6, <1>7 DEF ReadPlaces

(* At the end of an input what has been read stays what it is.             *)
LEMMA SameRead ==
  ASSUME InputsOK, Progress, EndInput
  PROVE  ReadPlaces' = ReadPlaces /\ n \in Nat /\ n + 1 \in DOMAIN inputs
<1>1. /\ n < Len(inputs) /\ line = Len(inputs[n + 1].lines) /\ n' = n + 1 /\ line' = 0
      /\ UNCHANGED <<cfg, inputs>>
  BY DEF EndInput, Reading
<1>2. n \in Nat /\ line \in Nat /\ Len(inputs) \in Nat /\ n + 1 \in DOMAIN inputs
  BY <1>1, Counters
<1>3. Places' = Places
  BY <1>1, InputsKept
<1>4. ASSUME NEW q \in Places
      PROVE  q[1] <= n' \/ (q[1] = n' + 1 /\ q[2] <= line') <=>
               q[1] <= n \/ (q[1] = n + 1 /\ q[2] <= line)
  <2>1. q[1] \in Nat /\ q[2] \in Nat /\ q[2] \in 1..Len(inputs[q[1]].lines)
    BY PlaceFacts
  <2>2. q[1] = n + 1 => q[2] <= line
    BY <1>1, <2>1
  <2>3. ~(q[2] <= 0)
    BY <2>1
  <2>4. QED
    BY <1>1, <1>2, <2>1, <2>2, <2>3
<1>5. QED
  BY <1>2, <1>3, <1>4 DEF ReadPlaces

LEMMA ProgressStep == JoinInv /\ Next => Progress'
<1> SUFFICES ASSUME JoinInv, Next PROVE Progress'
  OBVIOUS
<1> USE DEF JoinInv
<1>1. UNCHANGED <<cfg, inputs>> /\ Places' = Places /\ \A p : LineAt(p)' = LineAt(p)
  <2>1. UNCHANGED <<cfg, inputs>>
    BY DEF Next, Unreadable, ReadLine, EndInput, Finish
  <2>2. QED
    BY <2>1, InputsKept
<1>2. /\ status = "run"
      /\ \A p \in ReadPlaces : LineAt(p).kind # "bad"
  <2>1. status = "run"
    BY DEF Next, Unreadable, ReadLine, EndInput, Finish, Reading
  <2>2. QED
    BY <2>1 DEF Progress, EndedByLine
<1>3. CASE Unreadable
  <2>1. /\ n < Len(inputs) /\ ~inputs[n + 1].readable /\ status' = "failed"
        /\ UNCHANGED <<n, line>> /\ inputs' = inputs
    BY <1>3 DEF Unreadable, Reading
  <2>2. line = 0 /\ line' = 0
    BY <2>1 DEF Progress
  <2>3. ReadPlaces' = ReadPlaces /\ ~EndedByLine'
    BY <1>1, <2>1, <2>2 DEF ReadPlaces, EndedByLine
  <2>4. QED
    BY <1>1, <1>2, <2>1, <2>2, <2>3 DEF Progress
<1>4. CASE ReadLine
  <2> DEFINE p == <<n + 1, line + 1>>
  <2>1. /\ n < Len(inputs) /\ inputs[n + 1].readable /\ line < Len(inputs[n + 1].lines)
        /\ status' = (IF LineAt(p).kind = "bad" THEN "failed" ELSE status)
        /\ line' = line + 1 /\ n' = n /\ inputs' = inputs
    BY <1>4 DEF ReadLine, Reading
  <2>2. /\ ReadPlaces' = ReadPlaces \cup {p} /\ n + 1 \in DOMAIN inputs
        /\ \A q \in ReadPlaces : q # p
    BY <1>4, NextPlace
  <2>3. line \in Nat /\ n \in 0..Len(inputs) /\ Len(inputs[n + 1].lines) \in Nat
        /\ Len(inputs) \in Nat
    BY <2>1, Counters
  <2>4. EndedByLine' <=> LineAt(p).kind = "bad"
    BY <1>2, <2>1, <2>3 DEF EndedByLine
  <2>5. ASSUME NEW q \in ReadPlaces'
        PROVE  LineAt(q)'.kind = "bad" <=> EndedByLine' /\ q = <<n' + 1, line'>>
    <3>1. LineAt(q)' = LineAt(q) /\ <<n' + 1, line'>> = p
      BY <1>1, <2>1
    <3>2. CASE q = p
      BY <2>4, <3>1, <3>2
    <3>3. CASE q # p
      BY <1>2, <2>2, <3>1, <3>3
    <3>4. QED
      BY <3>2, <3>3
  <2>6. /\ status' \in {"run", "failed"} /\ line' # 0 /\ line' \in Nat
        /\ line' <= Len(inputs'[n' + 1].lines)
    BY <1>2, <2>1, <2>3
  <2>7. QED
    BY <2>1, <2>3, <2>5, <2>6 DEF Progress
<1>5. CASE EndInput
  <2>1. /\ n < Len(inputs) /\ inputs[n + 1].readable
        /\ UNCHANGED <<status, inputs>> /\ line' = 0 /\ n' = n + 1
    BY <1>5 DEF EndInput, Reading
  <2>2. ReadPlaces' = ReadPlaces /\ n \in Nat /\ Len(inputs) \in Nat
    BY <1>5, SameRead DEF InputsOK
  <2>3. ~EndedByLine' /\ \A i \in 1..n' : inputs'[i].readable
    BY <1>2, <2>1, <2>2 DEF EndedByLine, Progress
  <2>4. QED
    BY <1>1, <1>2, <2>1, <2>2, <2>3 DEF Progress
<1>6. CASE Finish
  <2>1. /\ n = Len(inputs) /\ UNCHANGED <<inputs, n, line>>
        /\ status' \in {"failed", "done"}
    BY <1>6 DEF Finish
  <2>2. ReadPlaces' = ReadPlaces /\ Len(inputs) \in Nat
    BY <1>1, <2>1 DEF ReadPlaces, InputsOK
  <2>3. ~EndedByLine'
    BY <2>1, <2>2 DEF EndedByLine
  <2>4. line = 0
    BY <2>1, <2>2 DEF Progress
  <2>5. QED
    BY <1>1, <1>2, <2>1, <2>2, <2>3, <2>4 DEF Progress
<1>7. QED
  BY <1>3, <1>4, <1>5, <1>6 DEF Next

LEMMA HandedOnStep == JoinInv /\ Next => HandedOn'
<1> SUFFICES ASSUME JoinInv, Next PROVE HandedOn'
  OBVIOUS
<1> DEFINE R == [place : Places, o : SignalObservation]
<1>1. UNCHANGED <<cfg, inputs>>
  BY DEF Next, Unreadable, ReadLine, EndInput, Finish
<1>2. /\ Places' = Places /\ \A p : Passes(p)' = Passes(p)
      /\ \A p : ObservationAt(p)' = ObservationAt(p)
  BY <1>1, InputsKept
<1>3. InputsOK /\ Progress /\ HandedOn /\ records \in Seq(R)
  BY DEF JoinInv, HandedOn
<1>4. ASSUME records' = records, ReadPlaces' = ReadPlaces PROVE HandedOn'
  BY <1>2, <1>3, <1>4 DEF HandedOn
<1>5. CASE Unreadable
  <2>1. UNCHANGED <<n, line, records>>
    BY <1>5 DEF Unreadable
  <2>2. QED
    BY <1>2, <1>4, <2>1 DEF ReadPlaces
<1>6. CASE Finish
  <2>1. UNCHANGED <<n, line, records>>
    BY <1>6 DEF Finish
  <2>2. QED
    BY <1>2, <1>4, <2>1 DEF ReadPlaces
<1>7. CASE EndInput
  <2>1. records' = records
    BY <1>7 DEF EndInput
  <2>2. QED
    BY <1>3, <1>4, <1>7, <2>1, SameRead
<1>8. CASE ReadLine
  <2> DEFINE p == <<n + 1, line + 1>>
             r == [place |-> p, o |-> ObservationAt(p)]
  <2>1. /\ p \in Places /\ ReadPlaces' = ReadPlaces \cup {p}
        /\ \A q \in ReadPlaces : Earlier(q, p) /\ q # p
    BY <1>3, <1>8, NextPlace
  <2>2. records' = IF Passes(p) THEN Append(records, r) ELSE records
    BY <1>8 DEF ReadLine
  <2>3. CASE ~Passes(p)
    <3>1. records' = records
      BY <2>2, <2>3
    <3>2. \A q \in ReadPlaces' : Passes(q) => q \in ReadPlaces
      BY <2>1, <2>3
    <3>3. QED
      BY <1>2, <1>3, <2>1, <3>1, <3>2 DEF HandedOn
  <2>4. CASE Passes(p)
    <3>1. r \in R /\ r.place = p /\ r.o = ObservationAt(p)
      BY <1>3, <2>1, <2>4, ObservationTypes DEF Passes
    <3> DEFINE m == Len(records) + 1
    <3>2. records' = Append(records, r)
      BY <2>2, <2>4
    <3> HIDE DEF r, p
    <3>3. /\ records' \in Seq(R) /\ DOMAIN records' = DOMAIN records \cup {m}
          /\ m \in Nat
          /\ \A x \in DOMAIN records : records'[x] = records[x] /\ x \in Nat /\ x < m
          /\ records'[m] = r
      BY <1>3, <3>1, <3>2, Appended
    <3> HIDE DEF m
    <3>4. ASSUME NEW x \in DOMAIN records', NEW y \in DOMAIN records', x < y
          PROVE  Earlier(records'[x].place, records'[y].place)
      <4>1. x \in DOMAIN records
        BY <3>3, <3>4
      <4>2. CASE y \in DOMAIN records
        BY <1>3, <3>3, <3>4, <4>1, <4>2 DEF HandedOn
      <4>3. CASE y = m
        <5>1. records[x].place \in ReadPlaces
          BY <1>3, <4>1 DEF HandedOn
        <5>2. QED
          BY <2>1, <3>1, <3>3, <4>1, <4>3, <5>1
      <4>4. QED
        BY <3>3, <4>2, <4>3
    <3>5. ASSUME NEW x \in DOMAIN records'
          PROVE  /\ records'[x].place \in ReadPlaces'
                 /\ Passes(records'[x].place)
                 /\ records'[x].o = ObservationAt(records'[x].place)
      <4>1. CASE x \in DOMAIN records
        BY <1>3, <2>1, <3>3, <4>1 DEF HandedOn
      <4>2. CASE x = m
        BY <2>1, <2>4, <3>1, <3>3, <4>2
      <4>3. QED
        BY <3>3, <4>1, <4>2
    <3>6. ASSUME NEW q \in ReadPlaces', Passes(q)
          PROVE  \E x \in DOMAIN records' : records'[x].place = q
      <4>1. CASE q \in ReadPlaces
        BY <1>3, <3>3, <3>6, <4>1 DEF HandedOn
      <4>2. CASE q = p
        BY <3>1, <3>3, <4>2
      <4>3. QED
        BY <2>1, <3>6, <4>1, <4>2
    <3>7. QED
      BY <1>2, <3>3, <3>4, <3>5, <3>6 DEF HandedOn
  <2>5. QED
    BY <2>3, <2>4
<1>9. QED
  BY <1>5, <1>6, <1>7, <1>8 DEF Next

LEMMA HeadersStep == JoinInv /\ Next => HeadersHandedOn'
<1> SUFFICES ASSUME JoinInv, Next PROVE HeadersHandedOn'
  OBVIOUS
<1> DEFINE H == Places \cup {CommandLine}
           m == Len(headers) + 1
<1>1. UNCHANGED <<cfg, inputs>>
  BY DEF Next, Unreadable, ReadLine, EndInput, Finish
<1>2. /\ Places' = Places /\ CommandLine' = CommandLine
      /\ \A p : LineAt(p)' = LineAt(p)
      /\ \A p, q : Earlier(p, q)' = Earlier(p, q)
  BY <1>1, InputsKept DEF Earlier
<1>3. InputsOK /\ Progress /\ HeadersHandedOn /\ headers \in Seq(H)
  BY DEF JoinInv, HeadersHandedOn
<1>4. ~Finished /\ status = "run"
  BY DEF Next, Unreadable, ReadLine, EndInput, Finish, Reading, Finished
<1>5. \A x \in DOMAIN headers : /\ headers[x] \in ReadPlaces /\ headers[x] \in Places
                                /\ LineAt(headers[x]).kind = "metadata"
  BY <1>3, <1>4 DEF HeadersHandedOn, ReadPlaces
<1>6. ASSUME headers' = headers, ReadPlaces' = ReadPlaces, ~Finished'
      PROVE  HeadersHandedOn'
  BY <1>2, <1>3, <1>5, <1>6 DEF HeadersHandedOn, InPlaceOrder
(* One more header, after all that were there. *)
<1>7. ASSUME NEW p \in H, headers' = Append(headers, p),
             \A q \in Places : q \in ReadPlaces => Earlier(q, p)
      PROVE  /\ headers' \in Seq(H) /\ DOMAIN headers' = DOMAIN headers \cup {m}
             /\ \A x \in DOMAIN headers : headers'[x] = headers[x]
             /\ headers'[m] = p
             /\ InPlaceOrder(headers)'
  <2>1. /\ headers' \in Seq(H) /\ DOMAIN headers' = DOMAIN headers \cup {m} /\ m \in Nat
        /\ \A x \in DOMAIN headers : headers'[x] = headers[x] /\ x \in Nat /\ x < m
        /\ headers'[m] = p
    BY <1>3, <1>7, Appended
  <2> HIDE DEF m
  <2>2. ASSUME NEW x \in DOMAIN headers', NEW y \in DOMAIN headers', x < y
        PROVE  Earlier(headers'[x], headers'[y])
    <3>1. x \in DOMAIN headers
      BY <2>1, <2>2
    <3>2. CASE y \in DOMAIN headers
      BY <1>3, <2>1, <2>2, <3>1, <3>2 DEF HeadersHandedOn, InPlaceOrder
    <3>3. CASE y = m
      BY <1>5, <1>7, <2>1, <3>1, <3>3
    <3>4. QED
      BY <2>1, <3>2, <3>3
  <2>3. QED
    BY <1>2, <2>1, <2>2 DEF InPlaceOrder
<1>8. CASE Unreadable
  <2>1. UNCHANGED <<n, line, headers, inputs>> /\ n < Len(inputs)
    BY <1>8 DEF Unreadable, Reading
  <2>2. ~Finished'
    BY <1>3, <2>1, Counters DEF Finished
  <2>3. QED
    BY <1>2, <1>6, <2>1, <2>2 DEF ReadPlaces
<1>9. CASE EndInput
  <2>1. headers' = headers /\ status' = status
    BY <1>9 DEF EndInput
  <2>2. QED
    BY <1>3, <1>4, <1>6, <1>9, <2>1, SameRead DEF Finished
<1>10. CASE ReadLine
  <2> DEFINE p == <<n + 1, line + 1>>
  <2>1. /\ p \in Places /\ ReadPlaces' = ReadPlaces \cup {p}
        /\ \A q \in ReadPlaces : Earlier(q, p) /\ q # p
    BY <1>3, <1>10, NextPlace
  <2>2. /\ headers' = IF LineAt(p).kind = "metadata" THEN Append(headers, p) ELSE headers
        /\ n < Len(inputs) /\ n' = n /\ inputs' = inputs
    BY <1>10 DEF ReadLine, Reading
  <2>3. ~Finished'
    BY <1>3, <2>2, Counters DEF Finished
  <2> HIDE DEF p
  <2>4. CASE LineAt(p).kind # "metadata"
    <3>1. headers' = headers
      BY <2>2, <2>4
    <3>2. \A q \in ReadPlaces' : LineAt(q).kind = "metadata" => q \in ReadPlaces
      BY <2>1, <2>4
    <3>3. QED
      BY <1>2, <1>3, <1>5, <2>1, <2>3, <3>1, <3>2 DEF HeadersHandedOn, InPlaceOrder
  <2>5. CASE LineAt(p).kind = "metadata"
    <3>1. /\ headers' \in Seq(H) /\ DOMAIN headers' = DOMAIN headers \cup {m}
          /\ \A x \in DOMAIN headers : headers'[x] = headers[x]
          /\ headers'[m] = p
          /\ InPlaceOrder(headers)'
      BY <1>7, <2>1, <2>2, <2>5
    <3> HIDE DEF m
    <3>2. \A x \in DOMAIN headers' : /\ headers'[x] \in ReadPlaces'
                                     /\ LineAt(headers'[x]).kind = "metadata"
      BY <1>5, <2>1, <2>5, <3>1
    <3>3. ASSUME NEW q \in ReadPlaces', LineAt(q).kind = "metadata"
          PROVE  \E x \in DOMAIN headers' : headers'[x] = q
      <4>1. CASE q \in ReadPlaces
        BY <1>3, <3>1, <3>3, <4>1 DEF HeadersHandedOn
      <4>2. CASE q = p
        BY <3>1, <4>2
      <4>3. QED
        BY <2>1, <3>3, <4>1, <4>2
    <3>4. QED
      BY <1>2, <2>3, <3>1, <3>2, <3>3 DEF HeadersHandedOn
  <2>6. QED
    BY <2>4, <2>5
<1>11. CASE Finish
  <2>1. /\ headers' = Append(headers, CommandLine) /\ n = Len(inputs)
        /\ status' # "run" /\ UNCHANGED <<inputs, n, line>>
    BY <1>11 DEF Finish
  <2>2. ReadPlaces' = ReadPlaces /\ Finished'
    BY <1>2, <2>1 DEF ReadPlaces, Finished
  <2>3. \A q \in Places : q \in ReadPlaces => Earlier(q, CommandLine)
    BY <1>3, PlacesOrdered
  <2>4. /\ headers' \in Seq(H) /\ DOMAIN headers' = DOMAIN headers \cup {m}
        /\ \A x \in DOMAIN headers : headers'[x] = headers[x]
        /\ headers'[m] = CommandLine
        /\ InPlaceOrder(headers)'
    BY <1>7, <2>1, <2>3
  <2> HIDE DEF m
  <2>5. \A x \in DOMAIN headers' :
          \/ headers'[x] \in ReadPlaces' /\ LineAt(headers'[x]).kind = "metadata"
          \/ headers'[x] = CommandLine'
    <3>1. ASSUME NEW x \in DOMAIN headers
          PROVE  headers'[x] \in ReadPlaces' /\ LineAt(headers'[x]).kind = "metadata"
      BY <1>5, <2>2, <2>4
    <3>2. QED
      BY <1>2, <2>4, <3>1
  <2>6. ASSUME NEW q \in ReadPlaces', LineAt(q).kind = "metadata"
        PROVE  \E x \in DOMAIN headers' : headers'[x] = q
    BY <1>2, <1>3, <2>2, <2>4, <2>6 DEF HeadersHandedOn
  <2>7. QED
    BY <1>2, <2>2, <2>4, <2>5, <2>6 DEF HeadersHandedOn
<1>12. QED
  BY <1>8, <1>9, <1>10, <1>11 DEF Next

(* What has been read of the inputs, and that just this is what has been   *)
(* handed on.                                                              *)
THEOREM ObsInputsInvariant == Spec => []JoinInv
<1>1. JoinInv /\ [Next]_vars => JoinInv'
  <2>1. ASSUME JoinInv, Next PROVE JoinInv'
    <3>1. UNCHANGED <<cfg, inputs>>
      BY <2>1 DEF Next, Unreadable, ReadLine, EndInput, Finish
    <3>2. InputsOK'
      BY <2>1, <3>1, InputsKept DEF JoinInv
    <3>3. QED
      BY <2>1, <3>2, ProgressStep, HandedOnStep, HeadersStep DEF JoinInv
  <2>2. ASSUME JoinInv, UNCHANGED vars PROVE JoinInv'
    <3>1. /\ UNCHANGED <<n, line, records, headers, status>>
          /\ UNCHANGED <<cfg, inputs>>
      BY <2>2 DEF vars
    <3>2. /\ InputsOK' /\ Places' = Places /\ CommandLine' = CommandLine
          /\ \A p : LineAt(p)' = LineAt(p)
          /\ \A p : Passes(p)' = Passes(p)
          /\ \A p : ObservationAt(p)' = ObservationAt(p)
      BY <2>2, <3>1, InputsKept DEF JoinInv
    <3>3. ReadPlaces' = ReadPlaces
      BY <3>1, <3>2 DEF ReadPlaces
    <3>4. Progress'
      BY <2>2, <3>1, <3>2, <3>3 DEF JoinInv, Progress, EndedByLine
    <3>5. HandedOn'
      BY <2>2, <3>1, <3>2, <3>3 DEF JoinInv, HandedOn
    <3>6. HeadersHandedOn'
      BY <2>2, <3>1, <3>2, <3>3 DEF JoinInv, HeadersHandedOn, InPlaceOrder, Finished
    <3>7. QED
      BY <3>2, <3>4, <3>5, <3>6 DEF JoinInv
  <2>3. QED
    BY <2>1, <2>2
<1>2. QED
  BY <1>1, JoinInit, PTL DEF Spec

(* The variables of the conversion have their types.                       *)
THEOREM ObsInputsTypeCorrect == Spec => []TypeOK
<1>1. JoinInv => TypeOK
  BY DEF JoinInv, InputsOK, Progress, HandedOn, HeadersHandedOn, TypeOK
<1>2. QED
  BY <1>1, ObsInputsInvariant, PTL

-----------------------------------------------------------------------------
(* A line that has been read was not preceded by anything wrong, and is    *)
(* itself wrong only if it ended the conversion.                           *)
LEMMA ReadIsSound ==
  ASSUME JoinInv, NEW p \in ReadPlaces
  PROVE  /\ p \in Places
         /\ LineAt(p).kind # "bad" => SoundUpTo(p)
<1>1. p \in Places /\ InputsOK /\ Progress
  BY DEF ReadPlaces, JoinInv
<1>2. p[1] \in Nat /\ p[2] \in Nat /\ p[2] > 0 /\ n \in Nat /\ line \in Nat
  BY <1>1, PlaceFacts, Counters
<1>3. ASSUME NEW i \in 1..p[1] PROVE inputs[i].readable
  <2>1. p[1] <= n \/ (p[1] = n + 1 /\ line # 0)
    BY <1>2 DEF ReadPlaces
  <2>2. i \in 1..n \/ (i = n + 1 /\ line # 0)
    BY <1>2, <2>1
  <2>3. QED
    BY <1>1, <2>2 DEF Progress
<1>4. ASSUME LineAt(p).kind # "bad", NEW q \in Places, q = p \/ Earlier(q, p)
      PROVE  LineAt(q).kind # "bad"
  <2>1. CASE q = p
    BY <1>4, <2>1
  <2>2. CASE Earlier(q, p)
    <3>1. q[1] \in Nat /\ q[2] \in Nat
      BY <1>1, PlaceFacts
    <3>2. q \in ReadPlaces
      BY <1>2, <2>2, <3>1 DEF ReadPlaces, Earlier
    <3>3. q # <<n + 1, line>>
      BY <1>2, <2>2, <3>1 DEF ReadPlaces, Earlier
    <3>4. QED
      BY <1>1, <3>2, <3>3 DEF Progress
  <2>3. QED
    BY <1>4, <2>1, <2>2
<1>5. QED
  BY <1>1, <1>3, <1>4 DEF SoundUpTo

(* When the conversion has ended, all that is before the first error has   *)
(* been read, and it has finished just when there is none.                 *)
LEMMA EndedFacts ==
  ASSUME JoinInv, status # "run"
  PROVE  /\ \A p \in Places : SoundUpTo(p) => p \in ReadPlaces
         /\ n = Len(inputs) <=> Faultless
<1>1. /\ InputsOK /\ Progress /\ n \in Nat /\ line \in Nat /\ Len(inputs) \in Nat
      /\ n <= Len(inputs)
      /\ n < Len(inputs) => n + 1 \in DOMAIN inputs /\ Len(inputs[n + 1].lines) \in Nat
  BY Counters DEF JoinInv
<1>2. CASE n = Len(inputs)
  <2>1. ASSUME NEW p \in Places PROVE p \in ReadPlaces
    <3>1. p[1] \in DOMAIN inputs /\ p[1] \in Nat
      BY <1>1, PlaceFacts
    <3>2. p[1] <= n
      BY <1>1, <1>2, <3>1 DEF InputsOK
    <3>3. QED
      BY <3>2 DEF ReadPlaces
  <2>2. ~EndedByLine
    BY <1>1, <1>2 DEF EndedByLine
  <2>3. Faultless
    BY <1>1, <1>2, <2>1, <2>2 DEF Faultless, Progress, InputsOK
  <2>4. QED
    BY <1>2, <2>1, <2>3
<1>3. CASE n # Len(inputs) /\ line = 0
  <2>1. n < Len(inputs) /\ status = "failed"
    BY <1>1, <1>3 DEF Progress
  <2>2. ~inputs[n + 1].readable /\ n + 1 \in DOMAIN inputs
    BY <1>1, <1>3, <2>1 DEF Progress
  <2>3. ASSUME NEW p \in Places, SoundUpTo(p) PROVE p \in ReadPlaces
    <3>1. p[1] \in Nat
      BY <1>1, PlaceFacts
    <3>2. n + 1 \notin 1..p[1]
      BY <2>2, <2>3 DEF SoundUpTo
    <3>3. QED
      BY <1>1, <3>1, <3>2 DEF ReadPlaces
  <2>4. QED
    BY <1>3, <2>2, <2>3 DEF Faultless
<1>4. CASE n # Len(inputs) /\ line # 0
  <2> DEFINE e == <<n + 1, line>>
  <2>1. n < Len(inputs) /\ EndedByLine
    BY <1>1, <1>4 DEF Progress, EndedByLine
  <2>2. e \in Places
    <3>1. line \in 1..Len(inputs[n + 1].lines)
      BY <1>1, <1>4, <2>1 DEF Progress
    <3>2. QED
      BY <1>1, <2>1, <3>1, PlaceThere
  <2>3. e \in ReadPlaces /\ LineAt(e).kind = "bad"
    <3>1. e \in ReadPlaces
      BY <1>1, <2>2 DEF ReadPlaces
    <3>2. QED
      BY <1>1, <2>1, <3>1 DEF Progress
  <2>4. ASSUME NEW p \in Places, SoundUpTo(p) PROVE p \in ReadPlaces
    <3>1. p = <<p[1], p[2]>> /\ p[1] \in Nat /\ p[2] \in Nat
      BY <1>1, PlaceFacts
    <3>2. ~(e = p \/ Earlier(e, p))
      BY <2>2, <2>3, <2>4 DEF SoundUpTo
    <3>3. QED
      BY <1>1, <3>1, <3>2 DEF ReadPlaces, Earlier
  <2>5. QED
    BY <1>4, <2>2, <2>3, <2>4 DEF Faultless
<1>5. QED
  BY <1>2, <1>3, <1>4

(* What is handed to the writer is at any time the first part of what the  *)
(* inputs hold before the first error, in their order and filtered, and in *)
(* the end all of it; the command line's metadata come last, and only when *)
(* nothing was wrong (stream_obsj, convert_observation_inputs).            *)
THEOREM ObsInputsUpToTheError == Spec => []UpToTheError
<1>1. ASSUME JoinInv PROVE UpToTheError
  <2> DEFINE places == [x \in DOMAIN records |-> records[x].place]
             C == IF Faultless /\ status # "run" THEN {CommandLine} ELSE {}
  <2>1. InputsOK /\ Progress /\ HandedOn /\ HeadersHandedOn
    BY <1>1 DEF JoinInv
  <2>2. \A p \in ReadPlaces : p \in Places /\ (LineAt(p).kind # "bad" => SoundUpTo(p))
    BY <1>1, ReadIsSound
  <2>3. \A x \in DOMAIN records : /\ records[x].place \in ReadPlaces
                                  /\ Passes(records[x].place)
                                  /\ records[x].o = ObservationAt(records[x].place)
    BY <2>1 DEF HandedOn
  <2>4. \A p, q \in Places : Earlier(p, q) /\ q \in ReadPlaces => p \in ReadPlaces
    <3>1. ASSUME NEW p \in Places, NEW q \in Places, Earlier(p, q), q \in ReadPlaces
          PROVE  p \in ReadPlaces
      <4>1. p[1] \in Nat /\ p[2] \in Nat /\ q[1] \in Nat /\ q[2] \in Nat
        BY <2>1, PlaceFacts
      <4>2. n \in Nat /\ line \in Nat
        BY <2>1, Counters
      <4>3. QED
        BY <3>1, <4>1, <4>2 DEF ReadPlaces, Earlier
    <3>2. QED
      BY <3>1
  <2>5. \A x \in DOMAIN records : places[x] \in WantedRecords
    BY <2>2, <2>3 DEF WantedRecords, Passes
  <2>6. ASSUME NEW p \in WantedRecords, p \in ReadPlaces
        PROVE  \E x \in DOMAIN records : places[x] = p
    <3>1. Passes(p)
      BY <2>6 DEF WantedRecords, Passes
    <3>2. QED
      BY <2>1, <2>6, <3>1 DEF HandedOn
  <2>7. IsFirstOf(places, WantedRecords)
    <3>1. DOMAIN places = DOMAIN records
      OBVIOUS
    <3>2. ASSUME NEW x \in DOMAIN places, NEW p \in WantedRecords, Earlier(p, places[x])
          PROVE  \E y \in DOMAIN places : places[y] = p
      <4>1. p \in Places /\ places[x] \in ReadPlaces
        BY <2>3 DEF WantedRecords
      <4>2. p \in ReadPlaces
        BY <2>2, <2>4, <3>2, <4>1
      <4>3. QED
        BY <2>6, <4>2
    <3>3. \A x, y \in DOMAIN places : x < y => Earlier(places[x], places[y])
      BY <2>1 DEF HandedOn
    <3> HIDE DEF places
    <3>4. QED
      BY <2>5, <3>1, <3>2, <3>3 DEF IsFirstOf
  <2>8. status # "run" => Range(places) = WantedRecords
    <3>1. SUFFICES ASSUME status # "run", NEW p
                   PROVE  p \in Range(places) <=> p \in WantedRecords
      OBVIOUS
    <3>2. p \in WantedRecords => p \in ReadPlaces
      BY <1>1, <3>1, EndedFacts DEF WantedRecords
    <3>3. p \in Range(places) <=> \E x \in DOMAIN records : places[x] = p
      BY DEF Range
    <3> HIDE DEF places
    <3>4. QED
      BY <2>5, <2>6, <3>2, <3>3
  <2>9. status # "run" => (Finished <=> Faultless)
    BY <1>1, EndedFacts DEF Finished
  <2>10. \A x \in DOMAIN headers :
           \/ headers[x] \in ReadPlaces /\ headers[x] \in WantedHeaders
           \/ headers[x] = CommandLine /\ headers[x] \in C
    <3>1. ASSUME NEW x \in DOMAIN headers, headers[x] \in ReadPlaces,
                 LineAt(headers[x]).kind = "metadata"
          PROVE  headers[x] \in WantedHeaders
      BY <2>2, <3>1 DEF WantedHeaders
    <3>2. Finished => CommandLine \in C
      BY <2>9 DEF Finished
    <3>3. QED
      BY <2>1, <3>1, <3>2 DEF HeadersHandedOn
  <2>11. ASSUME NEW p \in WantedHeaders, p \in ReadPlaces
         PROVE  \E x \in DOMAIN headers : headers[x] = p
    BY <2>1, <2>11 DEF HeadersHandedOn, WantedHeaders
  <2>12. \A p \in C : p = CommandLine /\ \E x \in DOMAIN headers : headers[x] = p
    BY <2>1, <2>9 DEF HeadersHandedOn
  <2>13. \A p \in WantedHeaders : p \in Places /\ Earlier(p, CommandLine)
    BY <2>1, PlacesOrdered DEF WantedHeaders
  <2>14. status # "run" => \A p \in WantedHeaders : p \in ReadPlaces
    BY <1>1, EndedFacts DEF WantedHeaders
  <2>15. IsFirstOf(headers, WantedHeaders \cup C)
    <3>1. ASSUME NEW x \in DOMAIN headers, NEW p \in WantedHeaders \cup C,
                 Earlier(p, headers[x])
          PROVE  \E y \in DOMAIN headers : headers[y] = p
      <4>1. CASE p \in C
        BY <2>12, <4>1
      <4>2. CASE p \in WantedHeaders /\ headers[x] \in ReadPlaces
        <5>1. p \in ReadPlaces
          BY <2>2, <2>4, <2>13, <3>1, <4>2
        <5>2. QED
          BY <2>11, <4>2, <5>1
      <4>3. CASE p \in WantedHeaders /\ headers[x] \in C
        <5>1. p \in ReadPlaces
          BY <2>14, <4>3
        <5>2. QED
          BY <2>11, <4>3, <5>1
      <4>4. QED
        BY <2>10, <3>1, <4>1, <4>2, <4>3
    <3>2. \A x \in DOMAIN headers : headers[x] \in WantedHeaders \cup C
      BY <2>10
    <3>3. \A x, y \in DOMAIN headers : x < y => Earlier(headers[x], headers[y])
      BY <2>1 DEF HeadersHandedOn, InPlaceOrder
    <3> HIDE DEF C
    <3>4. QED
      BY <3>1, <3>2, <3>3 DEF IsFirstOf
  <2>16. status # "run" => Range(headers) = WantedHeaders \cup C
    <3>1. SUFFICES ASSUME status # "run", NEW p
                   PROVE  p \in Range(headers) <=> p \in WantedHeaders \cup C
      OBVIOUS
    <3>2. p \in Range(headers) <=> \E x \in DOMAIN headers : headers[x] = p
      BY DEF Range
    <3>3. p \in WantedHeaders => \E x \in DOMAIN headers : headers[x] = p
      BY <2>11, <2>14, <3>1
    <3> HIDE DEF C
    <3>4. QED
      BY <2>10, <2>12, <3>2, <3>3
  <2>17. \A x \in DOMAIN records :
           LET o == LineAt(places[x]).o
           IN  /\ records[x].o.key = o.key /\ records[x].o.t = o.t
               /\ records[x].o.phase = o.phase
    <3>1. ASSUME NEW x \in DOMAIN records
          PROVE  LET o == LineAt(records[x].place).o
                 IN  /\ records[x].o.key = o.key /\ records[x].o.t = o.t
                     /\ records[x].o.phase = o.phase
      <4>1. records[x].place \in Places /\ LineAt(records[x].place).kind = "observation"
        BY <2>2, <2>3 DEF Passes
      <4>2. QED
        BY <2>1, <2>3, <4>1, ObservationTypes
    <3>2. QED
      BY <3>1
  <2>18. status = "done" => Faultless
    BY <2>1, <2>9 DEF Progress, Finished
  <2>19. status # "run" => C = IF Faultless THEN {CommandLine} ELSE {}
    OBVIOUS
  <2> HIDE DEF places, C
  <2>20. QED
    BY <2>7, <2>8, <2>15, <2>16, <2>17, <2>18, <2>19 DEF UpToTheError, places, C
<1>2. QED
  BY <1>1, ObsInputsInvariant, PTL

-----------------------------------------------------------------------------
(* A set of naturals has a least member.                                   *)
LEMMA NatMin ==
  ASSUME NEW S \in SUBSET Nat, S # {}
  PROVE  \E m \in S : \A k \in S : m <= k
<1>1. \E m \in S : \A k \in S : ~(<<k, m>> \in OpToRel(<, Nat))
  BY NatLessThanWellFounded, WFMin
<1>2. ASSUME NEW m \in S, NEW k \in S, k < m
      PROVE  <<k, m>> \in OpToRel(<, Nat)
  BY <1>2 DEF OpToRel
<1>3. PICK m \in S : \A k \in S : ~(k < m)
  BY <1>1, <1>2
<1>4. \A k \in S : m <= k
  BY <1>3
<1>5. QED
  BY <1>4

(* So does a set of naturals below a bound have a greatest.                *)
LEMMA NatMax ==
  ASSUME NEW b \in Nat, NEW S \in SUBSET (0..b), S # {}
  PROVE  \E m \in S : \A k \in S : k <= m
<1> DEFINE T == {b - x : x \in S}
<1>1. T \in SUBSET Nat /\ T # {}
  OBVIOUS
<1>2. PICK m \in T : \A k \in T : m <= k
  BY <1>1, NatMin
<1>3. PICK x \in S : m = b - x
  BY <1>2
<1>4. \A y \in S : b - x <= b - y
  BY <1>2, <1>3
<1>5. \A y \in S : y <= x
  BY <1>4
<1>6. QED
  BY <1>5

LEMMA ObservationFields ==
  ASSUME NEW s \in Seq(SignalObservation), NEW i \in DOMAIN s
  PROVE  /\ i \in Nat /\ i > 0 /\ i <= Len(s) /\ Len(s) \in Nat /\ DOMAIN s = 1..Len(s)
         /\ s[i] \in SignalObservation
         /\ s[i].key \in Keys /\ s[i].t \in Nat /\ s[i].arc \in Nat
         /\ s[i].phase \in BOOLEAN /\ s[i].code \in BOOLEAN /\ s[i].hc \in BOOLEAN
<1>1. /\ i \in Nat /\ i > 0 /\ i <= Len(s) /\ Len(s) \in Nat /\ DOMAIN s = 1..Len(s)
      /\ s[i] \in SignalObservation
  OBVIOUS
<1>2. QED
  BY <1>1 DEF SignalObservation

(* The order in which the writer sees the observations of s: that of time, *)
(* and in an epoch as they came.                                           *)
Precedes(s, j, i) == s[j].t < s[i].t \/ (s[j].t = s[i].t /\ j < i)

LEMMA PrecedesOrders ==
  ASSUME NEW s \in Seq(SignalObservation), NEW i \in DOMAIN s, NEW j \in DOMAIN s
  PROVE  /\ i = j \/ Precedes(s, i, j) \/ Precedes(s, j, i)
         /\ ~(Precedes(s, i, j) /\ Precedes(s, j, i)) /\ ~Precedes(s, i, i)
         /\ \A k \in DOMAIN s :
              Precedes(s, i, j) /\ Precedes(s, j, k) => Precedes(s, i, k)
<1>1. \A k \in DOMAIN s : k \in Nat /\ s[k].t \in Nat
  BY ObservationFields
<1>2. QED
  BY <1>1 DEF Precedes

NotAfter(s, i) ==
  {j \in DOMAIN s : s[j].t < s[i].t \/ (s[j].t = s[i].t /\ j <= i)}

LEMMA SortedPlace ==
  ASSUME NEW s \in Seq(SignalObservation), NEW i \in DOMAIN s
  PROVE  /\ Cardinality(NotAfter(s, i)) \in DOMAIN s
         /\ \A j \in DOMAIN s :
              Precedes(s, j, i) => Cardinality(NotAfter(s, j)) < Cardinality(NotAfter(s, i))
<1>1. PICK m \in Nat : m = Len(s) /\ DOMAIN s = 1..m
  OBVIOUS
<1>2. \A j \in DOMAIN s : s[j].t \in Nat /\ j \in Nat
  BY ObservationFields
<1>3. \A j \in DOMAIN s : NotAfter(s, j) \in SUBSET (1..m) /\ j \in NotAfter(s, j)
  BY <1>1, <1>2 DEF NotAfter
<1>4. IsFiniteSet(1..m) /\ Cardinality(1..m) = m
  BY FS_Interval
<1>5. \A j \in DOMAIN s : /\ IsFiniteSet(NotAfter(s, j))
                          /\ Cardinality(NotAfter(s, j)) <= m
                          /\ Cardinality(NotAfter(s, j)) \in Nat
  BY <1>3, <1>4, FS_Subset, FS_CardinalityType
<1>6. Cardinality(NotAfter(s, i)) # 0
  BY <1>3, <1>5, FS_EmptySet
<1>7. Cardinality(NotAfter(s, i)) \in DOMAIN s
  BY <1>1, <1>5, <1>6
<1>8. ASSUME NEW j \in DOMAIN s, Precedes(s, j, i)
      PROVE  Cardinality(NotAfter(s, j)) < Cardinality(NotAfter(s, i))
  <2>1. NotAfter(s, j) \in SUBSET NotAfter(s, i) /\ i \notin NotAfter(s, j)
    BY <1>2, <1>8 DEF NotAfter, Precedes
  <2>2. /\ Cardinality(NotAfter(s, j)) <= Cardinality(NotAfter(s, i))
        /\ Cardinality(NotAfter(s, i)) = Cardinality(NotAfter(s, j))
             => NotAfter(s, i) = NotAfter(s, j)
    BY <1>5, <2>1, FS_Subset
  <2>3. Cardinality(NotAfter(s, i)) # Cardinality(NotAfter(s, j))
    BY <1>3, <2>1, <2>2
  <2>4. QED
    BY <1>5, <1>8, <2>2, <2>3
<1>9. QED
  BY <1>7, <1>8

(* Sorting puts every observation in a place, each in one of its own, in   *)
(* that order.                                                             *)
IsSorting(s, u, pl) ==
  /\ DOMAIN u = DOMAIN s
  /\ pl \in [DOMAIN s -> DOMAIN s]
  /\ \A m \in DOMAIN s : \E i \in DOMAIN s : pl[i] = m
  /\ \A i, j \in DOMAIN s : pl[j] < pl[i] <=> Precedes(s, j, i)
  /\ \A i \in DOMAIN s : u[pl[i]] = s[i]

LEMMA SortingExists ==
  ASSUME NEW s \in Seq(SignalObservation)
  PROVE  /\ Sorted(s) \in Seq(SignalObservation)
         /\ \E pl : IsSorting(s, Sorted(s), pl)
<1> DEFINE D == DOMAIN s
           pl == [i \in D |-> Cardinality(NotAfter(s, i))]
<1>1. pl \in [D -> D] /\ \A i \in D : pl[i] = Cardinality(NotAfter(s, i))
  BY SortedPlace
<1>2. \A i \in D : pl[i] \in Nat /\ s[i] \in SignalObservation
  BY <1>1, ObservationFields
<1>3. \A i, j \in D : Precedes(s, j, i) => pl[j] < pl[i]
  BY <1>1, SortedPlace
<1>4. \A i, j \in D : pl[j] < pl[i] <=> Precedes(s, j, i)
  BY <1>2, <1>3, PrecedesOrders
<1>5. \A i, j \in D : pl[i] = pl[j] => i = j
  BY <1>2, <1>4, PrecedesOrders
<1>6. IsFiniteSet(D)
  <2>1. PICK m \in Nat : D = 1..m
    OBVIOUS
  <2>2. QED
    BY <2>1, FS_Interval
<1>7. pl \in Injection(D, D)
  BY <1>1, <1>5 DEF Injection, IsInjective
<1>8. pl \in Surjection(D, D)
  BY <1>6, <1>7, FS_Injection
<1>9. \A m \in D : \E i \in D : pl[i] = m
  BY <1>8 DEF Surjection
<1>10. Sorted(s) = [m \in D |-> s[CHOOSE i \in D : Cardinality(NotAfter(s, i)) = m]]
  BY DEF Sorted, NotAfter
<1>11. \A m \in D : (CHOOSE i \in D : Cardinality(NotAfter(s, i)) = m)
                      = CHOOSE i \in D : pl[i] = m
  BY <1>1, Zenon
<1> DEFINE from(m) == CHOOSE i \in D : pl[i] = m
<1>12. ASSUME NEW m \in D
       PROVE  Sorted(s)[m] = s[from(m)] /\ from(m) \in D /\ pl[from(m)] = m
  <2>1. Sorted(s)[m] = s[CHOOSE i \in D : Cardinality(NotAfter(s, i)) = m]
    BY <1>10, Zenon
  <2>2. Sorted(s)[m] = s[from(m)]
    BY <1>11, <2>1, Zenon
  <2>3. from(m) \in D /\ pl[from(m)] = m
    <3> HIDE DEF pl
    <3>1. \E i \in D : pl[i] = m
      BY <1>9
    <3>2. QED
      BY <3>1, Zenon
  <2>4. QED
    BY <2>2, <2>3
<1> HIDE DEF pl, from
<1>13. DOMAIN Sorted(s) = D /\ Sorted(s) \in Seq(SignalObservation)
  <2>1. PICK m \in Nat : D = 1..m
    OBVIOUS
  <2>2. Sorted(s) \in [1..m -> SignalObservation]
    BY <1>2, <1>10, <1>12, <2>1
  <2>3. QED
    BY <2>1, <2>2
<1>14. \A i \in D : Sorted(s)[pl[i]] = s[i]
  BY <1>1, <1>5, <1>12
<1>15. IsSorting(s, Sorted(s), pl)
  BY <1>1, <1>4, <1>9, <1>13, <1>14 DEF IsSorting
<1>16. QED
  BY <1>13, <1>15

(* Between two observations of a signal whose arcs differ there is a bit.  *)
LEMMA BitWhereArcMoves ==
  ASSUME NEW u \in Seq(SignalObservation), NEW i \in DOMAIN u, NEW j \in DOMAIN u,
         i < j, u[i].key = u[j].key, u[i].arc # u[j].arc
  PROVE  \E x \in DOMAIN u : i < x /\ x <= j /\ u[x].key = u[i].key /\ Lli(u, x)
<1> DEFINE M == {x \in DOMAIN u : /\ i < x /\ x <= j /\ u[x].key = u[i].key
                                  /\ u[x].arc # u[i].arc}
<1>1. DOMAIN u = 1..Len(u) /\ Len(u) \in Nat /\ i \in Nat /\ j \in Nat
  BY ObservationFields
<1>2. M \in SUBSET Nat /\ j \in M
  BY <1>1
<1>3. PICK x \in M : \A y \in M : x <= y
  BY <1>2, NatMin
<1>4. /\ x \in DOMAIN u /\ x \in Nat /\ i < x /\ x <= j /\ u[x].key = u[i].key
      /\ u[x].arc # u[i].arc
  BY <1>1
<1>5. Before(u, x) \in SUBSET (0..x) /\ i \in Before(u, x)
  BY <1>1, <1>4 DEF Before
<1>6. PICK g \in Before(u, x) : \A y \in Before(u, x) : y <= g
  BY <1>4, <1>5, NatMax
<1>7. i <= g /\ g < x /\ g \in DOMAIN u /\ u[g].key = u[i].key /\ g \in Nat
  BY <1>1, <1>4, <1>5, <1>6 DEF Before
<1>8. u[g].arc = u[i].arc
  <2>1. CASE g = i
    BY <2>1
  <2>2. CASE g # i
    <3>1. g \notin M
      BY <1>3, <1>4, <1>7
    <3>2. i < g /\ g <= j
      BY <1>1, <1>4, <1>7, <2>2
    <3>3. QED
      BY <1>7, <3>1, <3>2
  <2>3. QED
    BY <2>1, <2>2
<1>9. Lli(u, x)
  BY <1>4, <1>6, <1>8 DEF Lli
<1>10. QED
  BY <1>4, <1>9
-----------------------------------------------------------------------------
(* The file that is written of Sorted(s), said of s itself.                *)
Earliers(s, i) == {x \in DOMAIN s : s[x].key = s[i].key /\ Precedes(s, x, i)}

BitAt(s, i) ==
  \/ Earliers(s, i) = {} /\ s[i].arc # 0
  \/ \E x \in Earliers(s, i) :
       /\ \A y \in Earliers(s, i) : y = x \/ Precedes(s, y, x)
       /\ s[i].arc # s[x].arc

WantsField(b, s, i, col) ==
  IF col = "C" THEN s[i].code
  ELSE s[i].phase \/ (b = "internal" /\ (BitAt(s, i) \/ s[i].hc))

HasColumn(s, i, col) ==
  \E k \in DOMAIN s :
    /\ s[k].key = s[i].key
    /\ s[k].code \/ (col = "L" /\ (s[k].phase \/ BitAt(s, k) \/ s[k].hc))

FieldOf(s, i, col) ==
  [key |-> s[i].key, t |-> s[i].t, col |-> col,
   val |-> IF col = "C" THEN TRUE ELSE s[i].phase,
   ll |-> col = "L" /\ BitAt(s, i),
   hc |-> col = "L" /\ s[i].hc]

IsFirst(b, s, i, col) ==
  \A j \in DOMAIN s :
    /\ Precedes(s, j, i) /\ s[j].key = s[i].key /\ s[j].t = s[i].t
    => ~WantsField(b, s, j, col)

Fills(b, s, i, col) ==
  WantsField(b, s, i, col) /\ HasColumn(s, i, col) /\ IsFirst(b, s, i, col)

(* The same of the sorted observations, as Written has it.                 *)
IsFirstInOrder(b, u, m, col) ==
  \A j \in 1..(m - 1) :
    Wants(b, u, j, col) => <<u[j].key, u[j].t>> # <<u[m].key, u[m].t>>

(* What the places of two observations say of them.                        *)
LEMMA SortingAt ==
  ASSUME NEW s \in Seq(SignalObservation), NEW u, NEW pl, IsSorting(s, u, pl),
         NEW x \in DOMAIN s
  PROVE  /\ u[pl[x]] = s[x] /\ pl[x] \in DOMAIN s /\ pl[x] \in DOMAIN u /\ pl[x] \in Nat
         /\ \A y \in DOMAIN s : /\ pl[y] < pl[x] <=> Precedes(s, y, x)
                                /\ pl[x] < pl[y] <=> Precedes(s, x, y)
                                /\ pl[y] <= pl[x] <=> y = x \/ Precedes(s, y, x)
<1>1. u[pl[x]] = s[x] /\ pl[x] \in DOMAIN s /\ pl[x] \in DOMAIN u
  BY DEF IsSorting
<1>2. pl[x] \in Nat
  BY <1>1, ObservationFields
<1>3. ASSUME NEW y \in DOMAIN s
      PROVE  /\ pl[y] < pl[x] <=> Precedes(s, y, x)
             /\ pl[x] < pl[y] <=> Precedes(s, x, y)
             /\ pl[y] <= pl[x] <=> y = x \/ Precedes(s, y, x)
  <2>1. pl[y] < pl[x] <=> Precedes(s, y, x)
    BY DEF IsSorting
  <2>2. pl[x] < pl[y] <=> Precedes(s, x, y)
    BY DEF IsSorting
  <2>3. pl[y] \in Nat
    <3>1. pl[y] \in DOMAIN s
      BY DEF IsSorting
    <3>2. QED
      BY <3>1, ObservationFields
  <2>4. pl[y] <= pl[x] <=> ~(pl[x] < pl[y])
    BY <1>2, <2>3
  <2>5. ~Precedes(s, x, y) <=> y = x \/ Precedes(s, y, x)
    BY PrecedesOrders
  <2>6. QED
    BY <2>1, <2>2, <2>4, <2>5
<1>4. QED
  BY <1>1, <1>2, <1>3

(* Of every place there is an observation.                                 *)
LEMMA SortingFrom ==
  ASSUME NEW s \in Seq(SignalObservation), NEW u, NEW pl, IsSorting(s, u, pl),
         NEW m \in DOMAIN u
  PROVE  \E x \in DOMAIN s : pl[x] = m /\ u[m] = s[x]
BY DEF IsSorting

LEMMA SortedBits ==
  ASSUME NEW s \in Seq(SignalObservation), NEW u \in Seq(SignalObservation),
         NEW pl, IsSorting(s, u, pl), NEW i \in DOMAIN s
  PROVE  Lli(u, pl[i]) <=> BitAt(s, i)
<1> DEFINE c == pl[i]
           E == Earliers(s, i)
           B == Before(u, c)
<1>1. /\ u[c] = s[i] /\ c \in DOMAIN u
      /\ \A y \in DOMAIN s : pl[y] < c <=> Precedes(s, y, i)
  BY SortingAt
<1>2. c \in Nat /\ DOMAIN u = 1..Len(u) /\ Len(u) \in Nat
  BY <1>1, ObservationFields
<1> HIDE DEF c
<1>3. B = {m \in DOMAIN u : u[m].key = s[i].key /\ m < c}
  BY <1>1, <1>2 DEF Before
<1>4. ASSUME NEW x \in DOMAIN s PROVE pl[x] \in B <=> x \in E
  <2>1. u[pl[x]] = s[x] /\ pl[x] \in DOMAIN u
    BY SortingAt
  <2>2. pl[x] \in B <=> s[x].key = s[i].key /\ pl[x] < c
    BY <1>3, <2>1
  <2>3. QED
    BY <1>1, <2>2 DEF Earliers
<1>5. E \in SUBSET DOMAIN s /\ B \in SUBSET DOMAIN u
  BY <1>3 DEF Earliers
<1>6. ASSUME NEW m \in B PROVE \E x \in E : pl[x] = m /\ u[m] = s[x]
  BY <1>4, <1>5, SortingFrom
<1>7. B = {} <=> E = {}
  BY <1>4, <1>5, <1>6
<1>8. ASSUME NEW x \in E
      PROVE  (\A k \in B : k <= pl[x]) <=> \A y \in E : y = x \/ Precedes(s, y, x)
  <2>1. x \in DOMAIN s
    BY <1>5
  <2>2. \A y \in DOMAIN s : pl[y] <= pl[x] <=> y = x \/ Precedes(s, y, x)
    BY <2>1, SortingAt
  <2>3. \A y \in E : pl[y] \in B
    BY <1>4, <1>5
  <2>4. \A k \in B : \E y \in E : pl[y] = k
    BY <1>6
  <2> HIDE DEF B, E
  <2>5. QED
    BY <1>5, <2>2, <2>3, <2>4
<1>9. (\E m \in B : (\A k \in B : k <= m) /\ u[c].arc # u[m].arc)
      <=> \E x \in E : /\ \A y \in E : y = x \/ Precedes(s, y, x)
                       /\ s[i].arc # s[x].arc
  <2>1. ASSUME NEW m \in B, \A k \in B : k <= m, u[c].arc # u[m].arc
        PROVE  \E x \in E : /\ \A y \in E : y = x \/ Precedes(s, y, x)
                            /\ s[i].arc # s[x].arc
    <3>1. PICK x \in E : pl[x] = m /\ u[m] = s[x]
      BY <1>6
    <3>2. \A y \in E : y = x \/ Precedes(s, y, x)
      BY <1>8, <2>1, <3>1
    <3>3. QED
      BY <1>1, <2>1, <3>1, <3>2
  <2>2. ASSUME NEW x \in E, \A y \in E : y = x \/ Precedes(s, y, x), s[i].arc # s[x].arc
        PROVE  \E m \in B : (\A k \in B : k <= m) /\ u[c].arc # u[m].arc
    <3>1. pl[x] \in B /\ u[pl[x]] = s[x]
      BY <1>4, <1>5, SortingAt
    <3>2. \A k \in B : k <= pl[x]
      BY <1>8, <2>2
    <3>3. QED
      BY <1>1, <2>2, <3>1, <3>2
  <2>3. QED
    BY <2>1, <2>2
<1>10. Lli(u, c) <=> \/ B = {} /\ u[c].arc # 0
                     \/ \E m \in B : (\A k \in B : k <= m) /\ u[c].arc # u[m].arc
  BY DEF Lli
<1>11. BitAt(s, i) <=> \/ E = {} /\ s[i].arc # 0
                       \/ \E x \in E : /\ \A y \in E : y = x \/ Precedes(s, y, x)
                                       /\ s[i].arc # s[x].arc
  BY DEF BitAt
<1> HIDE DEF B, E
<1>12. QED
  BY <1>1, <1>7, <1>9, <1>10, <1>11 DEF c

(* How the observation in place pl[x] is written.                          *)
LEMMA SortedField ==
  ASSUME NEW s \in Seq(SignalObservation), NEW u \in Seq(SignalObservation),
         NEW pl, IsSorting(s, u, pl), NEW x \in DOMAIN s, NEW col \in {"C", "L"}, NEW b
  PROVE  /\ Wants(b, u, pl[x], col) <=> WantsField(b, s, x, col)
         /\ Field(u, pl[x], col) = FieldOf(s, x, col)
<1>1. u[pl[x]] = s[x]
  BY SortingAt
<1>2. Lli(u, pl[x]) <=> BitAt(s, x)
  BY SortedBits
<1>3. Wants(b, u, pl[x], col) <=> WantsField(b, s, x, col)
  BY <1>1, <1>2 DEF Wants, WantsPhase, WantsField
<1>4. (col = "L" /\ Lli(u, pl[x])) = (col = "L" /\ BitAt(s, x))
  BY <1>2
<1>5. QED
  BY <1>1, <1>3, <1>4 DEF Field, FieldOf

LEMMA SortedColumn ==
  ASSUME NEW s \in Seq(SignalObservation), NEW u \in Seq(SignalObservation),
         NEW pl, IsSorting(s, u, pl), NEW x \in DOMAIN s, NEW col \in {"C", "L"}
  PROVE  <<s[x].key, col>> \in Columns(u) <=> HasColumn(s, x, col)
<1> DEFINE has(o, bit) == o.code \/ (col = "L" /\ (o.phase \/ bit \/ o.hc))
<1>1. <<s[x].key, col>> \in Columns(u) <=>
        \E m \in DOMAIN u : u[m].key = s[x].key /\ has(u[m], Lli(u, m))
  BY DEF Columns
<1>2. HasColumn(s, x, col) <=>
        \E k \in DOMAIN s : s[k].key = s[x].key /\ has(s[k], BitAt(s, k))
  BY DEF HasColumn
<1>3. ASSUME NEW k \in DOMAIN s
      PROVE  pl[k] \in DOMAIN u /\ u[pl[k]] = s[k] /\ (Lli(u, pl[k]) <=> BitAt(s, k))
  BY SortingAt, SortedBits
<1>4. ASSUME NEW m \in DOMAIN u
      PROVE  \E k \in DOMAIN s : u[m] = s[k] /\ (Lli(u, m) <=> BitAt(s, k))
  <2>1. PICK k \in DOMAIN s : pl[k] = m
    BY SortingFrom
  <2>2. QED
    BY <1>3, <2>1
<1>5. ASSUME NEW m \in DOMAIN u, u[m].key = s[x].key, has(u[m], Lli(u, m))
      PROVE  \E k \in DOMAIN s : s[k].key = s[x].key /\ has(s[k], BitAt(s, k))
  BY <1>4, <1>5
<1>6. ASSUME NEW k \in DOMAIN s, s[k].key = s[x].key, has(s[k], BitAt(s, k))
      PROVE  \E m \in DOMAIN u : u[m].key = s[x].key /\ has(u[m], Lli(u, m))
  <2>1. pl[k] \in DOMAIN u /\ u[pl[k]].key = s[x].key /\ has(u[pl[k]], Lli(u, pl[k]))
    BY <1>3, <1>6
  <2> HIDE DEF has
  <2>2. QED
    BY <2>1
<1> HIDE DEF has
<1>7. QED
  BY <1>1, <1>2, <1>5, <1>6

(* That observation is the first in its epoch to want the field.           *)
LEMMA SortedFirst ==
  ASSUME NEW s \in Seq(SignalObservation), NEW u \in Seq(SignalObservation),
         NEW pl, IsSorting(s, u, pl), NEW x \in DOMAIN s, NEW col \in {"C", "L"}, NEW b
  PROVE  IsFirstInOrder(b, u, pl[x], col) <=> IsFirst(b, s, x, col)
<1>1. /\ pl[x] \in DOMAIN u /\ u[pl[x]] = s[x]
      /\ \A y \in DOMAIN s : pl[y] < pl[x] <=> Precedes(s, y, x)
  BY SortingAt
<1>2. pl[x] \in Nat /\ pl[x] <= Len(u) /\ DOMAIN u = 1..Len(u) /\ Len(u) \in Nat
  BY <1>1, ObservationFields
<1>3. ASSUME NEW j \in DOMAIN s
      PROVE  /\ pl[j] \in 1..(pl[x] - 1) <=> Precedes(s, j, x)
             /\ u[pl[j]] = s[j] /\ (Wants(b, u, pl[j], col) <=> WantsField(b, s, j, col))
  <2> DEFINE y == pl[j]
  <2>1. y \in DOMAIN u /\ u[y] = s[j] /\ (y < pl[x] <=> Precedes(s, j, x))
    BY <1>1, SortingAt
  <2>2. y \in Nat /\ y > 0
    <3> HIDE DEF y
    <3>1. QED
      BY <2>1, ObservationFields
  <2>3. pl[j] \in 1..(pl[x] - 1) <=> Precedes(s, j, x)
    BY <1>2, <2>1, <2>2
  <2>4. QED
    BY <2>1, <2>3, SortedField
<1>4. ASSUME NEW j \in 1..(pl[x] - 1)
      PROVE  \E k \in DOMAIN s : pl[k] = j /\ u[j] = s[k]
  <2>1. j \in DOMAIN u
    BY <1>2
  <2>2. QED
    BY <2>1, SortingFrom
<1>5. ASSUME NEW j \in DOMAIN s, Precedes(s, j, x), s[j].key = s[x].key, s[j].t = s[x].t,
             WantsField(b, s, j, col)
      PROVE  \E k \in 1..(pl[x] - 1) :
               Wants(b, u, k, col) /\ <<u[k].key, u[k].t>> = <<s[x].key, s[x].t>>
  BY <1>3, <1>5
<1>6. ASSUME NEW k \in 1..(pl[x] - 1), Wants(b, u, k, col),
             <<u[k].key, u[k].t>> = <<s[x].key, s[x].t>>
      PROVE  \E j \in DOMAIN s :
               /\ Precedes(s, j, x) /\ s[j].key = s[x].key /\ s[j].t = s[x].t
               /\ WantsField(b, s, j, col)
  <2>1. PICK j \in DOMAIN s : pl[j] = k
    BY <1>4
  <2>2. QED
    BY <1>3, <1>6, <2>1
<1>7. IsFirstInOrder(b, u, pl[x], col) <=>
        \A k \in 1..(pl[x] - 1) :
          ~(Wants(b, u, k, col) /\ <<u[k].key, u[k].t>> = <<s[x].key, s[x].t>>)
  BY <1>1 DEF IsFirstInOrder
<1>8. IsFirst(b, s, x, col) <=>
        \A j \in DOMAIN s :
          ~(/\ Precedes(s, j, x) /\ s[j].key = s[x].key /\ s[j].t = s[x].t
            /\ WantsField(b, s, j, col))
  BY DEF IsFirst
<1>9. QED
  BY <1>5, <1>6, <1>7, <1>8

LEMMA SortedFile ==
  ASSUME NEW s \in Seq(SignalObservation), NEW b, NEW f
  PROVE  f \in Written(b, Sorted(s)) <=>
           \E i \in DOMAIN s, col \in {"C", "L"} :
             Fills(b, s, i, col) /\ f = FieldOf(s, i, col)
<1> DEFINE u == Sorted(s)
           fills(m, col) ==
             /\ Wants(b, u, m, col) /\ <<u[m].key, col>> \in Columns(u)
             /\ IsFirstInOrder(b, u, m, col)
<1>1. u \in Seq(SignalObservation) /\ \E pl : IsSorting(s, u, pl)
  BY SortingExists
<1>2. f \in Written(b, u) <=>
        \E m \in DOMAIN u, col \in {"C", "L"} : fills(m, col) /\ f = Field(u, m, col)
  <2> DEFINE at(col) == {x \in DOMAIN u : fills(x, col)}
  <2>1. Written(b, u) = UNION {{Field(u, i, col) : i \in at(col)} : col \in {"C", "L"}}
    BY DEF Written, IsFirstInOrder
  <2> HIDE DEF u, fills
  <2>2. QED
    BY <2>1
<1> HIDE DEF u
<1>3. PICK pl : IsSorting(s, u, pl)
  BY <1>1
<1>4. ASSUME NEW x \in DOMAIN s, NEW col \in {"C", "L"}
      PROVE  /\ pl[x] \in DOMAIN u
             /\ fills(pl[x], col) <=> Fills(b, s, x, col)
             /\ Field(u, pl[x], col) = FieldOf(s, x, col)
  <2>1. u[pl[x]] = s[x] /\ pl[x] \in DOMAIN u
    BY <1>3, SortingAt
  <2>2. /\ Wants(b, u, pl[x], col) <=> WantsField(b, s, x, col)
        /\ Field(u, pl[x], col) = FieldOf(s, x, col)
    BY <1>1, <1>3, SortedField
  <2>3. <<s[x].key, col>> \in Columns(u) <=> HasColumn(s, x, col)
    BY <1>1, <1>3, SortedColumn
  <2>4. IsFirstInOrder(b, u, pl[x], col) <=> IsFirst(b, s, x, col)
    BY <1>1, <1>3, SortedFirst
  <2>5. fills(pl[x], col) <=> Fills(b, s, x, col)
    BY <2>1, <2>2, <2>3, <2>4 DEF Fills
  <2>6. QED
    BY <2>1, <2>2, <2>5
<1>5. ASSUME NEW m \in DOMAIN u PROVE \E x \in DOMAIN s : pl[x] = m
  BY <1>3, SortingFrom
<1> HIDE DEF fills
<1>6. f \in Written(b, u) <=>
        \E i \in DOMAIN s, col \in {"C", "L"} :
          Fills(b, s, i, col) /\ f = FieldOf(s, i, col)
  <2>1. ASSUME NEW m \in DOMAIN u, NEW col \in {"C", "L"}, fills(m, col),
               f = Field(u, m, col)
        PROVE  \E i \in DOMAIN s : Fills(b, s, i, col) /\ f = FieldOf(s, i, col)
    BY <1>4, <1>5, <2>1
  <2>2. ASSUME NEW i \in DOMAIN s, NEW col \in {"C", "L"}, Fills(b, s, i, col),
               f = FieldOf(s, i, col)
        PROVE  \E m \in DOMAIN u : fills(m, col) /\ f = Field(u, m, col)
    BY <1>4, <2>2
  <2>3. QED
    BY <1>2, <2>1, <2>2
<1>7. QED
  BY <1>6 DEF u

(* Between two observations of a signal, in the writer's order, whose arcs *)
(* differ there is a bit.                                                  *)
LEMMA BitBetween ==
  ASSUME NEW s \in Seq(SignalObservation), NEW i \in DOMAIN s, NEW j \in DOMAIN s,
         Precedes(s, i, j), s[i].key = s[j].key, s[i].arc # s[j].arc
  PROVE  \E x \in DOMAIN s :
           /\ s[x].key = s[i].key /\ BitAt(s, x)
           /\ Precedes(s, i, x) /\ (x = j \/ Precedes(s, x, j))
<1>1. PICK u, pl : u \in Seq(SignalObservation) /\ IsSorting(s, u, pl)
  BY SortingExists
<1>2. /\ u[pl[i]] = s[i] /\ pl[i] \in DOMAIN u
      /\ u[pl[j]] = s[j] /\ pl[j] \in DOMAIN u /\ pl[i] < pl[j]
  BY <1>1, SortingAt
<1>3. PICK m \in DOMAIN u : /\ pl[i] < m /\ m <= pl[j]
                            /\ u[m].key = u[pl[i]].key /\ Lli(u, m)
  BY <1>1, <1>2, BitWhereArcMoves
<1>4. PICK x \in DOMAIN s : pl[x] = m /\ u[m] = s[x]
  BY <1>1, SortingFrom
<1>5. BitAt(s, x)
  BY <1>1, <1>3, <1>4, SortedBits
<1>6. Precedes(s, i, x)
  BY <1>1, <1>3, <1>4, SortingAt
<1>7. x = j \/ Precedes(s, x, j)
  BY <1>1, <1>3, <1>4, SortingAt
<1>8. QED
  BY <1>2, <1>3, <1>4, <1>5, <1>6, <1>7
-----------------------------------------------------------------------------
Joined == [x \in DOMAIN records |-> records[x].o]

LEMMA JoinedFacts ==
  ASSUME JoinInv
  PROVE  /\ Joined \in Seq(SignalObservation) /\ DOMAIN Joined = DOMAIN records
         /\ \A x \in DOMAIN records : Joined[x] = records[x].o
         /\ Output = Written(cfg.backend, Sorted(Joined))
<1>1. records \in Seq([place : Places, o : SignalObservation])
  BY DEF JoinInv, HandedOn
<1>2. ASSUME NEW x \in DOMAIN records PROVE records[x].o \in SignalObservation
  <2>1. records[x].place \in Places /\ LineAt(records[x].place).kind = "observation"
        /\ records[x].o = ObservationAt(records[x].place)
    BY DEF JoinInv, HandedOn, Passes, ReadPlaces
  <2>2. QED
    BY <2>1, ObservationTypes DEF JoinInv
<1>3. PICK m \in Nat : DOMAIN records = 1..m
  BY <1>1
<1>4. Joined \in [1..m -> SignalObservation]
  BY <1>2, <1>3 DEF Joined
<1>5. Output = Written(cfg.backend, Sorted(Joined))
  BY DEF Output, Joined
<1>6. QED
  BY <1>4, <1>5 DEF Joined

(* A slip within an input is in the file, on a field between the two       *)
(* observations, whatever other inputs there are, in whatever order and    *)
(* however filtered, as long as no signal is in an epoch twice             *)
(* (write_observation_file, ArcToLl::lli).                                 *)
THEOREM ObsInputsSlipsSurviveJoin == Spec => []SlipsSurviveJoin
<1>1. ASSUME JoinInv PROVE SlipsSurviveJoin
  <2>1. SUFFICES ASSUME cfg.backend = "internal", NoneTwice,
                        NEW x \in DOMAIN records, NEW y \in DOMAIN records,
                        records[x].o.key = records[y].o.key,
                        records[x].o.t < records[y].o.t,
                        records[x].o.arc # records[y].o.arc
                 PROVE  \E f \in Output : /\ f.key = records[x].o.key /\ f.ll
                                          /\ records[x].o.t < f.t /\ f.t <= records[y].o.t
    BY DEF SlipsSurviveJoin
  <2> DEFINE s == Joined
  <2>2. /\ s \in Seq(SignalObservation) /\ DOMAIN s = DOMAIN records
        /\ \A z \in DOMAIN records : s[z] = records[z].o
        /\ Output = Written("internal", Sorted(s))
    BY <1>1, <2>1, JoinedFacts
  <2> HIDE DEF s
  <2>3. \A z, w \in DOMAIN s : s[z].key = s[w].key /\ s[z].t = s[w].t => z = w
    BY <2>1, <2>2 DEF NoneTwice
  <2>4. /\ x \in DOMAIN s /\ y \in DOMAIN s /\ s[x] = records[x].o /\ s[y] = records[y].o
        /\ Precedes(s, x, y)
    BY <2>1, <2>2 DEF Precedes
  <2>5. PICK z \in DOMAIN s : /\ s[z].key = s[x].key /\ BitAt(s, z)
                              /\ Precedes(s, x, z) /\ (z = y \/ Precedes(s, z, y))
    BY <2>1, <2>2, <2>4, BitBetween
  <2>6. s[x].t \in Nat /\ s[y].t \in Nat /\ s[z].t \in Nat /\ s[z].phase \in BOOLEAN
    BY <2>2, <2>4, ObservationFields
  <2>7. s[x].t < s[z].t
    <3>1. x # z
      BY <2>2, <2>5, PrecedesOrders
    <3>2. QED
      BY <2>3, <2>4, <2>5, <3>1 DEF Precedes
  <2>8. s[z].t <= s[y].t
    BY <2>5, <2>6 DEF Precedes
  <2>9. Fills("internal", s, z, "L")
    <3>1. WantsField("internal", s, z, "L")
      BY <2>5 DEF WantsField
    <3>2. HasColumn(s, z, "L")
      BY <2>5 DEF HasColumn
    <3>3. IsFirst("internal", s, z, "L")
      BY <2>2, <2>3, PrecedesOrders DEF IsFirst
    <3>4. QED
      BY <3>1, <3>2, <3>3 DEF Fills
  <2> DEFINE f == FieldOf(s, z, "L")
  <2>10. f \in Output
    BY <2>2, <2>9, SortedFile
  <2>11. f.key = s[z].key /\ f.t = s[z].t /\ f.ll
    BY <2>5 DEF FieldOf
  <2> HIDE DEF f
  <2>12. QED
    BY <2>4, <2>5, <2>7, <2>8, <2>10, <2>11
<1>2. QED
  BY <1>1, ObsInputsInvariant, PTL
-----------------------------------------------------------------------------
(* d is s and then s again.                                                *)
IsTwice(s, d) ==
  /\ s \in Seq(SignalObservation) /\ d \in Seq(SignalObservation)
  /\ Len(d) = Len(s) + Len(s)
  /\ \A i \in DOMAIN s : d[i] = s[i] /\ d[Len(s) + i] = s[i]

LEMMA TwiceAt ==
  ASSUME NEW s, NEW d, IsTwice(s, d), NEW i \in DOMAIN s
  PROVE  /\ i \in Nat /\ i > 0 /\ i <= Len(s) /\ Len(s) \in Nat
         /\ i \in DOMAIN d /\ Len(s) + i \in DOMAIN d
         /\ d[i] = s[i] /\ d[Len(s) + i] = s[i]
         /\ s[i].t \in Nat /\ s[i].phase \in BOOLEAN /\ s[i].code \in BOOLEAN
         /\ s[i].hc \in BOOLEAN
<1>1. s \in Seq(SignalObservation) /\ d \in Seq(SignalObservation)
  BY DEF IsTwice
<1>2. /\ i \in Nat /\ i > 0 /\ i <= Len(s) /\ Len(s) \in Nat /\ s[i].t \in Nat
      /\ s[i].phase \in BOOLEAN /\ s[i].code \in BOOLEAN /\ s[i].hc \in BOOLEAN
  BY <1>1, ObservationFields
<1>3. DOMAIN d = 1..Len(d) /\ Len(d) = Len(s) + Len(s)
  BY <1>1 DEF IsTwice
<1>4. i \in DOMAIN d /\ Len(s) + i \in DOMAIN d
  BY <1>2, <1>3
<1>5. QED
  BY <1>2, <1>4 DEF IsTwice

LEMMA TwiceFrom ==
  ASSUME NEW s, NEW d, IsTwice(s, d), NEW m \in DOMAIN d
  PROVE  \E i \in DOMAIN s : (m = i \/ m = Len(s) + i) /\ d[m] = s[i]
<1>1. /\ s \in Seq(SignalObservation) /\ d \in Seq(SignalObservation)
      /\ Len(d) = Len(s) + Len(s)
  BY DEF IsTwice
<1>2. /\ Len(s) \in Nat /\ DOMAIN s = 1..Len(s) /\ m \in Nat /\ m > 0
      /\ m <= Len(s) + Len(s)
  BY <1>1
<1>3. CASE m <= Len(s)
  BY <1>2, <1>3 DEF IsTwice
<1>4. CASE m > Len(s)
  <2>1. m - Len(s) \in DOMAIN s /\ m = Len(s) + (m - Len(s))
    BY <1>2, <1>4
  <2>2. QED
    BY <2>1 DEF IsTwice
<1>5. QED
  BY <1>2, <1>3, <1>4

(* How the two copies are ordered.                                         *)
LEMMA TwiceOrder ==
  ASSUME NEW s, NEW d, IsTwice(s, d), NEW i \in DOMAIN s, NEW j \in DOMAIN s
  PROVE  LET m == Len(s)
         IN  /\ Precedes(d, i, j) <=> Precedes(s, i, j)
             /\ Precedes(d, m + i, m + j) <=> Precedes(s, i, j)
             /\ Precedes(d, i, m + j) <=> s[i].t <= s[j].t
             /\ Precedes(d, m + i, j) <=> s[i].t < s[j].t
<1> DEFINE m == Len(s)
<1>1. /\ i \in Nat /\ i > 0 /\ i <= m /\ m \in Nat /\ s[i].t \in Nat
      /\ d[i] = s[i] /\ d[m + i] = s[i]
  BY TwiceAt
<1>2. /\ j \in Nat /\ j > 0 /\ j <= m /\ s[j].t \in Nat
      /\ d[j] = s[j] /\ d[m + j] = s[j]
  BY TwiceAt
<1> HIDE DEF m
<1>3. m + i < m + j <=> i < j
  BY <1>1, <1>2
<1>4. i < m + j /\ ~(m + i < j)
  BY <1>1, <1>2
<1>5. s[i].t <= s[j].t <=> s[i].t < s[j].t \/ s[i].t = s[j].t
  BY <1>1, <1>2
<1>6. /\ Precedes(d, i, j) <=> Precedes(s, i, j)
      /\ Precedes(d, m + i, m + j) <=> Precedes(s, i, j)
      /\ Precedes(d, i, m + j) <=> s[i].t <= s[j].t
      /\ Precedes(d, m + i, j) <=> s[i].t < s[j].t
  BY <1>1, <1>2, <1>3, <1>4, <1>5 DEF Precedes
<1>7. QED
  BY <1>6 DEF m

LEMMA TwiceEarliers ==
  ASSUME NEW s, NEW d, IsTwice(s, d), NEW i \in DOMAIN s, NEW j \in DOMAIN s
  PROVE  LET m == Len(s)
             E == Earliers(d, i)
         IN  /\ j \in E <=> j \in Earliers(s, i)
             /\ m + j \in E <=> s[j].key = s[i].key /\ s[j].t < s[i].t
             /\ m + j \in E => j \in E
<1> DEFINE m == Len(s)
<1>1. /\ j \in DOMAIN d /\ m + j \in DOMAIN d /\ d[j] = s[j] /\ d[m + j] = s[j]
      /\ d[i] = s[i]
  BY TwiceAt
<1>2. /\ Precedes(d, j, i) <=> Precedes(s, j, i)
      /\ Precedes(d, m + j, i) <=> s[j].t < s[i].t
  BY TwiceOrder
<1>3. s[j].t < s[i].t => Precedes(s, j, i)
  BY DEF Precedes
<1> HIDE DEF m
<1>4. /\ j \in Earliers(d, i) <=> j \in Earliers(s, i)
      /\ m + j \in Earliers(d, i) <=> s[j].key = s[i].key /\ s[j].t < s[i].t
      /\ m + j \in Earliers(d, i) => j \in Earliers(d, i)
  BY <1>1, <1>2, <1>3 DEF Earliers
<1>5. QED
  BY <1>4 DEF m

(* In the first copy the bits are those of s.                              *)
LEMMA TwiceBits ==
  ASSUME NEW s, NEW d, IsTwice(s, d), NEW i \in DOMAIN s
  PROVE  BitAt(d, i) <=> BitAt(s, i)
<1> DEFINE m == Len(s)
           E == Earliers(s, i)
           F == Earliers(d, i)
           last(x) == \A y \in E : y = x \/ Precedes(s, y, x)
           lastTwice(x) == \A y \in F : y = x \/ Precedes(d, y, x)
<1>1. E \in SUBSET DOMAIN s /\ F \in SUBSET DOMAIN d /\ d[i] = s[i]
  BY TwiceAt DEF Earliers
<1>2. ASSUME NEW j \in DOMAIN s
      PROVE  /\ j \in F <=> j \in E
             /\ m + j \in F <=> s[j].key = s[i].key /\ s[j].t < s[i].t
             /\ m + j \in F => j \in F
             /\ d[j] = s[j] /\ d[m + j] = s[j]
  BY TwiceEarliers, TwiceAt
<1>3. ASSUME NEW x \in F
      PROVE  \E j \in E : (x = j \/ x = m + j) /\ d[x] = s[j]
  <2>1. PICK j \in DOMAIN s : (x = j \/ x = m + j) /\ d[x] = s[j]
    BY <1>1, TwiceFrom
  <2>2. QED
    BY <1>2, <2>1
<1>4. E = {} <=> F = {}
  BY <1>1, <1>2, <1>3
<1>5. ASSUME NEW j \in E
      PROVE  j \in DOMAIN s /\ s[j].key = s[i].key /\ s[j].t \in Nat /\ s[i].t \in Nat
             /\ s[j].t <= s[i].t
  <2>1. j \in DOMAIN s /\ s[j].key = s[i].key /\ Precedes(s, j, i)
    BY DEF Earliers
  <2>2. s[j].t \in Nat /\ s[i].t \in Nat
    BY <2>1, TwiceAt
  <2>3. QED
    BY <2>1, <2>2 DEF Precedes
<1>6. ASSUME NEW x \in E, last(x)
      PROVE  \E w \in F : lastTwice(w) /\ d[w] = s[x]
  <2>1. CASE s[x].t < s[i].t
    <3>1. m + x \in F /\ d[m + x] = s[x]
      BY <1>2, <1>5, <2>1
    <3>2. ASSUME NEW y \in F PROVE y = m + x \/ Precedes(d, y, m + x)
      <4>1. PICK j \in E : y = j \/ y = m + j
        BY <1>3
      <4>2. j = x \/ Precedes(s, j, x)
        BY <1>6
      <4>3. s[j].t <= s[x].t
        BY <1>5, <4>2 DEF Precedes
      <4>4. /\ Precedes(d, j, m + x) <=> s[j].t <= s[x].t
            /\ Precedes(d, m + j, m + x) <=> Precedes(s, j, x)
        BY <1>5, TwiceOrder
      <4>5. QED
        BY <4>1, <4>2, <4>3, <4>4
    <3>3. QED
      BY <3>1, <3>2
  <2>2. CASE ~(s[x].t < s[i].t)
    <3>1. x \in F /\ d[x] = s[x] /\ s[x].t = s[i].t
      BY <1>2, <1>5, <2>2
    <3>2. ASSUME NEW y \in F PROVE y = x \/ Precedes(d, y, x)
      <4>1. PICK j \in E : y = j \/ y = m + j
        BY <1>3
      <4>2. j = x \/ Precedes(s, j, x)
        BY <1>6
      <4>3. y = m + j => s[j].t < s[x].t
        BY <1>2, <1>5, <3>1
      <4>4. /\ Precedes(d, j, x) <=> Precedes(s, j, x)
            /\ Precedes(d, m + j, x) <=> s[j].t < s[x].t
        BY <1>5, TwiceOrder
      <4>5. QED
        BY <4>1, <4>2, <4>3, <4>4
    <3>3. QED
      BY <3>1, <3>2
  <2>3. QED
    BY <2>1, <2>2
<1>7. ASSUME NEW w \in F, lastTwice(w)
      PROVE  \E x \in E : last(x) /\ d[w] = s[x]
  <2>1. PICK x \in E : (w = x \/ w = m + x) /\ d[w] = s[x]
    BY <1>3
  <2>2. ASSUME NEW y \in E PROVE y = x \/ Precedes(s, y, x)
    <3>1. /\ y \in DOMAIN s /\ x \in DOMAIN s /\ s[x].t \in Nat /\ s[y].t \in Nat
          /\ s[i].t \in Nat /\ s[y].key = s[i].key
      BY <1>5
    <3>2. /\ Precedes(d, y, x) <=> Precedes(s, y, x)
          /\ Precedes(d, y, m + x) <=> s[y].t <= s[x].t
          /\ Precedes(d, m + y, m + x) <=> Precedes(s, y, x)
      BY <3>1, TwiceOrder
    <3>3. y \in F /\ (y = w \/ Precedes(d, y, w))
      BY <1>2, <1>7, <3>1
    <3>4. /\ x \in Nat /\ y \in Nat /\ m \in Nat /\ y <= m /\ x <= m /\ x > 0 /\ y > 0
      BY <3>1, TwiceAt
    <3>5. CASE w = x
      BY <3>2, <3>3, <3>5
    <3>6. CASE w = m + x
      <4>1. y # w
        BY <3>4, <3>6
      <4>2. s[y].t <= s[x].t
        BY <3>2, <3>3, <3>6, <4>1
      <4>3. s[x].t < s[i].t
        BY <1>2, <3>1, <3>6
      <4>4. m + y \in F
        BY <1>2, <3>1, <4>2, <4>3
      <4>5. m + y = w \/ Precedes(d, m + y, w)
        BY <1>7, <4>4
      <4>6. QED
        BY <3>2, <3>4, <3>6, <4>5
    <3>7. QED
      BY <2>1, <3>5, <3>6
  <2>3. QED
    BY <2>1, <2>2
<1>8. BitAt(s, i) <=> \/ E = {} /\ s[i].arc # 0
                      \/ \E x \in E : last(x) /\ s[i].arc # s[x].arc
  BY DEF BitAt
<1>9. BitAt(d, i) <=> \/ F = {} /\ s[i].arc # 0
                      \/ \E w \in F : lastTwice(w) /\ s[i].arc # d[w].arc
  BY <1>1 DEF BitAt
<1> HIDE DEF E, F, last, lastTwice
<1>10. QED
  BY <1>4, <1>6, <1>7, <1>8, <1>9

(* A bit in the second copy is there because arc moves within the epoch,   *)
(* and then there is one in the first copy already.                        *)
LEMMA TwiceSecondBit ==
  ASSUME NEW s, NEW d, IsTwice(s, d), NEW i \in DOMAIN s, BitAt(d, Len(s) + i)
  PROVE  \E j \in DOMAIN s : s[j].key = s[i].key /\ s[j].t = s[i].t /\ BitAt(s, j)
<1> DEFINE m == Len(s)
<1>1. /\ i \in DOMAIN d /\ m + i \in DOMAIN d /\ d[i] = s[i] /\ d[m + i] = s[i]
      /\ s[i].t \in Nat
  BY TwiceAt
<1>2. Precedes(d, i, m + i)
  BY <1>1, TwiceOrder
<1>3. i \in Earliers(d, m + i)
  BY <1>1, <1>2 DEF Earliers
<1>4. PICK w \in Earliers(d, m + i) :
        /\ \A y \in Earliers(d, m + i) : y = w \/ Precedes(d, y, w)
        /\ s[i].arc # d[w].arc
  BY <1>1, <1>3 DEF BitAt
<1>5. w \in DOMAIN d /\ d[w].key = s[i].key /\ Precedes(d, w, m + i)
  BY <1>1 DEF Earliers
<1>6. PICK x \in DOMAIN s : (w = x \/ w = m + x) /\ d[w] = s[x]
  BY <1>5, TwiceFrom
<1>7. s[x].t \in Nat
  BY TwiceAt
<1>8. Precedes(d, i, w)
  BY <1>1, <1>3, <1>4
<1>9. s[i].t <= s[x].t
  BY <1>1, <1>6, <1>7, <1>8 DEF Precedes
<1>10. s[x].t <= s[i].t
  BY <1>1, <1>5, <1>6, <1>7 DEF Precedes
<1>11. s[x].t = s[i].t /\ s[x].key = s[i].key /\ s[x].arc # s[i].arc
  BY <1>1, <1>4, <1>5, <1>6, <1>7, <1>9, <1>10
<1>12. s \in Seq(SignalObservation)
  BY DEF IsTwice
<1>13. ASSUME NEW p \in DOMAIN s, NEW q \in DOMAIN s, Precedes(s, p, q),
              s[p].t = s[i].t, s[q].t = s[i].t, s[p].key = s[i].key, s[q].key = s[i].key,
              s[p].arc # s[q].arc
       PROVE  \E j \in DOMAIN s : s[j].key = s[i].key /\ s[j].t = s[i].t /\ BitAt(s, j)
  <2>1. PICK z \in DOMAIN s : /\ s[z].key = s[p].key /\ BitAt(s, z)
                              /\ Precedes(s, p, z) /\ (z = q \/ Precedes(s, z, q))
    BY <1>12, <1>13, BitBetween
  <2>2. s[z].t \in Nat
    BY TwiceAt
  <2>3. s[p].t <= s[z].t /\ s[z].t <= s[q].t
    BY <1>1, <1>13, <2>1, <2>2 DEF Precedes
  <2>4. QED
    BY <1>1, <1>13, <2>1, <2>2, <2>3
<1>14. Precedes(s, i, x) \/ Precedes(s, x, i)
  BY <1>11, <1>12, PrecedesOrders
<1>15. QED
  BY <1>11, <1>13, <1>14

LEMMA TwiceWants ==
  ASSUME NEW s, NEW d, IsTwice(s, d), NEW i \in DOMAIN s, NEW col \in {"C", "L"}, NEW b
  PROVE  /\ WantsField(b, d, i, col) <=> WantsField(b, s, i, col)
         /\ FieldOf(d, i, col) = FieldOf(s, i, col)
         /\ WantsField(b, d, Len(s) + i, col) =>
              \E j \in DOMAIN s :
                s[j].key = s[i].key /\ s[j].t = s[i].t /\ WantsField(b, s, j, col)
<1>1. d[i] = s[i] /\ d[Len(s) + i] = s[i]
  BY TwiceAt
<1>2. BitAt(d, i) <=> BitAt(s, i)
  BY TwiceBits
<1>3. WantsField(b, d, i, col) <=> WantsField(b, s, i, col)
  BY <1>1, <1>2 DEF WantsField
<1>4. (col = "L" /\ BitAt(d, i)) = (col = "L" /\ BitAt(s, i))
  BY <1>2
<1>5. FieldOf(d, i, col) = FieldOf(s, i, col)
  BY <1>1, <1>4 DEF FieldOf
<1>6. ASSUME WantsField(b, d, Len(s) + i, col)
      PROVE  \E j \in DOMAIN s :
               s[j].key = s[i].key /\ s[j].t = s[i].t /\ WantsField(b, s, j, col)
  <2>1. CASE WantsField(b, s, i, col)
    BY <2>1
  <2>2. CASE ~WantsField(b, s, i, col)
    <3>1. col = "L" /\ b = "internal" /\ BitAt(d, Len(s) + i)
      BY <1>1, <1>6, <2>2 DEF WantsField
    <3>2. PICK j \in DOMAIN s : s[j].key = s[i].key /\ s[j].t = s[i].t /\ BitAt(s, j)
      BY <3>1, TwiceSecondBit
    <3>3. WantsField(b, s, j, col)
      BY <3>1, <3>2 DEF WantsField
    <3>4. QED
      BY <3>2, <3>3
  <2>3. QED
    BY <2>1, <2>2
<1>7. QED
  BY <1>3, <1>5, <1>6

LEMMA TwiceColumn ==
  ASSUME NEW s, NEW d, IsTwice(s, d), NEW i \in DOMAIN s, NEW col \in {"C", "L"}
  PROVE  HasColumn(d, i, col) <=> HasColumn(s, i, col)
<1> DEFINE has(o, bit) == o.code \/ (col = "L" /\ (o.phase \/ bit \/ o.hc))
<1>1. d[i] = s[i]
  BY TwiceAt
<1>2. HasColumn(s, i, col) <=>
        \E k \in DOMAIN s : s[k].key = s[i].key /\ has(s[k], BitAt(s, k))
  BY DEF HasColumn
<1>3. HasColumn(d, i, col) <=>
        \E k \in DOMAIN d : d[k].key = s[i].key /\ has(d[k], BitAt(d, k))
  BY <1>1 DEF HasColumn
<1>4. ASSUME NEW k \in DOMAIN s, s[k].key = s[i].key, has(s[k], BitAt(s, k))
      PROVE  \E w \in DOMAIN d : d[w].key = s[i].key /\ has(d[w], BitAt(d, w))
  <2>1. k \in DOMAIN d /\ d[k] = s[k] /\ (BitAt(d, k) <=> BitAt(s, k))
    BY TwiceAt, TwiceBits
  <2>2. QED
    BY <1>4, <2>1
<1>5. ASSUME NEW w \in DOMAIN d, d[w].key = s[i].key, has(d[w], BitAt(d, w))
      PROVE  \E k \in DOMAIN s : s[k].key = s[i].key /\ has(s[k], BitAt(s, k))
  <2>1. PICK k \in DOMAIN s : (w = k \/ w = Len(s) + k) /\ d[w] = s[k]
    BY TwiceFrom
  <2>2. CASE w = k
    <3>1. BitAt(d, k) <=> BitAt(s, k)
      BY TwiceBits
    <3>2. QED
      BY <1>5, <2>1, <2>2, <3>1
  <2>3. CASE w = Len(s) + k /\ BitAt(d, w)
    <3>1. PICK j \in DOMAIN s : s[j].key = s[k].key /\ BitAt(s, j)
      BY <2>3, TwiceSecondBit
    <3>2. s[j].key = s[i].key
      BY <1>5, <2>1, <3>1
    <3>3. CASE col = "L"
      BY <3>1, <3>2, <3>3
    <3>4. CASE col # "L"
      BY <1>5, <2>1, <3>4
    <3>5. QED
      BY <3>3, <3>4
  <2>4. CASE ~BitAt(d, w)
    BY <1>5, <2>1, <2>4
  <2>5. QED
    BY <2>1, <2>2, <2>3, <2>4
<1> HIDE DEF has
<1>6. QED
  BY <1>2, <1>3, <1>4, <1>5

(* The first copy fills the fields that s fills, and the second none.      *)
LEMMA TwiceFills ==
  ASSUME NEW s, NEW d, IsTwice(s, d), NEW i \in DOMAIN s, NEW col \in {"C", "L"}, NEW b
  PROVE  /\ Fills(b, d, i, col) <=> Fills(b, s, i, col)
         /\ ~Fills(b, d, Len(s) + i, col)
<1>1. d[i] = s[i] /\ d[Len(s) + i] = s[i] /\ s[i].t \in Nat
  BY TwiceAt
<1>2. WantsField(b, d, i, col) <=> WantsField(b, s, i, col)
  BY TwiceWants
<1>3. HasColumn(d, i, col) <=> HasColumn(s, i, col)
  BY TwiceColumn
<1>4. ASSUME IsFirst(b, s, i, col), NEW w \in DOMAIN d, Precedes(d, w, i),
             d[w].key = d[i].key, d[w].t = d[i].t
      PROVE  ~WantsField(b, d, w, col)
  <2>1. PICK k \in DOMAIN s : (w = k \/ w = Len(s) + k) /\ d[w] = s[k]
    BY TwiceFrom
  <2>2. Precedes(d, Len(s) + k, i) <=> s[k].t < s[i].t
    BY TwiceOrder
  <2>3. s[k].t = s[i].t /\ s[k].key = s[i].key
    BY <1>1, <1>4, <2>1
  <2>4. w = k
    BY <1>1, <1>4, <2>1, <2>2, <2>3
  <2>5. Precedes(s, k, i)
    BY <1>4, <2>4, TwiceOrder
  <2>6. ~WantsField(b, s, k, col)
    BY <1>4, <2>3, <2>5 DEF IsFirst
  <2>7. QED
    BY <2>4, <2>6, TwiceWants
<1>5. ASSUME IsFirst(b, d, i, col), NEW k \in DOMAIN s, Precedes(s, k, i),
             s[k].key = s[i].key, s[k].t = s[i].t
      PROVE  ~WantsField(b, s, k, col)
  <2>1. k \in DOMAIN d /\ d[k] = s[k] /\ Precedes(d, k, i)
    BY <1>5, TwiceAt, TwiceOrder
  <2>2. ~WantsField(b, d, k, col)
    BY <1>1, <1>5, <2>1 DEF IsFirst
  <2>3. QED
    BY <2>2, TwiceWants
<1>6. IsFirst(b, d, i, col) <=> IsFirst(b, s, i, col)
  BY <1>4, <1>5 DEF IsFirst
<1>7. ASSUME WantsField(b, d, Len(s) + i, col), IsFirst(b, d, Len(s) + i, col)
      PROVE  FALSE
  <2>1. PICK j \in DOMAIN s :
          s[j].key = s[i].key /\ s[j].t = s[i].t /\ WantsField(b, s, j, col)
    BY <1>7, TwiceWants
  <2>2. j \in DOMAIN d /\ d[j] = s[j] /\ s[j].t \in Nat
    BY TwiceAt
  <2>3. WantsField(b, d, j, col)
    BY <2>1, TwiceWants
  <2>4. Precedes(d, j, Len(s) + i)
    <3>1. s[j].t <= s[i].t
      BY <1>1, <2>1
    <3>2. QED
      BY <3>1, TwiceOrder
  <2>5. QED
    BY <1>1, <1>7, <2>1, <2>2, <2>3, <2>4 DEF IsFirst
<1>8. QED
  BY <1>2, <1>3, <1>6, <1>7 DEF Fills

LEMMA TwiceFile ==
  ASSUME NEW s, NEW d, IsTwice(s, d), NEW b
  PROVE  Written(b, Sorted(d)) = Written(b, Sorted(s))
<1>1. s \in Seq(SignalObservation) /\ d \in Seq(SignalObservation)
  BY DEF IsTwice
<1>2. SUFFICES ASSUME NEW f
               PROVE  f \in Written(b, Sorted(d)) <=> f \in Written(b, Sorted(s))
  <2>1. \A f : f \in Written(b, Sorted(d)) <=> f \in Written(b, Sorted(s))
    BY <1>2
  <2>2. QED
    BY <2>1
<1>3. f \in Written(b, Sorted(s)) <=>
        \E i \in DOMAIN s, col \in {"C", "L"} :
          Fills(b, s, i, col) /\ f = FieldOf(s, i, col)
  BY <1>1, SortedFile
<1>4. f \in Written(b, Sorted(d)) <=>
        \E i \in DOMAIN d, col \in {"C", "L"} :
          Fills(b, d, i, col) /\ f = FieldOf(d, i, col)
  BY <1>1, SortedFile
<1>5. ASSUME NEW i \in DOMAIN s, NEW col \in {"C", "L"}
      PROVE  /\ i \in DOMAIN d /\ FieldOf(d, i, col) = FieldOf(s, i, col)
             /\ Fills(b, d, i, col) <=> Fills(b, s, i, col)
             /\ ~Fills(b, d, Len(s) + i, col)
  BY TwiceAt, TwiceWants, TwiceFills
<1>6. ASSUME NEW w \in DOMAIN d, NEW col \in {"C", "L"}, Fills(b, d, w, col)
      PROVE  w \in DOMAIN s
  <2>1. PICK k \in DOMAIN s : w = k \/ w = Len(s) + k
    BY TwiceFrom
  <2>2. QED
    BY <1>5, <1>6, <2>1
<1>7. QED
  BY <1>3, <1>4, <1>5, <1>6

(* A sequence that starts with m members, and has for each of them in turn *)
(* one more, is twice as long.                                             *)
LEMMA InTurn ==
  ASSUME NEW m \in Nat, NEW l \in Nat, m <= l,
         NEW g, \A x \in 1..m : g[x] \in (m + 1)..l,
         \A x, y \in 1..m : x < y => g[x] < g[y],
         \A k \in (m + 1)..l : \E x \in 1..m : g[x] = k
  PROVE  l = m + m /\ \A x \in 1..m : g[x] = m + x
<1>1. \A x, y \in 1..m : g[x] = g[y] => x = y
  <2>1. ASSUME NEW x \in 1..m, NEW y \in 1..m, x # y PROVE g[x] # g[y]
    <3>1. x < y \/ y < x
      BY <2>1
    <3>2. g[x] \in Int /\ g[y] \in Int
      OBVIOUS
    <3>3. QED
      BY <3>1, <3>2
  <2>2. QED
    BY <2>1
<1> DEFINE B == {x \in 1..m : g[x] # m + x}
<1>2. ASSUME NEW x \in 1..m, \A y \in 1..m : y < x => g[y] = m + y
      PROVE  g[x] = m + x
  <2>1. g[x] \in Int /\ g[x] > m /\ g[x] <= l
    OBVIOUS
  <2>2. g[x] >= m + x
    <3>1. SUFFICES ASSUME g[x] < m + x PROVE FALSE
      BY <2>1
    <3>2. g[x] - m \in 1..m /\ g[x] - m < x /\ m + (g[x] - m) = g[x]
      BY <2>1, <3>1
    <3>3. g[g[x] - m] = g[x]
      BY <1>2, <3>2
    <3>4. QED
      BY <1>1, <3>2, <3>3
  <2>3. m + x \in (m + 1)..l
    BY <2>1, <2>2
  <2>4. PICK z \in 1..m : g[z] = m + x
    BY <2>3
  <2>5. ~(z < x)
    BY <1>2, <2>4
  <2>6. CASE z = x
    BY <2>4, <2>6
  <2>7. CASE x < z
    <3>1. g[x] < m + x
      BY <2>4, <2>7
    <3>2. QED
      BY <2>1, <2>2, <3>1
  <2>8. QED
    BY <2>5, <2>6, <2>7
<1>3. B = {}
  <2>1. SUFFICES ASSUME B # {} PROVE FALSE
    OBVIOUS
  <2>2. B \in SUBSET Nat
    OBVIOUS
  <2>3. PICK x \in B : \A y \in B : x <= y
    BY <2>1, <2>2, NatMin
  <2>4. x \in 1..m /\ g[x] # m + x
    OBVIOUS
  <2>5. ASSUME NEW y \in 1..m, y < x PROVE g[y] = m + y
    BY <2>3, <2>4, <2>5
  <2>6. QED
    BY <1>2, <2>4, <2>5
<1>4. \A x \in 1..m : g[x] = m + x
  BY <1>3
<1>5. l = m + m
  <2>1. CASE l = m
    <3>1. m = 0
      <4>1. SUFFICES ASSUME m > 0 PROVE FALSE
        OBVIOUS
      <4>2. g[1] \in (m + 1)..l
        BY <4>1
      <4>3. QED
        BY <2>1, <4>2
    <3>2. QED
      BY <2>1, <3>1
  <2>2. CASE l > m
    <3>1. l \in (m + 1)..l
      BY <2>2
    <3>2. PICK z \in 1..m : g[z] = l
      BY <3>1
    <3>3. l <= m + m
      BY <1>4, <3>2
    <3>4. m > 0
      BY <3>2
    <3>5. g[m] = m + m /\ g[m] \in (m + 1)..l
      BY <1>4, <3>4
    <3>6. QED
      BY <3>3, <3>5
  <2>3. QED
    BY <2>1, <2>2
<1>6. QED
  BY <1>4, <1>5

(* A line has the same observation in two inputs that are the same.        *)
LEMMA SameInput ==
  ASSUME inputs[1] = inputs[2], NEW l
  PROVE  /\ LineAt(<<2, l>>) = LineAt(<<1, l>>)
         /\ Passes(<<2, l>>) <=> Passes(<<1, l>>)
         /\ ObservationAt(<<2, l>>) = ObservationAt(<<1, l>>)
<1>1. LineAt(<<2, l>>) = LineAt(<<1, l>>)
  BY DEF LineAt
<1>2. \A k : BitsUpTo(<<2, l>>, k) = BitsUpTo(<<1, l>>, k)
  BY DEF BitsUpTo
<1>3. QED
  BY <1>1, <1>2 DEF Passes, ObservationAt

(* What is read of the first input are the first records.                  *)
LEMMA FirstRecords ==
  ASSUME JoinInv
  PROVE  LET first == {x \in DOMAIN records : records[x].place[1] = 1}
             m == Cardinality(first)
         IN  /\ m \in Nat /\ m <= Len(records) /\ first = 1..m
             /\ FirstInput = [x \in 1..m |-> records[x].o]
<1> DEFINE first == {x \in DOMAIN records : records[x].place[1] = 1}
           m == Cardinality(first)
           l == Len(records)
<1>1. l \in Nat /\ DOMAIN records = 1..l
  BY DEF JoinInv, HandedOn
<1>2. FirstInput = [x \in 1..m |-> records[x].o]
  BY DEF FirstInput
<1>3. ASSUME NEW x \in first, NEW y \in 1..l, y < x PROVE y \in first
  <2>1. Earlier(records[y].place, records[x].place) /\ records[x].place[1] = 1
    BY <1>1, <1>3 DEF JoinInv, HandedOn
  <2>2. records[y].place[1] \in Nat /\ records[y].place[1] \in DOMAIN inputs
    BY <1>1, <1>3, PlaceFacts DEF JoinInv, HandedOn, ReadPlaces
  <2>3. records[y].place[1] > 0
    BY <2>2 DEF JoinInv, InputsOK
  <2>4. records[y].place[1] = 1
    BY <2>1, <2>2, <2>3 DEF Earlier
  <2>5. QED
    BY <1>1, <2>4
<1>4. first \in SUBSET (1..l)
  BY <1>1
<1> HIDE DEF first, l
<1>5. PICK k \in Nat : k <= l /\ first = 1..k
  <2>1. CASE first = {}
    <3>1. first = 1..0 /\ 0 <= l
      BY <1>1, <2>1
    <3>2. QED
      BY <3>1
  <2>2. CASE first # {}
    <3>1. first \in SUBSET (0..l)
      BY <1>1, <1>4
    <3>2. PICK k \in first : \A y \in first : y <= k
      BY <1>1, <2>2, <3>1, NatMax
    <3>3. k \in 1..l
      BY <1>4
    <3>4. \A y \in 1..k : y \in first
      BY <1>1, <1>3, <3>3
    <3>5. first = 1..k
      <4>1. ASSUME NEW y \in first PROVE y \in 1..k
        <5>1. y \in 1..l /\ y <= k
          BY <1>4, <3>2
        <5>2. QED
          BY <3>3, <5>1
      <4>2. QED
        BY <3>4, <4>1
    <3>6. QED
      BY <1>1, <3>3, <3>5
  <2>3. QED
    BY <2>1, <2>2
<1>6. m = k
  BY <1>5, FS_Interval
<1>7. QED
  BY <1>2, <1>5, <1>6 DEF first, l

(* When an input has been read twice, the records are those of the first   *)
(* and then the same again.                                                *)
LEMMA RecordsTwice ==
  ASSUME JoinInv, status = "done", Len(inputs) = 2, inputs[1] = inputs[2]
  PROVE  IsTwice(FirstInput, Joined)
<1> DEFINE first == {x \in DOMAIN records : records[x].place[1] = 1}
           m == Cardinality(first)
           l == Len(records)
<1>1. /\ m \in Nat /\ m <= l /\ first = 1..m
      /\ FirstInput = [x \in 1..m |-> records[x].o]
  BY FirstRecords
<1>2. l \in Nat /\ DOMAIN records = 1..l
  BY DEF JoinInv, HandedOn
<1>3. /\ Joined \in Seq(SignalObservation) /\ DOMAIN Joined = 1..l
      /\ \A x \in 1..l : Joined[x] = records[x].o
  BY <1>2, JoinedFacts
<1>4. ReadPlaces = Places /\ InputsOK
  <2>1. n = 2 /\ InputsOK
    BY DEF JoinInv, Progress
  <2>2. \A p \in Places : p[1] \in Nat /\ p[1] \in DOMAIN inputs
    BY <2>1, PlaceFacts
  <2>3. \A p \in Places : p[1] <= n
    BY <2>1, <2>2 DEF InputsOK
  <2>4. QED
    BY <2>1, <2>3 DEF ReadPlaces
<1>5. ASSUME NEW x \in 1..l
      PROVE  LET p == records[x].place
             IN  /\ p \in Places /\ p = <<p[1], p[2]>> /\ p[2] \in Nat
                 /\ p[2] \in 1..Len(inputs[p[1]].lines)
                 /\ p[1] \in {1, 2} /\ (p[1] = 1 <=> x \in 1..m)
                 /\ Passes(p) /\ records[x].o = ObservationAt(p)
  <2> DEFINE p == records[x].place
  <2>1. p \in ReadPlaces /\ Passes(p) /\ records[x].o = ObservationAt(p)
    BY <1>2 DEF JoinInv, HandedOn
  <2>2. p \in Places
    BY <1>4, <2>1
  <2>3. /\ p = <<p[1], p[2]>> /\ p[1] \in DOMAIN inputs /\ p[2] \in Nat
        /\ p[2] \in 1..Len(inputs[p[1]].lines)
    BY <1>4, <2>2, PlaceFacts
  <2>4. p[1] \in {1, 2}
    BY <1>4, <2>3 DEF InputsOK
  <2>5. p[1] = 1 <=> x \in first
    BY <1>2
  <2>6. p[1] = 1 <=> x \in 1..m
    BY <1>1, <2>5
  <2> HIDE DEF p, m
  <2>7. QED
    BY <2>1, <2>2, <2>3, <2>4, <2>6 DEF p
<1>6. \A x, y \in 1..l : x < y => Earlier(records[x].place, records[y].place)
  BY <1>2 DEF JoinInv, HandedOn
<1>7. \A p \in Places : Passes(p) => \E x \in 1..l : records[x].place = p
  BY <1>2, <1>4 DEF JoinInv, HandedOn
<1>8. 1 \in DOMAIN inputs /\ 2 \in DOMAIN inputs
  BY <1>4 DEF InputsOK
<1> HIDE DEF m, l
<1> DEFINE again(x) == <<2, records[x].place[2]>>
           to(x, y) == y \in 1..l /\ records[y].place = again(x)
<1>9. ASSUME NEW x \in 1..m
      PROVE  /\ x \in 1..l /\ records[x].place = <<1, records[x].place[2]>>
             /\ records[x].place[2] \in Nat
             /\ \E y \in (m + 1)..l : to(x, y)
  <2>1. x \in 1..l
    BY <1>1, <1>2
  <2>2. /\ records[x].place = <<1, records[x].place[2]>> /\ Passes(records[x].place)
        /\ records[x].place[2] \in Nat
        /\ records[x].place[2] \in 1..Len(inputs[1].lines)
    BY <1>5, <2>1
  <2>3. again(x) \in Places
    BY <1>4, <1>8, <2>2, PlaceThere
  <2>4. Passes(again(x))
    <3>1. Passes(<<1, records[x].place[2]>>)
      BY <2>2
    <3>2. QED
      BY <3>1, SameInput
  <2>5. PICK y \in 1..l : records[y].place = again(x)
    BY <1>7, <2>3, <2>4
  <2>6. records[y].place[1] = 2
    BY <2>5
  <2>7. y \notin 1..m
    BY <1>5, <2>5, <2>6
  <2>8. y \in (m + 1)..l
    BY <1>1, <1>2, <2>5, <2>7
  <2>9. QED
    BY <2>1, <2>2, <2>5, <2>8
<1> DEFINE g == [x \in 1..m |-> CHOOSE y \in (m + 1)..l : to(x, y)]
<1>10. ASSUME NEW x \in 1..m PROVE g[x] \in (m + 1)..l /\ to(x, g[x])
  <2>1. g[x] = CHOOSE y \in (m + 1)..l : to(x, y)
    OBVIOUS
  <2>2. \E y \in (m + 1)..l : to(x, y)
    BY <1>9
  <2> HIDE DEF g, to
  <2>3. QED
    BY <2>1, <2>2
<1> HIDE DEF g
<1>11. ASSUME NEW x \in 1..m, NEW y \in 1..m, x < y PROVE g[x] < g[y]
  <2>1. /\ Earlier(records[x].place, records[y].place)
        /\ records[x].place = <<1, records[x].place[2]>>
        /\ records[y].place = <<1, records[y].place[2]>>
    BY <1>6, <1>9, <1>11
  <2>2. records[x].place[2] < records[y].place[2]
    BY <2>1 DEF Earlier
  <2>3. /\ g[x] \in 1..l /\ records[g[x]].place = <<2, records[x].place[2]>>
        /\ g[y] \in 1..l /\ records[g[y]].place = <<2, records[y].place[2]>>
    BY <1>10
  <2>4. records[x].place[2] \in Nat /\ records[y].place[2] \in Nat
    BY <1>9
  <2>5. ~Earlier(records[g[y]].place, records[g[x]].place)
    BY <2>2, <2>3, <2>4 DEF Earlier
  <2>6. g[x] # g[y]
    BY <2>2, <2>3, <2>4
  <2>7. ~(g[y] < g[x])
    BY <1>6, <2>3, <2>5
  <2>8. QED
    BY <2>3, <2>6, <2>7
<1>12. ASSUME NEW k \in (m + 1)..l PROVE \E x \in 1..m : g[x] = k
  <2>1. k \in 1..l /\ k \notin 1..m
    BY <1>1, <1>2
  <2>2. /\ records[k].place = <<2, records[k].place[2]>> /\ Passes(records[k].place)
        /\ records[k].place[2] \in 1..Len(inputs[2].lines)
    BY <1>5, <2>1
  <2> DEFINE p == <<1, records[k].place[2]>>
  <2>3. p \in Places
    BY <1>4, <1>8, <2>2, PlaceThere
  <2>4. Passes(p)
    <3>1. Passes(<<2, records[k].place[2]>>)
      BY <2>2
    <3>2. QED
      BY <3>1, SameInput
  <2>5. PICK x \in 1..l : records[x].place = p
    BY <1>7, <2>3, <2>4
  <2>6. x \in 1..m
    BY <1>5, <2>5
  <2>7. records[g[x]].place = records[k].place /\ g[x] \in 1..l
    <3>1. records[g[x]].place = <<2, records[x].place[2]>> /\ g[x] \in 1..l
      BY <1>10, <2>6
    <3>2. records[x].place[2] = records[k].place[2]
      BY <2>5
    <3>3. QED
      BY <2>2, <3>1, <3>2
  <2>8. records[k].place \in Places
    BY <1>5, <2>1
  <2>9. ~Earlier(records[k].place, records[k].place)
    BY <1>4, <2>8, PlacesOrdered
  <2>10. ~(g[x] < k) /\ ~(k < g[x])
    BY <1>6, <2>1, <2>7, <2>9
  <2>11. QED
    BY <2>1, <2>6, <2>7, <2>10
<1>13. l = m + m /\ \A x \in 1..m : g[x] = m + x
  <2>1. m \in Nat /\ l \in Nat /\ m <= l
    BY <1>1, <1>2
  <2>2. \A x \in 1..m : g[x] \in (m + 1)..l
    BY <1>10
  <2>3. \A x, y \in 1..m : x < y => g[x] < g[y]
    BY <1>11
  <2>4. \A k \in (m + 1)..l : \E x \in 1..m : g[x] = k
    BY <1>12
  <2>5. QED
    BY <2>1, <2>2, <2>3, <2>4, InTurn
<1>14. ASSUME NEW x \in 1..m
       PROVE  Joined[x] = FirstInput[x] /\ Joined[m + x] = FirstInput[x]
  <2>1. FirstInput[x] = records[x].o /\ x \in 1..l
    BY <1>1, <1>9
  <2>2. m + x \in 1..l /\ records[m + x].place = again(x)
    BY <1>10, <1>13
  <2>3. /\ records[x].o = ObservationAt(<<1, records[x].place[2]>>)
        /\ records[m + x].o = ObservationAt(<<2, records[x].place[2]>>)
    BY <1>5, <1>9, <2>1, <2>2
  <2>4. QED
    BY <1>3, <2>1, <2>2, <2>3, SameInput
<1>15. /\ FirstInput \in Seq(SignalObservation)
       /\ Len(FirstInput) = m /\ DOMAIN FirstInput = 1..m
  <2>1. ASSUME NEW x \in 1..m PROVE records[x].o \in SignalObservation
    <3>1. x \in DOMAIN Joined /\ Joined[x] = records[x].o
      BY <1>3, <1>9
    <3>2. Joined \in Seq(SignalObservation)
      BY <1>3
    <3>3. QED
      BY <3>1, <3>2, ObservationFields
  <2>2. FirstInput \in [1..m -> SignalObservation]
    BY <1>1, <2>1
  <2>3. QED
    BY <1>1, <2>2
<1>16. Len(Joined) = l
  BY <1>2, <1>3
<1>17. QED
  BY <1>3, <1>13, <1>14, <1>15, <1>16 DEF IsTwice

(* A RINEX file that is given twice makes the file that it makes given     *)
(* once, whatever it holds: arc starts at 0 in every input, so that the    *)
(* duplicates neither make a slip nor hide one (accumulate_arc,            *)
(* write_observation_file).                                                *)
THEOREM ObsInputsTwiceIsOnce == Spec => []TwiceIsOnce
<1>1. ASSUME JoinInv PROVE TwiceIsOnce
  <2>1. SUFFICES ASSUME status = "done", Len(inputs) = 2, inputs[1] = inputs[2]
                 PROVE  Output = Written(cfg.backend, Sorted(FirstInput))
    BY DEF TwiceIsOnce
  <2>2. IsTwice(FirstInput, Joined)
    BY <1>1, <2>1, RecordsTwice
  <2>3. QED
    BY <1>1, <2>2, TwiceFile, JoinedFacts
<1>2. QED
  BY <1>1, ObsInputsInvariant, PTL
=============================================================================
