---------------------------- MODULE DriverProofs ----------------------------
(***************************************************************************)
(* What holds of the packet driver for any number of inputs of any size.   *)
(***************************************************************************)
EXTENDS Driver, WellFoundedInduction, TLAPS

Place == Nat \X Nat

(* Packets are converted at places that have been read, the latest last.   *)
PlacesRead ==
  \A i \in DOMAIN converted :
    \/ converted[i][1] \in 1..(Len(files) - 1)
    \/ converted[i][1] = Len(files) /\ Len(files) # 0 /\ converted[i][2] <= pos

(* Nothing of an old input is read when it is said to be RTCM.             *)
NoneStale == from = "rtcm" /\ ~log => \A i \in DOMAIN files : ~files[i].stale

(* How far input i has been given to the driver, and whether the converter *)
(* of the family is the one that gets it.                                  *)
ReadTo(i) == IF i = Len(files) THEN pos ELSE Len(files[i].packets)

Fed(i) == from = "raw" /\ ~log => Kind(files[i].packets) = family

(* The family is the one asked for, or that of the first stream with one;  *)
(* until there is one nothing with observations was read.                  *)
FamilyInv ==
  /\ from \in {"raw", "rtcm", "ubx"}
  /\ log \in BOOLEAN
  /\ family \in {"pending", "rtcm", "ubx"}
  /\ from # "raw" => family = from
  /\ log /\ family = "pending" =>
       \A i \in DOMAIN files : \A n \in 1..ReadTo(i) : ~files[i].packets[n].obs
  /\ ~log /\ family = "pending" =>
       \A i \in DOMAIN files : Kind(files[i].packets) = "none"
  /\ ~log /\ from = "raw" /\ family # "pending" =>
       \E i \in DOMAIN files : /\ Kind(files[i].packets) = family
                              /\ \A j \in 1..(i - 1) : Kind(files[j].packets) = "none"

(* Only a stream of the family is read packet by packet, and the parser    *)
(* holds the end of the last input when that was one, cut within a packet. *)
StreamInv ==
  /\ files = <<>> => pos = 0
  /\ files # <<>> => pos <= Len(File.packets)
  /\ ~log /\ ~AtEnd => Fed(Len(files))
  /\ held \in 0..Len(files)
  /\ ~log /\ files # <<>> =>
       (held = Len(files) <=> family = "ubx" /\ File.cut = "ubx" /\ Fed(Len(files)))

(* The observation packets read so far that are to be converted, and the   *)
(* inputs at whose start one that was cut in two is.                       *)
Due == {p \in Place : /\ p[1] \in DOMAIN files /\ p[2] \in 1..ReadTo(p[1])
                      /\ At(p).obs /\ At(p).tag = family /\ Fed(p[1])}

SplitDue ==
  {p \in Place : /\ ~log /\ family = "ubx" /\ p[2] = 0
                 /\ p[1] \in 2..Len(files)
                 /\ files[p[1]].joined /\ files[p[1] - 1].cut = "ubx"
                 /\ Fed(p[1]) /\ Fed(p[1] - 1)}

(* The inductive invariant of what is converted.                           *)
ConvertedInv ==
  /\ FamilyInv
  /\ StreamInv
  /\ Range(converted) = Due \cup SplitDue

(* The inductive invariant.                                                *)
DriverInv ==
  /\ files \in Seq(Inputs)
  /\ pos \in Nat
  /\ converted \in Seq(Place)
  /\ total = Len(converted)
  /\ status = "done" => total # 0
  /\ PlacesRead
  /\ NoneStale
  /\ InOrder

-----------------------------------------------------------------------------
(* A place after all others may be added to them.                          *)
LEMMA AppendPlace ==
  ASSUME NEW s \in Seq(Place), NEW p \in Place,
         \A x, y \in DOMAIN s : x < y => Earlier(s[x], s[y]),
         \A x \in DOMAIN s : Earlier(s[x], p)
  PROVE  LET u == Append(s, p)
         IN  /\ u \in Seq(Place) /\ Len(u) = Len(s) + 1
             /\ \A x \in DOMAIN u : (x \in DOMAIN s /\ u[x] = s[x]) \/ u[x] = p
             /\ \A x, y \in DOMAIN u : x < y => Earlier(u[x], u[y])
<1> DEFINE u == Append(s, p)
<1>1. /\ u \in Seq(Place) /\ Len(u) = Len(s) + 1 /\ u[Len(s) + 1] = p
      /\ \A x \in 1..Len(s) : u[x] = s[x]
  OBVIOUS
<1>2. DOMAIN u = 1..(Len(s) + 1) /\ DOMAIN s = 1..Len(s) /\ Len(s) \in Nat
  BY <1>1
<1>3. \A x \in DOMAIN u : (x \in DOMAIN s /\ u[x] = s[x]) \/ (x = Len(s) + 1 /\ u[x] = p)
  BY <1>1, <1>2
<1>4. ASSUME NEW x \in DOMAIN u, NEW y \in DOMAIN u, x < y
      PROVE  Earlier(u[x], u[y])
  <2>1. x \in DOMAIN s /\ u[x] = s[x]
    BY <1>2, <1>3, <1>4
  <2>2. CASE y \in DOMAIN s /\ u[y] = s[y]
    BY <1>4, <2>1, <2>2
  <2>3. CASE u[y] = p
    BY <2>1, <2>3
  <2>4. QED
    BY <1>3, <2>2, <2>3
<1>5. QED
  BY <1>1, <1>3, <1>4

(* It is then the only new one.                                            *)
LEMMA AppendRange ==
  ASSUME NEW s \in Seq(Place), NEW p \in Place
  PROVE  Range(Append(s, p)) = Range(s) \cup {p}
<1> DEFINE u == Append(s, p)
<1>1. /\ Len(s) \in Nat /\ Len(u) = Len(s) + 1 /\ u[Len(s) + 1] = p
      /\ DOMAIN u = 1..(Len(s) + 1) /\ DOMAIN s = 1..Len(s)
      /\ \A x \in 1..Len(s) : u[x] = s[x]
  OBVIOUS
<1> HIDE DEF u
<1>2. \A x \in DOMAIN s : x \in DOMAIN u /\ u[x] = s[x]
  BY <1>1
<1>3. Len(s) + 1 \in DOMAIN u
  BY <1>1
<1>4. \A x \in DOMAIN u : (x \in DOMAIN s /\ u[x] = s[x]) \/ u[x] = p
  BY <1>1
<1>5. Range(u) = Range(s) \cup {p}
  BY <1>1, <1>2, <1>3, <1>4, Zenon DEF Range
<1>6. QED
  BY <1>5 DEF u

LEMMA OpenStep ==
  ASSUME DriverInv, NEW in \in Inputs, Open(in)
  PROVE  DriverInv'
<1>1. CASE Refused(in)
  BY <1>1 DEF DriverInv, Open, Fail, options, PlacesRead, NoneStale, InOrder
<1>2. CASE ~Refused(in)
  <2> DEFINE n == Len(files) + 1
  <2>1. /\ files' = Append(files, in) /\ UNCHANGED <<from, log, status>>
        /\ status = "read"
    BY <1>2 DEF Open, options
  <2>2. /\ files' \in Seq(Inputs) /\ Len(files') = n /\ n \in Nat \ {0}
        /\ files'[n] = in /\ \A i \in 1..Len(files) : files'[i] = files[i]
    BY <2>1 DEF DriverInv
  <2>3. pos' \in Nat
    <3>1. in.packets \in Seq(Packets)
      BY DEF Inputs, SeqOf
    <3>2. Len(in.packets) \in Nat
      BY <3>1
    <3>3. pos' = 0 \/ pos' = Len(in.packets)
      BY <1>2 DEF Open
    <3>4. QED
      BY <3>2, <3>3
  <2>4. NoneStale'
    <3>1. (from = "rtcm" /\ ~log) => ~in.stale
      BY <1>2 DEF Refused
    <3>2. ASSUME from = "rtcm", ~log, NEW i \in DOMAIN files' PROVE ~files'[i].stale
      <4>1. i \in 1..Len(files) \/ i = n
        BY <2>2
      <4>2. files \in Seq(Inputs)
        BY DEF DriverInv
      <4>3. QED
        BY <2>2, <3>1, <3>2, <4>1, <4>2 DEF DriverInv, NoneStale
    <3>3. QED
      BY <2>1, <3>2 DEF NoneStale
  <2>5. \A i \in DOMAIN converted : converted[i][1] \in 1..Len(files)
    BY DEF DriverInv, PlacesRead
  <2>6. CASE UNCHANGED <<converted, total>>
    <3>1. PlacesRead'
      BY <2>2, <2>5, <2>6 DEF PlacesRead
    <3>2. InOrder'
      BY <2>6 DEF InOrder, DriverInv
    <3>3. QED
      BY <2>1, <2>2, <2>3, <2>4, <2>6, <3>1, <3>2 DEF DriverInv
  <2>7. CASE converted' = Append(converted, <<n, 0>>) /\ total' = total + 1
    <3> DEFINE p == <<n, 0>>
    <3>1. p \in Place /\ converted \in Seq(Place)
      BY <2>2 DEF Place, DriverInv
    <3>2. \A x \in DOMAIN converted : Earlier(converted[x], p)
      BY <2>2, <2>5 DEF Earlier
    <3>3. /\ converted' \in Seq(Place) /\ Len(converted') = Len(converted) + 1
          /\ \A x \in DOMAIN converted' :
               (x \in DOMAIN converted /\ converted'[x] = converted[x]) \/ converted'[x] = p
          /\ InOrder'
      <4>1. InOrder
        BY DEF DriverInv
      <4>2. converted' = Append(converted, p)
        BY <2>7
      <4> HIDE DEF p
      <4>3. QED
        BY <3>1, <3>2, <4>1, <4>2, AppendPlace DEF InOrder
    <3>4. PlacesRead'
      BY <2>2, <2>3, <2>5, <3>3 DEF PlacesRead
    <3>5. total' = Len(converted')
      BY <2>7, <3>3 DEF DriverInv
    <3>6. QED
      BY <2>1, <2>2, <2>3, <2>4, <3>3, <3>4, <3>5 DEF DriverInv
  <2>8. QED
    BY <1>2, <2>2, <2>6, <2>7 DEF Open
<1>3. QED
  BY <1>1, <1>2

(* A packet at a place not read before is converted or not.                *)
LEMMA ReadStep ==
  ASSUME DriverInv, ~AtEnd, NEW f, Produce(f), pos' = pos + 1,
         UNCHANGED <<from, log, files, status>>
  PROVE  DriverInv' /\ files # <<>>
<1>1. files # <<>> /\ Len(files) \in Nat \ {0}
  BY DEF AtEnd, DriverInv
<1>2. NoneStale' /\ pos' \in Nat
  BY DEF DriverInv, NoneStale
<1>3. CASE UNCHANGED <<converted, total>>
  <2>1. PlacesRead'
    BY <1>1, <1>3 DEF DriverInv, PlacesRead, Place
  <2>2. InOrder'
    BY <1>3 DEF DriverInv, InOrder
  <2>3. QED
    BY <1>1, <1>2, <1>3, <2>1, <2>2 DEF DriverInv
<1>4. CASE converted' = Append(converted, <<Len(files), pos + 1>>) /\ total' = total + 1
  <2> DEFINE p == <<Len(files), pos + 1>>
  <2>1. p \in Place /\ converted \in Seq(Place)
    BY <1>1 DEF Place, DriverInv
  <2>2. \A x \in DOMAIN converted : Earlier(converted[x], p)
    <3>1. SUFFICES ASSUME NEW x \in DOMAIN converted PROVE Earlier(converted[x], p)
      OBVIOUS
    <3>2. converted[x] \in Place
      BY <2>1
    <3>3. QED
      BY <1>1, <3>2 DEF DriverInv, PlacesRead, Place, Earlier
  <2>3. /\ converted' \in Seq(Place) /\ Len(converted') = Len(converted) + 1
        /\ \A x \in DOMAIN converted' :
             (x \in DOMAIN converted /\ converted'[x] = converted[x]) \/ converted'[x] = p
        /\ InOrder'
    BY <1>4, <2>1, <2>2, AppendPlace DEF InOrder, DriverInv
  <2>4. PlacesRead'
    <3>1. SUFFICES ASSUME NEW x \in DOMAIN converted'
                   PROVE  \/ converted'[x][1] \in 1..(Len(files) - 1)
                          \/ converted'[x][1] = Len(files) /\ converted'[x][2] <= pos + 1
      BY <1>1 DEF PlacesRead
    <3>2. CASE converted'[x] = p
      BY <3>2
    <3>3. CASE x \in DOMAIN converted /\ converted'[x] = converted[x]
      <4>1. converted[x] \in Place
        BY <2>1, <3>3
      <4>2. QED
        BY <3>3, <4>1 DEF DriverInv, PlacesRead, Place
    <3>4. QED
      BY <2>3, <3>2, <3>3
  <2>5. total' = Len(converted')
    BY <1>4, <2>3 DEF DriverInv
  <2>6. total' # 0
    BY <1>4, <2>1 DEF DriverInv
  <2>7. QED
    BY <1>1, <1>2, <2>3, <2>4, <2>5, <2>6 DEF DriverInv
<1>5. QED
  BY <1>3, <1>4 DEF Produce

LEMMA NextStep == DriverInv /\ [Next]_vars => DriverInv'
<1> SUFFICES ASSUME DriverInv, [Next]_vars PROVE DriverInv'
  OBVIOUS
<1>1. ASSUME NEW in \in Inputs, Open(in) PROVE DriverInv'
  BY <1>1, OpenStep
<1>2. CASE Fail
  BY <1>2 DEF Fail, options, DriverInv, PlacesRead, NoneStale, InOrder
<1>3. CASE ConvertStream /\ ~Fail
  <2>1. /\ Produce(family) /\ pos' = pos + 1 /\ ~AtEnd
        /\ UNCHANGED <<from, log, files, status>>
    BY <1>3 DEF ConvertStream, options
  <2>2. QED
    BY <2>1, ReadStep
<1>4. CASE ConvertLog /\ Skipped /\ ~Fail
  <2>1. /\ pos' = pos + 1 /\ UNCHANGED <<from, log, files, converted, total, status>>
    BY <1>4 DEF ConvertLog, options
  <2>2. PlacesRead'
    <3>1. SUFFICES ASSUME NEW x \in DOMAIN converted
                   PROVE  \/ converted[x][1] \in 1..(Len(files) - 1)
                          \/ converted[x][1] = Len(files) /\ Len(files) # 0
                             /\ converted[x][2] <= pos + 1
      BY <2>1 DEF PlacesRead
    <3>2. converted[x] \in Place
      BY DEF DriverInv
    <3>3. QED
      BY <3>2 DEF DriverInv, PlacesRead, Place
  <2>3. InOrder' /\ NoneStale'
    BY <2>1 DEF DriverInv, InOrder, NoneStale
  <2>4. QED
    BY <2>1, <2>2, <2>3 DEF DriverInv
<1>5. CASE ConvertLog /\ ~Skipped /\ ~Fail
  <2>1. /\ Produce(family') /\ pos' = pos + 1 /\ ~AtEnd
        /\ UNCHANGED <<from, log, files, status>>
    BY <1>5 DEF ConvertLog, options
  <2>2. QED
    BY <2>1, ReadStep
<1>6. CASE Finish
  BY <1>6 DEF Finish, options, DriverInv, PlacesRead, NoneStale, InOrder
<1>7. CASE UNCHANGED vars
  BY <1>7 DEF vars, options, DriverInv, PlacesRead, NoneStale, InOrder
<1>8. QED
  BY <1>1, <1>2, <1>3, <1>4, <1>5, <1>6, <1>7 DEF Next

(* The invariant from which the theorems below follow: the count is that   *)
(* of the packets converted, each at a place already read (lib.rs:799-827).*)
THEOREM DriverInvariant == Spec => []DriverInv
<1>1. Init => DriverInv
  <2> SUFFICES ASSUME Init PROVE DriverInv
    OBVIOUS
  <2>1. /\ files = <<>> /\ converted = <<>> /\ total = 0 /\ pos = 0 /\ status = "read"
    BY DEF Init
  <2>2. DOMAIN converted = {} /\ DOMAIN files = {} /\ Len(converted) = 0
    BY <2>1
  <2>3. QED
    BY <2>1, <2>2 DEF DriverInv, PlacesRead, NoneStale, InOrder
<1>2. QED
  BY <1>1, NextStep, PTL DEF Spec

(* A run succeeds only when something was converted, whatever the inputs.  *)
THEOREM DriverCounted == Spec => []Counted
<1>1. DriverInv => Counted
  <2> SUFFICES ASSUME DriverInv PROVE Counted
    OBVIOUS
  <2>1. status = "done" => converted # <<>>
    BY DEF DriverInv
  <2>2. QED
    BY <2>1 DEF DriverInv, Counted
<1>2. QED
  BY <1>1, DriverInvariant, PTL

(* Nothing of an input that is too old is converted with an inferred week. *)
THEOREM DriverOldInputsNotAssumed == Spec => []OldInputsNotAssumed
<1>1. DriverInv => OldInputsNotAssumed
  <2> SUFFICES ASSUME DriverInv, from = "rtcm", ~log, NEW i \in DOMAIN converted
               PROVE  ~files[converted[i][1]].stale
    BY DEF OldInputsNotAssumed
  <2>1. converted[i][1] \in DOMAIN files
    BY DEF DriverInv, PlacesRead
  <2>2. QED
    BY <2>1 DEF DriverInv, NoneStale
<1>2. QED
  BY <1>1, DriverInvariant, PTL

(* No packet is converted twice or before an earlier one.                  *)
THEOREM DriverInOrder == Spec => []InOrder
<1>1. DriverInv => InOrder
  BY DEF DriverInv
<1>2. QED
  BY <1>1, DriverInvariant, PTL

(* A nonempty set of naturals has a least member.                          *)
LEMMA NatMin ==
  ASSUME NEW S \in SUBSET Nat, S # {}
  PROVE  \E n \in S : \A m \in S : n <= m
<1>1. IsWellFoundedOn(OpToRel(<, Nat), Nat)
  BY NatLessThanWellFounded
<1>2. PICK n \in S : \A m \in S : <<m, n>> \notin OpToRel(<, Nat)
  BY <1>1, WFMin, Zenon
<1>3. \A m \in S : ~(m < n)
  BY <1>2 DEF OpToRel
<1>4. QED
  BY <1>3

(* The family of a stream is that of its first observation.                *)
LEMMA KindFirst ==
  ASSUME NEW s \in Seq(Packets), from = "raw", NEW n \in DOMAIN s, s[n].obs
  PROVE  \E m \in DOMAIN s : /\ s[m].obs /\ Kind(s) = s[m].tag
                             /\ \A k \in DOMAIN s : s[k].obs => m <= k
<1> DEFINE S == Observing(s)
<1>1. S \in SUBSET Nat /\ n \in S
  BY DEF Observing
<1>2. PICK m \in S : \A k \in S : m <= k
  BY <1>1, NatMin
<1>3. Min(S) \in S /\ \A k \in S : Min(S) <= k
  BY <1>1, <1>2 DEF Min
<1>4. Kind(s) = s[Min(S)].tag
  BY <1>1 DEF Kind, DetectRawFamily
<1>5. QED
  BY <1>3, <1>4 DEF Observing

LEMMA KindNone ==
  ASSUME NEW s \in Seq(Packets), from = "raw"
  PROVE  Kind(s) = "none" <=> \A n \in DOMAIN s : ~s[n].obs
<1>1. ASSUME NEW n \in DOMAIN s, s[n].obs PROVE Kind(s) # "none"
  <2>1. PICK m \in DOMAIN s : Kind(s) = s[m].tag
    BY <1>1, KindFirst
  <2>2. s[m] \in Packets
    OBVIOUS
  <2>3. QED
    BY <2>1, <2>2 DEF Packets
<1>2. ASSUME \A n \in DOMAIN s : ~s[n].obs PROVE Kind(s) = "none"
  BY <1>2 DEF Kind, DetectRawFamily, Observing
<1>3. QED
  BY <1>1, <1>2

LEMMA KindType ==
  ASSUME NEW s \in Seq(Packets), from \in {"raw", "rtcm", "ubx"}
  PROVE  /\ Kind(s) \in {"none", "rtcm", "ubx"}
         /\ from # "raw" => Kind(s) = from
<1>1. CASE from # "raw"
  BY <1>1 DEF Kind
<1>2. CASE from = "raw"
  <2>1. CASE Kind(s) = "none"
    BY <1>2, <2>1
  <2>2. CASE Kind(s) # "none"
    <3>1. PICK n \in DOMAIN s : s[n].obs
      BY <1>2, <2>2, KindNone
    <3>2. PICK m \in DOMAIN s : Kind(s) = s[m].tag
      BY <1>2, <3>1, KindFirst
    <3>3. s[m] \in Packets
      OBVIOUS
    <3>4. QED
      BY <1>2, <3>2, <3>3 DEF Packets
  <2>3. QED
    BY <2>1, <2>2
<1>3. QED
  BY <1>1, <1>2

LEMMA InputFacts ==
  ASSUME NEW in \in Inputs
  PROVE  /\ in.packets \in Seq(Packets)
         /\ Len(in.packets) \in Nat
         /\ DOMAIN in.packets = 1..Len(in.packets)
         /\ \A n \in DOMAIN in.packets : in.packets[n] \in Packets
         /\ in.cut \in {"none", "rtcm", "ubx"}
         /\ in.joined \in BOOLEAN
<1>1. in.packets \in Seq(Packets)
  BY DEF Inputs, SeqOf
<1>2. QED
  BY <1>1 DEF Inputs

(* The next input: the family it leaves, and whether it gets the converter *)
(* (convert_packet_stream, lib.rs:1171-1200).                              *)
LEMMA OpenFacts ==
  ASSUME DriverInv, FamilyInv, NEW in \in Inputs, Open(in), ~Refused(in),
         NEW n, n = Len(files) + 1
  PROVE  /\ n \in Nat \ {0} /\ Len(files) \in Nat /\ DOMAIN files = 1..Len(files)
         /\ files' \in Seq(Inputs) /\ Len(files') = n /\ DOMAIN files' = 1..n
         /\ files'[n] = in /\ \A i \in 1..Len(files) : files'[i] = files[i]
         /\ UNCHANGED <<from, log, status>> /\ status = "read" /\ AtEnd
         /\ log \/ family # "pending" => family' = family
         /\ ~log /\ family = "pending" =>
              /\ from = "raw"
              /\ family' = IF Kind(in.packets) = "none" THEN "pending" ELSE Kind(in.packets)
         /\ Fed(n)' <=> log \/ family' = Kind(in.packets)
         /\ pos' = IF Fed(n)' THEN 0 ELSE Len(in.packets)
         /\ held' = IF log \/ ~Fed(n)' \/ family' # "ubx" THEN held
                    ELSE IF in.cut = "ubx" THEN n ELSE 0
         /\ IF ~log /\ Fed(n)' /\ family' = "ubx" /\ Completes(in)
            THEN converted' = Append(converted, <<n, 0>>)
            ELSE converted' = converted
<1>1. /\ files' = Append(files, in) /\ UNCHANGED <<from, log, status>>
      /\ status = "read" /\ AtEnd
  BY DEF Open, options
<1>2. /\ n \in Nat \ {0} /\ Len(files) \in Nat /\ DOMAIN files = 1..Len(files)
      /\ files' \in Seq(Inputs) /\ Len(files') = n /\ DOMAIN files' = 1..n
      /\ files'[n] = in /\ \A i \in 1..Len(files) : files'[i] = files[i]
  BY <1>1 DEF DriverInv
<1> DEFINE kind == Kind(in.packets)
<1>3. kind \in {"none", "rtcm", "ubx"} /\ (from # "raw" => kind = from)
  BY InputFacts, KindType DEF FamilyInv
<1>4. family' = IF log THEN family ELSE Use(kind)
  BY DEF Open
<1>5. log \/ family # "pending" => family' = family
  BY <1>4 DEF Use
<1>6. ~log /\ family = "pending" =>
        from = "raw" /\ family' = IF kind = "none" THEN "pending" ELSE kind
  BY <1>4 DEF Use, FamilyInv
<1>7. Fed(n)' <=> log \/ family' = kind
  <2>1. Fed(n)' <=> (from = "raw" /\ ~log => kind = family')
    BY <1>1, <1>2 DEF Fed, Kind
  <2>2. from # "raw" => family' = kind
    BY <1>3, <1>5, <1>6 DEF FamilyInv
  <2>3. QED
    BY <2>1, <2>2
<1>8. log \in BOOLEAN
  BY DEF FamilyInv
<1>9. pos' = IF Fed(n)' THEN 0 ELSE Len(in.packets)
  <2>1. pos' = IF log \/ (~log /\ family' = kind) THEN 0 ELSE Len(in.packets)
    BY DEF Open
  <2>2. QED
    BY <1>7, <2>1
<1>10. held' = IF log \/ ~Fed(n)' \/ family' # "ubx" THEN held
               ELSE IF in.cut = "ubx" THEN n ELSE 0
  <2>1. held' = IF ~(~log /\ family' = kind) \/ family' # "ubx" THEN held
                ELSE IF in.cut = "ubx" THEN Len(files') ELSE 0
    BY DEF Open
  <2>2. QED
    BY <1>2, <1>7, <2>1
<1>11. IF ~log /\ Fed(n)' /\ family' = "ubx" /\ Completes(in)
       THEN converted' = Append(converted, <<n, 0>>)
       ELSE converted' = converted
  <2>1. IF ~log /\ family' = kind /\ family' = "ubx" /\ Completes(in)
        THEN converted' = Append(converted, <<Len(files'), 0>>)
        ELSE converted' = converted
    BY DEF Open
  <2>2. QED
    BY <1>2, <1>7, <2>1
<1> HIDE DEF kind
<1>12. QED
  BY <1>1, <1>2, <1>5, <1>6, <1>7, <1>9, <1>10, <1>11 DEF kind

(* Opening an input keeps the family or chooses it.                        *)
LEMMA OpenFamily ==
  ASSUME DriverInv, FamilyInv, StreamInv, NEW in \in Inputs, Open(in), ~Refused(in)
  PROVE  FamilyInv'
<1>1. PICK n : n = Len(files) + 1
  OBVIOUS
<1>2. /\ n \in Nat \ {0} /\ Len(files) \in Nat /\ DOMAIN files = 1..Len(files)
      /\ DOMAIN files' = 1..n /\ Len(files') = n
      /\ files'[n] = in /\ \A i \in 1..Len(files) : files'[i] = files[i]
      /\ UNCHANGED <<from, log>>
      /\ log \/ family # "pending" => family' = family
      /\ ~log /\ family = "pending" =>
           /\ from = "raw"
           /\ family' = IF Kind(in.packets) = "none" THEN "pending" ELSE Kind(in.packets)
      /\ Fed(n)' <=> log \/ family' = Kind(in.packets)
      /\ pos' = IF Fed(n)' THEN 0 ELSE Len(in.packets)
      /\ AtEnd
  BY <1>1, OpenFacts
<1>3. Kind(in.packets) \in {"none", "rtcm", "ubx"}
  BY InputFacts, KindType DEF FamilyInv
<1>4. \A s : Kind(s)' = Kind(s)
  BY <1>2 DEF Kind
<1>5. /\ from' \in {"raw", "rtcm", "ubx"} /\ log' \in BOOLEAN
      /\ family' \in {"pending", "rtcm", "ubx"}
      /\ from' # "raw" => family' = from'
  BY <1>2, <1>3 DEF FamilyInv
<1>6. ASSUME log, family' = "pending", NEW i \in DOMAIN files', NEW m \in 1..(ReadTo(i)')
      PROVE  ~files'[i].packets[m].obs
  <2>1. i # n
    BY <1>2, <1>6 DEF ReadTo
  <2>2. i \in DOMAIN files /\ files'[i] = files[i]
    BY <1>1, <1>2, <2>1
  <2>3. ReadTo(i)' = Len(files[i].packets)
    BY <1>2, <2>1, <2>2 DEF ReadTo
  <2>4. ReadTo(i) = Len(files[i].packets)
    BY <1>2, <2>2 DEF ReadTo, AtEnd, File
  <2>5. QED
    BY <1>2, <1>6, <2>2, <2>3, <2>4 DEF FamilyInv
<1>7. ASSUME ~log, family' = "pending", NEW i \in DOMAIN files'
      PROVE  Kind(files'[i].packets) = "none"
  <2>1. family = "pending" /\ Kind(in.packets) = "none"
    BY <1>2, <1>3, <1>7
  <2>2. CASE i = n
    BY <1>2, <2>1, <2>2
  <2>3. CASE i # n
    <3>1. i \in DOMAIN files /\ files'[i] = files[i]
      BY <1>1, <1>2, <2>3
    <3>2. QED
      BY <1>7, <2>1, <3>1 DEF FamilyInv
  <2>4. QED
    BY <2>2, <2>3
<1>8. ASSUME ~log, from = "raw", family' # "pending"
      PROVE  \E i \in DOMAIN files' :
               /\ Kind(files'[i].packets) = family'
               /\ \A j \in 1..(i - 1) : Kind(files'[j].packets) = "none"
  <2>1. CASE family = "pending"
    <3>1. Kind(files'[n].packets) = family' /\ n \in DOMAIN files'
      BY <1>2, <1>8, <2>1
    <3>2. ASSUME NEW j \in 1..(n - 1) PROVE Kind(files'[j].packets) = "none"
      <4>1. j \in DOMAIN files /\ files'[j] = files[j]
        BY <1>1, <1>2
      <4>2. QED
        BY <1>8, <2>1, <4>1 DEF FamilyInv
    <3>3. QED
      BY <3>1, <3>2
  <2>2. CASE family # "pending"
    <3>1. PICK i \in DOMAIN files :
             /\ Kind(files[i].packets) = family
             /\ \A j \in 1..(i - 1) : Kind(files[j].packets) = "none"
      BY <1>8, <2>2 DEF FamilyInv
    <3>2. i \in 1..Len(files) /\ i \in DOMAIN files' /\ files'[i] = files[i]
      BY <1>1, <1>2
    <3>3. \A j \in 1..(i - 1) : files'[j] = files[j]
      BY <1>2, <3>2
    <3>4. family' = family
      BY <1>2, <2>2
    <3>5. QED
      BY <3>1, <3>2, <3>3, <3>4
  <2>3. QED
    BY <2>1, <2>2
<1>9. /\ log' /\ family' = "pending" =>
           \A i \in DOMAIN files' : \A m \in 1..(ReadTo(i)') : ~files'[i].packets[m].obs
      /\ ~log' /\ family' = "pending" =>
           \A i \in DOMAIN files' : Kind(files[i].packets)' = "none"
  BY <1>2, <1>4, <1>6, <1>7
<1>10. ~log' /\ from' = "raw" /\ family' # "pending" =>
         \E i \in DOMAIN files' :
           /\ Kind(files[i].packets)' = family'
           /\ \A j \in 1..(i - 1) : Kind(files[j].packets)' = "none"
  BY <1>2, <1>4, <1>8
<1>11. QED
  BY <1>5, <1>9, <1>10 DEF FamilyInv

LEMMA OpenStream ==
  ASSUME DriverInv, FamilyInv, StreamInv, NEW in \in Inputs, Open(in), ~Refused(in)
  PROVE  StreamInv'
<1>1. PICK n : n = Len(files) + 1
  OBVIOUS
<1>2. /\ n \in Nat \ {0} /\ Len(files) \in Nat
      /\ Len(files') = n /\ files'[n] = in
      /\ UNCHANGED <<from, log>>
      /\ pos' = IF Fed(n)' THEN 0 ELSE Len(in.packets)
      /\ held' = IF log \/ ~Fed(n)' \/ family' # "ubx" THEN held
                 ELSE IF in.cut = "ubx" THEN n ELSE 0
  BY <1>1, OpenFacts
<1>3. files' # <<>> /\ File' = in
  BY <1>2 DEF File
<1>4. Len(in.packets) \in Nat
  BY InputFacts
<1>5. Fed(Len(files))' <=> Fed(n)'
  BY <1>2 DEF Fed, Kind
<1>6. pos' <= Len(File.packets)'
  BY <1>2, <1>3, <1>4
<1>7. ~log' /\ ~AtEnd' => Fed(Len(files))'
  BY <1>2, <1>3, <1>5 DEF AtEnd
<1>8. held \in 0..Len(files)
  BY DEF StreamInv
<1>9. held' \in 0..n
  BY <1>1, <1>2, <1>8
<1>10. ~log => (held' = n <=> family' = "ubx" /\ in.cut = "ubx" /\ Fed(n)')
  BY <1>1, <1>2, <1>8
<1>11. held' \in 0..Len(files') /\
       (~log' /\ files' # <<>> =>
         (held' = Len(files') <=> family' = "ubx" /\ File.cut' = "ubx" /\ Fed(Len(files))'))
  BY <1>2, <1>3, <1>5, <1>9, <1>10
<1>12. QED
  BY <1>3, <1>6, <1>7, <1>11 DEF StreamInv

(* The packet at a place that is to be converted. *)
LEMMA DueFacts ==
  ASSUME DriverInv, StreamInv, NEW p \in Due
  PROVE  /\ p \in Place /\ p[1] \in 1..Len(files) /\ p[2] \in 1..ReadTo(p[1])
         /\ p[2] \in 1..Len(files[p[1]].packets)
         /\ At(p) = files[p[1]].packets[p[2]] /\ At(p) \in Packets
         /\ At(p).obs /\ At(p).tag = family /\ Fed(p[1])
<1>1. /\ p \in Place /\ p[1] \in 1..Len(files) /\ p[2] \in 1..ReadTo(p[1])
      /\ At(p) = files[p[1]].packets[p[2]]
      /\ At(p).obs /\ At(p).tag = family /\ Fed(p[1])
  BY DEF Due, DriverInv, At
<1>2. files[p[1]] \in Inputs
  BY <1>1 DEF DriverInv
<1>3. Len(files[p[1]].packets) \in Nat /\ pos \in Nat /\ Len(files) \in Nat
  BY <1>2, InputFacts DEF DriverInv
<1>4. ReadTo(p[1]) \in Nat /\ ReadTo(p[1]) <= Len(files[p[1]].packets)
  BY <1>1, <1>3 DEF ReadTo, StreamInv, File
<1>5. p[2] \in 1..Len(files[p[1]].packets)
  BY <1>1, <1>3, <1>4
<1>6. At(p) \in Packets
  BY <1>1, <1>2, <1>5, InputFacts
<1>7. QED
  BY <1>1, <1>5, <1>6

(* While no family is chosen nothing is to be converted. *)
LEMMA PendingNone ==
  ASSUME DriverInv, StreamInv, family = "pending"
  PROVE  Due = {} /\ SplitDue = {}
<1>1. ASSUME NEW p \in Due PROVE FALSE
  BY <1>1, DueFacts DEF Packets
<1>2. SplitDue = {}
  BY DEF SplitDue
<1>3. QED
  BY <1>1, <1>2

(* An input just opened adds nothing that is read later. *)
LEMMA OpenDue ==
  ASSUME DriverInv, FamilyInv, StreamInv, NEW in \in Inputs, Open(in), ~Refused(in)
  PROVE  Due' = Due
<1>1. PICK n : n = Len(files) + 1
  OBVIOUS
<1>2. /\ n \in Nat \ {0} /\ Len(files) \in Nat /\ DOMAIN files = 1..Len(files)
      /\ DOMAIN files' = 1..n /\ Len(files') = n
      /\ files'[n] = in /\ \A i \in 1..Len(files) : files'[i] = files[i]
      /\ UNCHANGED <<from, log>>
      /\ log \/ family # "pending" => family' = family
      /\ ~log /\ family = "pending" =>
           /\ from = "raw"
           /\ family' = IF Kind(in.packets) = "none" THEN "pending" ELSE Kind(in.packets)
      /\ pos' = IF Fed(n)' THEN 0 ELSE Len(in.packets)
      /\ AtEnd
  BY <1>1, OpenFacts
<1>3. ASSUME NEW p \in Place, p[1] = n PROVE p \notin Due'
  <2>1. CASE Fed(n)'
    <3>1. ReadTo(p[1])' = 0
      BY <1>2, <1>3, <2>1 DEF ReadTo
    <3>2. QED
      BY <3>1 DEF Due
  <2>2. CASE ~Fed(n)'
    <3>1. Fed(p[1])' <=> Fed(n)'
      BY <1>3
    <3>2. QED
      BY <2>2, <3>1 DEF Due
  <2>3. QED
    BY <2>1, <2>2
<1>4. ASSUME NEW p \in Place, p[1] \in 1..Len(files)
      PROVE  /\ files'[p[1]] = files[p[1]] /\ At(p)' = At(p)
             /\ ReadTo(p[1])' = ReadTo(p[1])
             /\ Fed(p[1])' <=> (from = "raw" /\ ~log => Kind(files[p[1]].packets) = family')
  <2>1. p[1] # n /\ p[1] # Len(files') /\ files'[p[1]] = files[p[1]]
    BY <1>1, <1>2, <1>4
  <2>2. ReadTo(p[1])' = Len(files[p[1]].packets)
    BY <2>1 DEF ReadTo
  <2>3. ReadTo(p[1]) = Len(files[p[1]].packets)
    BY <1>2, <1>4 DEF ReadTo, AtEnd, File
  <2>4. Fed(p[1])' <=> (from = "raw" /\ ~log => Kind(files[p[1]].packets) = family')
    BY <1>2, <2>1 DEF Fed, Kind
  <2>5. At(p)' = At(p)
    BY <2>1 DEF At
  <2>6. QED
    BY <2>1, <2>2, <2>3, <2>4, <2>5
<1>5. CASE family' = family
  <2>1. ASSUME NEW p \in Place PROVE p \in Due' <=> p \in Due
    <3>1. CASE p[1] \in 1..Len(files)
      BY <1>1, <1>2, <1>4, <1>5, <3>1 DEF Due, Fed
    <3>2. CASE p[1] = n
      BY <1>1, <1>2, <1>3, <3>2 DEF Due
    <3>3. CASE p[1] \notin 1..n
      BY <1>1, <1>2, <3>3 DEF Due
    <3>4. QED
      BY <1>1, <1>2, <3>1, <3>2, <3>3
  <2>2. QED
    BY <2>1 DEF Due
<1>6. CASE family' # family
  <2>1. /\ ~log /\ family = "pending" /\ from = "raw"
        /\ family' = Kind(in.packets) /\ Kind(in.packets) # "none"
    BY <1>2, <1>6 DEF FamilyInv
  <2>2. Due = {}
    BY <2>1, PendingNone
  <2>3. ASSUME NEW p \in Place PROVE p \notin Due'
    <3>1. CASE p[1] \in 1..Len(files)
      <4>1. Kind(files[p[1]].packets) = "none"
        BY <1>2, <2>1, <3>1 DEF FamilyInv
      <4>2. ~Fed(p[1])'
        BY <1>4, <2>1, <3>1, <4>1
      <4>3. QED
        BY <4>2 DEF Due
    <3>2. CASE p[1] \notin 1..Len(files) /\ p[1] # n
      BY <1>1, <1>2, <3>2 DEF Due
    <3>3. QED
      BY <1>3, <3>1, <3>2
  <2>4. QED
    BY <2>2, <2>3 DEF Due
<1>7. QED
  BY <1>5, <1>6

(* The parser completes a packet across two inputs exactly when both were  *)
(* given to it and the one ends within it (ubx.rs:101-140).                *)
LEMMA OpenSplit ==
  ASSUME DriverInv, FamilyInv, StreamInv, NEW in \in Inputs, Open(in), ~Refused(in)
  PROVE  \/ SplitDue' = SplitDue /\ converted' = converted
         \/ /\ SplitDue' = SplitDue \cup {<<Len(files) + 1, 0>>}
            /\ converted' = Append(converted, <<Len(files) + 1, 0>>)
<1>1. PICK n : n = Len(files) + 1
  OBVIOUS
<1> DEFINE completed == ~log /\ Fed(n)' /\ family' = "ubx" /\ Completes(in)
<1>2. /\ n \in Nat \ {0} /\ Len(files) \in Nat /\ DOMAIN files = 1..Len(files)
      /\ DOMAIN files' = 1..n /\ Len(files') = n
      /\ files'[n] = in /\ \A i \in 1..Len(files) : files'[i] = files[i]
      /\ UNCHANGED <<from, log>>
      /\ log \/ family # "pending" => family' = family
      /\ ~log /\ family = "pending" =>
           /\ from = "raw"
           /\ family' = IF Kind(in.packets) = "none" THEN "pending" ELSE Kind(in.packets)
      /\ IF completed THEN converted' = Append(converted, <<n, 0>>)
                      ELSE converted' = converted
  BY <1>1, OpenFacts
<1>3. ASSUME NEW i \in 1..Len(files)
      PROVE  /\ i # n /\ files'[i] = files[i]
             /\ Fed(i)' <=> (from = "raw" /\ ~log => Kind(files[i].packets) = family')
  BY <1>1, <1>2, <1>3 DEF Fed, Kind
<1>4. family' # family /\ ~log =>
        \A i \in 1..Len(files) : ~Fed(i)'
  <2> SUFFICES ASSUME family' # family, ~log, NEW i \in 1..Len(files) PROVE ~Fed(i)'
    OBVIOUS
  <2>1. family = "pending" /\ from = "raw" /\ family' # "pending"
    BY <1>2
  <2>2. Kind(files[i].packets) = "none" /\ family' = Kind(in.packets)
        /\ Kind(in.packets) # "none"
    BY <1>2, <2>1 DEF FamilyInv
  <2>3. QED
    BY <1>3, <2>1, <2>2
<1>5. family' = family => \A i \in 1..Len(files) : Fed(i)' <=> Fed(i)
  BY <1>3 DEF Fed
<1>6. ASSUME NEW p \in Place, p[1] # n PROVE p \in SplitDue' <=> p \in SplitDue
  <2>1. CASE p[1] \notin 2..Len(files)
    BY <1>1, <1>2, <1>6, <2>1 DEF SplitDue
  <2>2. CASE p[1] \in 2..Len(files)
    <3>1. p[1] \in 1..Len(files) /\ p[1] - 1 \in 1..Len(files) /\ p[1] \in 2..n
      BY <1>1, <1>2, <2>2
    <3>2. files'[p[1]] = files[p[1]] /\ files'[p[1] - 1] = files[p[1] - 1]
      BY <1>3, <3>1
    <3>3. CASE log
      BY <1>2, <3>3 DEF SplitDue
    <3>4. CASE ~log /\ family' = family
      <4>1. Fed(p[1])' <=> Fed(p[1])
        BY <1>5, <3>1, <3>4
      <4>2. Fed(p[1] - 1)' <=> Fed(p[1] - 1)
        BY <1>5, <3>1, <3>4
      <4>3. QED
        BY <1>2, <2>2, <3>1, <3>2, <3>4, <4>1, <4>2 DEF SplitDue
    <3>5. CASE ~log /\ family' # family
      <4>1. ~Fed(p[1])'
        BY <1>4, <3>1, <3>5
      <4>2. SplitDue = {}
        BY <1>2, <3>5, PendingNone
      <4>3. QED
        BY <4>1, <4>2 DEF SplitDue
    <3>6. QED
      BY <3>3, <3>4, <3>5
  <2>3. QED
    BY <2>1, <2>2
<1>7. completed <=> /\ ~log /\ family' = "ubx" /\ n \in 2..n
                    /\ in.joined /\ files'[n - 1].cut = "ubx" /\ Fed(n)' /\ Fed(n - 1)'
  <2>1. CASE files = <<>>
    <3>1. Len(files) = 0 /\ n = 1
      BY <1>1, <2>1
    <3>2. n \notin 2..n /\ ~Completes(in)
      BY <3>1 DEF Completes
    <3>3. QED
      BY <3>2
  <2>2. CASE files # <<>>
    <3>1. /\ Len(files) \in 1..Len(files) /\ n - 1 = Len(files) /\ n \in 2..n
          /\ Len(files) # 0
      BY <1>1, <1>2, <2>2 DEF DriverInv
    <3>2. files'[n - 1] = File /\ Completes(in) = (held = Len(files) /\ in.joined)
      BY <1>2, <3>1, InputFacts DEF File, Completes
    <3>3. ~log => (held = Len(files) <=> family = "ubx" /\ File.cut = "ubx" /\ Fed(Len(files)))
      BY <2>2 DEF StreamInv
    <3>4. CASE log
      BY <3>4
    <3>5. CASE ~log /\ family' = family
      <4>1. Fed(n - 1)' <=> Fed(n - 1)
        BY <1>5, <3>1, <3>5
      <4>2. Fed(n - 1) <=> Fed(Len(files))
        BY <3>1
      <4>3. QED
        BY <3>1, <3>2, <3>3, <3>5, <4>1, <4>2
    <3>6. CASE ~log /\ family' # family
      <4>1. ~Fed(n - 1)'
        BY <1>4, <3>1, <3>6
      <4>2. family # "ubx"
        BY <1>2, <3>6
      <4>3. ~Completes(in)
        BY <3>2, <3>3, <3>6, <4>2
      <4>4. QED
        BY <4>1, <4>3
    <3>7. QED
      BY <3>4, <3>5, <3>6
  <2>3. QED
    BY <2>1, <2>2
<1>8. ASSUME NEW p \in Place, p[1] = n
      PROVE  p \notin SplitDue /\ (p \in SplitDue' <=> completed /\ p = <<n, 0>>)
  <2>1. p \notin SplitDue
    BY <1>1, <1>2, <1>8 DEF SplitDue
  <2>2. Fed(p[1])' = Fed(n)' /\ Fed(p[1] - 1)' = Fed(n - 1)'
    BY <1>8
  <2>3. p = <<n, 0>> <=> p[2] = 0
    BY <1>8 DEF Place
  <2> HIDE DEF completed
  <2>4. p \in SplitDue' <=>
          /\ ~log /\ family' = "ubx" /\ p[2] = 0 /\ n \in 2..n
          /\ in.joined /\ files'[n - 1].cut = "ubx" /\ Fed(n)' /\ Fed(n - 1)'
    BY <1>2, <1>8, <2>2 DEF SplitDue
  <2>5. QED
    BY <1>7, <2>1, <2>3, <2>4
<1> HIDE DEF completed
<1>9. SplitDue \subseteq Place /\ SplitDue' \subseteq Place /\ <<n, 0>> \in Place
  BY <1>2 DEF SplitDue, Place
<1>10. CASE completed
  <2>1. ASSUME NEW p \in Place PROVE p \in SplitDue' <=> p \in SplitDue \cup {<<n, 0>>}
    <3>1. CASE p[1] = n
      BY <1>8, <1>10, <3>1
    <3>2. CASE p[1] # n
      BY <1>6, <3>2
    <3>3. QED
      BY <3>1, <3>2
  <2>2. SplitDue' = SplitDue \cup {<<n, 0>>}
    BY <1>9, <2>1
  <2>3. QED
    BY <1>1, <1>2, <1>10, <2>2
<1>11. CASE ~completed
  <2>1. ASSUME NEW p \in Place PROVE p \in SplitDue' <=> p \in SplitDue
    BY <1>6, <1>8, <1>11
  <2>2. SplitDue' = SplitDue
    BY <1>9, <2>1
  <2>3. QED
    BY <1>2, <1>11, <2>2
<1>12. QED
  BY <1>10, <1>11

(* The packet that is read next.                                           *)
LEMMA NextPacket ==
  ASSUME DriverInv, StreamInv, ~AtEnd
  PROVE  /\ Len(files) \in Nat \ {0} /\ Len(files) \in DOMAIN files
         /\ File \in Inputs /\ pos \in Nat
         /\ pos + 1 \in 1..Len(File.packets) /\ pos < Len(File.packets)
         /\ Len(File.packets) \in Nat
         /\ Packet \in Packets
<1>1. files # <<>> /\ pos # Len(File.packets)
  BY DEF AtEnd
<1>2. Len(files) \in Nat \ {0} /\ Len(files) \in DOMAIN files /\ File \in Inputs
  BY <1>1 DEF DriverInv, File
<1>3. Len(File.packets) \in Nat
  BY <1>2, InputFacts
<1>4. pos \in Nat /\ pos <= Len(File.packets)
  BY <1>1 DEF DriverInv, StreamInv
<1>5. pos + 1 \in 1..Len(File.packets) /\ pos < Len(File.packets)
  BY <1>1, <1>3, <1>4
<1>6. Packet \in Packets
  BY <1>2, <1>5, InputFacts DEF Packet
<1>7. QED
  BY <1>2, <1>3, <1>4, <1>5, <1>6

(* Reading it makes at most this one packet due.                           *)
LEMMA ReadDue ==
  ASSUME DriverInv, FamilyInv, StreamInv, ~AtEnd, pos' = pos + 1,
         UNCHANGED <<from, log, files>>,
         family' = family \/ (log /\ family = "pending")
  PROVE  /\ Due' = IF Packet.obs /\ Packet.tag = family' /\ Fed(Len(files))'
                   THEN Due \cup {<<Len(files), pos + 1>>} ELSE Due
         /\ SplitDue' = SplitDue
<1>1. PICK n : n = Len(files)
  OBVIOUS
<1>2. /\ n \in Nat \ {0} /\ n \in DOMAIN files /\ pos \in Nat
      /\ pos + 1 \in 1..Len(File.packets) /\ pos < Len(File.packets)
  BY <1>1, NextPacket
<1>0. PICK p0 : p0 = <<n, pos + 1>>
  OBVIOUS
<1>3. p0 \in Place /\ Due \subseteq Place /\ Due' \subseteq Place
  BY <1>0, <1>2 DEF Place, Due
<1>4. \A i : (i # n => ReadTo(i)' = ReadTo(i)) /\ ReadTo(n)' = pos + 1 /\ ReadTo(n) = pos
  BY <1>1 DEF ReadTo
<1>5. \A p : At(p)' = At(p)
  BY DEF At
<1>6. At(p0) = Packet
  BY <1>0, <1>1, <1>2 DEF At, Packet, File
<1>7. \A i : Fed(i)' <=> (from = "raw" /\ ~log => Kind(files[i].packets) = family')
  BY DEF Fed, Kind
<1>8. ASSUME NEW p \in Place, p # p0 PROVE p \in Due' <=> p \in Due
  <2>1. CASE family' = family
    <3>1. Fed(p[1])' <=> Fed(p[1])
      BY <1>7, <2>1 DEF Fed
    <3>2. p[2] \in 1..(ReadTo(p[1])') <=> p[2] \in 1..ReadTo(p[1])
      <4>1. CASE p[1] # n
        BY <1>4, <4>1
      <4>2. CASE p[1] = n
        <5>1. p[2] # pos + 1 /\ p[2] \in Nat
          BY <1>0, <1>8, <4>2 DEF Place
        <5>2. QED
          BY <1>2, <1>4, <4>2, <5>1
      <4>3. QED
        BY <4>1, <4>2
    <3>3. QED
      BY <1>5, <2>1, <3>1, <3>2 DEF Due
  <2>2. CASE family' # family
    <3>1. log /\ family = "pending"
      BY <2>2
    <3>2. Due = {}
      BY <3>1, PendingNone
    <3>3. ASSUME p \in Due' PROVE FALSE
      <4>1. p[1] \in DOMAIN files /\ p[2] \in 1..(ReadTo(p[1])') /\ At(p).obs
        BY <1>5, <3>3 DEF Due
      <4>2. p[2] \in 1..ReadTo(p[1])
        <5>1. CASE p[1] # n
          BY <1>4, <4>1, <5>1
        <5>2. CASE p[1] = n
          <6>1. p[2] # pos + 1 /\ p[2] \in Nat
            BY <1>0, <1>8, <5>2 DEF Place
          <6>2. QED
            BY <1>2, <1>4, <4>1, <5>2, <6>1
        <5>3. QED
          BY <5>1, <5>2
      <4>3. QED
        BY <3>1, <4>1, <4>2 DEF FamilyInv, At
    <3>4. QED
      BY <3>2, <3>3
  <2>3. QED
    BY <2>1, <2>2
<1>9. p0 \in Due' <=> Packet.obs /\ Packet.tag = family' /\ Fed(Len(files))'
  <2>1. p0[1] = n /\ p0[2] = pos + 1
    BY <1>0
  <2>2. Fed(p0[1])' <=> Fed(Len(files))'
    BY <1>1, <1>7, <2>1
  <2>3. p0[2] \in 1..(ReadTo(p0[1])')
    BY <1>2, <1>4, <2>1
  <2>4. p0[1] \in DOMAIN files'
    BY <1>2, <2>1
  <2>5. At(p0)' = Packet
    BY <1>5, <1>6
  <2>6. QED
    BY <1>3, <2>2, <2>3, <2>4, <2>5 DEF Due
<1>10. p0 \notin Due
  <2>1. ~(pos + 1 \in 1..ReadTo(n))
    BY <1>2, <1>4
  <2>2. QED
    BY <1>0, <2>1 DEF Due
<1>11. Due' = IF p0 \in Due' THEN Due \cup {p0} ELSE Due
  BY <1>3, <1>8, <1>10
<1>12. SplitDue' = SplitDue
  <2>1. CASE log
    BY <2>1 DEF SplitDue
  <2>2. CASE ~log
    <3>1. family' = family
      BY <2>2
    <3>2. \A i : Fed(i)' <=> Fed(i)
      BY <1>7, <3>1 DEF Fed
    <3>3. QED
      BY <3>1, <3>2 DEF SplitDue
  <2>3. QED
    BY <2>1, <2>2
<1>13. QED
  BY <1>0, <1>1, <1>9, <1>11, <1>12

(* What reading it leaves of the rest. *)
LEMMA ReadRest ==
  ASSUME DriverInv, FamilyInv, StreamInv, ~AtEnd, pos' = pos + 1,
         UNCHANGED <<from, log, files, held>>,
         family' = family \/ (log /\ family = "pending" /\ family' \in {"rtcm", "ubx"} /\ from = "raw"),
         log /\ family' = "pending" => ~Packet.obs
  PROVE  FamilyInv' /\ StreamInv'
<1>1. PICK n : n = Len(files)
  OBVIOUS
<1>2. /\ n \in Nat \ {0} /\ n \in DOMAIN files /\ pos \in Nat
      /\ pos + 1 \in 1..Len(File.packets) /\ pos < Len(File.packets)
      /\ Len(File.packets) \in Nat /\ files # <<>>
  BY <1>1, NextPacket DEF AtEnd
<1>3. \A i : (i # n => ReadTo(i)' = ReadTo(i)) /\ ReadTo(n)' = pos + 1 /\ ReadTo(n) = pos
  BY <1>1 DEF ReadTo
<1>4. \A s : Kind(s)' = Kind(s)
  BY DEF Kind
<1>5. \A i : family' = family => (Fed(i)' <=> Fed(i))
  BY DEF Fed, Kind
<1>6. ASSUME log, family' = "pending", NEW i \in DOMAIN files, NEW m \in 1..(ReadTo(i)')
      PROVE  ~files[i].packets[m].obs
  <2>1. family = "pending"
    BY <1>6
  <2>2. CASE i = n /\ m = pos + 1
    BY <1>1, <1>6, <2>2 DEF Packet, File
  <2>3. CASE ~(i = n /\ m = pos + 1)
    <3>1. m \in 1..ReadTo(i)
      BY <1>2, <1>3, <2>3
    <3>2. QED
      BY <1>6, <2>1, <3>1 DEF FamilyInv
  <2>4. QED
    BY <2>2, <2>3
<1>7. FamilyInv'
  <2>1. /\ from' \in {"raw", "rtcm", "ubx"} /\ log' \in BOOLEAN
        /\ family' \in {"pending", "rtcm", "ubx"}
        /\ from' # "raw" => family' = from'
    BY DEF FamilyInv
  <2>2. log' /\ family' = "pending" =>
          \A i \in DOMAIN files' : \A m \in 1..(ReadTo(i)') : ~files'[i].packets[m].obs
    BY <1>6
  <2>3. ~log' => family' = family
    OBVIOUS
  <2>4. /\ ~log' /\ family' = "pending" =>
             \A i \in DOMAIN files' : Kind(files[i].packets)' = "none"
        /\ ~log' /\ from' = "raw" /\ family' # "pending" =>
             \E i \in DOMAIN files' :
               /\ Kind(files[i].packets)' = family'
               /\ \A j \in 1..(i - 1) : Kind(files[j].packets)' = "none"
    BY <1>4, <2>3 DEF FamilyInv
  <2>5. QED
    BY <2>1, <2>2, <2>4 DEF FamilyInv
<1>8. StreamInv'
  <2>1. File' = File /\ files' # <<>>
    BY <1>2 DEF File
  <2>2. pos' <= Len(File.packets)'
    BY <1>2, <2>1
  <2>3. ~log => Fed(Len(files))
    BY DEF StreamInv
  <2>4. ~log => (Fed(Len(files))' <=> Fed(Len(files)))
    BY DEF Fed, Kind
  <2>5. held' \in 0..Len(files') /\
        (~log' => (held' = Len(files') <=> family' = "ubx" /\ File.cut' = "ubx" /\ Fed(Len(files))'))
    BY <1>2, <2>1, <2>4 DEF StreamInv
  <2>6. QED
    BY <2>1, <2>2, <2>3, <2>4, <2>5 DEF StreamInv
<1>9. QED
  BY <1>7, <1>8

LEMMA ReadConverted ==
  ASSUME DriverInv, ConvertedInv, ~AtEnd, pos' = pos + 1,
         UNCHANGED <<from, log, files, held>>,
         family' = family \/ (log /\ family = "pending" /\ family' \in {"rtcm", "ubx"} /\ from = "raw"),
         log /\ family' = "pending" => ~Packet.obs,
         converted' = IF Packet.obs /\ Packet.tag = family'
                      THEN Append(converted, <<Len(files), pos + 1>>) ELSE converted
  PROVE  ConvertedInv'
<1>1. FamilyInv /\ StreamInv /\ Range(converted) = Due \cup SplitDue
  BY DEF ConvertedInv
<1>2. FamilyInv' /\ StreamInv'
  BY <1>1, ReadRest
<1>3. /\ Due' = IF Packet.obs /\ Packet.tag = family' /\ Fed(Len(files))'
                THEN Due \cup {<<Len(files), pos + 1>>} ELSE Due
      /\ SplitDue' = SplitDue
  BY <1>1, ReadDue
<1>4. Fed(Len(files))'
  <2>1. CASE log
    BY <2>1 DEF Fed
  <2>2. CASE ~log
    <3>1. Fed(Len(files)) /\ family' = family
      BY <1>1, <2>2 DEF StreamInv
    <3>2. QED
      BY <3>1 DEF Fed, Kind
  <2>3. QED
    BY <2>1, <2>2
<1>5. <<Len(files), pos + 1>> \in Place /\ converted \in Seq(Place)
  BY <1>1, NextPacket DEF DriverInv, Place
<1>6. Range(Append(converted, <<Len(files), pos + 1>>))
        = Range(converted) \cup {<<Len(files), pos + 1>>}
  BY <1>5, AppendRange
<1>7. Range(converted') = Due' \cup SplitDue'
  <2>1. CASE Packet.obs /\ Packet.tag = family'
    <3>1. converted' = Append(converted, <<Len(files), pos + 1>>)
      BY <2>1
    <3>2. Due' = Due \cup {<<Len(files), pos + 1>>}
      BY <1>3, <1>4, <2>1
    <3>3. QED
      BY <1>1, <1>3, <1>6, <3>1, <3>2
  <2>2. CASE ~(Packet.obs /\ Packet.tag = family')
    <3>1. converted' = converted /\ Due' = Due
      BY <1>3, <2>2
    <3>2. QED
      BY <1>1, <1>3, <3>1
  <2>3. QED
    BY <2>1, <2>2
<1>8. QED
  BY <1>2, <1>7 DEF ConvertedInv, Range

LEMMA OpenConverted ==
  ASSUME DriverInv, ConvertedInv, NEW in \in Inputs, Open(in), ~Refused(in)
  PROVE  ConvertedInv'
<1>1. FamilyInv /\ StreamInv /\ Range(converted) = Due \cup SplitDue
  BY DEF ConvertedInv
<1>2. FamilyInv' /\ StreamInv' /\ Due' = Due
  BY <1>1, OpenFamily, OpenStream, OpenDue
<1>3. PICK p : p = <<Len(files) + 1, 0>>
  OBVIOUS
<1>4. \/ SplitDue' = SplitDue /\ converted' = converted
      \/ SplitDue' = SplitDue \cup {p} /\ converted' = Append(converted, p)
  BY <1>1, <1>3, OpenSplit
<1>5. p \in Place /\ converted \in Seq(Place)
  BY <1>3 DEF DriverInv, Place
<1>6. Range(Append(converted, p)) = Range(converted) \cup {p}
  BY <1>5, AppendRange
<1>7. Range(converted') = Due' \cup SplitDue'
  BY <1>1, <1>2, <1>4, <1>6
<1>8. QED
  BY <1>2, <1>7 DEF ConvertedInv, Range

(* What reads and keeps the same state keeps the invariant.                *)
LEMMA SameConverted ==
  ASSUME ConvertedInv, UNCHANGED <<from, log, files, pos, held, family, converted>>
  PROVE  ConvertedInv'
BY DEF ConvertedInv, FamilyInv, StreamInv, Due, SplitDue, Fed, Kind, ReadTo, At, File, AtEnd, Range

LEMMA ConvertedStep == DriverInv /\ ConvertedInv /\ [Next]_vars => ConvertedInv'
<1> SUFFICES ASSUME DriverInv, ConvertedInv, [Next]_vars PROVE ConvertedInv'
  OBVIOUS
<1>1. ASSUME NEW in \in Inputs, Open(in), ~Refused(in) PROVE ConvertedInv'
  BY <1>1, OpenConverted
<1>2. CASE Fail \/ UNCHANGED vars \/ Finish
  BY <1>2, SameConverted DEF Fail, Finish, vars, options
<1>3. CASE ConvertStream /\ ~Fail
  <2>1. /\ ~log /\ ~AtEnd /\ pos' = pos + 1 /\ Produce(family)
        /\ UNCHANGED <<from, log, files, held, family>>
    BY <1>3 DEF ConvertStream, options
  <2>2. converted' = IF Packet.obs /\ Packet.tag = family'
                     THEN Append(converted, <<Len(files), pos + 1>>) ELSE converted
    BY <2>1 DEF Produce
  <2>3. QED
    BY <2>1, <2>2, ReadConverted
<1>4. CASE ConvertLog /\ ~Fail
  <2>1. Packet \in Packets
    BY <1>4, NextPacket DEF ConvertLog, ConvertedInv
  <2>2. CASE Skipped /\ pos' = pos + 1 /\ UNCHANGED <<options, files, held, family, converted, total, status>>
    <3>1. /\ log /\ ~AtEnd /\ pos' = pos + 1
          /\ UNCHANGED <<from, log, files, held, family, converted>>
      BY <1>4, <2>2 DEF ConvertLog, options
    <3>2. from \in {"raw", "rtcm", "ubx"} /\ (from # "raw" => family = from)
      BY DEF ConvertedInv, FamilyInv
    <3>3. ~(Packet.obs /\ Packet.tag = family')
      BY <2>2, <3>1, <3>2 DEF Skipped
    <3>4. log /\ family' = "pending" => ~Packet.obs
      BY <2>2, <3>1, <3>2 DEF Skipped
    <3>5. QED
      BY <3>1, <3>3, <3>4, ReadConverted
  <2>3. CASE ~Skipped /\ pos' = pos + 1 /\ family' = Use(Packet.tag) /\ Produce(family')
             /\ UNCHANGED <<options, files, held, status>>
    <3>1. /\ log /\ ~AtEnd /\ pos' = pos + 1 /\ UNCHANGED <<from, log, files, held>>
      BY <1>4, <2>3 DEF ConvertLog, options
    <3>2. Packet.tag \in {"rtcm", "ubx"}
      BY <2>1 DEF Packets
    <3>3. \/ family' = family /\ family # "pending"
          \/ family = "pending" /\ family' \in {"rtcm", "ubx"} /\ from = "raw"
      BY <2>3, <3>2 DEF Use, ConvertedInv, FamilyInv
    <3>4. converted' = IF Packet.obs /\ Packet.tag = family'
                       THEN Append(converted, <<Len(files), pos + 1>>) ELSE converted
      BY <2>3 DEF Produce
    <3>5. QED
      BY <3>1, <3>3, <3>4, ReadConverted
  <2>4. QED
    BY <1>4, <2>2, <2>3 DEF ConvertLog
<1>5. ASSUME NEW in \in Inputs, Open(in), Refused(in) PROVE ConvertedInv'
  BY <1>2, <1>5 DEF Open
<1>6. QED
  BY <1>1, <1>2, <1>3, <1>4, <1>5 DEF Next

(* What is converted is what was read of the family, and the packets that  *)
(* the parser put together (lib.rs:1171-1267, ubx.rs:101-140).             *)
THEOREM DriverConverted == Spec => []ConvertedInv
<1>1. Init => ConvertedInv
  <2> SUFFICES ASSUME Init PROVE ConvertedInv
    OBVIOUS
  <2>1. /\ files = <<>> /\ converted = <<>> /\ pos = 0 /\ held = 0
        /\ from \in {"raw", "rtcm", "ubx"} /\ log \in BOOLEAN
        /\ family = IF from = "raw" THEN "pending" ELSE from
    BY DEF Init
  <2>2. DOMAIN converted = {} /\ DOMAIN files = {} /\ Len(files) = 0
    BY <2>1
  <2>3. FamilyInv
    BY <2>1, <2>2 DEF FamilyInv
  <2>4. StreamInv
    BY <2>1, <2>2 DEF StreamInv, AtEnd
  <2>5. Due = {} /\ SplitDue = {} /\ Range(converted) = {}
    BY <2>2 DEF Due, SplitDue, Range
  <2>6. QED
    BY <2>3, <2>4, <2>5 DEF ConvertedInv
<1>2. QED
  BY <1>1, ConvertedStep, DriverInvariant, PTL DEF Spec

(* A run ends well only when its last input has been read.                 *)
LEMMA DoneAtEnd == Spec => [](status = "done" => AtEnd)
<1>1. Init => (status = "done" => AtEnd)
  BY DEF Init
<1>2. (status = "done" => AtEnd) /\ [Next]_vars => (status = "done" => AtEnd)'
  <2> SUFFICES ASSUME status = "done" => AtEnd, [Next]_vars PROVE (status = "done" => AtEnd)'
    OBVIOUS
  <2>1. CASE Next
    BY <2>1 DEF Next, Open, ConvertStream, ConvertLog, Finish, Fail, AtEnd, File
  <2>2. CASE UNCHANGED vars
    BY <2>2 DEF vars, options, AtEnd, File
  <2>3. QED
    BY <2>1, <2>2
<1>3. QED
  BY <1>1, <1>2, PTL DEF Spec

(* Raw streams are converted as the family of their first observation,     *)
(* and no family is chosen before one (lib.rs:1171-1200).                  *)
THEOREM DriverObservationSelectsInStreams == Spec => []ObservationSelectsInStreams
<1>1. DriverInv /\ ConvertedInv => ObservationSelectsInStreams
  <2> SUFFICES ASSUME DriverInv, FamilyInv, ~log, from = "raw"
               PROVE  ObservationSelects
    BY DEF ConvertedInv, ObservationSelectsInStreams, ObservationSelects
  <2> DEFINE observing == {p \in Seen : At(p).obs}
  <2>1. ASSUME NEW p \in observing
        PROVE  /\ p[1] \in DOMAIN files /\ p[1] \in Nat /\ p = <<p[1], p[2]>>
               /\ p[2] \in DOMAIN files[p[1]].packets /\ p[2] \in Nat
               /\ files[p[1]].packets[p[2]].obs
    <3>1. PICK i \in DOMAIN files : p \in {i} \X (1..Read(i))
      BY DEF Seen
    <3>2. p[1] = i /\ p[2] \in 1..Read(i) /\ p = <<p[1], p[2]>>
      BY <3>1
    <3>3. Read(i) = Len(files[i].packets) /\ files[i] \in Inputs
      BY DEF Read, DriverInv
    <3>4. p[2] \in DOMAIN files[p[1]].packets
      BY <3>2, <3>3, InputFacts
    <3>5. files[p[1]].packets[p[2]].obs
      BY DEF At
    <3>6. QED
      BY <3>2, <3>4, <3>5 DEF DriverInv
  <2>2. \A p \in observing : Kind(files[p[1]].packets) # "none"
    BY <2>1, KindNone, InputFacts DEF DriverInv
  <2>3. CASE family = "pending"
    <3>1. observing = {}
      BY <2>1, <2>2, <2>3 DEF FamilyInv
    <3>2. QED
      BY <2>3, <3>1 DEF ObservationSelects
  <2>4. CASE family # "pending"
    <3>1. PICK i \in DOMAIN files :
            /\ Kind(files[i].packets) = family
            /\ \A j \in 1..(i - 1) : Kind(files[j].packets) = "none"
      BY <2>4 DEF FamilyInv
    <3>2. files[i] \in Inputs /\ i \in Nat /\ i \in 1..Len(files) /\ Len(files) \in Nat
      BY DEF DriverInv
    <3>3. files[i].packets \in Seq(Packets) /\ Kind(files[i].packets) # "none"
      <4>1. ASSUME Kind(files[i].packets) = "none" PROVE FALSE
        BY <3>1, <4>1 DEF FamilyInv
      <4>2. QED
        BY <3>2, <4>1, InputFacts
    <3>4. PICK n \in DOMAIN files[i].packets : files[i].packets[n].obs
      BY <3>3, KindNone
    <3>5. PICK m \in DOMAIN files[i].packets :
            /\ files[i].packets[m].obs /\ family = files[i].packets[m].tag
            /\ \A k \in DOMAIN files[i].packets : files[i].packets[k].obs => m <= k
      BY <3>1, <3>3, <3>4, KindFirst
    <3>6. PICK p : p = <<i, m>>
      OBVIOUS
    <3>7. p \in observing /\ family = At(p).tag
      <4>1. Read(i) = Len(files[i].packets)
        BY DEF Read
      <4>2. m \in 1..Read(i)
        BY <3>2, <4>1, InputFacts
      <4>3. p \in Seen
        BY <3>6, <4>2 DEF Seen
      <4>4. At(p) = files[i].packets[m]
        BY <3>6 DEF At
      <4>5. QED
        BY <3>5, <4>3, <4>4
    <3>8. ASSUME NEW q \in observing \ {p} PROVE Earlier(p, q)
      <4>1. /\ q[1] \in 1..Len(files) /\ q[1] \in Nat /\ q = <<q[1], q[2]>>
            /\ q[2] \in DOMAIN files[q[1]].packets /\ q[2] \in Nat
            /\ files[q[1]].packets[q[2]].obs
        BY <2>1, <3>8 DEF DriverInv
      <4>2. ~(q[1] \in 1..(i - 1))
        BY <2>2, <3>1, <3>8
      <4>3. i <= q[1]
        BY <3>2, <4>1, <4>2
      <4>4. CASE q[1] = i
        <5>1. m <= q[2]
          BY <3>5, <4>1, <4>4
        <5>2. q[2] # m
          BY <3>6, <3>8, <4>1, <4>4
        <5>3. m \in Nat
          BY <3>2, InputFacts
        <5>4. p[1] = q[1] /\ p[2] < q[2]
          BY <3>6, <4>1, <4>4, <5>1, <5>2, <5>3
        <5>5. QED
          BY <5>4 DEF Earlier
      <4>5. CASE q[1] # i
        BY <3>2, <3>6, <4>1, <4>3, <4>5 DEF Earlier
      <4>6. QED
        BY <4>4, <4>5
    <3>9. QED
      BY <3>7, <3>8 DEF ObservationSelects
  <2>5. QED
    BY <2>3, <2>4
<1>2. QED
  BY <1>1, DriverInvariant, DriverConverted, PTL

(* At the end every packet of an input has been read.                      *)
LEMMA DueAtEnd ==
  ASSUME DriverInv, ConvertedInv, AtEnd
  PROVE  /\ {p \in Range(converted) : p[2] # 0} = Due
         /\ {p \in Range(converted) : p[2] = 0} = SplitDue
         /\ \A i \in DOMAIN files : ReadTo(i) = Len(files[i].packets)
<1>1. Range(converted) = Due \cup SplitDue /\ StreamInv
  BY DEF ConvertedInv
<1>2. \A p \in SplitDue : p[2] = 0
  BY DEF SplitDue
<1>3. \A p \in Due : p[2] # 0
  BY <1>1, DueFacts
<1>4. \A i \in DOMAIN files : ReadTo(i) = Len(files[i].packets)
  BY DEF ReadTo, AtEnd, File
<1>5. QED
  BY <1>1, <1>2, <1>3, <1>4

(* A run that ends well has converted the observations of its family, all  *)
(* of them, once and in order (lib.rs:799-827).                            *)
THEOREM DriverFamilyConverted == Spec => []FamilyConverted
<1>1. DriverInv /\ ConvertedInv /\ (status = "done" => AtEnd) => FamilyConverted
  <2> SUFFICES ASSUME DriverInv, ConvertedInv, AtEnd, from = "raw" /\ ~log => Unmixed
               PROVE  {p \in Range(converted) : p[2] # 0} = Places(family) /\ InOrder
    BY DEF FamilyConverted
  <2>1. FamilyInv /\ StreamInv
    BY DEF ConvertedInv
  <2>2. ASSUME NEW p \in Due PROVE p \in Places(family)
    <3>1. /\ p \in Place /\ p[1] \in DOMAIN files
          /\ p[2] \in 1..Len(files[p[1]].packets)
          /\ files[p[1]].packets[p[2]].obs /\ files[p[1]].packets[p[2]].tag = family
      BY <2>1, DueFacts DEF DriverInv
    <3>2. p[2] \in DOMAIN files[p[1]].packets
      BY <3>1, InputFacts DEF DriverInv
    <3>3. p = <<p[1], p[2]>>
      BY <3>1 DEF Place
    <3>4. QED
      BY <3>1, <3>2, <3>3 DEF Places
  <2>3. ASSUME NEW p \in Places(family) PROVE p \in Due
    <3>1. PICK i \in DOMAIN files :
            p \in {i} \X {n \in DOMAIN files[i].packets :
                            files[i].packets[n].obs /\ files[i].packets[n].tag = family}
      BY DEF Places
    <3>2. PICK n \in DOMAIN files[i].packets :
            p = <<i, n>> /\ files[i].packets[n].obs /\ files[i].packets[n].tag = family
      BY <3>1
    <3>3. files[i] \in Inputs /\ i \in Nat /\ i \in DOMAIN files
      BY DEF DriverInv
    <3>4. /\ files[i].packets \in Seq(Packets) /\ n \in 1..Len(files[i].packets) /\ n \in Nat
      BY <3>3, InputFacts
    <3>5. Fed(i)
      <4>1. CASE from = "raw" /\ ~log
        <5>1. PICK m \in DOMAIN files[i].packets :
                files[i].packets[m].obs /\ Kind(files[i].packets) = files[i].packets[m].tag
          BY <3>2, <3>4, <4>1, KindFirst
        <5>2. files[i].packets[m].tag = family
          BY <3>2, <4>1, <5>1 DEF Unmixed
        <5>3. QED
          BY <5>1, <5>2 DEF Fed
      <4>2. CASE ~(from = "raw" /\ ~log)
        BY <4>2 DEF Fed
      <4>3. QED
        BY <4>1, <4>2
    <3>6. p \in Place /\ p[1] = i /\ p[2] = n
      BY <3>2, <3>3, <3>4 DEF Place
    <3>7. n \in 1..ReadTo(i)
      BY <3>4, DueAtEnd
    <3>8. QED
      BY <3>2, <3>3, <3>5, <3>6, <3>7 DEF Due, At
  <2>4. Due = Places(family)
    BY <2>2, <2>3
  <2>5. QED
    BY <2>4, DueAtEnd DEF DriverInv
<1>2. QED
  BY <1>1, DriverInvariant, DriverConverted, DoneAtEnd, PTL

(* A UBX observation cut in two is converted when both inputs go to the    *)
(* parser, and in its place (ubx.rs:101-140).                              *)
THEOREM DriverSplitConverted == Spec => []SplitConverted
<1>1. DriverInv /\ ConvertedInv /\ (status = "done" => AtEnd) => SplitConverted
  <2> SUFFICES ASSUME DriverInv, ConvertedInv, AtEnd, ~log, family = "ubx"
               PROVE  SplitConverted
    BY DEF SplitConverted
  <2> DEFINE chosen(i) == from = "raw" => Kind(files[i].packets) = "ubx"
             split(i) == /\ files[i].joined /\ files[i - 1].cut = "ubx"
                         /\ chosen(i) /\ chosen(i - 1)
  <2>1. \A i : chosen(i) <=> Fed(i)
    BY DEF Fed
  <2>2. Len(files) \in Nat
    BY DEF DriverInv
  <2>3. ASSUME NEW p \in SplitDue PROVE p \in {i \in 2..Len(files) : split(i)} \X {0}
    <3>1. /\ p \in Place /\ p[2] = 0 /\ p[1] \in 2..Len(files)
          /\ files[p[1]].joined /\ files[p[1] - 1].cut = "ubx"
          /\ Fed(p[1]) /\ Fed(p[1] - 1)
      BY DEF SplitDue
    <3>2. split(p[1])
      BY <2>1, <3>1
    <3> HIDE DEF split
    <3>3. QED
      BY <3>1, <3>2 DEF Place
  <2>4. ASSUME NEW p \in {i \in 2..Len(files) : split(i)} \X {0} PROVE p \in SplitDue
    <3>1. p[1] \in 2..Len(files) /\ split(p[1]) /\ p[2] = 0 /\ p \in Place
      BY <2>2 DEF Place
    <3>2. Fed(p[1]) /\ Fed(p[1] - 1)
      BY <2>1, <3>1
    <3>3. QED
      BY <3>1, <3>2 DEF SplitDue
  <2>5. {p \in Range(converted) : p[2] = 0} = {i \in 2..Len(files) : split(i)} \X {0}
    BY <2>3, <2>4, DueAtEnd
  <2>6. InOrder
    BY DEF DriverInv
  <2>7. QED
    BY <2>5, <2>6 DEF SplitConverted
<1>2. QED
  BY <1>1, DriverInvariant, DriverConverted, DoneAtEnd, PTL
=============================================================================
