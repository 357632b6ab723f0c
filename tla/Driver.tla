------------------------------ MODULE Driver -------------------------------
(***************************************************************************)
(* The packet side of the command line (cli/src/lib.rs): the inputs, one   *)
(* after the other, through one PacketDriver, whose converter is given by  *)
(* --from or, for raw input, chosen from the packets and then kept.        *)
(*                                                                         *)
(* An input is its packets and whether it was modified more than a week    *)
(* ago.  A stream may end within a packet with observations, and the next  *)
(* begin with the rest of it, as when a recording is cut into files.       *)
(* Frames that are not packets of either family are left out: no code on   *)
(* this side looks at them.  What the converter makes of a packet is in    *)
(* UbxPath, RtcmPath and RtcmTime; here it converts it or fails.           *)
(***************************************************************************)
EXTENDS Integers, SequencesExt

CONSTANTS
  MaxPackets,  \* bound on the packets of all inputs
  MaxFiles     \* bound on the inputs

ASSUME DriverAssumption == MaxPackets \in Nat /\ MaxFiles \in Nat

VARIABLES
  from,       \* --from: "raw", "rtcm" or "ubx"
  log,        \* --packet-log: the inputs are packet logs and not streams
  files,      \* the inputs opened so far
  pos,        \* packets read from the last of them
  held,       \* the input that ended with the start of a packet the UBX
              \* parser holds, 0 when it holds none
  family,     \* PacketDriver.family: "pending", "rtcm" or "ubx"
  converted,  \* observation packets converted: where they are, in order
  total,      \* convert_packet_inputs' total
  status      \* "read", "done" or "failed"

options == <<from, log>>

vars == <<from, log, files, pos, held, family, converted, total, status>>

(* The packets: RTCM MSM7 and UBX RXM-RAWX have observations.              *)
Packets == [tag : {"rtcm", "ubx"}, obs : BOOLEAN]

(* cut: the family of the packet that the input ends within; joined: it    *)
(* begins with the rest of a packet that the input before is cut within.   *)
Inputs ==
  [packets : SeqOf(Packets, MaxPackets), stale : BOOLEAN,
   cut : {"none", "rtcm", "ubx"}, joined : BOOLEAN]

Observing(s) == {n \in DOMAIN s : s[n].obs}

(* Faulty variant: any packet selects the family.                          *)
DetectRawFamilyAny(s) == IF s = <<>> THEN "none" ELSE s[1].tag

(* detect_raw_family: the family of the first observation packet.          *)
DetectRawFamily(s) ==
  IF Observing(s) = {} THEN "none" ELSE s[Min(Observing(s))].tag

Kind(s) == IF from = "raw" THEN DetectRawFamily(s) ELSE from

(* Faulty variant of Use: the family follows the packets.                  *)
UseSwitch(f) == IF f = "none" THEN family ELSE f

(* use_rtcm, use_ubx: the family after f was asked for.                    *)
Use(f) == IF family = "pending" /\ f # "none" THEN f ELSE family

File == files[Len(files)]

AtEnd == files # <<>> => pos = Len(File.packets)

Packet == File.packets[pos + 1]

(* Faulty variant of Produce: every packet converted is counted.           *)
ProduceCountsAll(f) ==
  IF f = Packet.tag
  THEN /\ converted' = IF Packet.obs
                       THEN Append(converted, <<Len(files), pos + 1>>)
                       ELSE converted
       /\ total' = total + 1
  ELSE UNCHANGED <<converted, total>>

(* Packet is converted by a converter of family f; packets without         *)
(* observations are not counted.                                           *)
Produce(f) ==
  IF f = Packet.tag /\ Packet.obs
  THEN /\ converted' = Append(converted, <<Len(files), pos + 1>>)
       /\ total' = total + 1
  ELSE UNCHANGED <<converted, total>>

Fail ==
  status' = "failed" /\ UNCHANGED <<options, files, pos, held, family, converted, total>>

-----------------------------------------------------------------------------
Init ==
  /\ from \in {"raw", "rtcm", "ubx"}
  /\ log \in BOOLEAN
  /\ files = <<>>
  /\ pos = 0
  /\ held = 0
  /\ family = IF from = "raw" THEN "pending" ELSE from
  /\ converted = <<>>
  /\ total = 0
  /\ status = "read"

(* Faulty variant of Refused: age does not matter.                         *)
RefusedNever(in) == FALSE

(* file_week_constraint with the week inferred: an old input is refused,   *)
(* if it is known to be RTCM.                                              *)
Refused(in) == ~log /\ from = "rtcm" /\ in.stale

(* What can follow the inputs so far, within the bound.  Payloads of a log *)
(* are never cut; where cuts and age make no difference there are none.    *)
Follows(in) ==
  /\ log \/ from = "rtcm" => in.cut = "none"
  /\ log \/ from # "rtcm" => ~in.stale
  /\ in.joined => files # <<>> /\ File.cut # "none"
  /\ Len(in.packets) + Len(FlattenSeq([i \in DOMAIN files |-> files[i].packets])) <= MaxPackets

(* Faulty variant of Completes: the parser starts again with every input.  *)
CompletesNever(in) == FALSE

(* The UBX parser finds the packet whose start it holds.  A start whose    *)
(* rest does not follow is taken to be skipped by the parser, which then   *)
(* finds the packets after it.                                             *)
Completes(in) == held # 0 /\ held = Len(files) /\ in.joined

(* The next input is opened.  A stream is read at once and its family      *)
(* chosen from the whole packets in it; if the driver is locked to another *)
(* family, or there is none to choose, nothing of the stream is converted  *)
(* or given to the parser.  RTCM frames are whole or skipped.              *)
Open(in) ==
  /\ status = "read" /\ AtEnd /\ Len(files) < MaxFiles
  /\ Follows(in)
  /\ IF Refused(in) THEN Fail
     ELSE /\ files' = Append(files, in)
          /\ family' = IF log THEN family ELSE Use(Kind(in.packets))
          /\ LET fed == ~log /\ family' = Kind(in.packets)
             IN  /\ pos' = IF log \/ fed THEN 0 ELSE Len(in.packets)
                 /\ held' = IF ~fed \/ family' # "ubx" THEN held
                            ELSE IF in.cut = "ubx" THEN Len(files') ELSE 0
                 /\ IF fed /\ family' = "ubx" /\ Completes(in)
                    THEN /\ converted' = Append(converted, <<Len(files'), 0>>)
                         /\ total' = total + 1
                    ELSE UNCHANGED <<converted, total>>
          /\ UNCHANGED <<options, status>>

(* convert_packet_stream: the next packet of a stream.  An RTCM epoch that *)
(* does not match the week is an error.                                    *)
ConvertStream ==
  /\ status = "read" /\ ~log /\ ~AtEnd
  /\ \/ /\ pos' = pos + 1
        /\ Produce(family)
        /\ UNCHANGED <<options, files, held, family, status>>
     \/ family = "rtcm" /\ Packet.tag = "rtcm" /\ Packet.obs /\ Fail

(* convert_packet_log: the next line of a log, skipped when its tag is not *)
(* asked for or it is UBX without observations.  Any RTCM packet selects   *)
(* the family.  A line that cannot be read is an error, and so is an RTCM  *)
(* line without a time or whose epoch is not near its time.                *)
Skipped == from \notin {"raw", Packet.tag} \/ (Packet.tag = "ubx" /\ ~Packet.obs)

ConvertLog ==
  /\ status = "read" /\ log /\ ~AtEnd
  /\ \/ /\ Skipped
        /\ pos' = pos + 1
        /\ UNCHANGED <<options, files, held, family, converted, total, status>>
     \/ /\ ~Skipped
        /\ pos' = pos + 1
        /\ family' = Use(Packet.tag)
        /\ Produce(family')
        /\ UNCHANGED <<options, files, held, status>>
     \/ Fail

(* The end of the last input: an error when no message was converted,      *)
(* otherwise the sinks are flushed.                                        *)
Finish ==
  /\ status = "read" /\ AtEnd /\ files # <<>>
  /\ status' = IF total = 0 THEN "failed" ELSE "done"
  /\ UNCHANGED <<options, files, pos, held, family, converted, total>>

Next ==
  \/ \E in \in Inputs : Open(in)
  \/ ConvertStream
  \/ ConvertLog
  \/ Finish

Spec == Init /\ [][Next]_vars

-----------------------------------------------------------------------------
(* The places of the packets that the driver has looked at, in which order *)
(* they come, and the packet at one.  Streams are looked at whole, logs    *)
(* line by line.                                                           *)
Read(i) == IF log /\ i = Len(files) THEN pos ELSE Len(files[i].packets)

Seen == UNION {{i} \X (1..Read(i)) : i \in DOMAIN files}

Earlier(p, q) == p[1] < q[1] \/ (p[1] = q[1] /\ p[2] < q[2])

At(p) == files[p[1]].packets[p[2]]

(* The family of raw input is that of the first observation packet of all  *)
(* inputs, and is not chosen before one is seen                            *)
(* (cli/tests/raw_detect.rs:1-5: "only an observation frame [...] may      *)
(* select a family"; rtcm.rs:761-765).                                     *)
ObservationSelects ==
  from = "raw" =>
    LET observing == {p \in Seen : At(p).obs}
    IN  \/ family = "pending" /\ observing = {}
        \/ \E p \in observing : /\ family = At(p).tag
                                /\ \A q \in observing \ {p} : Earlier(p, q)

(* So it is for streams.  An input of a packet log whose family is chosen  *)
(* by a packet without observations is the exception.                      *)
ObservationSelectsInStreams == ~log => ObservationSelects

(* The places of the whole observation packets of family f in the inputs.  *)
Places(f) ==
  LET Observed(i) == {n \in DOMAIN files[i].packets :
                       files[i].packets[n].obs /\ files[i].packets[n].tag = f}
  IN  UNION {{i} \X Observed(i) : i \in DOMAIN files}

(* Inputs none of which has observations of both families.                 *)
Unmixed ==
  \A i \in DOMAIN files : \A m, n \in DOMAIN files[i].packets :
    LET p == files[i].packets
    IN  p[m].obs /\ p[n].obs => p[m].tag = p[n].tag

(* Packets are converted once, in the order of the inputs.                 *)
InOrder ==
  \A x, y \in DOMAIN converted : x < y => Earlier(converted[x], converted[y])

(* A run that ends well has converted every whole observation packet of    *)
(* the family it chose, of all inputs, once and in order, and nothing      *)
(* else.  Mixed raw streams are out of scope (cli/src/lib.rs:997).         *)
FamilyConverted ==
  status = "done" /\ (from = "raw" /\ ~log => Unmixed) =>
    /\ {p \in Range(converted) : p[2] # 0} = Places(family)
    /\ InOrder

(* A UBX observation that is split between two streams is converted        *)
(* (ubx.rs:103-104: "a frame split between chunks still parses") in its    *)
(* place between them; of raw streams, only if each of the two also has a  *)
(* whole observation packet to choose the family by.                       *)
SplitConverted ==
  status = "done" /\ ~log /\ family = "ubx" =>
    LET Chosen(i) == from = "raw" => Kind(files[i].packets) = "ubx"
        Split(i) == /\ files[i].joined /\ files[i - 1].cut = "ubx"
                    /\ Chosen(i) /\ Chosen(i - 1)
    IN  /\ {p \in Range(converted) : p[2] = 0}
           = {i \in 2..Len(files) : Split(i)} \X {0}
        /\ InOrder

(* The count that decides whether a run found anything is the number of    *)
(* packets converted, of all inputs.                                       *)
Counted == total = Len(converted) /\ (status = "done" => converted # <<>>)

(* No RTCM packet of an input more than a week old is converted with an    *)
(* inferred week (docs/convobs.1.md:101-102: "This assumption will not be  *)
(* made when the file modification time is older than one week.").  The    *)
(* code sees to it when the input is said to be RTCM.                      *)
OldInputsNotAssumed ==
  from = "rtcm" /\ ~log =>
    \A i \in DOMAIN converted :
      LET in == files[converted[i][1]]
      IN  in.stale /\ converted[i][2] # 0 => in.packets[converted[i][2]].tag # "rtcm"
=============================================================================
