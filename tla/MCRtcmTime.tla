---------------------------- MODULE MCRtcmTime ----------------------------
(***************************************************************************)
(* Model checking RtcmTime on a week of 42 units: a day is 6 (4 h each),   *)
(* half a week 21, and an interval of a date, -14 h .. +36 h, is 13 long.  *)
(***************************************************************************)
EXTENDS RtcmTime

(* Each mode with the input that it is for: files of the last week close   *)
(* to each other; dated files, the next of which may begin before the end  *)
(* of the one before, over more than a week, also under one date for all;  *)
(* a log with any gaps.                                                    *)
MCDayUnknown == [recent |-> FALSE, date |-> FALSE, filename |-> FALSE, log |-> TRUE]
MCMaxGap == [recent |-> 20, date |-> 20, filename |-> 20]
MCSteps ==
  [recent |-> {0, 1, 7, 20}, date |-> {0, 7, 19}, filename |-> {0, 18}, log |-> {0, 3, 45}]
MCFileSteps ==
  [recent |-> {-8, 9}, date |-> {-14, 14}, filename |-> {-9, 12}, log |-> {60}]
MCStarts == [recent |-> {9}, date |-> {32}, filename |-> {33}, log |-> {41}]
MCFirstTime == [recent |-> 9, date |-> 14, filename |-> 33, log |-> 41]
MCLastTime == [recent |-> 49, date |-> 60, filename |-> 70, log |-> 120]

(* Two files of the last week, more than half a week apart.                *)
FarMaxGap == [recent |-> 41]
FarSteps == [recent |-> {0, 1}]
FarFileSteps == [recent |-> {0, 30}]
FarStarts == [recent |-> {9}]
FarFirstTime == [recent |-> 9]
FarLastTime == [recent |-> 49]
=============================================================================
