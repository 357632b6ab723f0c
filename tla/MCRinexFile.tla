---------------------------- MODULE MCRinexFile ----------------------------
(* Two signals: all there is to observe of one, in any order of its three  *)
(* epochs and with arcs that need not grow, and some of the other, in the  *)
(* same epochs.                                                            *)
EXTENDS RinexFile

CONSTANTS k1, k2

MCObservations ==
  [key : {k1}, t : 0..2, phase : BOOLEAN, code : BOOLEAN, arc : 0..2, hc : BOOLEAN]
  \cup [key : {k2}, t : {0, 2}, phase : BOOLEAN, code : {TRUE}, arc : {0, 1},
         hc : {FALSE}]
=============================================================================
