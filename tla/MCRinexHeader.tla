--------------------------- MODULE MCRinexHeader ---------------------------
(* A header file that sets one half of the antenna, options that set the   *)
(* other or suppress defaults, and RINEX files with and without leap       *)
(* seconds, or a marker's type.                                            *)
EXTENDS RinexHeader

MCHeaderFiles == {{}, {"antenna_number", "position", "marker_type"}}

MCOptions ==
  {[set |-> {"antenna_type"}, empty |-> {}],
   [set |-> {"program"}, empty |-> {"version", "by", "position"}]}

MCSituations == {{"by", "interval"}}

MCForeignHeaders ==
  {{"version", "program", "date", "antenna_type", "leap"},
   {"version", "by", "name", "marker_type", "delta"}}

MCBlanks == {{}, {"antenna_number", "leap"}}

MCSystemSets == {{"BeiDou"}, {"GPS", "GLONASS"}}
=============================================================================
