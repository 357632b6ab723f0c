----------------------------- MODULE MCGpsTime -----------------------------
(* Days of 2 hours of 2 minutes of 3 seconds of 4 ticks.  A cycle of 400   *)
(* years and the turn to the year 0, every day at midnight, every 31st     *)
(* tick by tick.                                                           *)
EXTENDS GpsTime

MCZones == {-7, 0, 5}
MCScope == (1799..2201) \cup (-1..1)
=============================================================================
