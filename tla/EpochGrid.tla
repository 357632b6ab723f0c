----------------------------- MODULE EpochGrid -----------------------------
(***************************************************************************)
(* The rounding of epochs before they are put on the decimation grid       *)
(* (obsj/src/sink.rs).                                                     *)
(***************************************************************************)
EXTENDS Integers

(* Faulty variant of RoundTime: down. *)
RoundTimeDown(t, unit) == (t \div unit) * unit

(* round_time: half away from zero to a multiple of unit.                  *)
RoundTime(t, unit) ==
  LET Up(x) == ((x + unit \div 2) \div unit) * unit
  IN  IF t < 0 THEN -Up(-t) ELSE Up(t)

(* decimation_interval_ticks: at least a second, and divides the day.      *)
ValidInterval(interval, second, day) == interval >= second /\ day % interval = 0
=============================================================================
