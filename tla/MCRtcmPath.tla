----------------------------- MODULE MCRtcmPath ----------------------------
(* Model checking RtcmPath: signals are interchangeable. *)
EXTENDS RtcmPath, TLC

Symmetry == Permutations(Keys)
=============================================================================
