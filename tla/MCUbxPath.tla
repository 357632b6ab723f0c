----------------------------- MODULE MCUbxPath -----------------------------
(* Model checking UbxPath: signals are interchangeable. *)
EXTENDS UbxPath, TLC

Symmetry == Permutations(Keys)
=============================================================================
