------------------------------ MODULE ArcToLl ------------------------------
(***************************************************************************)
(* From arc back to the loss-of-lock bit (ArcToLl, obsj/src/arc.rs): what  *)
(* a RINEX writer makes of a sequence of observations with key and arc.    *)
(***************************************************************************)
EXTENDS Integers, Sequences

(* The observations of a signal before the i-th of s. *)
Before(s, i) == {x \in 1..(i - 1) : s[x].key = s[i].key}

(* Faulty variant of Lli: a first-seen signal reports no slip (this is     *)
(* ArcToLl::transition).                                                   *)
LliTransition(s, i) ==
  \E x \in Before(s, i) :
    /\ \A y \in Before(s, i) : y <= x
    /\ s[i].arc # s[x].arc

(* Faulty variant of Lli: the bit stays set once arc has moved.            *)
LliLevel(s, i) == s[i].arc # 0

(* ArcToLl::lli of the i-th observation: arc differs from the one before,  *)
(* and from 0 when the signal is seen for the first time.                  *)
Lli(s, i) ==
  \/ Before(s, i) = {} /\ s[i].arc # 0
  \/ \E x \in Before(s, i) :
       /\ \A y \in Before(s, i) : y <= x
       /\ s[i].arc # s[x].arc
=============================================================================
