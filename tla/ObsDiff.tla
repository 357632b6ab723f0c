------------------------------ MODULE ObsDiff ------------------------------
(***************************************************************************)
(* The comparison of two observation streams (obsj/src/diff.rs) that       *)
(* diffobs and the golden tests rest on.  An observation is a record with  *)
(* key, t, phase, code, arc and hc; phase and code say whether it has such *)
(* values, and values that are there are taken to be within tolerance.     *)
(***************************************************************************)
EXTENDS Integers, Sequences

(* index_observations: of several observations of a signal in an epoch the *)
(* first.                                                                  *)
At(s, t, k) ==
  {i \in DOMAIN s : /\ s[i].t = t /\ s[i].key = k
                    /\ \A j \in 1..(i - 1) : ~(s[j].t = t /\ s[j].key = k)}

Present(s, t, k) == At(s, t, k) # {}

Obs(s, t, k) == s[CHOOSE i \in At(s, t, k) : TRUE]

(* Faulty variant of TransitionAt: the tracker stays with the first arc.   *)
TransitionAtStart(s, t, k) ==
  \E i \in DOMAIN s :
    /\ s[i].key = k /\ s[i].t < t
    /\ \A j \in DOMAIN s : s[j].key = k => s[i].t <= s[j].t
    /\ Obs(s, t, k).arc # s[i].arc

(* transition_at: arc differs from the latest epoch the signal was in; no  *)
(* transition when there is none.                                          *)
TransitionAt(s, t, k) ==
  \E i \in DOMAIN s :
    /\ s[i].key = k /\ s[i].t < t
    /\ \A j \in DOMAIN s : s[j].key = k /\ s[j].t < t => s[j].t <= s[i].t
    /\ i \in At(s, s[i].t, k)
    /\ Obs(s, t, k).arc # s[i].arc

(* Faulty variant: blank phases are ignored as if only equal phases were   *)
(* compared.                                                               *)
DiffersBlank(a, b, t, k, ignore_blank_phase) ==
  LET x == Obs(a, t, k)
      y == Obs(b, t, k)
  IN  \/ x.code # y.code
      \/ x.hc # y.hc
      \/ x.phase # y.phase /\ ~ignore_blank_phase
      \/ TransitionAt(a, t, k) # TransitionAt(b, t, k)

(* The two observations of k at t differ (cp_blank, compare_at).           *)
Differs(a, b, t, k, ignore_blank_phase) ==
  LET x == Obs(a, t, k)
      y == Obs(b, t, k)
  IN  \/ x.code # y.code
      \/ x.hc # y.hc
      \/ /\ ignore_blank_phase => x.phase /\ y.phase
         /\ \/ x.phase # y.phase
            \/ TransitionAt(a, t, k) # TransitionAt(b, t, k)

(* diff_observations: the epochs and signals it reports.                   *)
Diff(a, b, ignore_blank_phase) ==
  {p \in {<<a[i].t, a[i].key>> : i \in DOMAIN a}
         \cup {<<b[i].t, b[i].key>> : i \in DOMAIN b} :
     Present(a, p[1], p[2]) /\ Present(b, p[1], p[2])
       => Differs(a, b, p[1], p[2], ignore_blank_phase)}
=============================================================================
