---------------------------- MODULE MCObsInputs ----------------------------
(* One or two inputs.  A RINEX input has one signal in up to three epochs, *)
(* which may be those of the other input, or two signals; an obsj input    *)
(* has up to two lines, in any order of time.                              *)
EXTENDS ObsInputs

CONSTANTS k1, k2

MCConfigs ==
  {[from |-> f, to |-> t, backend |-> b, dropped |-> {}, require_cp |-> FALSE] :
     f \in {"rinex", "obsj"}, t \in {"rinex", "obsj"}, b \in {"internal"}}
  \cup {[from |-> "rinex", to |-> "rinex", backend |-> "external", dropped |-> {}, require_cp |-> FALSE]}
  \cup {[from |-> f, to |-> "rinex", backend |-> "internal", dropped |-> {1}, require_cp |-> c] :
          f \in {"rinex", "obsj"}, c \in BOOLEAN}

Line(o) == [kind |-> "observation", o |-> o]
Lost == [readable |-> FALSE, lines |-> <<>>]
File(s) == [readable |-> TRUE, lines |-> s]

(* The first line of a RINEX file stands for its header. *)
RinexFile(s) == File(<<[kind |-> "metadata"]>> \o s)

MCKeys == {k1, k2}

RinexObservation(k, t) ==
  {Line([key |-> k, t |-> t, phase |-> p, code |-> TRUE, ll |-> ~p]) : p \in BOOLEAN}
  \cup {Line([key |-> k, t |-> t, phase |-> TRUE, code |-> TRUE, ll |-> TRUE])}

MCRinexInputs ==
  {Lost}
  \cup {RinexFile(s) : s \in UNION {{s \in [1..Cardinality(T) -> UNION {RinexObservation(k1, t) : t \in T}] :
            \A x, y \in DOMAIN s : x < y => s[x].o.t < s[y].o.t} : T \in SUBSET (0..2)}}
  \cup {RinexFile(<<a, b>>) : a \in RinexObservation(k2, 0), b \in RinexObservation(k1, 1)}

MCObsjInputs ==
  {Lost} \cup
  {File(s) : s \in SeqOf(
     {Line([key |-> k1, t |-> t, phase |-> p, code |-> TRUE, hc |-> FALSE, arc |-> a]) :
        t \in 0..1, p \in BOOLEAN, a \in 0..1}
     \cup {[kind |-> k] : k \in {"metadata", "blank", "bad"}}, 2)}
=============================================================================
