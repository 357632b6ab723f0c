------------------------------ MODULE Metadata -----------------------------
(***************************************************************************)
(* Header metadata (obsj/src/obs.rs): records of optional fields, and how  *)
(* one is merged into another.                                             *)
(*                                                                         *)
(* The value of a field is where it comes from, since nothing else about   *)
(* it matters: the record that first had it, and whether the field was set *)
(* there by an option, a header file or a default.  Comments, which only   *)
(* accumulate, are left out; a receiver is one field, and agency behaves   *)
(* as observer.                                                            *)
(***************************************************************************)
EXTENDS Integers

CONSTANTS
  Unset,   \* an empty string or None
  Zero,    \* the position 0, 0, 0, written for one that is not known
  DefaultVersion   \* the RINEX version of a conversion that is not told one

RunFields == {"program", "by", "date"}

AntennaFields == {"antenna_type", "antenna_number"}

Positions == {"position", "delta"}

Fields == RunFields \cup AntennaFields \cup Positions \cup
          {"version", "name", "number", "marker_type", "observer", "receiver",
           "interval", "leap"}

Sources == [rec : Nat, by : {"option", "file", "default", "other"}]

Values == {Unset, Zero, DefaultVersion} \cup Sources

ASSUME MetadataAssumption ==
  /\ Unset # Zero /\ Unset # DefaultVersion /\ Zero # DefaultVersion
  /\ {Unset, Zero, DefaultVersion} \cap Sources = {}

Records == [Fields -> Values]

Empty == [f \in Fields |-> Unset]

(* The fields that are taken over together: run, receiver and antenna are  *)
(* structures that are copied whole when any of their fields is set.       *)
Together(f) ==
  CASE f \in RunFields -> RunFields
    [] f \in AntennaFields -> AntennaFields
    [] OTHER -> {f}

(* Faulty variant of Merge: every field is taken over by itself.           *)
MergeFields(a, b) == [f \in Fields |-> IF b[f] # Unset THEN b[f] ELSE a[f]]

(* Metadata::merge: b takes precedence where it is set.                    *)
Merge(a, b) ==
  [f \in Fields |-> IF \E g \in Together(f) : b[g] # Unset THEN b[f] ELSE a[f]]

(* diff_metadata: the fields that diffobs finds to differ.  The run is of  *)
(* no interest to it, nor the marker with --ignore-marker.                 *)
DiffMetadata(a, b, ignore_marker) ==
  LET ignored ==
        RunFields \cup (IF ignore_marker THEN {"name", "number", "marker_type"} ELSE {})
  IN  {f \in Fields \ ignored : a[f] # b[f]}
=============================================================================
