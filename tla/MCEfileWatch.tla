---------------------------- MODULE MCEfileWatch ----------------------------
(* Instances of EfileWatch. *)
EXTENDS EfileWatch, TLC

AllModes  == {"watch", "once", "mark"}
Following == {"watch"}

Symmetry == Permutations(Watchers)

SomeOrNone  == {Ids, {i \in Ids : i > 1}}
=============================================================================
