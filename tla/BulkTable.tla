----------------------------- MODULE BulkTable -----------------------------
(***************************************************************************)
(* What a bulk table promises while it is loaded with --mode replace: its  *)
(* rows for a cycle are those of one staged file, or there are none, and   *)
(* it goes from one to the next in one step.                               *)
(***************************************************************************)
CONSTANT Files    \* what may be staged: sets of rows

VARIABLE content

Init == content = {}

Replace == content' \in Files

Next == Replace

Spec == Init /\ [][Next]_content
=============================================================================
