---------------------------- MODULE MCFilingCache ----------------------------
(* Workloads for FilingCache: two documents, two or three processes. *)
EXTENDS FilingCache, TLC

CONSTANTS p1, p2, p3, a, b

OwnDocuments   == p1 :> {a} @@ p2 :> {b} @@ p3 :> {}
SharedDocument == p1 :> {a} @@ p2 :> {a}

ASSUME TwoWorkloads == MayFetch \in {OwnDocuments, SharedDocument}
=============================================================================
