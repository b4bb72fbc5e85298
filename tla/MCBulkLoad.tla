----------------------------- MODULE MCBulkLoad -----------------------------
(* Instances of BulkLoad. *)
EXTENDS BulkLoad, TLC

CONSTANTS l1, l2

Row(k)        == [key |-> k, kind |-> "row", date |-> "good"]
Undated(k)    == [key |-> k, kind |-> "row", date |-> "bad"]
Blank         == [key |-> 0, kind |-> "blank", date |-> "none"]
Shaped(k, as) == [key |-> k, kind |-> as, date |-> "none"]

(* Rows stay, go and come; the second file has a row too many fields long, *)
(* the third breaks off in its last row.                                   *)
Weeks == << <<Row(1), Blank, Undated(2)>>,
            <<Row(1), Shaped(3, "long")>>,
            <<Row(1), Row(3), Shaped(2, "short")>> >>
TwoWeeks == << <<Row(1), Blank, Undated(2)>>, <<Row(1), Shaped(3, "long")>> >>

(* The first answer has no date, the third no tag. *)
Tags  == <<"a", "b", None>>
Dates == <<None, "tue", "wed">>

Replace == [mode |-> "replace", limit |-> None, ifChanged |-> TRUE,
            confirmed |-> FALSE, from |-> "url"]
Confirmed(c) == [c EXCEPT !.confirmed = TRUE, !.ifChanged = FALSE]
Sample(c)    == [c EXCEPT !.limit = 1, !.ifChanged = FALSE]
Added(c)     == [c EXCEPT !.mode = "append", !.ifChanged = FALSE]
FromFile(c)  == [c EXCEPT !.from = "file"]

TwoReplacers == (l1 :> {Replace, Confirmed(Replace)})
                @@ (l2 :> {Confirmed(Replace), Sample(Replace), Confirmed(FromFile(Replace))})
ReplacerAndOthers ==
    (l1 :> {Replace, Confirmed(Replace)})
    @@ (l2 :> {Added(Sample(Replace)), Added(FromFile(Replace))})
Mixed == {TwoReplacers, ReplacerAndOthers}

(* A developer's sample, then the nightly load. *)
Sampling == {(l1 :> {Replace, Confirmed(Sample(Replace))})}

(* A --limit sample is never taken for the current file: a later           *)
(* --if-changed does not skip the load it stands in for (LoadOptions.limit *)
(* and the book's page on reloading).                                      *)
SampleIsNeverCurrent ==
    [][\A l \in Loaders : Skips(l) => File(published, None) \subseteq Visible]_vars
=============================================================================
