-------------------------- MODULE MCAmendmentChains --------------------------
(***************************************************************************)
(* Workloads for AmendmentChains.  Filings are 1, 2 and 3; every run picks *)
(* the calls its callers may make.                                         *)
(***************************************************************************)
EXTENDS AmendmentChains, TLC

Original          == [isAmendment |-> FALSE, amends |-> NoFiling, number |-> NoNumber]
Amends(o, n)      == [isAmendment |-> TRUE, amends |-> o, number |-> n]
Ingest(f, h)      == [kind |-> "ingest", id |-> f, header |-> h]
Defer(f, h)       == [kind |-> "defer", id |-> f, header |-> h]
ResolveChain(k)   == [kind |-> "chain", id |-> k]
ResolveEverything == [kind |-> "all"]

Callers == Permutations(Procs)

(* Namespaces to start from. *)
Nothing    == << >>
TwoReports == 1 :> Original @@ 2 :> Original @@ 3 :> Amends(1, 1)

(* Amendments name the original, as the FEC's validator demands; a later    *)
(* filing may take the lower number, or none.                               *)
OneChain == {Ingest(1, Original), Ingest(2, Amends(1, 2)), Ingest(3, Amends(1, 1)),
             Ingest(3, Amends(1, NoNumber)), ResolveChain(1)}

(* A corrected header moves a filing between two originals, or turns an      *)
(* original into an amendment and back.                                     *)
Corrections == {Ingest(1, Original), Ingest(2, Original), Ingest(3, Amends(1, 1)),
                Ingest(3, Amends(2, 1)), Ingest(1, Amends(2, 1)), Ingest(3, Amends(NoFiling, 1))}

(* Two filings change places between two chains. *)
FourReports == TwoReports @@ 4 :> Amends(2, 1)
Swap == {Ingest(3, Amends(2, 1)), Ingest(4, Amends(1, 1))}

(* An ingest while the whole table is being resolved. *)
DuringResolveAll == {Ingest(2, Amends(1, 1)), ResolveEverything}
OneReport        == 1 :> Original

(* Every header a filing can have, well formed or not, ingested at once or  *)
(* in a deferred batch, and the whole table resolved.                       *)
AnyHeader == {Original} \cup {Amends(o, n) : o \in 0..3, n \in {NoNumber, 1}}
             \cup {[Original EXCEPT !.amends = 1]}
Batch == {Ingest(f, h) : f \in 1..3, h \in AnyHeader}
         \cup {Defer(f, h) : f \in 1..3, h \in {Original, Amends(1, 1), Amends(2, NoNumber)}}
         \cup {ResolveEverything, ResolveChain(1)}
=============================================================================
