----------------------------- MODULE ChainRules -----------------------------
(***************************************************************************)
(* Amendment chains as the resolver's SQL computes them                    *)
(* (src/src/db/mod.rs, resolve_chain_sql!).  Pure operators: a "table" is  *)
(* a function from the filing ids that have a row in `filings` to the      *)
(* header columns the resolver reads.                                      *)
(*                                                                         *)
(* A resolved row carries                                                  *)
(*   chain       the ids up to and including this one (amendment_chain;    *)
(*               amendment_version is its size less one, and its order is  *)
(*               the partition's, so the set says everything)              *)
(*   latest      most_recent_filing_id (most_recent is latest = this id)   *)
(*   previous    previous_filing_id                                        *)
(*   unresolved  chain_unresolved                                          *)
(***************************************************************************)
EXTENDS Integers, FiniteSets

CONSTANT Filings        \* the filing ids of the model, ordered as integers

ASSUME FilingsAssumption == Filings \subseteq Nat \ {0} /\ IsFiniteSet(Filings)

NoFiling == 0           \* SQL NULL, or None, where a filing id may be missing
NoNumber == -1          \* amendment_number IS NULL; sorts first (NULLS FIRST)

(* What one parsed .fec file gives the ingester: the header columns of its  *)
(* `filings` row.  The other columns, and its schedule_e_lines, are written *)
(* with them under the same row lock and no resolver reads them.            *)
Number == Nat \cup {NoNumber}
Header == [isAmendment : BOOLEAN, amends : Filings \cup {NoFiling}, number : Number]

Resolved == [chain : SUBSET Filings, latest : Filings, previous : Filings,
             unresolved : BOOLEAN]

(* The chain a filing belongs to: the original it amends, or itself. *)
ChainKey(f, h) ==
    IF h.isAmendment /\ h.amends # NoFiling THEN h.amends ELSE f

(* An amendment joins the chain its header names when that filing is in     *)
(* the table and is itself no amendment.                                    *)
Attached(t, f) ==
    /\ t[f].isAmendment
    /\ t[f].amends \notin {NoFiling, f}
    /\ t[f].amends \in DOMAIN t
    /\ ~ t[t[f].amends].isAmendment

OriginalId(t, f) == IF Attached(t, f) THEN t[f].amends ELSE f

(* Mutant of Scope: the amendments that wait for the key are left out. *)
ScopeOfKeyOnly(t, k) == {f \in DOMAIN t : f = k}

(* CTE `scope` of one chain: the key's own row and whatever names it. *)
Scope(t, k) == {f \in DOMAIN t : f = k \/ t[f].amends = k}

(* CTE `members`: rows whose partition is complete within the scope. *)
Members(t, k) ==
    {f \in Scope(t, k) : \/ OriginalId(t, f) = k
                         \/ OriginalId(t, f) = f /\ t[f].isAmendment}

(* ORDER BY (filing_id <> original_id), amendment_number NULLS FIRST,       *)
(* filing_id, within the partition of original o; num gives the numbers.    *)
Before(o, num, f, g) ==
    \/ f = o /\ g # o
    \/ /\ (f = o) = (g = o)
       /\ num[f] < num[g] \/ (num[f] = num[g] /\ f < g)

(* The last of some rows of the partition, for last_value and lag. *)
Last(o, num, S) == CHOOSE g \in S : \A h \in S \ {g} : Before(o, num, h, g)

(* Mutant of Rank: last_value over the default window frame, which ends at  *)
(* the current row.                                                         *)
RankDefaultFrame(o, num, isAmendment, f) ==
    LET upTo == {g \in DOMAIN num : g = f \/ Before(o, num, g, f)}
    IN  [chain |-> upTo, latest |-> f, previous |-> f,
         unresolved |-> isAmendment /\ o = f]

(* CTE `ranked`: the window functions over one partition, DOMAIN num. *)
Rank(o, num, isAmendment, f) ==
    LET upTo == {g \in DOMAIN num : g = f \/ Before(o, num, g, f)}
    IN  [chain      |-> upTo,
         latest     |-> Last(o, num, DOMAIN num),
         previous   |-> IF upTo = {f} THEN f ELSE Last(o, num, upTo \ {f}),
         unresolved |-> isAmendment /\ o = f]

Partition(t, S, o) == {g \in S : OriginalId(t, g) = o}

RankIn(t, S, f) ==
    LET o == OriginalId(t, f)
    IN  Rank(o, [g \in Partition(t, S, o) |-> t[g].number], t[f].isAmendment, f)

(* RESOLVE_ONE_CHAIN_SQL: the rows it writes, with what it writes. *)
ResolveOne(t, k) == [f \in Members(t, k) |-> RankIn(t, Members(t, k), f)]

(* RESOLVE_ALL_CHAINS_SQL: every row, with no member filter. *)
ResolveAll(t) == [f \in DOMAIN t |-> RankIn(t, DOMAIN t, f)]

(* UPDATE: the rows of g take g's values, the others keep theirs. *)
Overlay(f, g) ==
    [x \in DOMAIN f \cup DOMAIN g |-> IF x \in DOMAIN g THEN g[x] ELSE f[x]]

Put(f, x, v) == [y \in DOMAIN f \cup {x} |-> IF y = x THEN v ELSE f[y]]
=============================================================================
