------------------------------ MODULE ChainIndex ------------------------------
(***************************************************************************)
(* What the amendment-chain columns promise, with no SQL, no transactions  *)
(* and no locks: storing a filing is one step, after which the columns of  *)
(* every row agree with the headers in the table.  The rules are those the *)
(* comment of resolve_amendment_chain states (src/src/db/mod.rs).          *)
(***************************************************************************)
EXTENDS ChainRules

CONSTANT Headers        \* the headers a filing may be stored with

VARIABLES filings,      \* the stored headers
          index         \* the chain columns

(* f amends a filing that is there and is no amendment. *)
Joins(t, f) == t[f].isAmendment /\ \E o \in DOMAIN t \ {f} :
                   o = t[f].amends /\ ~ t[o].isAmendment

(* The filings of f's chain. *)
Chain(t, f) ==
    LET head == IF Joins(t, f) THEN t[f].amends ELSE f
    IN  {head} \cup {g \in DOMAIN t : Joins(t, g) /\ t[g].amends = head}

(* The columns of f within a chain: members are ordered, the original       *)
(* first, then by amendment number (none first), then by filing id; the     *)
(* row lists the members up to itself and names the one before and the last.*)
RowAgrees(t, ix, f) ==
    LET c == Chain(t, f) IN
    /\ f \in ix[f].chain
    /\ ix[f].chain \subseteq c
    /\ \A g \in c : f \in ix[g].chain \/ g \in ix[f].chain
    /\ \A g \in ix[f].chain \ {f} :
          /\ ix[g].chain \subseteq ix[f].chain \ {f}
          /\ \/ ~ Joins(t, g)
             \/ t[g].number < t[f].number
             \/ t[g].number = t[f].number /\ g < f
    /\ Joins(t, f) \/ ix[f].chain = {f}
    /\ ix[f].latest \in c /\ ix[ix[f].latest].chain = c
    /\ ix[f].previous \in c
    /\ \/ ix[f].chain = {f} /\ ix[f].previous = f
       \/ ix[ix[f].previous].chain = ix[f].chain \ {f}
    /\ ix[f].unresolved = (t[f].isAmendment /\ ~ Joins(t, f))

Agrees(t, ix) ==
    /\ DOMAIN ix = DOMAIN t
    /\ \A f \in DOMAIN t : RowAgrees(t, ix, f)

Init == Agrees(filings, index)

Store(f, h) ==
    /\ filings' = Put(filings, f, h)
    /\ Agrees(filings', index')

Next == \E f \in Filings, h \in Headers : Store(f, h)

Spec == Init /\ [][Next]_<<filings, index>>
=============================================================================
