------------------------------ MODULE BulkRuns ------------------------------
(***************************************************************************)
(* Two commands around the bulk tables. `bulk load-all` loads every source *)
(* of a cycle, one after the other, and goes on past one that fails unless *)
(* told to stop. `bulk-dump-compare` puts the Schedule E lines of a filing *)
(* beside the FEC's rows for it, one statement after the other and outside *)
(* any transaction, while a restore may replace the FEC's rows and an      *)
(* ingest the filing's.                                                    *)
(***************************************************************************)
EXTENDS Integers, Sequences, SequencesExt, FiniteSets, FiniteSetsExt

CONSTANTS BulkSources,    \* bulk::source::ALL, in order
          NoValue,        \* a NULL, and what is not there
          Ingested,       \* the Schedule E lines a filing may have: [id, amount]
          Processed,      \* what the FEC's table may hold: [file, id, amount], or NoTable
          ComparedFiling,
          MaxRestores     \* bound: changes by other processes

VARIABLES given,     \* the command and its flags
          loadAt,    \* the next source
          told,      \* source -> "loaded", "skipped" or the failure it was told of
          verdict,   \* of the command: none yet, or success
          lines,     \* the filing's lines, NoValue when it is not ingested
          fitem,     \* the FEC's rows
          compared,  \* statements done, and what they gave
          restores, moved  \* the rows changed between two statements (history)

bulkRunVars == <<given, loadAt, told, verdict, lines, fitem, compared, restores, moved>>

NoTable  == NoValue
NothingCompared == [done |-> 0, rawRows |-> 0, rawTotal |-> 0, dumpRows |-> 0, dumpTotal |-> 0,
                    onlyRaw |-> {}, onlyDump |-> {}, mismatches |-> {}, newest |-> NoValue]

BulkRunsInit ==
    /\ given \in [cmd : {"loadAll"}, failFast : BOOLEAN, ifChanged : BOOLEAN]
                 \cup [cmd : {"compare"}, failFast : {FALSE}, ifChanged : {FALSE}]
    /\ loadAt = 1 /\ told = << >> /\ verdict = "none"
    /\ IF given.cmd = "compare" THEN lines \in Ingested /\ fitem \in Processed
       ELSE lines = NoValue /\ fitem = NoTable
    /\ compared = NothingCompared /\ restores = 0 /\ moved = FALSE

-----------------------------------------------------------------------------
(* load_all: bulk::load of the next source (module BulkLoad). *)
LoadNext ==
    /\ given.cmd = "loadAll" /\ verdict = "none" /\ loadAt <= Len(BulkSources)
    /\ \E outcome \in {"loaded", "failed"} \cup (IF given.ifChanged THEN {"skipped"} ELSE {}) :
         /\ told' = Append(told, outcome)
         /\ verdict' = IF outcome = "failed" /\ given.failFast THEN "failed" ELSE "none"
    /\ loadAt' = loadAt + 1
    /\ UNCHANGED <<given, lines, fitem, compared, restores, moved>>

LoadAllEnds ==
    /\ given.cmd = "loadAll" /\ verdict = "none" /\ loadAt > Len(BulkSources)
    /\ verdict' = IF Contains(told, "failed") THEN "failed" ELSE "ok"
    /\ UNCHANGED <<given, loadAt, told, lines, fitem, compared, restores, moved>>

-----------------------------------------------------------------------------
(* compare_filing. A transaction without an id equals no other.             *)
SumOf(rows)   == FoldLeft(LAMBDA sum, r : IF r.amount = NoValue THEN sum ELSE sum + r.amount, 0, rows)
OfFiling      == SelectSeq(fitem, LAMBDA r : r.file = ComparedFiling)
Partners(r, s) == r.id # NoValue /\ r.id = s.id

(* Mutant of OnlyDump: NOT IN, for which a row without an id is nowhere. *)
OnlyDumpNamed == {i \in DOMAIN OfFiling : OfFiling[i].id # NoValue
                    /\ \A j \in DOMAIN lines : ~Partners(OfFiling[i], lines[j])}

OnlyRaw  == {j \in DOMAIN lines : \A i \in DOMAIN OfFiling : ~Partners(lines[j], OfFiling[i])}
OnlyDump == {i \in DOMAIN OfFiling : \A j \in DOMAIN lines : ~Partners(OfFiling[i], lines[j])}
Mismatches ==
    {<<j, i>> \in (DOMAIN lines) \X DOMAIN OfFiling :
        Partners(lines[j], OfFiling[i]) /\ lines[j].amount # OfFiling[i].amount}
Newest == IF fitem = << >> THEN NoValue ELSE Max({fitem[i].file : i \in DOMAIN fitem})

Compared(n) ==
    CASE n = 1 -> [compared EXCEPT !.rawRows = Len(lines), !.rawTotal = SumOf(lines)]
      [] n = 2 -> [compared EXCEPT !.dumpRows = Len(OfFiling), !.dumpTotal = SumOf(OfFiling)]
      [] n = 3 -> [compared EXCEPT !.onlyRaw = OnlyRaw]
      [] n = 4 -> [compared EXCEPT !.onlyDump = OnlyDump]
      [] n = 5 -> [compared EXCEPT !.mismatches = Mismatches]
      [] n = 6 -> [compared EXCEPT !.newest = Newest]

Statements == 6

(* FilingNotIngested or TableMissing; or the table goes between statements. *)
CompareFails ==
    /\ given.cmd = "compare" /\ verdict = "none" /\ (lines = NoValue \/ fitem = NoTable)
    /\ verdict' = "failed"
    /\ UNCHANGED <<given, loadAt, told, lines, fitem, compared, restores, moved>>

CompareStatement ==
    /\ given.cmd = "compare" /\ verdict = "none" /\ lines # NoValue /\ fitem # NoTable
    /\ compared' = [Compared(compared.done + 1) EXCEPT !.done = @ + 1]
    /\ verdict' = IF compared.done + 1 = Statements THEN "ok" ELSE "none"
    /\ UNCHANGED <<given, loadAt, told, lines, fitem, restores, moved>>

(* Another process puts another version of the dump in place (DumpRestore). *)
RestoreElsewhere ==
    /\ given.cmd = "compare" /\ verdict = "none" /\ restores < MaxRestores
    /\ fitem' \in Processed \ {fitem}
    /\ restores' = restores + 1
    /\ moved' = (moved \/ compared.done > 0)
    /\ UNCHANGED <<given, loadAt, told, verdict, lines, compared>>

(* Another process ingests the filing, for the first time or again, in one *)
(* transaction (module Chains), and may read it by newer field tables.     *)
IngestElsewhere ==
    /\ given.cmd = "compare" /\ verdict = "none" /\ restores < MaxRestores
    /\ lines' \in Ingested \ {lines, NoValue}
    /\ restores' = restores + 1
    /\ moved' = (moved \/ compared.done > 0)
    /\ UNCHANGED <<given, loadAt, told, verdict, fitem, compared>>

BulkRunsNext ==
    \/ LoadNext \/ LoadAllEnds
    \/ CompareFails \/ CompareStatement \/ RestoreElsewhere \/ IngestElsewhere

-----------------------------------------------------------------------------
(* load-all ends well if every source is loaded or was found unchanged, and *)
(* badly only after a failure; without --fail-fast each was tried.          *)
LoadAllTellsOfEach ==
    given.cmd = "loadAll" =>
        /\ verdict = "ok" => Len(told) = Len(BulkSources) /\ ~Contains(told, "failed")
        /\ verdict = "failed" =>
               IF given.failFast THEN told[Len(told)] = "failed"
               ELSE Len(told) = Len(BulkSources) /\ Contains(told, "failed")

(* CompareReport::matched. *)
Matched == compared.rawRows - Cardinality(compared.onlyRaw)
Once(rows) == \A i, j \in DOMAIN rows : Partners(rows[i], rows[j]) => i = j

(* Where nothing moved while it was read, the differences listed account   *)
(* for the difference of the totals, when no transaction is there twice.   *)
DifferencesAccountForTotals ==
    given.cmd = "compare" /\ verdict = "ok" /\ ~moved
        /\ Once(lines) /\ Once(OfFiling) =>
    LET Amount(r) == IF r.amount = NoValue THEN 0 ELSE r.amount
        Raw(j)    == Amount(lines[j])
        Theirs(i) == Amount(OfFiling[i])
    IN  /\ compared.rawTotal - compared.dumpTotal =
               MapThenSumSet(Raw, compared.onlyRaw) - MapThenSumSet(Theirs, compared.onlyDump)
               + MapThenSumSet(LAMBDA m : Raw(m[1]) - Theirs(m[2]), compared.mismatches)
        /\ Matched = compared.dumpRows - Cardinality(compared.onlyDump)

BulkRunsTellAll == LoadAllTellsOfEach /\ DifferencesAccountForTotals
=============================================================================
