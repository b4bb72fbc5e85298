----------------------------- MODULE MCCommands -----------------------------
(***************************************************************************)
(* Commands that keep to themselves: bulk loads into one table, the guided *)
(* imports, exports, the measured review, the pages that list the tables,  *)
(* the filing tools of the server, the commands that find filings, and the *)
(* commands around the bulk tables. None touches the state of another, so  *)
(* a behaviour is of the one `running` names.                              *)
(***************************************************************************)
EXTENDS MCBulkLoad, Exports, ReviewEval, GuidedImport, DataBrowser, FilingTools, FilingRuns,
        BulkRuns

VARIABLE running

-----------------------------------------------------------------------------
(* Three filings to export: two versions of a table, one that breaks off.   *)
Everything == {"all"}
SomeExported ==
    << [records |-> <<"F3X", "SchA", "SchB", "SchA", "SchA">>, breaksAt |-> 0, columns |-> {"a", "b"}],
       [records |-> <<"F3X", "SchB", "SchA">>, breaksAt |-> 0, columns |-> {"a", "c"}],
       [records |-> <<"F3X", "SchA", "SchB">>, breaksAt |-> 3, columns |-> {"a"}] >>
SomeExportJobs ==
    [filing : 1..3, format : {"parquet", "sqlite"}, only : {Everything, {"SchA"}}, withId : {FALSE}]
    \cup [filing : {1}, format : {"sqlite"}, only : {Everything}, withId : {TRUE}]
    \cup [filing : {2, 3}, format : {"csv"}, only : {Everything}, withId : {FALSE}]
-----------------------------------------------------------------------------
(* Letters and reports in the order they were published: a committee named  *)
(* twice, one sent another kind of letter, one never named, one on paper.   *)
ALetter(who, asks, p, day) ==
    [committee |-> who, asks |-> asks, form |-> "F3X", period |-> p, day |-> day]
SomeLetters ==
    << ALetter("A", TRUE, 1, 3), ALetter("D", TRUE, 1, 3), ALetter("C", FALSE, 0, 4),
       ALetter("B", TRUE, 2, 5), ALetter("A", TRUE, 2, 5), ALetter("C", TRUE, 3, 6) >>
AReport(id, who, kind, p, day, original) ==
    [id |-> id, committee |-> who, form |-> "F3X", kind |-> kind, period |-> p, day |-> day,
     paper |-> FALSE, first |-> original]
SomeReports ==
    << AReport(1, "A", "Q1", 1, 1, 1), AReport(2, "B", "Q1", 1, 1, 2), AReport(3, "C", "Q1", 1, 1, 3),
       AReport(4, "D", "Q1", 1, 2, 4), AReport(5, "A", "Q2", 2, 3, 5), AReport(6, "E", "Q1", 1, 3, 6),
       [AReport(7, "F", "Q1", 1, 4, 7) EXCEPT !.paper = TRUE], AReport(8, "B", "Q2", 2, 4, 8),
       AReport(9, "A", "Q1", 1, 4, 1), AReport(10, "E", "Q2", 2, 5, 10),
       AReport(11, "C", "Q2", 2, 6, 11), AReport(12, "A", "Q2", 2, 6, 5) >>
-----------------------------------------------------------------------------
(* Two small dumps and a split one; computers with much and little room,    *)
(* one disk or two, an old server, a tool that does not say its version.    *)
TheDumps ==
    "committees" :> [split |-> FALSE, large |-> FALSE, approx |-> 2]
    @@ "spending" :> [split |-> FALSE, large |-> FALSE, approx |-> 3]
    @@ "receipts" :> [split |-> TRUE, large |-> TRUE, approx |-> 20]
Able ==
    [tool |-> "new", url |-> "ok", server |-> 15, mayCreate |-> TRUE, contrib |-> TRUE, df |-> TRUE,
     local |-> TRUE, tellsDirectory |-> TRUE, downloads |-> 30, database |-> 60, oneDisk |-> FALSE,
     namespace |-> "missing"]
SomeMachines ==
    { Able, [Able EXCEPT !.oneDisk = TRUE], [Able EXCEPT !.server = 9], [Able EXCEPT !.url = "none"],
      [Able EXCEPT !.tellsDirectory = FALSE, !.database = 9, !.contrib = FALSE],
      [Able EXCEPT !.tool = "unreadable", !.server = 12],
      [Able EXCEPT !.database = 40, !.downloads = 5],
      [Able EXCEPT !.database = 48, !.downloads = 7, !.namespace = "behind"] }
NoneKept == [d \in DOMAIN TheDumps |-> [complete |-> 0, partial |-> 0, of |-> 0]]
SomeKept ==
    { NoneKept,
      [NoneKept EXCEPT !["committees"].complete = 2, !["committees"].of = 1,
                       !["receipts"].partial = 7, !["receipts"].of = 1] }
Guided(c, what) ==
    [cmd |-> c, what |-> what, cycles |-> {}, file |-> 0, explain |-> FALSE, offline |-> FALSE]
Small == <<"committees", "spending">>
SomeGuided ==
    { Guided("check", Small), [Guided("check", <<"receipts">>) EXCEPT !.cycles = {5, 8}],
      Guided("import", Small), [Guided("import", Small) EXCEPT !.explain = TRUE],
      [Guided("import", <<"spending">>) EXCEPT !.file = 3], Guided("import", <<"receipts">>),
      [Guided("import", <<"receipts">>) EXCEPT !.cycles = {5, 8}],
      Guided("update", Small \o <<"receipts">>) }
-----------------------------------------------------------------------------
(* Two candidates with expenditures of one day, a committee; sessions of a  *)
(* reader who has no key yet, and of one who follows the hints of `query`.  *)
ARow(id, who, date, kind) == [id |-> id, who |-> who, date |-> date, kind |-> kind]
SomeStored ==
    [candidates |-> {ARow(1, "c1", 0, "x"), ARow(2, "c2", 0, "y"), ARow(3, "c3", 0, "x")},
     committees |-> {ARow(1, "m1", 0, "x")},
     ies        |-> {ARow(1, "c1", 1, "x"), ARow(2, "c1", 0, "y"), ARow(3, "c1", 0, "x")},
     filings    |-> {ARow(i, "m1", 0, "x") : i \in 1..3}]
SomeEntities == [candidate |-> {"c1", "c2"}, committee |-> {"m1"}]
Session(key, view, of, views, asked, ch, f) ==
    [key |-> key, view |-> view, of |-> of, query |-> "", views |-> views, asked |-> asked,
     changes |-> ch, failures |-> f]
SomeSessions ==
    { Session("k", "search", "", 1, 4, 0, 0), Session("k", "candidate", "c1", 1, 4, 0, 0),
      Session("none", "candidate", "c1", 2, 4, 0, 0), Session("none", "candidate", "c1", 1, 6, 0, 1),
      Session("none", "candidate", "c1", 1, 5, 1, 0), Session("none", "committee", "m1", 1, 5, 0, 0) }
    \cup { [Session("k", "search", w[2], 0, 0, 1, 0) EXCEPT !.query = w[1]] :
                w \in {<<"ies", "c1">>, <<"candidates", "">>} }
-----------------------------------------------------------------------------
(* A cover without rules, one with, an attachment gained late, and the TEXT *)
(* record, whose columns moved; a file too large to take, a page that is no *)
(* filing.                                                                  *)
V85 == Electronic(8, 5)
V84 == Electronic(8, 4)
V53 == Electronic(5, 3)
V30 == Electronic(3, 0)
OnPaper == [paper |-> TRUE, major |-> 3, minor |-> 0]
ALayout(vs, names, order) ==
    [versions |-> vs, width |-> Len(names),
     fields |-> [i \in DOMAIN names |-> [name |-> names[order[i]], column |-> order[i] - 1]]]
TwoColumns == <<"form_type", "other">>
SomeCatalog ==
    [F3X  |-> <<ALayout(<<V85, V84>>, TwoColumns, <<1, 2>>), ALayout(<<V53>>, TwoColumns, <<2, 1>>)>>,
     F99  |-> <<ALayout(<<V53, OnPaper, V30>>, TwoColumns, <<1, 2>>)>>,
     SchA |-> <<ALayout(<<V85>>, TwoColumns, <<2, 1>>),
                ALayout(<<V30, V84>>, <<"form_type", "purpose", "other">>, <<3, 1, 2>>)>>,
     Text |-> <<ALayout(<<V84, V85>>, <<"rec_type", "other">>, <<1, 2>>),
                ALayout(<<V53>>, <<"rec_type", "form_type", "other">>, <<2, 3, 1>>)>>]
ASpec(amount, length, must, codes) ==
    [amount |-> amount, length |-> length, required |-> must, codes |-> codes]
SomeSpecRows ==
    [F3X  |-> "form_type" :> ASpec(FALSE, 8, "error", {"F3XN", "F3XA"}),
     F99  |-> << >>,
     SchA |-> "form_type" :> ASpec(FALSE, 8, "error", {}) @@ "other" :> ASpec(TRUE, 12, "warning", {}),
     Text |-> "rec_type" :> ASpec(FALSE, 8, "error", {})]
AText(parts) == [paper |-> FALSE, parts |-> parts]
BundledText == TextOf(V85)
SomeTexts ==
    { AText(<<<<8>>, <<5>>>>), AText(<<<<8>>, <<4>>, <<2, 1>>>>), AText(<<<<3>>, <<0, 0>>>>),
      [AText(<<<<3>>>>) EXCEPT !.paper = TRUE], AText(<<<<9>>, <<9>>>>), AText(<<<<2, 5, 6>>, <<0>>>>) }
SomeNames == {"F3X", "F99", "SchA", "Text", "SA11AI"}
SomeTokens ==
    [F3X |-> "F3X", F3XN |-> "F3X", F99 |-> "F99", SA11AI |-> "SchA", TEXT |-> "Text", Text |-> "Text"]
Rec(t, cells) == [table |-> t, cells |-> cells]
AFile(b, d, v, recs) ==
    [bytes |-> b, declared |-> d, html |-> FALSE, json |-> b, version |-> v, records |-> recs]
SomeToolFiles ==
    << AFile(6, TRUE, V85, <<Rec("F3X", <<"F3XN", "v">>), Rec("SchA", <<"SA11AI", "v">>), Rec("Text", <<"TEXT", "v">>)>>),
       AFile(5, FALSE, V53, <<Rec("F99", <<"F99", "v">>), Rec("Text", <<"TEXT", "SA11AI", "v">>)>>),
       AFile(12, TRUE, V85, <<Rec("F3X", <<"F3XN", "v">>)>>),
       AFile(12, FALSE, V85, <<Rec("F3X", <<"F3XN", "v">>)>>),
       [AFile(3, TRUE, V85, << >>) EXCEPT !.html = TRUE] >>
SomeToolsSessions ==
    {[fetches |-> 2, posts |-> 0, edits |-> 0], [fetches |-> 0, posts |-> 1, edits |-> 2]}
-----------------------------------------------------------------------------
(* A listing and two days of archives: reports of one form that follow each *)
(* other, one amended, a gap before the last; one without dates, one whose  *)
(* header is of the deprecated kind, and one on paper.                      *)
AKnown(form, suffix, filer, from, through) ==
    [form |-> form, suffix |-> suffix, old |-> FALSE, parses |-> TRUE, filer |-> filer,
     rules |-> form = "F3X", from |-> from, through |-> through]
SomeKnown ==
    1 :> AKnown("F3X", "N", "A", 1, 1) @@ 2 :> AKnown("F3X", "N", "A", 2, 3) @@ 3 :> AKnown("F3X", "A", "A", 2, 3)
    @@ 4 :> AKnown("F99", "", "A", 0, 0) @@ 5 :> [AKnown("F3X", "N", "A", 3, 3) EXCEPT !.parses = FALSE, !.old = TRUE]
    @@ 6 :> AKnown("F3X", "N", "A", 4, 4) @@ 7 :> AKnown("F3X", "N", "A", 5, 6) @@ 8 :> AKnown("F3X", "N", "A", 8, 8)
Record0(id) == [id |-> id, hint |-> IF id = 6 THEN "other" ELSE "store"]
SomeListing == <<Record0(8), Record0(7), Record0(6), Record0(0), Record0(2), Record0(1), Record0(3), Record0(4)>>
InZip(id) == [id |-> id, file |-> TRUE]
SomeArchive == 1 :> <<InZip(1), InZip(0), InZip(4)>> @@ 2 :> <<InZip(5), InZip(3)>>
ListJob(limit, acts, chain) ==
    [cmd |-> "filings", limit |-> limit, filter |-> {"A"}, acts |-> acts, chain |-> chain, from |-> 1, to |-> 0]
DaysJob(filter, acts, from, to) ==
    [cmd |-> "backfill", limit |-> NoLimit, filter |-> filter, acts |-> acts, chain |-> FALSE, from |-> from, to |-> to]
SomeRunJobs ==
    { ListJob(2, {"out", "check"}, FALSE), ListJob(NoLimit, {}, TRUE), ListJob(0, {"ingest"}, TRUE),
      [ListJob(NoLimit, {"out"}, FALSE) EXCEPT !.filter = {}], DaysJob({"F3X"}, {"out", "ingest"}, 1, 2),
      DaysJob({"F3XA"}, {"out"}, 2, 3), DaysJob({}, {"check", "ingest"}, 1, 2) }
-----------------------------------------------------------------------------
(* Lines of a filing and the FEC's rows for it: without an id, without an   *)
(* amount, of another filing, twice, or no table at all.                    *)
ThreeSources == <<"candidates", "committees", "schedule_a">>
ELine(id, amount) == [id |-> id, amount |-> amount]
ERow(id, amount)  == [file |-> 1, id |-> id, amount |-> amount]
SomeIngested ==
    {NoValue} \cup UNION {[1..n -> {ELine("T1", 3), ELine("T2", NoValue), ELine(NoValue, 2)}] : n \in 0..3}
SomeProcessed ==
    {NoTable} \cup UNION {[1..n -> {ERow("T1", 3), ERow("T1", NoValue), ERow("T2", 5), ERow(NoValue, 7)}] : n \in 0..2}
    \cup {<<ERow("T1", 3), [ERow("T1", 3) EXCEPT !.file = 2]>>}
-----------------------------------------------------------------------------
LoadsIdle == \* BulkLoad!Init, of one workload
    Init /\ jobs = ReplacerAndOthers

AllInit ==
    /\ running \in {"loads", "exports", "eval", "guided", "browser", "tools", "spec", "runs", "bulk"}
    /\ IF running = "loads" THEN Init ELSE LoadsIdle
    /\ ExportInit /\ EvalInit
    /\ GuideInit
    /\ running # "guided" => machine = Able /\ archives = NoneKept /\ offered["receipts"].up
    /\ BrowserInit /\ ToolsInit /\ SpecInit /\ RunInit
    /\ running # "browser" => /\ session = Session("none", "committee", "m1", 1, 5, 0, 0)
                             /\ ~viewThere
    /\ running # "tools" => tools.posts = 1
    /\ BulkRunsInit
    /\ running # "bulk" => given.cmd = "loadAll" /\ given.failFast /\ given.ifChanged

Idle0(part) ==
    /\ UNCHANGED running
    /\ part # "loads"   => UNCHANGED vars
    /\ part # "exports" => UNCHANGED exportVars
    /\ part # "eval"    => UNCHANGED evalVars
    /\ part # "guided"  => UNCHANGED guideVars
    /\ part # "browser" => UNCHANGED browserVars
    /\ part # "tools"   => UNCHANGED toolsVars
    /\ part # "spec"    => UNCHANGED specVars
    /\ part # "runs"    => UNCHANGED runVars
    /\ part # "bulk"    => UNCHANGED bulkRunVars

AllNext ==
    \/ running = "loads" /\ Next /\ Idle0("loads")
    \/ running = "exports" /\ ExportNext /\ Idle0("exports")
    \/ running = "eval" /\ EvalNext /\ Idle0("eval")
    \/ running = "guided" /\ GuideNext /\ Idle0("guided")
    \/ running = "browser" /\ BrowserNext /\ Idle0("browser")
    \/ running = "tools" /\ ToolsNext /\ Idle0("tools")
    \/ running = "spec" /\ SpecNext /\ Idle0("spec")
    \/ running = "runs" /\ RunNext /\ Idle0("runs")
    \/ running = "bulk" /\ BulkRunsNext /\ Idle0("bulk")

AllSpec == AllInit /\ [][AllNext]_<<running, vars, exportVars, evalVars, guideVars, browserVars, toolsVars,
                                     specVars, runVars, bulkRunVars>>
=============================================================================
