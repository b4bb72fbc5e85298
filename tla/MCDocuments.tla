---------------------------- MODULE MCDocuments ----------------------------
(***************************************************************************)
(* The parts that keep to themselves: the streaming reader, the paged      *)
(* client, the processing lag, a committee's books, the review of a report *)
(* in its period, a filing under the acceptance rules, and the findings    *)
(* beside the FEC's own, the workbench of the page, the writer and the     *)
(* e-filing feed.  None touches the state of another, so a behaviour is of *)
(* the one `focus` names, and the others stay idle.                        *)
(***************************************************************************)
EXTENDS FilingStream, OpenFecPages, FilingLag, Review, AcceptanceRules, WebCheck, Workbench,
        FilingWriter, EfileFeed, TLC

VARIABLE focus

-----------------------------------------------------------------------------
(* What is read. *)
UpTo(n, kinds) == UNION {[1..k -> kinds] : k \in 0..n}

Around == {"plain", "text", "begin", "end"}
ModernBodies == UpTo(3, {"plain", "text", "blank", "empty", "begin", "end", "unknown"})
                \cup UpTo(4, Around) \cup {<<"begin">> \o b : b \in [1..4 -> Around]}
Modern  == {<<"hdr28", c>> \o b : c \in {"plain", "text"}, b \in ModernBodies}
Old     == {<<"hdr", "blank", "text">> \o b :
                b \in UpTo(3, {"plain", "blank", "begin", "end", "nolayout"})}
Starts  == UpTo(3, {"hdr28", "hdr", "bad", "old", "blank", "plain", "begin", "nolayout"})

Reading(f, o, t, io) == [file |-> f, options |-> o, filter |-> t, ioAt |-> io]
Strict  == [unknown |-> "fail", missing |-> "fail"]
Lenient == [unknown |-> "skip", missing |-> "skip"]

SomeReadings ==
    {Reading(f, o, Records, 0) : f \in Modern, o \in {Strict, Lenient}}
    \cup {Reading(f, Strict, Records, io) : f \in {g \in Modern : Len(g) = 5}, io \in 2..5}
    \cup {Reading(f, Lenient, {"text"}, 0) : f \in Modern}
    \cup {Reading(f, o, Records, 0) : f \in Old \cup Starts, o \in OptionSets}

(* What openFEC knows of three filings: nothing, received, processed. *)
EfileRow(id, image)   == [id |-> id, committee |-> 1, received |-> 2, image |-> image]
FilingRow(id, image)  == [id |-> id, committee |-> 1, received |-> 1, reportType |-> 3, image |-> image]
LogRow(image, loaded) ==
    [image |-> image, summary |-> 4, transactions |-> loaded, reportType |-> 5, year |-> 24]
Amended(row) == [row EXCEPT !.year = 22]
SomeFecs ==
    {[efile |-> e, filings |-> f, log |-> l] :
        e \in {<< >>, <<EfileRow(1, 11), EfileRow(2, None)>>, <<EfileRow(2, 12), EfileRow(1, 11)>>},
        f \in {<< >>, <<FilingRow(1, 11)>>, <<FilingRow(2, 12), FilingRow(1, None)>>},
        l \in {<< >>, <<LogRow(11, 1), LogRow(None, 6)>>, <<LogRow(12, 6), LogRow(11, None)>>,
               <<LogRow(12, 40), Amended(LogRow(11, 7))>>}}
FirstThree == {1, 2, 3}
RawLine(schedule, memo) == [schedule |-> schedule, memo |-> memo]
SomeRaw     == {NoFiling, <<RawLine("A", FALSE), RawLine("A", TRUE), RawLine("B", FALSE)>>}
SomeTallies == {[A |-> a, B |-> 1, E |-> e] : a, e \in {None, 2}}

(* The bodies of reports: memos, a split transfer, two ways to itemize. *)
E(t, m, a) == [token |-> t, memo |-> m, amounts |-> a]
Amt(n)     == [amount |-> n]
ReportBodies == { << >>,
    <<E("SA11AI", FALSE, Amt(2)), E("SA11AI", TRUE, Amt(2)), E("SB23", FALSE, Amt(1))>>,
    <<E("H4", FALSE, [federal |-> 1, other |-> 2]), E("H3", FALSE, [transferred |-> 1, total |-> 4])>>,
    <<E("SA17", FALSE, Amt(3)), E("SA17A", FALSE, Amt(3)), E("SD10", FALSE, Amt(3))>> }
Forms == {"F3X", "F3", "F3P"}
-----------------------------------------------------------------------------
(* Fields of six tables, as the workbook specifies them. *)
Silent == [is |-> "silent", of |-> {}]
Field(name, kind, max) ==
    [name |-> name, kind |-> kind, max |-> max, marks |-> {}, allowed |-> {}, events |-> {},
     wrongIsError |-> FALSE, pattern |-> FALSE, required |-> "none", cell |-> Silent,
     ruleCell |-> Silent, sibling |-> "none"]
Needed(s) == [s EXCEPT !.required = "error"]
Filer    == [Needed(Field("filer_committee_id_number", "other", 9)) EXCEPT !.pattern = TRUE]
F3XSheet ==
    << Filer, Needed(Field("coverage_from_date", "numeric", 8)), Field("col_b_year", "numeric", 4),
       [Field("report_code", "other", 3) EXCEPT
            !.allowed = {"Q1", "12P"}, !.wrongIsError = TRUE, !.required = "warning"],
       [Field("election_state", "other", 2) EXCEPT !.marks = {"state"},
            !.required = "conditional", !.cell = [is |-> "reportCode", of |-> {"12P"}]] >>
F1Sheet  == << Filer, Field("treasurer_telephone", "numeric", 10) >>
F99Sheet == << Filer >>
SchASheet ==
    << Filer, Field("transaction_id", "other", 20), Field("back_reference", "other", 20),
       Needed([Field("entity_type", "other", 3) EXCEPT !.required = "warning"]),
       Needed(Field("organization_name", "other", 200)),
       Needed(Field("individual_last_name", "other", 30)), Field("contribution_amount", "amount", 12),
       [Field("street_2", "other", 34) EXCEPT !.sibling = "street_1"], Field("street_1", "other", 34),
       [Field("zip", "other", 9) EXCEPT !.marks = {"zip"}],
       [Field("election_code", "other", 5) EXCEPT !.marks = {"election"}] >>
H3Sheet ==
    << [Field("event_type", "other", 2) EXCEPT !.marks = {"event"}, !.events = {"AD"}],
       [Field("district", "numeric", 2) EXCEPT !.marks = {"district"}] >>
Sheet(fields, forms) == [fields |-> fields, forms |-> forms]
SomeSheets ==
    "F3X" :> Sheet(F3XSheet, {}) @@ "F1" :> Sheet(F1Sheet, {}) @@ "F99" :> Sheet(F99Sheet, {})
    @@ "SchA" :> Sheet(SchASheet, {"F3X"}) @@ "H3" :> Sheet(H3Sheet, {"F3X"})

T(t)     == Value(t, 3, 0, {"pattern"})
TOrBlank(t) == IF t = "" THEN Blank ELSE T(t)
FecId(t) == Value(t, 9, 8, {"fecId", "pattern"})
Date     == Value("20240101", 8, 8, {"numeric", "date", "inRange"})
LineOf(table, values) == [no |-> 2, table |-> table, values |-> values]
Hdr == [isHdr |-> TRUE, isFec |-> TRUE, current |-> TRUE, amendment |-> FALSE, amends |-> FALSE,
        reportId |-> FALSE, number |-> "none"]
Headers == {Hdr, [Hdr EXCEPT !.current = FALSE], [Hdr EXCEPT !.number = "zero"],
            [Hdr EXCEPT !.amendment = TRUE]}
F99Texts == {Value("t", 5, 0, {}) @@ [oddLines |-> 2], Value("t", 20001, 0, {}) @@ [oddLines |-> 0]}
Covers ==
    {LineOf("F3X", [filer_committee_id_number |-> FecId("C1"), coverage_from_date |-> Date,
                    col_b_year |-> y, report_code |-> T(r), election_state |-> Blank]) :
        y \in {Blank, Value("24", 2, 2, {"numeric"})}, r \in {"Q1", "12P", "XX"}}
    \cup {LineOf("F1", [filer_committee_id_number |-> FecId("C1"),
                        treasurer_telephone |-> Value("5551234", 7, 7, {"numeric"})])}
    \cup {LineOf("F99", [filer_committee_id_number |-> FecId("C1"), text |-> t]) : t \in F99Texts}
    \cup {LineOf("SchA", [transaction_id |-> Blank])}
SomeDrafts == {[header |-> h, form |-> c.table, cover |-> c, body |-> << >>] :
                  h \in Headers, c \in Covers}

Receipt(id, ref, entity, org) ==
    LineOf("SchA",
      [filer_committee_id_number |-> FecId("C1"), transaction_id |-> TOrBlank(id),
       back_reference |-> TOrBlank(ref), entity_type |-> TOrBlank(entity), organization_name |-> org,
       individual_last_name |-> Blank, contribution_amount |-> Value("5", 1, 1, {"money"})])
SomeLines ==
    { Receipt("T1", "", "ORG", T("x")), Receipt("T2", "T1", "ORG", T("x")),
      Receipt("T1", "T2", "IND", Blank), Receipt("", "T1", "", Blank),
      LineOf("H3", [event_type |-> T("D"), district |-> Value("1", 1, 1, {"numeric"})]),
      LineOf("F3X", [filer_committee_id_number |-> FecId("C2")]),
      LineOf("SchA", [transaction_id |-> T("T3"), street_2 |-> T("x"), street_1 |-> Blank,
                      zip |-> Value("123", 3, 3, {}),
                      election_code |-> Value("P2026", 5, 4, {"election"})]) }
-----------------------------------------------------------------------------
(* What is received and spent, on the first days of a cycle.                *)
Election(label, year) == [label |-> label, year |-> year]
P24 == Election("P2024", 2024)
G24 == Election("G2024", 2024)
Gift(who, n, election) ==
    [table |-> "SchA", token |-> "SA11AI", memo |-> FALSE, id |-> "", ref |-> "",
     amounts |-> [amount |-> n], aggregate |-> 0, date |-> 4048, individual |-> TRUE,
     election |-> election, who |-> who, employer |-> "blank", occupation |-> "stated", words |-> {}]
SomeReceipts ==
    { Gift("Ann", 150, Election("", 0)),
      [Gift("Ann", 3300, P24) EXCEPT !.employer = "stated", !.id = "T1"],
      [Gift("Ann", 3000, G24) EXCEPT !.employer = "requested", !.date = 4050, !.ref = "T1"],
      [Gift("Ann", -3000, P24) EXCEPT !.memo = TRUE, !.words = {"redesignation"}],
      [Gift("Ann", 30, P24) EXCEPT !.memo = TRUE, !.ref = "T2"],
      [Gift("Ann", -100, P24) EXCEPT !.date = 4050, !.table = "SchB", !.token = "SB17"],
      [Gift("Bob", 150, P24) EXCEPT !.aggregate = 250, !.individual = TRUE, !.occupation = "notEmployed"] }
SomeReviewed == {[form |-> "F3", said |-> "none"], [form |-> "F3X", said |-> "pac"]}

(* What the two validators find and tell.                                   *)
Ours(rule, form, field, severity) == [rule |-> rule, form |-> form, field |-> field, severity |-> severity]
Theirs(message, form, field, severity) ==
    [message |-> message, form |-> form, field |-> field, severity |-> severity, also |-> <<>>]
SomeFound ==
    { Ours("RequiredFieldEmpty", "SA11AI", 5, "error"), Ours("InvalidAmount", "SA11AI", 5, "error"),
      Ours("RecommendedFieldEmpty", "SA11AI", 6, "warning"), Ours("InvalidZipCode", "SA11AI", 6, "warning"),
      Ours("BackReferenceNotFound", "SB21B", 0, "error") }
SomeTold ==
    { [Theirs(<<"amount">> \o FecMessage.RequiredFieldEmpty, "SA11AI", 5, "error")
          EXCEPT !.also = <<"see", "the", "instructions">>],
      Theirs(<<"x", "not", "a", "valid", "amount", "of", "receipt", "value">>, "SA11AI", 5, "error"),
      Theirs(<<"zip">> \o FecMessage.RequiredFieldEmpty, "SA11AI", 6, "warning"),
      Theirs(<<"zip">> \o FecMessage.RecommendedFieldEmpty, "SA11AI", 6, "warning"),
      Theirs(FecMessage.InvalidZipCode, "SA11AI", 6, "warning"),
      Theirs(FecMessage.BackReferenceNotFound, "SB21B", 0, "error"),
      Theirs(<<"filing", "ignored">>, "none", 0, "error") }
-----------------------------------------------------------------------------
(* Two filings to open, of two versions, one with a cover page to check.    *)
SomeFilings ==
    { [version |-> 1, books |-> TRUE,  parsed |-> (2 :> "x" @@ 3 :> "y" @@ 4 :> "x")],
      [version |-> 2, books |-> FALSE, parsed |-> (2 :> "y" @@ 3 :> "x" @@ 4 :> "x")] }
-----------------------------------------------------------------------------
(* Files to read and write again, in both formats and encodings: cells of    *)
(* anything, quotes around quotes, text blocks with anything in them.       *)
Words(n, symbols) == UNION {[1..k -> symbols] : k \in 0..n}
QQ == <<"Q", "Q">>
Fs28(head, top, body) == <<head \o <<"FS", "8.5">>, top>> \o body
Values28 == Words(3, {"a", "Q", " ", "CR", "E9"}) \cup {QQ \o w \o QQ : w \in Words(2, {"a", "Q"})}
Texts28  == Words(2, {"a", "Q", " ", "FS", "C3A9", "[ENDTEXT]"})
Wires28 ==
    {Fs28(h, <<"F3X", "FS">> \o v, << <<"SA", "FS">> \o v, << >>, <<"TEXT", "FS", "a">> >>) :
        h \in {<<"HDR">>, <<"BOM", "HDR">>, <<"Q", "HDR", "Q">>}, v \in Values28}
    \cup {Fs28(<<"HDR">>, <<"F99", "FS">> \o v, << >>) : v \in Values28}
    \cup {Fs28(<<"HDR">>, <<c, "FS", "a">>,
               r \o << <<"[BEGINTEXT]">>, t, u, <<"[ENDTEXT]", "CR">> >>) :
            c \in {"F99", "F3X"}, r \in {<< >>, << <<"TEXT">> >>, << <<"SA", "FS", "a">> >>},
            t \in Texts28, u \in {w \in Texts28 : Len(w) < 2}}
CsvValues == Words(3, {"a", "Q", " ", ",", "CR", "FS", "C3A9"})
             \cup {QQ \o QQ \o <<"Q">> \o w \o <<"Q">> \o QQ \o QQ : w \in Words(2, {"a", ","})}
CsvWires ==
    {<<h \o <<",", "5.3", "CR">>, <<"F3X", ",">> \o v, <<"SA", ",">> \o w>> :
        h \in {<<"HDR">>, <<"BOM", "HDR">>, <<"Q", "/*", "Q">>, <<"Q", "BOM", "HDR", "Q">>},
        v \in CsvValues, w \in {<< >>, <<"E9">>}}
SomeWires  == Wires28 \cup CsvWires
SomeValues ==
    { <<"a", "LF", "FS", "a">>, <<"Q", "LF", "Q">>, QQ \o <<"a">> \o QQ, <<"a", "FS">>,
      <<"FS", "Q", "a", "Q">>, <<"a", "CR", "CR", "LF", "a">>, <<"Q", "FS", "Q", "FS", "Q">> }
-----------------------------------------------------------------------------
(* Entries of the feed: names that need escaping or read like the prose.   *)
Entry(id, form, name, has, cdata) ==
    [id |-> id, form |-> form, name |-> name, has |-> has, cdata |-> cdata,
     committee |-> "C1", at |-> "monday"]
SomeEntries ==
    {Entry(<<"1">>, "F1A", <<"A", "&", "B", "amp;">>, h, FALSE) : h \in {{"trailer"}, {"link"}, {}}}
    \cup {Entry(<<"1", "2">>, "F3XN", <<"Ann", "'", "s">>, {"link", "trailer", "pubDate"}, TRUE),
          Entry(<<"2", "1">>, "F3XN", <<"for", "their", "kids">>, {"link"}, FALSE)}
-----------------------------------------------------------------------------
StreamIdle ==
    /\ file = << >> /\ options = Strict /\ filter = {} /\ ioAt = 0
    /\ lineNo = 0 /\ held = 0 /\ at = "idle" /\ cover = << >>
    /\ lookahead = Cover /\ deferred = NoError /\ done = FALSE
    /\ skipped = << >> /\ first = NoError /\ yielded = << >> /\ calls = 0 /\ parsed = << >>
PagesIdle ==
    /\ rows = << >> /\ atStart = 0 /\ page = 1 /\ buffered = << >> /\ pagesDone = FALSE
    /\ attempt = 0 /\ slept = 0 /\ got = << >> /\ result = "idle"
ReviewIdle == ledger = [form |-> "F3", said |-> "none", bodies |-> << << >> >>]
FeedIdle == listed = << >> /\ served = 0
LagIdle == openFec = [efile |-> << >>, filings |-> << >>, log |-> << >>] /\ asked = << >>

Parts == {"stream", "pages", "lag", "books", "review", "acceptance", "webcheck", "workbench",
          "writer", "feed"}

Init ==
    /\ focus \in Parts
    /\ IF focus = "stream" THEN StreamInit ELSE StreamIdle
    /\ IF focus = "pages" THEN PagesInit ELSE PagesIdle
    /\ IF focus = "lag" THEN LagInit ELSE LagIdle
    /\ IF focus = "review" THEN ReviewInit ELSE ReviewIdle
    /\ BooksInit /\ AcceptInit /\ WebCheckInit /\ BenchInit /\ WriterInit
    /\ IF focus = "feed" THEN FeedInit ELSE FeedIdle

Others(part) ==
    /\ UNCHANGED focus
    /\ part # "stream"     => UNCHANGED streamVars
    /\ part # "pages"      => UNCHANGED pagesVars
    /\ part # "lag"        => UNCHANGED lagVars
    /\ part # "books"      => UNCHANGED filed
    /\ part # "review"     => UNCHANGED ledger
    /\ part # "acceptance" => UNCHANGED acceptVars
    /\ part # "webcheck"   => UNCHANGED <<ours, theirs>>
    /\ part # "workbench"  => UNCHANGED benchVars
    /\ part # "writer"     => UNCHANGED writerVars
    /\ part # "feed"       => UNCHANGED feedVars

Next ==
    \/ focus = "stream" /\ StreamNext /\ Others("stream")
    \/ focus = "pages" /\ PagesNext /\ Others("pages")
    \/ focus = "lag" /\ LagNext /\ Others("lag")
    \/ focus = "books" /\ BooksNext /\ Others("books")
    \/ focus = "review" /\ ReviewNext /\ Others("review")
    \/ focus = "webcheck" /\ WebCheckNext /\ Others("webcheck")
    \/ focus = "acceptance" /\ AcceptNext /\ Others("acceptance")
    \/ focus = "workbench" /\ BenchNext /\ Others("workbench")
    \/ focus = "writer" /\ WriterNext /\ Others("writer")
    \/ focus = "feed" /\ FeedNext /\ Others("feed")

Spec == Init /\ [][Next]_<<focus, streamVars, pagesVars, lagVars, filed, ledger, acceptVars,
                             ours, theirs, benchVars, writerVars, feedVars>>
=============================================================================
