------------------------------ MODULE WebCheck ------------------------------
(***************************************************************************)
(* parser::webcheck: the FEC's own validator, WebCheck, as an oracle.  A   *)
(* filing is submitted by the web page's upload or by SOAP; the answer,    *)
(* table cells or lines of text, is read back as findings (OracleReport),  *)
(* and compared with what `validate` found (diff).                         *)
(*                                                                         *)
(* The two validators note findings, theirs on the page they answer with.  *)
(***************************************************************************)
EXTENDS Integers, Sequences

LOCAL INSTANCE SequencesExt

CONSTANTS Found,        \* what validate may find: a rule at a field
          Told,         \* what WebCheck may tell, with a severity
          MaxFound      \* bound: findings on each side

VARIABLES ours, theirs  \* the findings of the two

-----------------------------------------------------------------------------
(* Messages are words, as template_words leaves them: in lower case, with   *)
(* no blanks, placeholders or numbers. FecMessage: the published wording of *)
(* the rules told here; live_alternates: what the service says beside it.   *)
FecMessage ==
    [RequiredFieldEmpty    |-> <<"is", "required", "but", "field", "is", "empty">>,
     RecommendedFieldEmpty |-> <<"is", "missing">>,
     InvalidAmount         |-> <<"invalid", "amount", "format">>,
     InvalidZipCode        |-> <<"zip", "code", "is", "invalid", "or", "missing", "zip">>,
     CurrentFormat         |-> <<"filing", "must", "be", "in", "the", "current", "fec", "format">>,
     FilerIdFormat         |-> <<"id", "not", "correct", "fec", "id", "format">>,
     BackReferenceNotFound |->
        <<"back", "reference", "tran", "id", "does", "not", "match", "sched", "tran", "id">>]
LiveAlternates(rule) ==
    CASE rule = "RecommendedFieldEmpty" -> {FecMessage.RequiredFieldEmpty}
      [] rule = "InvalidAmount"         -> {<<"not", "a", "valid", "value">>}
      [] rule = "CurrentFormat"         -> {<<"filing", "format", "must", "be", "version">>}
      [] rule = "FilerIdFormat"         ->
            {<<"an", "fec", "c9xxxxxxx", "id", "must", "be", "used", "to", "file", "form">>}
      [] rule = "BackReferenceNotFound" ->
            {<<"no", "match", "found", "for", "back", "reference", "to", "schedule", "tranid">>}
      [] OTHER -> {}

(* Every word of the template is in the message, in order: the first from i *)
(* on that is the word, then the next from behind it.                       *)
TemplateMatches(template, message) ==
    LET After(i, word) ==
            IF \E j \in i+1..Len(message) : message[j] = word
            THEN CHOOSE j \in i+1..Len(message) :
                    message[j] = word /\ \A k \in i+1..j-1 : message[k] # word
            ELSE Len(message) + 1
    IN  template # <<>> /\ FoldLeft(After, 0, template) <= Len(message)
MessageMatchesRule(rule, message) ==
    \E template \in {FecMessage[rule]} \cup LiveAlternates(rule) : TemplateMatches(template, message)

(* An OracleFinding; "none" where the answer is silent.                     *)
FromMessage(message) ==
    [line |-> 0, severity |-> "none", form |-> "none", field |-> 0, message |-> message]

(* parse_section: the cells of a section. Those before the first number are *)
(* its banner; further texts of an item continue its message.               *)
WithCell(f, cell) ==
    IF cell.is = "form" THEN [f EXCEPT !.form = cell.form]
    ELSE IF cell.is = "field" THEN [f EXCEPT !.field = cell.field]
    ELSE [f EXCEPT !.message = @ \o cell.text]

ParseSection(cells, severity) ==
    FoldLeft(LAMBDA found, cell :
                IF cell.is = "number"
                THEN Append(found, [FromMessage(<<>>) EXCEPT !.severity = severity])
                ELSE IF found = <<>> THEN found
                ELSE [found EXCEPT ![Len(found)] = WithCell(@, cell)],
             <<>>, cells)

(* parse_text_line: the prefixes are a severity, then a line number.        *)
ParseTextLine(line) ==
    [FromMessage(line.text) EXCEPT !.severity = line.severity, !.line = line.line]

(* parse_upload_response, of a page: its verdict, the counts it declares,   *)
(* the sections it has, or something else altogether.                       *)
NoCount == -1
OracleReport(result, errors, warnings, findings) ==
    [result |-> result, errors |-> errors, warnings |-> warnings, findings |-> findings]
RefusedAs(kind) == [error |-> kind]

HasMarkers(page) == page.result # "none" \/ page.errorsCount # NoCount \/ page.sections # {}
SectionOf(page, name, severity) ==
    IF name \in page.sections THEN ParseSection(page.cells[name], severity) ELSE <<>>

ParseUploadResponse(page) ==
    IF page.tooLarge THEN RefusedAs("Deferred")
    ELSE IF ~HasMarkers(page) THEN RefusedAs(IF page.json THEN "Rejected" ELSE "Unparseable")
    ELSE OracleReport(page.result, page.errorsCount, page.warningsCount,
                SectionOf(page, "errors", "error") \o SectionOf(page, "warnings", "warning"))

(* parse_report_text: a page, or lines of text.                             *)
ParseReportText(page) ==
    IF page.result # "none" \/ "errors" \in page.sections THEN ParseUploadResponse(page)
    ELSE IF page.lines = <<>> THEN RefusedAs("Unparseable")
    ELSE OracleReport("none", NoCount, NoCount, [i \in DOMAIN page.lines |-> ParseTextLine(page.lines[i])])

OfSeverity(report, severity) == SelectSeq(report.findings, LAMBDA f : f.severity = severity)
AcceptableAnswer(report) ==
    IF report.result = "none" THEN OfSeverity(report, "error") = <<>>
    ELSE report.result \in {"SUCCESS", "WARNINGS"}
CountsDisagree(report) ==
    \/ report.errors # NoCount /\ report.errors # Len(OfSeverity(report, "error"))
    \/ report.warnings # NoCount /\ report.warnings # Len(OfSeverity(report, "warning"))

-----------------------------------------------------------------------------
(* read_text, parse_soap_response and the two ways to submit. An answer has *)
(* a status and a page; a SOAP answer an envelope, and a page to follow.    *)
ReadText(answer) == answer.status \in 200..299

SubmitUpload(answer) ==
    IF ~ReadText(answer) THEN RefusedAs("Http") ELSE ParseUploadResponse(answer.page)

SubmitSoap(answer) ==
    IF answer.status # 500 /\ ~ReadText(answer) THEN RefusedAs("Http")
    ELSE IF answer.envelope = "fault" THEN RefusedAs("SoapFault")
    ELSE IF answer.envelope # "return" THEN RefusedAs("Unparseable")
    ELSE IF ~answer.success THEN RefusedAs("Rejected")
    ELSE IF ~answer.url THEN RefusedAs("Unparseable")
    ELSE IF answer.next.status \notin 200..299 THEN RefusedAs("Http")
    ELSE ParseReportText(answer.next.page)

Submit(answer, credentials) == IF credentials THEN SubmitSoap(answer) ELSE SubmitUpload(answer)

-----------------------------------------------------------------------------
(* diff: findings are paired by record type, field number and wording, each *)
(* used once. field_number: none for a finding with no field.               *)
KeyOf(f) == <<f.form, f.field>>
Candidates(f, told, used) ==
    {i \in DOMAIN told \ used : KeyOf(told[i]) = KeyOf(f) /\ MessageMatchesRule(f.rule, told[i].message)}

(* Mutant of Hit: a finding of theirs may be used again.                    *)
HitAgain(f, told, used) ==
    LET can == Candidates(f, told, {})
    IN  IF can = {} THEN 0 ELSE CHOOSE i \in can : \A j \in can : i <= j

Hit(f, told, used) ==
    LET can == Candidates(f, told, used)
    IN  IF can = {} THEN 0 ELSE CHOOSE i \in can : \A j \in can : i <= j

(* For each of ours, the number of the one of theirs it is paired with.     *)
Pairing(found, told) ==
    FoldLeft(LAMBDA pairs, f : Append(pairs, Hit(f, told, ToSet(pairs))), <<>>, found)

Diff(found, told) ==
    LET pairs == Pairing(found, told)
    IN  [matched    |-> [k \in {i \in DOMAIN found : pairs[i] # 0} |-> pairs[k]],
         onlyOurs   |-> {i \in DOMAIN found : pairs[i] = 0},
         onlyTheirs |-> DOMAIN told \ ToSet(pairs)]
SeverityDisagreements(found, told) ==
    {i \in DOMAIN Diff(found, told).matched :
        told[Diff(found, told).matched[i]].severity \notin {"none", found[i].severity}}

-----------------------------------------------------------------------------
WebCheckInit == ours = <<>> /\ theirs = <<>>
Find(f) == Len(ours) < MaxFound /\ ours' = Append(ours, f) /\ UNCHANGED theirs
Tell(t) == Len(theirs) < MaxFound /\ theirs' = Append(theirs, t) /\ UNCHANGED ours
WebCheckNext == (\E f \in Found : Find(f)) \/ (\E t \in Told : Tell(t))

(* The page the service makes of them: banners and numbered items.          *)
Cell(kind, form, field, text) == [is |-> kind, form |-> form, field |-> field, text |-> text]
Text(words) == IF words = <<>> THEN <<>> ELSE <<Cell("text", "none", 0, words)>>
PageItem(t) ==
    <<Cell("number", "none", 0, <<>>)>>
    \o (IF t.form = "none" THEN <<>> ELSE <<Cell("form", t.form, 0, <<>>)>>)
    \o (IF t.field = 0 THEN <<>> ELSE <<Cell("field", "none", t.field, <<>>)>>)
    \o Text(t.message) \o Text(t.also)
ToldAs(severity) == SelectSeq(theirs, LAMBDA t : t.severity = severity)
CellsOf(severity) ==
    Text(<<"validation", "errors", "must", "be", "corrected">>)
    \o FlattenSeq([i \in DOMAIN ToldAs(severity) |-> PageItem(ToldAs(severity)[i])])
ServicePage ==
    LET errors   == ToldAs("error")
        warnings == ToldAs("warning")
    IN  [tooLarge |-> FALSE, json |-> FALSE, lines |-> <<>>, sections |-> {"errors", "warnings"},
         result |-> IF errors # <<>> THEN "ERRORS" ELSE IF warnings # <<>> THEN "WARNINGS" ELSE "SUCCESS",
         errorsCount |-> Len(errors), warningsCount |-> Len(warnings),
         cells |-> [errors |-> CellsOf("error"), warnings |-> CellsOf("warning")]]
Answer200 == [status |-> 200, page |-> ServicePage]

(* Each message told is in the words of one of the rules found there.       *)
WordingsApart(found, told) ==
    \A t \in ToSet(told) : \A f, g \in ToSet(found) :
        /\ KeyOf(f) = KeyOf(t) /\ MessageMatchesRule(f.rule, t.message)
        /\ KeyOf(g) = KeyOf(t) /\ MessageMatchesRule(g.rule, t.message)
        => f.rule = g.rule

(* Whatever the two validators find, and in whatever order they tell it: by *)
(* either channel all that the service told is read, whole and in its       *)
(* sections' severity; each finding of one side is paired with one of the   *)
(* other that it can be, or left over, each is used once ("each finding is  *)
(* used at most once", diff), those of one rule in one field are paired in  *)
(* order, and none that could still be paired is left on both sides. When   *)
(* no message is in the words of two of the rules found, nothing is left    *)
(* over of what can be paired throughout; where one is, the first finding   *)
(* takes it and may leave another without (webcheck.rs:1376).               *)
EveryFindingIsSettled ==
    LET report == Submit(Answer200, FALSE)
        told   == report.findings
        d      == Diff(ours, told)
        paired == DOMAIN d.matched
    IN  /\ Submit([status |-> 200, envelope |-> "return", success |-> TRUE, url |-> TRUE,
                   next |-> Answer200], TRUE) = report
        /\ ~CountsDisagree(report)
        /\ AcceptableAnswer(report) <=> OfSeverity(report, "error") = <<>>
        /\ \A t \in ToSet(theirs) :
              LET read(f) == KeyOf(f) = KeyOf(t) /\ f.message = t.message \o t.also
                             /\ f.severity = t.severity
                  same(u) == KeyOf(u) = KeyOf(t) /\ u.message \o u.also = t.message \o t.also
                             /\ u.severity = t.severity
              IN  Len(SelectSeq(told, read)) = Len(SelectSeq(theirs, same))
        /\ \A i \in paired : d.matched[i] \in Candidates(ours[i], told, {})
        /\ \A i, j \in paired : i # j => d.matched[i] # d.matched[j]
        /\ \A i, j \in paired :
              i < j /\ KeyOf(ours[i]) = KeyOf(ours[j]) /\ ours[i].rule = ours[j].rule
              => d.matched[i] < d.matched[j]
        /\ \A i \in d.onlyOurs : Candidates(ours[i], told, DOMAIN told \ d.onlyTheirs) = {}
        /\ /\ WordingsApart(ours, told)
           /\ Len(ours) = Len(told)
           /\ \E p \in [DOMAIN ours -> DOMAIN told] :
                 /\ \A i, j \in DOMAIN ours : p[i] = p[j] => i = j
                 /\ \A i \in DOMAIN ours : p[i] \in Candidates(ours[i], told, {})
           => d.onlyOurs = {} /\ d.onlyTheirs = {}
=============================================================================
