-------------------------- MODULE AcceptanceRules --------------------------
(***************************************************************************)
(* parser::validate: the FEC's acceptance rules.  The checker goes through *)
(* the header, the cover, the body line by line and field by field, the    *)
(* transaction IDs, and the text of a Form 99, and its findings are sorted *)
(* by line.  A filing grows here line by line, as it is written; after     *)
(* every line it may be checked.                                           *)
(*                                                                         *)
(* A value is what the checks can tell of it: its text as a code, how long *)
(* it is, how many of its characters are digits, and what it looks like.   *)
(***************************************************************************)
EXTENDS Integers, Sequences, FiniteSets

LOCAL INSTANCE FiniteSetsExt
LOCAL INSTANCE SequencesExt

CONSTANTS Sheets,      \* for each table, its fields' specifications, in order
          Drafts,      \* headers and covers of filings to begin with
          MoreLines,   \* lines that may be added
          MaxDraft     \* bound: body lines

(* What a value may look like: is_numeric_value, parse_money, a calendar    *)
(* date and one of 1960-2099, is_fec_id, is_election_code, the pattern of   *)
(* its field; `quote`: has a double quote, `odd`: has an illegal character. *)
Looks == {"numeric", "money", "date", "inRange", "fecId", "election", "pattern", "quote", "odd"}
Value(text, len, digits, looks) == [text |-> text, len |-> len, digits |-> digits, looks |-> looks]
Blank      == Value("", 0, 0, {})
IsBlank(v) == v.len = 0
AllDigits(v) == v.digits = v.len
IsFecId(v) == "fecId" \in v.looks
IsNumericValue(v) == "numeric" \in v.looks
IsElectionCode(v) == "election" \in v.looks
IsLegal(v) == "odd" \notin v.looks
OneOf(v, codes) == v.text \in codes

EntityTypes == {"CAN", "CCM", "COM", "IND", "ORG", "PAC", "PTY"}
IndCan      == {"IND", "CAN"}
TopLevel    == {"F1", "F10", "F13", "F1M", "F2", "F24", "F3", "F3L", "F3P", "F3X", "F4", "F5",
                "F6", "F7", "F8", "F9", "F99"}
TextMax     == 20000
StateCodes  ==
    {"AA", "AE", "AK", "AL", "AP", "AR", "AS", "AZ", "CA", "CO", "CT", "DC", "DE", "FL", "FM", "GA",
     "GU", "HI", "IA", "ID", "IL", "IN", "KS", "KY", "LA", "MA", "MD", "ME", "MH", "MI", "MN", "MO",
     "MP", "MS", "MT", "NC", "ND", "NE", "NH", "NJ", "NM", "NV", "NY", "OH", "OK", "OR", "PA", "PR",
     "PW", "RI", "SC", "SD", "TN", "TX", "UM", "UT", "VA", "VI", "VT", "WA", "WI", "WV", "WY", "ZZ"}

Rules == \* in their order
    {"HeaderFirst", "CoverSecond", "FilingTypeFec", "CurrentFormat", "AmendmentNeedsOriginalId",
     "AmendmentNeedsNumber", "HeaderInconsistentWithAmendmentStatus", "MultipleForms",
     "ScheduleNotAllowedWithForm", "UnrecognizedFormType", "FilerIdFormat", "FilerIdMismatch",
     "RequiredFieldEmpty", "RecommendedFieldEmpty", "ConditionallyRequiredFieldEmpty", "FieldTooLong",
     "IllegalCharacter", "F99IllegalCharacter", "EmbeddedDoubleQuote", "BadDateFormat", "NotARealDate",
     "DateOutOfRange", "InvalidYear", "InvalidAmount", "NonNumeric", "InvalidDistrict",
     "InvalidAllowedValue", "PatternMismatch", "InvalidStateCode", "InvalidZipCode",
     "InvalidPhoneNumber", "InvalidOfficeCode", "InvalidEntityType", "InvalidSupportOpposeCode",
     "InvalidElectionCode", "InvalidCheckbox", "InvalidEventType", "AddressInSecondLine",
     "DuplicateTransactionId", "BackReferenceNotFound", "F99TextTooLong"}

(* Rule::severity, and the rules demoted on a superseded format.            *)
Warnings ==
    {"CurrentFormat", "UnrecognizedFormType", "RecommendedFieldEmpty",
     "ConditionallyRequiredFieldEmpty", "F99IllegalCharacter", "DateOutOfRange",
     "InvalidAllowedValue", "PatternMismatch", "InvalidStateCode", "InvalidZipCode",
     "InvalidPhoneNumber", "InvalidOfficeCode", "InvalidEntityType",
     "InvalidSupportOpposeCode", "InvalidElectionCode", "InvalidCheckbox",
     "AddressInSecondLine", "EmbeddedDoubleQuote"}
Demoted == {"RequiredFieldEmpty", "IllegalCharacter", "InvalidDistrict", "InvalidEventType"}
Severity(rule) == IF rule \in Warnings THEN "warning" ELSE "error"

VARIABLES draft,      \* the filing: version, header, cover, body
          unread      \* the lines a lenient parse left out, by number

acceptVars == <<draft, unread>>

Finding(rule, no, field) ==
    [rule |-> rule, no |-> no, field |-> field, severity |-> Severity(rule)]

(* demote_if_superseded. *)
Demote(current, finding) ==
    IF finding.rule \in Demoted /\ ~current
    THEN [finding EXCEPT !.severity = "warning"] ELSE finding

(* A finding if something is the case, as a sequence. *)
Note(rule, no, field, isSo) == IF isSo THEN <<Finding(rule, no, field)>> ELSE << >>

(* A line's value; NoField if its table has no such column.                 *)
Has(line, name) == name \in DOMAIN line.values
Get(line, name) == IF Has(line, name) THEN line.values[name] ELSE Blank

-----------------------------------------------------------------------------
(* FieldProfile::of: what a field's specification makes of it.              *)
IsDate(s)  == s.kind = "numeric" /\ s.max = 8
IsYear(s)  == s.kind = "numeric" /\ s.max = 4
IsPhone(s) == s.kind = "numeric" /\ s.max = 10
Marked(s, mark) == mark \in s.marks
IsDistrict(s) == Marked(s, "district")
IsZip(s) == Marked(s, "zip")
IsOffice(s) == Marked(s, "office")
IsElection(s) == Marked(s, "election")
IsCheckbox(s) == Marked(s, "checkbox")
IsState(s) == Marked(s, "state")
EventCodes(s) == IF Marked(s, "event") THEN s.events ELSE {}

(* parse_condition: the condition in a cell of the workbook, or the default *)
(* for an empty cell or one that states none.                               *)
ParseCondition(cell, default) == IF cell.is = "silent" THEN default ELSE cell

Always  == [is |-> "always", of |-> {}]
Unknown == [is |-> "unknown", of |-> {}]

Required(s) ==
    CASE s.required = "none"        -> [rule |-> "none", when |-> Unknown]
      [] s.required = "error"       -> [rule |-> "RequiredFieldEmpty",
                                        when |-> ParseCondition(s.ruleCell, Always)]
      [] s.required = "warning"     -> [rule |-> "RecommendedFieldEmpty",
                                        when |-> ParseCondition(s.ruleCell, Always)]
      [] s.required = "conditional" ->
           LET own == ParseCondition(s.cell, Unknown)
           IN  [rule |-> "ConditionallyRequiredFieldEmpty",
                when |-> IF own = Unknown THEN ParseCondition(s.ruleCell, Unknown) ELSE own]

(* implied_condition: whose name it is follows from the entity type.        *)
Implied(line, name, when) ==
    IF when # Always \/ ~Has(line, "entity_type") THEN when
    ELSE IF name \in {"individual_last_name", "individual_first_name"}
    THEN [is |-> "entityIn", of |-> IndCan]
    ELSE IF name = "organization_name" THEN [is |-> "entityNotIn", of |-> IndCan]
    ELSE when

(* condition_holds is Some(true). *)
Holds(form, line, when) ==
    CASE when.is = "always"      -> TRUE
      [] when.is = "unknown"     -> FALSE
      [] when.is = "entityIn"    -> Has(line, "entity_type") /\ OneOf(Get(line, "entity_type"), when.of)
      [] when.is = "entityNotIn" -> /\ ~IsBlank(Get(line, "entity_type"))
                                    /\ ~OneOf(Get(line, "entity_type"), when.of)
      [] when.is = "formType"    -> form \in when.of
      [] when.is = "reportCode"  -> Get(line, "report_code").text \in when.of

(* check_required, for a blank field. *)
CheckRequired(current, form, line, s) ==
    LET r == Required(s)
    IN  IF r.rule # "none" /\ Holds(form, line, Implied(line, s.name, r.when))
        THEN <<Demote(current, Finding(r.rule, line.no, s.name))>> ELSE << >>

(* check_date: one finding at most. *)
CheckDate(no, s, v) ==
    IF v.len # 8 \/ ~AllDigits(v) THEN <<Finding("BadDateFormat", no, s.name)>>
    ELSE IF "date" \notin v.looks THEN <<Finding("NotARealDate", no, s.name)>>
    ELSE Note("DateOutOfRange", no, s.name, "inRange" \notin v.looks)

(* The check of the field's kind. A district has its own. *)
CheckKind(no, s, v) ==
    IF s.kind = "amount" THEN Note("InvalidAmount", no, s.name, "money" \notin v.looks)
    ELSE IF s.kind # "numeric" THEN << >>
    ELSE IF IsDate(s) THEN CheckDate(no, s, v)
    ELSE IF IsYear(s) THEN Note("InvalidYear", no, s.name, ~(AllDigits(v) /\ v.len = 4))
    ELSE IF IsPhone(s) THEN Note("InvalidPhoneNumber", no, s.name, ~(AllDigits(v) /\ v.len = 10))
    ELSE Note("NonNumeric", no, s.name, ~IsDistrict(s) /\ ~IsNumericValue(v))

(* The checks of the field's name. *)
CheckName(no, s, v) ==
    CASE Marked(s, "event") -> Note("InvalidEventType", no, s.name, EventCodes(s) # {} /\ ~OneOf(v, EventCodes(s)))
      [] s.name = "entity_type" -> Note("InvalidEntityType", no, s.name, ~OneOf(v, EntityTypes))
      [] s.name = "support_oppose_code" ->
           Note("InvalidSupportOpposeCode", no, s.name, ~OneOf(v, {"S", "O"}))
      [] OTHER ->
           LET found == Note("InvalidAllowedValue", no, s.name, s.allowed # {} /\ ~OneOf(v, s.allowed))
           IN  [i \in DOMAIN found |->
                  IF s.wrongIsError THEN [found[i] EXCEPT !.severity = "error"] ELSE found[i]]

(* An amount's digits are counted, any other value's characters. *)
TooLong(s, v) ==
    ~IsDate(s) /\ s.max # 0 /\ (IF s.kind = "amount" THEN v.digits ELSE v.len) > s.max

CheckCharacters(no, name, v) == Note("IllegalCharacter", no, name, ~IsLegal(v))

(* A second address line's sibling, if the line has it, is blank.           *)
FirstLineBlank(line, s) == s.sibling # "none" /\ Has(line, s.sibling) /\ IsBlank(Get(line, s.sibling))

(* The pattern of a field whose format no other rule checks.                *)
CheckPattern(no, s, v) ==
    Note("PatternMismatch", no, s.name,
         /\ s.name # "filer_committee_id_number" /\ ~IsDistrict(s) /\ ~IsYear(s)
         /\ s.pattern /\ "pattern" \notin v.looks)

(* check_fields, one field that is not blank. *)
CheckField(current, line, s, v) ==
    LET no == line.no
        note(rule, isSo) == Note(rule, no, s.name, isSo)
        all ==
          note("EmbeddedDoubleQuote", "quote" \in v.looks)
          \o note("FieldTooLong", TooLong(s, v))
          \o CheckCharacters(no, s.name, v)
          \o CheckKind(no, s, v)
          \o note("InvalidDistrict", IsDistrict(s) /\ ~(AllDigits(v) /\ v.len = 2))
          \o note("InvalidZipCode", IsZip(s) /\ ~(AllDigits(v) /\ v.len \in {5, 9}))
          \o note("InvalidOfficeCode", IsOffice(s) /\ ~OneOf(v, {"H", "S", "P"}))
          \o note("InvalidElectionCode", IsElection(s) /\ ~IsElectionCode(v))
          \o note("InvalidCheckbox", IsCheckbox(s) /\ ~OneOf(v, {"X"}))
          \o note("AddressInSecondLine",
FirstLineBlank(line, s))
          \o CheckName(no, s, v)
          \o CheckPattern(no, s, v)
          \o note("InvalidStateCode", IsState(s) /\ ~OneOf(v, StateCodes))
    IN  [i \in DOMAIN all |-> Demote(current, all[i])]

(* check_fields. A column that the line's version does not have is passed.  *)
CheckFields(current, form, line) ==
    LET check(i) ==
          LET s == Sheets[line.table].fields[i]
          IN  IF ~Has(line, s.name) THEN << >>
              ELSE IF IsBlank(Get(line, s.name)) THEN CheckRequired(current, form, line, s)
              ELSE CheckField(current, line, s, Get(line, s.name))
    IN  FlattenSeq([i \in DOMAIN Sheets[line.table].fields |-> check(i)])

-----------------------------------------------------------------------------
(* check_header. The amendment number is none, 0, another, or no number.    *)
CheckHeader(h) ==
    Note("HeaderFirst", 1, "record_type", ~h.isHdr)
    \o Note("FilingTypeFec", 1, "ef_type", ~h.isFec)
    \o Note("CurrentFormat", 1, "fec_version", ~h.current)
    \o Note("AmendmentNeedsOriginalId", 1, "report_id", h.amendment /\ ~h.amends)
    \o Note("AmendmentNeedsNumber", 1, "report_number", h.amendment /\ h.number \in {"none", "bad"})
    \o Note("HeaderInconsistentWithAmendmentStatus", 1, "report_id",
            ~h.amendment /\ (h.reportId \/ h.number \in {"some", "bad"}))

FilerId(line) == Get(line, "filer_committee_id_number")

CheckCover(f) ==
    Note("CoverSecond", f.cover.no, "form_type", f.cover.table \notin TopLevel)
    \o Note("FilerIdFormat", f.cover.no, "filer_committee_id_number",
            ~IsBlank(FilerId(f.cover)) /\ ~IsFecId(FilerId(f.cover)))
    \o CheckFields(f.header.current, f.form, f.cover)

(* check_body, one line. *)
CheckLine(f, line) ==
    Note("MultipleForms", line.no, "form_type", line.table \in TopLevel)
    \o Note("ScheduleNotAllowedWithForm", line.no, "form_type",
            /\ line.table \notin TopLevel
            /\ Sheets[line.table].forms # {} /\ f.cover.table \notin Sheets[line.table].forms)
    \o Note("FilerIdMismatch", line.no, "filer_committee_id_number",
            /\ ~IsBlank(FilerId(line)) /\ ~IsBlank(FilerId(f.cover))
            /\ FilerId(line).text # FilerId(f.cover).text)
    \o CheckFields(f.header.current, f.form, line)

CheckBody(f) == FlattenSeq([i \in DOMAIN f.body |-> CheckLine(f, f.body[i])])

(* check_transaction_ids: every ID but its first use; then the references.  *)
IdOf(line)   == Get(line, "transaction_id").text
RefOf(line)  == Get(line, "back_reference").text
IdsIn(lines) == {IdOf(lines[i]) : i \in DOMAIN lines} \ {""}

Duplicates(body) ==
    LET again == {i \in DOMAIN body : IdOf(body[i]) # "" /\ \E j \in 1..i - 1 : IdOf(body[j]) = IdOf(body[i])}
    IN  FlattenSeq([i \in DOMAIN body |->
            Note("DuplicateTransactionId", body[i].no, "transaction_id", i \in again)])

(* Mutant of BackReferences: resolved against the lines so far. *)
BackReferencesOnePass(body) ==
    FlattenSeq([i \in DOMAIN body |->
        Note("BackReferenceNotFound", body[i].no, "back_reference",
             RefOf(body[i]) # "" /\ RefOf(body[i]) \notin IdsIn(SubSeq(body, 1, i)))])

BackReferences(body) ==
    FlattenSeq([i \in DOMAIN body |->
        Note("BackReferenceNotFound", body[i].no, "back_reference",
             RefOf(body[i]) # "" /\ RefOf(body[i]) \notin IdsIn(body))])

(* check_f99_text: the text's value also tells how many of its lines have   *)
(* illegal characters; each of them is a finding.                           *)
CheckF99Text(f) ==
    IF f.cover.table # "F99" \/ ~Has(f.cover, "text") THEN << >>
    ELSE LET text == Get(f.cover, "text")
         IN  Note("F99TextTooLong", f.cover.no, "text", text.len > TextMax)
             \o [i \in 1..text.oddLines |-> Finding("F99IllegalCharacter", f.cover.no, "text")]

(* Filing::validate: a stable sort by line.                                 *)
ByLine(findings) ==
    LET of(n) == SelectSeq(findings, LAMBDA x : x.no = n)
        nos   == SetToSortSeq({findings[i].no : i \in DOMAIN findings}, <)
    IN  FlattenSeq([i \in DOMAIN nos |-> of(nos[i])])

Validate(f) ==
    ByLine(CheckHeader(f.header) \o CheckCover(f) \o CheckBody(f)
           \o Duplicates(f.body) \o BackReferences(f.body) \o CheckF99Text(f))

(* Validation::push, after the findings of the lines up to it; note_skipped *)
Push(findings, x) ==
    SelectSeq(findings, LAMBDA y : y.no <= x.no) \o <<x>> \o SelectSeq(findings, LAMBDA y : y.no > x.no)
SkippedFinding(no) == Finding("UnrecognizedFormType", no, "form_type")
NoteSkipped(findings, skipped) ==
    FoldSeq(LAMBDA no, so : Push(so, SkippedFinding(no)), findings, skipped)
ValidateLenient(f, skipped) == NoteSkipped(Validate(f), skipped)

Errors(findings)      == SelectSeq(findings, LAMBDA x : x.severity = "error")
IsAcceptable(findings) == Errors(findings) = << >>
CountsByRule(findings) == [r \in Rules |-> Cardinality({i \in DOMAIN findings : findings[i].rule = r})]

-----------------------------------------------------------------------------
(* A filing is written line by line; a parse may not know some of them.     *)
LinesSoFar == 2 + Len(draft.body) + Len(unread)

NoDraft == [body |-> << >>]

NewDraft ==
    /\ draft = NoDraft
    /\ draft' \in Drafts
    /\ UNCHANGED unread

AddLine ==
    \E line \in MoreLines :
        /\ draft # NoDraft /\ Len(draft.body) < MaxDraft
        /\ draft' = [draft EXCEPT !.body = Append(@, [line EXCEPT !.no = LinesSoFar + 1])]
        /\ UNCHANGED unread

AddUnknownLine ==
    /\ draft # NoDraft /\ Len(unread) < 1 /\ Len(draft.body) < MaxDraft
    /\ unread' = Append(unread, LinesSoFar + 1)
    /\ UNCHANGED draft

AcceptInit == draft = NoDraft /\ unread = << >>
AcceptNext == NewDraft \/ AddLine \/ AddUnknownLine

-----------------------------------------------------------------------------
Without(f, i) == [f EXCEPT !.body = SubSeq(@, 1, i - 1) \o SubSeq(@, i + 1, Len(@))]
Backwards(f)  == [f EXCEPT !.body = Reverse(@)]
InForce(f)    == [f EXCEPT !.header.current = TRUE]

(* Which rules a filing breaks, and how often, and whether it is           *)
(* acceptable does not depend on the order of its lines, and it stays       *)
(* acceptable with lines a parse had to leave out, or for being older; and  *)
(* taking out a line that no other refers to makes no filing unacceptable.  *)
AcceptanceIsOfItsLines ==
    draft # NoDraft =>
    LET found == Validate(draft)
        good  == IsAcceptable(found)
        turned == Validate(Backwards(draft))
    IN  /\ good = IsAcceptable(turned) /\ CountsByRule(found) = CountsByRule(turned)
        /\ good = IsAcceptable(ValidateLenient(draft, unread))
        /\ IsAcceptable(Validate(InForce(draft))) => good
        /\ good => \A i \in DOMAIN draft.body :
                      (\A j \in DOMAIN draft.body \ {i} :
                           RefOf(draft.body[j]) # "" => RefOf(draft.body[j]) # IdOf(draft.body[i]))
                      => IsAcceptable(Validate(Without(draft, i)))
=============================================================================
