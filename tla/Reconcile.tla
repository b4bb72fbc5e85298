----------------------------- MODULE Reconcile -----------------------------
(***************************************************************************)
(* parser::reconcile: the summary lines of a report recomputed from its    *)
(* schedules and its other lines (Filing::reconcile), and its column B and *)
(* its cash on hand from the committee's earlier reports (ReportChain).    *)
(*                                                                         *)
(* A committee files report after report, each for the days after the last *)
(* one; the chain of every report with any of those before it is checked.  *)
(* Amounts are small integers, days numbers; every year is YearLength long.*)
(***************************************************************************)
EXTENDS ReportRules

LOCAL INSTANCE FiniteSetsExt
LOCAL INSTANCE SequencesExt

CONSTANTS YearLength,     \* bound: days in a year
          BookForms,      \* the forms the committee may file
          Schedule,       \* the bodies of reports
          Slack,          \* what an unitemized line may hold beyond its records
          MaxReports      \* bound: reports filed

(* A record: its form type, whether it is a memo, and its amounts; one that *)
(* is blank or cannot be read is not in them.                               *)
Entries == [token : STRING, memo : BOOLEAN, amounts : [{"amount", "transferred", "total", "federal", "other"} -> Int]]

ASSUME BooksAssumption ==
    /\ YearLength \in Nat \ {0} /\ MaxReports \in Nat
    /\ BookForms \subseteq ReportForms /\ Slack \subseteq Nat

VARIABLES filed     \* the reports, oldest first

(* A report: its form, filer and days, the lines its version of the form    *)
(* has, the amounts on them that can be read, and its records.              *)
ReportOf(form, from, through, values, body) ==
    [form |-> form, filer |-> "C1", from |-> from, through |-> through,
     carried |-> DOMAIN values, values |-> values, body |-> body]

(* reported_amount, or zero. *)
Reported(report, column, line) ==
    IF <<column, line>> \in DOMAIN report.values THEN report.values[<<column, line>>] ELSE 0

(* schedule_sum: memos are left out, and amounts that cannot be read.       *)
ScheduleSum(body, sum) ==
    LET counted == {i \in DOMAIN body : ~body[i].memo /\ body[i].token \in sum.tokens
                                         /\ sum.field \in DOMAIN body[i].amounts}
    IN  MapThenSumSet(LAMBDA i : body[i].amounts[sum.field], counted)

(* LineCheck, and whether it matches: a floor is only violated from below.  *)
Check(report, column, line, relation, expected) ==
    [column |-> column, line |-> line, relation |-> relation,
     delta |-> Reported(report, column, line) - expected]
LineMatches(check) == IF check.relation = "equal" THEN check.delta = 0 ELSE check.delta >= 0
Balances(checks) == \A c \in checks : LineMatches(c)

(* check_line, for a schedule line and for a formula of what is reported.   *)
ScheduleCheck(report, s) ==
    Check(report, "A", s.line, s.relation, ScheduleSum(report.body, s))

FormulaTotal(report, column, f) ==
    MapThenSumSet(LAMBDA l : Reported(report, column, l), f.plus)
    - MapThenSumSet(LAMBDA l : Reported(report, column, l), f.minus)

FormulaCheck(report, column, f) ==
    Check(report, column, f.line, "equal", FormulaTotal(report, column, f))

(* Filing::reconcile: a line that the version does not have is not checked. *)
ReconcileReport(report) ==
    LET checks == {ScheduleCheck(report, s) : s \in Schedules(report.form)}
                  \cup UNION {{FormulaCheck(report, c, f) : f \in Formulas(report.form, c)}
                                 : c \in Columns}
    IN  {k \in checks : <<k.column, k.line>> \in report.carried}

-----------------------------------------------------------------------------
YearOf(day)     == day \div YearLength
FirstDay(year)  == year * YearLength
YearToDate(form) == form = "F3X"

(* coverage: none if the dates are not in order. *)
HasCoverage(r)  == r.from <= r.through
Overlaps(r, s)  == r.from <= s.through /\ s.from <= r.through

(* ReportChain::new: what is wrong with the i-th report given to it ... *)
ErrorAt(current, prior, i) ==
    IF prior[i].form # current.form THEN "FormMismatch"
    ELSE IF prior[i].filer # current.filer THEN "FilerMismatch"
    ELSE IF ~HasCoverage(prior[i]) THEN "PriorCoverageMissing"
    ELSE IF prior[i].through >= current.from THEN "NotBeforeCurrent"
    ELSE IF \E j \in 1..i - 1 : Overlaps(prior[i], prior[j]) THEN "Overlap"
    ELSE "none"

ChainError(current, prior) ==
    LET bad == {i \in DOMAIN prior : ErrorAt(current, prior, i) # "none"}
    IN  IF current.form \notin ReportForms THEN "UnsupportedForm"
        ELSE IF ~HasCoverage(current) THEN "CurrentCoverageMissing"
        ELSE IF bad = {} THEN "none" ELSE ErrorAt(current, prior, Min(bad))

(* ... and the chain that it makes: the earlier reports by their days.      *)
ByDays(prior) == SetToSortSeq(ToSet(prior), LAMBDA r, s : r.from < s.from)
Chain(current, prior) == [current |-> current, prior |-> ByDays(prior)]

(* period_reports. *)
InPeriod(chain, r) ==
    YearToDate(r.form) => YearOf(r.through) = YearOf(chain.current.from)
PeriodReports(chain) ==
    Append(SelectSeq(chain.prior, LAMBDA r : InPeriod(chain, r)), chain.current)

(* last_report_of_prior_year, as a set. *)
LastOfPriorYear(chain) ==
    LET before == SelectSeq(chain.prior, LAMBDA r : YearOf(r.through) < YearOf(chain.current.from))
    IN  IF YearToDate(chain.current.form) /\ before # << >> THEN {Last(before)} ELSE {}

(* Mutant of Cursor: no report is missing before the first one given. *)
CursorFromFirst(chain, reports, i) ==
    IF i > 1 THEN reports[i - 1].through + 1 ELSE reports[1].from

(* gaps: from the day after a report to the day before the next one. The    *)
(* first one of a year should begin with it; of a cycle, nobody knows.      *)
Cursor(chain, reports, i) ==
    IF i > 1 THEN reports[i - 1].through + 1
    ELSE IF YearToDate(chain.current.form) THEN FirstDay(YearOf(chain.current.from))
    ELSE reports[1].from

Gaps(chain) ==
    LET reports == PeriodReports(chain)
    IN  {<<Cursor(chain, reports, i), reports[i].from - 1>>
            : i \in {j \in DOMAIN reports : reports[j].from > Cursor(chain, reports, j)}}

(* column_b_checks: a schedule line over every report of the period.        *)
ColumnBChecks(chain) ==
    LET reports == PeriodReports(chain)
        over(s) == MapThenSumSet(LAMBDA i : ScheduleSum(reports[i].body, s), DOMAIN reports)
    IN  {Check(chain.current, "B", s.line, s.relation, over(s))
            : s \in {t \in Schedules(chain.current.form) : <<"B", t.line>> \in chain.current.carried}}

(* carry_forward_checks: the cash the last report closed with, and that of  *)
(* the last report of the year before.                                      *)
CarryChecks(chain) ==
    LET cash == CashLines(chain.current.form)
        carry(column, line, from) ==
            Check(chain.current, column, line, "equal", Reported(from, "A", cash.close))
    IN  {k \in {carry("A", cash.beginning, r) : r \in IF chain.prior = << >> THEN {} ELSE {Last(chain.prior)}}
                 \cup {carry("B", cash.yearStart, r) : r \in LastOfPriorYear(chain)} :
            <<k.column, k.line>> \in chain.current.carried}

(* ReportChain::reconcile. *)
ReconcileChain(chain) == ColumnBChecks(chain) \cup CarryChecks(chain)

-----------------------------------------------------------------------------
(* What an honest committee puts on the lines of its next report.           *)
SamePeriod(form, r, from) == YearToDate(form) => YearOf(r.from) = YearOf(from)

Close(r) == Reported(r, "A", CashLines(r.form).close)

HonestValues(form, earlier, from, body, slack) ==
    LET Lines == {<<c, l>> \in Columns \X (LinesOf(form, "A") \cup LinesOf(form, "B")) :
                      l \in LinesOf(form, c)}
        cash   == CashLines(form)
        last   == IF earlier = << >> THEN {} ELSE {Last(earlier)}
        toDate == {r \in last : SamePeriod(form, r, from)}
        older  == SelectSeq(earlier, LAMBDA r : ~SamePeriod(form, r, from))
        val[cl \in Lines] ==
            LET column == cl[1]
                line == cl[2]
                sums == {s \in Schedules(form) : s.line = line}
                formula == {f \in Formulas(form, column) : f.line = line}
                of(l) == val[<<column, l>>]
            IN  IF formula # {}
                THEN LET f == CHOOSE f \in formula : TRUE
                     IN  MapThenSumSet(of, f.plus) - MapThenSumSet(of, f.minus)
                ELSE IF line = cash.beginning THEN SumSet({Close(r) : r \in last})
                ELSE IF line = cash.yearStart
                THEN IF older = << >> THEN 0 ELSE Close(Last(older))
                ELSE IF column = "B"
                THEN val[<<"A", line>>] + SumSet({Reported(r, "B", line) : r \in toDate})
                ELSE IF sums = {} THEN slack
                ELSE LET s == CHOOSE s \in sums : TRUE
                     IN  ScheduleSum(body, s) + (IF s.relation = "atLeast" THEN slack ELSE 0)
    IN  val

(* The committee files its next report. *)
FileReport(form, days, body, slack) ==
    LET from == IF filed = << >> THEN YearLength ELSE Last(filed).through + 1
    IN  /\ Len(filed) < MaxReports
        /\ filed # << >> => form = filed[1].form
        /\ YearOf(from) = YearOf(from + days - 1)
        /\ filed' = Append(filed, ReportOf(form, from, from + days - 1,
                                HonestValues(form, filed, from, body, slack), body))

BooksInit == filed = << >>
BooksNext ==
    \E form \in BookForms, days \in 1..YearLength, body \in Schedule, slack \in Slack :
        FileReport(form, days, body, slack)

BooksSpec == BooksInit /\ [][BooksNext]_filed

-----------------------------------------------------------------------------
Current == filed[Len(filed)]
Earlier == SubSeq(filed, 1, Len(filed) - 1)

(* Whatever honest reports a committee has filed, over years, with memos,  *)
(* split transfers and unitemized amounts: the newest balances by itself,  *)
(* and with all those before it, in any order, and nothing is missing.     *)
HonestBooksBalance ==
    filed # << >> =>
        /\ Balances(ReconcileReport(Current))
        /\ \A prior \in {Earlier, Reverse(Earlier)} :
             /\ ChainError(Current, prior) = "none"
             /\ Gaps(Chain(Current, prior)) = {}
             /\ Balances(ReconcileChain(Chain(Current, prior)))

(* No single wrong amount on either column of a report goes unnoticed: each *)
(* line is checked, or something that is checked is made of it.             *)
WithWrong(r, cl, by) == [r EXCEPT !.values = [@ EXCEPT ![cl] = @ + by]]

NoWrongLineUnnoticed ==
    filed # << >> =>
        \A cl \in Current.carried, by \in {-1, 1} :
            ~Balances(ReconcileReport(WithWrong(Current, cl, by)))

(* A report left out of the chain shows: in a year-to-date chain as a gap,  *)
(* in a cycle as a gap or in the column B of the lines it itemizes in full. *)
(* Two versions of one report are refused.                                  *)
ItemizedInFull(r) ==
    \E s \in Schedules(r.form) :
        s.relation = "equal" /\ s.line \in LinesOf(r.form, "B") /\ ScheduleSum(r.body, s) # 0

MissingReportsShow ==
    filed # << >> =>
        /\ \A kept \in SUBSET DOMAIN Earlier :
             LET prior == [i \in 1..Cardinality(kept) |-> Earlier[SetToSortSeq(kept, <)[i]]]
                 chain == Chain(Current, prior)
             IN  \A j \in DOMAIN Earlier \ kept :
                    SamePeriod(Current.form, Earlier[j], Current.from) =>
                        \/ Gaps(chain) # {}
                        \/ /\ ~YearToDate(Current.form)
                           /\ ItemizedInFull(Earlier[j]) => ~Balances(ReconcileChain(chain))
        /\ \A j \in DOMAIN Earlier :
             LET version == [Earlier[j] EXCEPT !.body = << >>]
             IN  ChainError(Current, Append(Earlier, version)) = "Overlap"

(* What books are reconciled for: honest ones are called right, a wrong    *)
(* cent and a missing report show.                                         *)
BooksTellRight == HonestBooksBalance /\ NoWrongLineUnnoticed /\ MissingReportsShow
=============================================================================
