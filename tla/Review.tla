------------------------------- MODULE Review -------------------------------
(***************************************************************************)
(* parser::review: what an FEC analyst would ask a committee about in one  *)
(* report (Filing::review), and in a report together with the period's     *)
(* earlier ones (ReportChain::review), whose contributions count towards   *)
(* the $200 threshold and the limits.                                      *)
(*                                                                         *)
(* A committee writes its receipts down and closes its books from time to  *)
(* time, and the report it is working on is reviewed.                      *)
(***************************************************************************)
EXTENDS Reconcile

LOCAL INSTANCE FiniteSetsExt
LOCAL INSTANCE SequencesExt

CONSTANTS Receipts,       \* what may be received or spent
          Reviewed,       \* the forms reviewed, each with what the caller knows
          FirstDayOfBooks,\* the day the first report covers; each covers one
          MaxLines,       \* bound: lines written
          MaxBooks        \* bound: reports

VARIABLE ledger           \* the form, the recipient and the bodies of the reports

-----------------------------------------------------------------------------
Concerns ==
    {"EmployerOccupationMissing", "BestEffortsClaimed", "OverLimitAggregate",
     "DateOutsideCoverage", "TreasurerSignatureMissing", "MemoDoubleCount", "MemoWithoutParent",
     "CoverNotSupported", "NegativeItemization", "UnitemizedInconsistent",
     "DuplicateTransactionId", "DuplicateTransaction", "ChainCashMismatch"}

Observation(concern, line, amount) == [concern |-> concern, no |-> line, amount |-> amount]
CoverNo == 0

(* Recipient::implied_by_form, unless the caller says; "none" is nobody.    *)
RecipientOf(form, said) ==
    IF said = "none" /\ form \in {"F3", "F3P"} THEN "candidate" ELSE said

(* CONTRIBUTION_LIMITS, by cycle: per election to a candidate, per year to  *)
(* a PAC, a national and a state party.                                     *)
Cycles == {2020, 2022, 2024, 2026}
PerElection == [c \in Cycles |-> IF c = 2020 THEN 2800 ELSE IF c = 2022 THEN 2900
                                 ELSE IF c = 2024 THEN 3300 ELSE 3500]
NationalParty ==
    [c \in Cycles |-> IF c = 2020 THEN 35500 ELSE IF c = 2022 THEN 36500
                                   ELSE IF c = 2024 THEN 41300 ELSE 44300]
Limit(recipient, year) ==
    LET cycle == year + (year % 2)
    IN  IF cycle \notin Cycles \/ recipient = "unlimited" THEN {}
        ELSE {[candidate |-> PerElection[cycle], pac |-> 5000, state |-> 10000,
               national |-> 10 * NationalParty[cycle]][recipient]}

Itemized(form) == IF form = "F3P" THEN "17(a)(i)" ELSE "11(a)(i)"

Threshold == 200
UnitemizedFloor == 25000

-----------------------------------------------------------------------------
(* Receipt::from_line; of the texts only what kind of word is in them. A    *)
(* blank date or aggregate is 0, a blank id, name or election "".           *)
TableLines(report, table)  == {l \in ToSet(report.body) : l.table = table}
Amount(l)             == IF "amount" \in DOMAIN l.amounts THEN {l.amounts["amount"]} ELSE {}
Counted(l)            == IF l.memo THEN {} ELSE Amount(l)
IsRedesignationMemo(l) == l.memo /\ "redesignation" \in l.words
Explained(l)          == {"adjustment", "redesignation"} \cap l.words # {}

(* Counted lines and redesignation memos move money between elections.      *)
InElection(l) == l.individual /\ Amount(l) # {} /\ (~l.memo \/ IsRedesignationMemo(l))
FromPerson(l) == l.individual /\ Counted(l) # {}
SumAmounts(lines) == MapThenSumSet(LAMBDA l : l.amounts["amount"], lines)

Transaction(l)  == <<l.token, l.who, l.date, Counted(l)>>
IsTransaction(l) == l.who # "" /\ l.date # 0 /\ Counted(l) # {}

(* Reviewer::with_prior: what the earlier reports hold. A report without    *)
(* coverage, and a line that names no one, is passed over.                  *)
PriorLines(prior) ==
    {l \in UNION {TableLines(r, "SchA") : r \in {s \in ToSet(prior) : HasCoverage(s)}} : l.who # ""}
ByContributor(prior, who) == SumAmounts({l \in PriorLines(prior) : FromPerson(l) /\ l.who = who})

(* Mutant of ByElection: redesignation memos of earlier reports forgotten.  *)
ByElectionCounted(prior, who, election) ==
    SumAmounts({l \in PriorLines(prior) : FromPerson(l) /\ l.who = who /\ l.election = election})

ByElection(prior, who, election) ==
    SumAmounts({l \in PriorLines(prior) : InElection(l) /\ l.who = who /\ l.election = election})

-----------------------------------------------------------------------------
CheckCoverSignature(report) ==
    IF \/ report.signed = "blank"
       \/ report.signed # "no such field" /\ report.treasurer = "blank"
    THEN {Observation("TreasurerSignatureMissing", CoverNo, {})} ELSE {}

(* The checks of Schedule A that look at one line ...                       *)
Negative(l) == \E a \in Counted(l) : a < 0 /\ ~Explained(l)
Late(report, l) ==
    /\ HasCoverage(report) /\ l.date > report.through
    /\ \E a \in Counted(l) : a > 0 /\ ~Explained(l)

(* ... at the line it refers to, the last of that id ...                    *)
Parents(report, l) ==
    LET same == {p \in TableLines(report, "SchA") : l.ref # "" /\ p.id = l.ref}
    IN  {p \in same : \A q \in same : q.no <= p.no}
CountedTwice(report, l) ==
    /\ \E a \in Counted(l) : a > 0
    /\ \E p \in Parents(report, l) : ~p.memo /\ p.no # l.no
Unexplained(l) ==
    l.memo /\ l.individual /\ l.ref = "" /\ l.token = "SA11AI" /\ {"memoReason", "redesignation"} \cap l.words = {}

(* ... at the lines before it, in this report and in earlier ones ...       *)
Repeats(report, prior, l) ==
    /\ IsTransaction(l) /\ \E a \in Counted(l) : a >= Threshold
    /\ \E m \in {p \in TableLines(report, "SchA") : p.no < l.no} \cup PriorLines(prior) :
          IsTransaction(m) /\ Transaction(m) = Transaction(l)

(* ... and at what its contributor has given so far.                        *)
InFile(report, prior, l) ==
    ByContributor(prior, l.who)
    + SumAmounts({m \in TableLines(report, "SchA") : FromPerson(m) /\ m.who = l.who /\ m.no <= l.no})
OverThreshold(report, prior, l) ==
    /\ FromPerson(l) /\ l.who # ""
    /\ \E total \in {l.aggregate, InFile(report, prior, l)} : total > Threshold
BestEfforts(l) == "requested" \in {l.employer, l.occupation}
EmploymentMissing(l) ==
    /\ ~BestEfforts(l) /\ "blank" \in {l.employer, l.occupation}
    /\ "notEmployed" \notin {l.employer, l.occupation}

LineConcerns(report, prior, l) ==
    {c \in Concerns :
        \/ c = "NegativeItemization" /\ Negative(l)
        \/ c = "DateOutsideCoverage" /\ Late(report, l)
        \/ c = "MemoDoubleCount" /\ CountedTwice(report, l)
        \/ c = "MemoWithoutParent" /\ Unexplained(l)
        \/ c = "DuplicateTransaction" /\ Repeats(report, prior, l)
        \/ c = "BestEffortsClaimed" /\ OverThreshold(report, prior, l) /\ BestEfforts(l)
        \/ c = "EmployerOccupationMissing" /\ OverThreshold(report, prior, l) /\ EmploymentMissing(l)}

(* The limits, noted at the last line of a contributor (and election).      *)
LastOf(lines) == {l \in lines : \A m \in lines : m.no <= l.no}
YearsOf(report) == IF HasCoverage(report) THEN {YearOf(report.through)} ELSE {}

OverLimit(given, limits) ==
    UNION {{Observation("OverLimitAggregate", l.no, {given[l] - n}) :
               n \in {m \in limits[l] : given[l] > m}} : l \in DOMAIN given}

OverElectionLimit(report, prior) ==
    LET mine      == {l \in TableLines(report, "SchA") : l.who # "" /\ InElection(l)}
        group(l)  == {m \in mine : m.who = l.who /\ m.election = l.election}
        given(l)  == SumAmounts(group(l)) + ByElection(prior, l.who, l.election)
        years(l)  == IF l.election.year # 0 THEN {l.election.year} ELSE YearsOf(report)
        limits(l) == UNION {Limit("candidate", y) : y \in years(l)}
        last      == {l \in mine : l \in LastOf(group(l))}
    IN  OverLimit([l \in last |-> given(l)], [l \in last |-> limits(l)])

OverYearLimit(report, prior, recipient) ==
    LET mine      == {l \in TableLines(report, "SchA") : l.who # "" /\ FromPerson(l)}
        group(l)  == {m \in mine : m.who = l.who}
        given(l)  == Max({SumAmounts(group(l)) + ByContributor(prior, l.who), 0}
                         \cup {m.aggregate : m \in group(l)})
        limits(l) == UNION {Limit(recipient, y) : y \in YearsOf(report)}
        last      == {l \in mine : l \in LastOf(group(l))}
    IN  OverLimit([l \in last |-> given(l)], [l \in last |-> limits(l)])

CheckLimits(report, prior, recipient) ==
    IF recipient = "none" THEN {}
    ELSE IF recipient = "candidate" THEN OverElectionLimit(report, prior)
    ELSE OverYearLimit(report, prior, recipient)

CheckScheduleA(report, prior, recipient) ==
    UNION {{Observation(c, l.no, Amount(l)) : c \in LineConcerns(report, prior, l)}
               : l \in TableLines(report, "SchA")}
    \cup CheckLimits(report, prior, recipient)

CheckScheduleB(report) ==
    LET lines == TableLines(report, "SchB")
    IN  {Observation("NegativeItemization", l.no, Amount(l)) : l \in {m \in lines : Negative(m)}}
        \cup {Observation("DateOutsideCoverage", l.no, Amount(l)) : l \in {m \in lines : Late(report, m)}}

(* Lines of the cover that its own schedules and formulas do not support.   *)
Unsupported(concern, checks) ==
    {Observation(concern, CoverNo, {k.delta}) : k \in {c \in checks : ~LineMatches(c)}}
CheckCoverRules(report) ==
    IF report.form \in ReportForms
    THEN Unsupported("CoverNotSupported", ReconcileReport(report)) ELSE {}

CheckUnitemized(report) ==
    LET unitemized == Reported(report, "A", Unitemized(report.form))
    IN  IF \/ unitemized < 0
           \/ /\ unitemized >= UnitemizedFloor
              /\ Reported(report, "A", Itemized(report.form)) = 0
              /\ ~\E l \in TableLines(report, "SchA") : l.individual /\ ~l.memo
        THEN {Observation("UnitemizedInconsistent", CoverNo, {unitemized})} ELSE {}

(* What the acceptance rules say of ids, and of the references of memos.    *)
CheckValidation(report) ==
    LET lines == {l \in ToSet(report.body) : l.id # "" \/ l.ref # ""}
        again == {l \in lines : l.id # "" /\ \E m \in lines : m.id = l.id /\ m.no < l.no}
        lost  == {l \in lines : l.memo /\ l.ref # "" /\ ~\E m \in lines : m.id = l.ref}
    IN  {Observation("DuplicateTransactionId", l.no, Amount(l)) : l \in again}
        \cup {Observation("MemoWithoutParent", l.no, Amount(l)) : l \in lost}

(* Reviewer::run; Filing::review has no earlier reports.                    *)
Run(report, prior, recipient) ==
    CheckCoverSignature(report) \cup CheckScheduleA(report, prior, recipient)
    \cup CheckScheduleB(report) \cup CheckCoverRules(report) \cup CheckUnitemized(report)
    \cup CheckValidation(report)

ReviewReport(report, said) == Run(report, << >>, RecipientOf(report.form, said))

(* ReportChain::review_with. *)
ReviewChain(chain, said) ==
    Run(chain.current, Front(PeriodReports(chain)), RecipientOf(chain.current.form, said))
    \cup Unsupported("ChainCashMismatch", CarryChecks(chain))
    \cup Unsupported("CoverNotSupported", ColumnBChecks(chain))

-----------------------------------------------------------------------------
(* The reports of the ledger: a day each, signed; only what is itemized is  *)
(* looked at here, so they carry no summary lines.                          *)
BookReport(i) ==
    [treasurer |-> "named", signed |-> "given"]
    @@ ReportOf(ledger.form, FirstDayOfBooks + i - 1, FirstDayOfBooks + i - 1, << >>, ledger.bodies[i])
BookChain ==
    LET n == Len(ledger.bodies)
    IN  Chain(BookReport(n), [i \in 1..n - 1 |-> BookReport(n - i)])

LinesWritten == Len(FlattenSeq(ledger.bodies))

ReviewInit == \E f \in Reviewed : ledger = [form |-> f.form, said |-> f.said, bodies |-> << << >> >>]

WriteLine(l) ==
    LET n == Len(ledger.bodies)
    IN  /\ LinesWritten < MaxLines
        /\ ledger' = [ledger EXCEPT !.bodies[n] = Append(@, l @@ [no |-> LinesWritten + 1])]
CloseBook ==
    /\ Len(ledger.bodies) < MaxBooks
    /\ ledger' = [ledger EXCEPT !.bodies = Append(@, << >>)]

ReviewNext == CloseBook \/ \E l \in Receipts : WriteLine(l)

(* It does not matter where the period's books were closed: what the review *)
(* of the newest report with the earlier ones finds on its lines about the  *)
(* threshold, the limits and repeated transactions is what it would find    *)
(* there if the period were one report ("a contribution repeated from an    *)
(* earlier report", ReportChain::review); the filer's own aggregates, which *)
(* are only read from the report reviewed, must not pass a limit alone.     *)
OverReports == {"EmployerOccupationMissing", "BestEffortsClaimed", "OverLimitAggregate", "DuplicateTransaction"}

ReviewAsOneReport ==
    LET reports  == PeriodReports(BookChain)
        current  == Last(reports)
        all      == [current EXCEPT !.body = FlattenSeq([i \in DOMAIN reports |-> reports[i].body])]
        found(r) == {o \in r : o.concern \in OverReports /\ \E l \in ToSet(current.body) : l.no = o.no}
    IN  Len(ledger.bodies) > 1 =>
            found(ReviewChain(BookChain, ledger.said)) = found(ReviewReport(all, ledger.said))
=============================================================================
