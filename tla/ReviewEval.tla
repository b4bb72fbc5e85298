----------------------------- MODULE ReviewEval -----------------------------
(***************************************************************************)
(* `hardmoney review --eval`: reports a letter of the FEC's analysts names *)
(* are compared with reports no letter names, sampled from listings that   *)
(* grow while they are read, within a budget of requests any of which may  *)
(* fail.  Letters and filings are in the order they were published.        *)
(***************************************************************************)
EXTENDS Integers, Sequences, SequencesExt, FiniteSets

CONSTANTS Letters,      \* [committee, asks, form, period, day]; asks: it names a report
          Reports,      \* [id, committee, form, kind, period, day, paper, first]
          EvalPage,     \* records of a page
          SampleSize, Stride, MaxRequests,
          Unlisted      \* bound: letters that may yet be sent

ASSUME EvalAssumption ==
    /\ Letters \in Seq(Range(Letters)) /\ Reports \in Seq(Range(Reports))
    /\ Unlisted \in 0..Len(Letters) /\ MaxRequests \in Nat

VARIABLES
    phase,      \* "letters", "targets", "clean", "done" or "failed"
    mailed,     \* how many of the letters there are
    requests,   \* Api::requests
    letters,    \* the letters to look up, one of each committee
    seenCommittees,
    evalRows,   \* [id, committee, form, kind, period, rfai, count, asOf, outcome]
    pagesRead,  \* the page of the listing under way, the record of it, and how many pages
                \* there were at the first
    needed      \* the kinds still to match: <<kind, want>>

evalVars == <<phase, mailed, requests, letters, seenCommittees, evalRows, pagesRead, needed>>

FirstPage == [page |-> 1, at |-> 1, of |-> 0]

EvalInit ==
    /\ phase = "letters" /\ mailed = Len(Letters) - Unlisted
    /\ requests = 0 /\ letters = << >> /\ seenCommittees = {}
    /\ evalRows = << >> /\ pagesRead = FirstPage /\ needed = << >>

Listed      == Reverse(SubSeq(Letters, 1, mailed))    \* -receipt_date
OnPage(s, n) == {i \in DOMAIN s : (n - 1) * EvalPage < i /\ i <= n * EvalPage}
PagesIn(s)  == (Len(s) + EvalPage - 1) \div EvalPage

\* The elements of s at some of its places, in order.
Picked(s, places) ==
    [k \in 1..Cardinality(places) |->
        s[CHOOSE i \in places : Cardinality({j \in places : j < i}) = k - 1]]

Budgeted == requests < MaxRequests
Asked    == requests' = requests + 1
Fresh    == pagesRead' = FirstPage

\* The first answer tells how many pages there are.
PagesOf(s) == IF pagesRead.page = 1 THEN PagesIn(s) ELSE pagesRead.of
PastTheLast == pagesRead.page > 1 /\ pagesRead.page > pagesRead.of
-----------------------------------------------------------------------------
(* 1. Letters about reports, one committee each. *)
Usable(page, known, want) ==
    LET asking == {i \in page : /\ Listed[i].asks
                                /\ \A k \in DOMAIN known : known[k].committee # Listed[i].committee}
        first  == {i \in asking : \A j \in asking : Listed[j].committee = Listed[i].committee => i <= j}
    IN  {i \in first : Cardinality({j \in first : j < i}) < want - Len(known)}

LettersDone == Len(letters) >= SampleSize \/ PastTheLast

ReadLetters ==
    /\ phase = "letters" /\ ~LettersDone /\ Budgeted
    /\ letters' = letters \o Picked(Listed, Usable(OnPage(Listed, pagesRead.page), letters, SampleSize))
    /\ seenCommittees' = {letters'[k].committee : k \in DOMAIN letters'}
    /\ pagesRead' = [page |-> pagesRead.page + Stride, at |-> 1, of |-> PagesOf(Listed)]
    /\ Asked
    /\ UNCHANGED <<phase, mailed, evalRows, needed>>

ToTargets ==
    /\ phase = "letters" /\ LettersDone
    /\ phase' = "targets" /\ Fresh
    /\ UNCHANGED <<mailed, requests, letters, seenCommittees, evalRows, needed>>
-----------------------------------------------------------------------------
(* 2. The version the analyst had before the letter, else the earliest. *)
Target(l) ==
    LET same   == {i \in DOMAIN Reports :
                     /\ Reports[i].committee = l.committee /\ Reports[i].form = l.form
                     /\ ~Reports[i].paper /\ Reports[i].period = l.period}
        before == {i \in same : Reports[i].day <= l.day}
    IN  IF same = {} THEN {}
        ELSE IF before # {} THEN {CHOOSE i \in before : \A j \in before : j <= i}
        ELSE {CHOOSE i \in same : \A j \in same : i <= j}

Outcomes == {"error", "nothing", "heuristic", "strict"}
RowOf(r, id, rfai, count, outcome) ==
    [id |-> id, committee |-> r.committee, form |-> r.form, kind |-> r.kind, period |-> r.period,
     rfai |-> rfai, count |-> count, asOf |-> mailed, outcome |-> outcome]

Looked == pagesRead.at      \* the next letter to look up

FindTarget ==
    /\ phase = "targets" /\ Looked <= Len(letters) /\ Budgeted
    /\ LET target == Target(letters[Looked])
       IN  \/ target = {} /\ UNCHANGED evalRows
           \/ \E i \in target, o \in Outcomes :
                  evalRows' = Append(evalRows, RowOf(Reports[i], Reports[i].id, TRUE, 0, o))
    /\ pagesRead' = [pagesRead EXCEPT !.at = @ + 1]
    /\ Asked
    /\ UNCHANGED <<phase, mailed, letters, seenCommittees, needed>>

KindsOf(rows) == {<<rows[k].form, rows[k].kind>> : k \in DOMAIN rows}
WantedOf(rows, kind) ==
    Cardinality({k \in DOMAIN rows : rows[k].rfai /\ <<rows[k].form, rows[k].kind>> = kind})
GotOf(rows, kind) ==
    Cardinality({k \in DOMAIN rows : ~rows[k].rfai /\ <<rows[k].form, rows[k].kind>> = kind})

ToClean ==
    /\ phase = "targets" /\ Looked > Len(letters)
    /\ phase' = "clean" /\ Fresh
    /\ \E order \in SetToSeqs(KindsOf(evalRows)) : needed' = order    \* bound: the map's order is any
    /\ UNCHANGED <<mailed, requests, letters, seenCommittees, evalRows>>
-----------------------------------------------------------------------------
(* 3. As many reports of each kind that no letter names, of other committees. *)
LatestOfKind(kind) ==
    LET newest == Reverse(Reports)
    IN  Picked(newest, {i \in DOMAIN newest :
                          /\ <<newest[i].form, newest[i].kind>> = kind
                          /\ \A x \in Range(Reports) : x.first = newest[i].first => x.day <= newest[i].day})

Kind    == Head(needed)
Listing == LatestOfKind(Kind)
KindDone == GotOf(evalRows, Kind) >= WantedOf(evalRows, Kind) \/ PastTheLast

\* The listing is asked for again at each page; `at` 1 is before the request.
ReadClean ==
    /\ phase = "clean" /\ needed # << >> /\ pagesRead.at = 1 /\ ~KindDone /\ Budgeted
    /\ pagesRead' = [page |-> pagesRead.page, at |-> 2, of |-> PagesOf(Listing)]
    /\ Asked
    /\ UNCHANGED <<phase, mailed, letters, seenCommittees, evalRows, needed>>

NextKind ==
    /\ phase = "clean" /\ needed # << >> /\ pagesRead.at = 1 /\ KindDone
    /\ needed' = Tail(needed) /\ Fresh
    /\ UNCHANGED <<phase, mailed, requests, letters, seenCommittees, evalRows>>

Place       == (pagesRead.page - 1) * EvalPage + pagesRead.at - 1
Candidate   == Listing[Place]
HasCandidate == pagesRead.at > 1 /\ Place \in OnPage(Listing, pagesRead.page)
NotEligible    == Candidate.paper \/ Candidate.committee \in seenCommittees
AtNext   == pagesRead' = [pagesRead EXCEPT !.at = @ + 1]

SkipRecord ==
    /\ phase = "clean" /\ needed # << >> /\ HasCandidate /\ ~KindDone /\ NotEligible
    /\ AtNext
    /\ UNCHANGED <<phase, mailed, requests, letters, seenCommittees, evalRows, needed>>

PageDone ==
    /\ phase = "clean" /\ needed # << >> /\ pagesRead.at > 1 /\ (~HasCandidate \/ KindDone)
    /\ pagesRead' = [page |-> pagesRead.page + Stride, at |-> 1, of |-> pagesRead.of]
    /\ UNCHANGED <<phase, mailed, requests, letters, seenCommittees, evalRows, needed>>

LettersTo(committee, n) == {k \in 1..n : Letters[k].committee = committee}
Asking(some)            == {k \in some : Letters[k].asks}
PeriodOfLatest(committee, n) ==
    LET named == LettersTo(committee, n)
    IN  {Letters[k].period : k \in {i \in Asking(named) : \A j \in named : j <= i}}
PeriodsNamed(committee, n) == {Letters[k].period : k \in Asking(LettersTo(committee, n))}

\* committee_letters, and the original version of a report none of them names.
AskLetters ==
    /\ phase = "clean" /\ needed # << >> /\ HasCandidate /\ ~KindDone /\ ~NotEligible /\ Budgeted
    /\ seenCommittees' = seenCommittees \cup {Candidate.committee}
    /\ IF Candidate.period \in PeriodsNamed(Candidate.committee, mailed) THEN UNCHANGED evalRows
       ELSE \E o \in Outcomes :
              evalRows' = Append(evalRows,
                  RowOf(Candidate, Candidate.first, FALSE, Cardinality(LettersTo(Candidate.committee, mailed)), o))
    /\ AtNext /\ Asked
    /\ UNCHANGED <<phase, mailed, letters, needed>>

Measured ==
    /\ phase = "clean" /\ needed = << >>
    /\ phase' = "done"
    /\ UNCHANGED <<mailed, requests, letters, seenCommittees, evalRows, pagesRead, needed>>
-----------------------------------------------------------------------------
(* A request that fails, or none left, ends the command; in the clean       *)
(* sample it only ends the sample.                                          *)
LookupFails ==
    \/ /\ \/ phase = "letters" /\ ~LettersDone
          \/ phase = "targets" /\ Looked <= Len(letters)
       /\ phase' = "failed"
       /\ UNCHANGED needed
    \/ /\ phase = "clean" /\ needed # << >> /\ ~KindDone
       /\ pagesRead.at = 1 \/ (HasCandidate /\ ~NotEligible)
       /\ phase' = "clean"
       /\ needed' = << >>

AsksInVain ==
    /\ LookupFails
    /\ requests' = IF Budgeted THEN requests + 1 ELSE requests
    /\ UNCHANGED <<mailed, letters, seenCommittees, evalRows, pagesRead>>

\* The FEC sends another letter.
LetterSent ==
    /\ mailed < Len(Letters) /\ phase \in {"letters", "targets", "clean"}
    /\ mailed' = mailed + 1
    /\ UNCHANGED <<phase, requests, letters, seenCommittees, evalRows, pagesRead, needed>>

\* --rescore: the same reports and labels, the rules or the cache of today.
Rescore ==
    /\ phase = "done"
    /\ \E k \in DOMAIN evalRows, o \in Outcomes :
           evalRows' = [evalRows EXCEPT ![k].outcome = o]
    /\ UNCHANGED <<phase, mailed, requests, letters, seenCommittees, pagesRead, needed>>

EvalNext ==
    \/ ReadLetters \/ ToTargets \/ FindTarget \/ ToClean \/ ReadClean \/ NextKind \/ SkipRecord
    \/ PageDone \/ AskLetters \/ Measured \/ AsksInVain \/ LetterSent \/ Rescore

EvalSpec == EvalInit /\ [][EvalNext]_evalVars
-----------------------------------------------------------------------------
(* 4. Metrics: the confusion counts over the rows that could be reviewed. *)
Scored(rows) == {k \in DOMAIN rows : rows[k].outcome # "error"}
CommitteeClean(rows) == {k \in Scored(rows) : rows[k].rfai \/ rows[k].count = 0}
Confusion(rows, among, firing) ==
    LET Count(fired, rfai) ==
            Cardinality({k \in among : (rows[k].outcome \in firing) = fired /\ rows[k].rfai = rfai})
    IN  [tp |-> Count(TRUE, TRUE),  fp |-> Count(TRUE, FALSE),
         fn |-> Count(FALSE, TRUE), tn |-> Count(FALSE, FALSE)]
AnyObservation == Outcomes \ {"nothing", "error"}
StrictObservation == {"strict"}

\* A letter about a report names the period of r, of the first n letters.
NamedIn(r, n) ==
    \E k \in 1..n : /\ Letters[k].asks /\ Letters[k].committee = r.committee
                    /\ Letters[k].period = r.period

\* The cut at committees without a letter drops no report that a letter names,
\* and what fires strictly fires.
CutsAgree ==
    LET all  == Confusion(evalRows, Scored(evalRows), AnyObservation)
        none == Confusion(evalRows, CommitteeClean(evalRows), AnyObservation)
    IN  /\ all.tp = none.tp /\ all.fn = none.fn /\ none.fp <= all.fp
        /\ Confusion(evalRows, Scored(evalRows), StrictObservation).tp <= all.tp

(* The two samples can be compared: a committee is in one row at most; a   *)
(* clean report is of a kind that was wanted, not more often than its kind *)
(* was named, and no letter sent until it was looked at names its period;  *)
(* a named report has such a letter; the two cuts of the clean sample      *)
(* agree on what was named; and the budget is kept.                        *)
SamplesAreComparable ==
    /\ requests <= MaxRequests
    /\ \A j, k \in DOMAIN evalRows : evalRows[j].committee = evalRows[k].committee => j = k
    /\ \A k \in DOMAIN evalRows : evalRows[k].rfai <=> NamedIn(evalRows[k], evalRows[k].asOf)
    /\ \A kind \in KindsOf(evalRows) : GotOf(evalRows, kind) <= WantedOf(evalRows, kind)
    /\ CutsAgree
=============================================================================
