----------------------------- MODULE FilingLag -----------------------------
(***************************************************************************)
(* How far the FEC has processed a set of filings: OpenFec::               *)
(* processing_status, which joins three endpoints batch by batch, and the  *)
(* stages and counts of `hardmoney lag` (cli::lag), for filings named one  *)
(* by one or for all of a committee.  A value that openFEC may leave out   *)
(* is None when it does.                                                   *)
(***************************************************************************)
EXTENDS Integers, Sequences, FiniteSets

LOCAL INSTANCE SequencesExt

CONSTANTS
    None,
    ProcessingBatch,
    Fecs,         \* what the three endpoints may hold
    FilingIds,
    Today,
    Committees,
    CycleYears,   \* the two report years of --cycle
    RawFilings,   \* what --counts may read: NoFiling, or lines of schedules
    Tallies,      \* the processed rows openFEC may count, None a failed request
    MaxAsked      \* bound: ids asked about at once

ASSUME LagAssumption == ProcessingBatch \in Nat \ {0} /\ MaxAsked \in Nat

VARIABLES
    openFec,      \* the rows of its endpoints: efile, filings, log
    asked         \* the ids on the command line, in order

lagVars == <<openFec, asked>>

Or(a, b) == IF a # None THEN a ELSE b

(* The sequence of the ids or rows that one request may give. *)
FilingUnknown(id) ==
    [id |-> id, inEfile |-> FALSE, inFilings |-> FALSE, inLog |-> FALSE, committee |-> None,
     received |-> None, reportType |-> None, image |-> None, summary |-> None,
     transactions |-> None]

(* The rows of an endpoint with one of these ids, oldest answer first. *)
RowsOf(endpoint, ids) == SelectSeq(endpoint, LAMBDA r : r.id \in ids)

JoinEfile(s, r) ==
    IF s.id # r.id THEN s
    ELSE [s EXCEPT !.committee = r.committee, !.received = Or(r.received, @),
                   !.image = r.image, !.inEfile = TRUE]

JoinFilings(s, r) ==
    IF s.id # r.id THEN s
    ELSE [s EXCEPT !.inFilings = TRUE, !.committee = Or(@, r.committee),
                   !.reportType = r.reportType, !.received = Or(@, r.received),
                   !.image = Or(@, r.image)]

(* join_operations_log. *)
JoinLog(s, r) ==
    IF r.image = None \/ s.image # r.image THEN s
    ELSE [s EXCEPT !.inLog = TRUE, !.summary = r.summary, !.transactions = r.transactions,
                   !.reportType = Or(@, r.reportType)]

JoinAll(out, rows, Join(_, _)) ==
    [i \in DOMAIN out |-> FoldLeft(Join, out[i], rows)]

(* One batch of processing_status: the ids, then the images they have. *)
JoinBatch(out, batch) ==
    LET received  == JoinAll(out, RowsOf(openFec.efile, batch), JoinEfile)
        processed == JoinAll(received, RowsOf(openFec.filings, batch), JoinFilings)
        images    == {processed[i].image : i \in {j \in DOMAIN out : out[j].id \in batch}} \ {None}
    IN  JoinAll(processed, SelectSeq(openFec.log, LAMBDA r : r.image \in images), JoinLog)

Batches(ids) ==
    [b \in 1..((Len(ids) + ProcessingBatch - 1) \div ProcessingBatch) |->
        {ids[i] : i \in {j \in DOMAIN ids : (j - 1) \div ProcessingBatch = b - 1}}]

ProcessingStatus(ids) ==
    FoldLeft(JoinBatch,
             [i \in DOMAIN ids |-> FilingUnknown(ids[i])], Batches(ids))

Stages == {"unknown", "received", "summary_loaded", "transactions_loaded"}
Stage(s) ==
    IF s.transactions # None THEN "transactions_loaded"
    ELSE IF s.summary # None \/ s.inFilings THEN "summary_loaded"
    ELSE IF s.inEfile THEN "received" ELSE "unknown"

Lag(s, done) ==
    IF s.received = None \/ done = None THEN None
    ELSE IF done > s.received THEN done - s.received ELSE 0

DaysPending(s) == IF s.transactions # None THEN None ELSE Lag(s, Today)

(* OpenFec::committee_processing_status: what /filings/ lists, and the log *)
(* of both years of the cycle; /efile/filings/ is not asked.               *)
CommitteeStatus(committee) ==
    LET listed == SelectSeq(openFec.filings, LAMBDA r : r.committee = committee /\ r.id # None)
        log    == SelectSeq(openFec.log, LAMBDA r : r.year \in CycleYears)
    IN  JoinAll([i \in DOMAIN listed |->
                    [FilingUnknown(listed[i].id) EXCEPT
                        !.inFilings = TRUE, !.committee = committee, !.image = listed[i].image,
                        !.received = listed[i].received, !.reportType = listed[i].reportType]],
                log, JoinLog)

(* cli::lag's row. *)
Row(s) == [status |-> s, stage |-> Stage(s), summaryLag |-> Lag(s, s.summary),
           transactionLag |-> Lag(s, s.transactions), pending |-> DaysPending(s)]

(* add_counts: the lines of the raw filing beside the rows openFEC counts  *)
(* within its image numbers (processed_rows).                              *)
NoFiling == << >>
ScheduleCount(s, raw, tallies, schedule) ==
    [raw |-> Len(SelectSeq(raw, LAMBDA l : l.schedule = schedule)),
     nonMemo |-> Len(SelectSeq(raw, LAMBDA l : l.schedule = schedule /\ ~l.memo)),
     processed |-> IF s.image = None \/ s.committee = None THEN None ELSE tallies[schedule]]

AddCounts(s, raw, tallies) ==
    IF raw = NoFiling THEN [counts |-> << >>, errors |-> {"no filing"}]
    ELSE [counts |-> [c \in DOMAIN tallies |-> ScheduleCount(s, raw, tallies, c)],
          errors |-> IF s.image = None THEN {"no image numbers"}
                     ELSE {c \in DOMAIN tallies : s.committee # None /\ tallies[c] = None}]

(* percentile: the nearest rank, in tenths.  RankBelow is a mutant. *)
RankBelow(tenths, n) == IF (tenths * n) \div 10 = 0 THEN 1 ELSE (tenths * n) \div 10
Rank(tenths, n)      == (tenths * n + 9) \div 10
Percentile(sorted, tenths) ==
    IF sorted = << >> THEN None ELSE sorted[Rank(tenths, Len(sorted))]

Summarize(rs) ==
    LET Count(P(_)) == Cardinality({i \in DOMAIN rs : P(rs[i])})
        Known(lag)  == SelectSeq(lag, LAMBDA d : d # None)
        Sorted(lag) == SortSeq(Known(lag), <)
        summaries    == Sorted([i \in DOMAIN rs |-> rs[i].summaryLag])
        transactions == Sorted([i \in DOMAIN rs |-> rs[i].transactionLag])
    IN  [filings |-> Len(rs),
         stages |-> [st \in Stages |-> Count(LAMBDA r : r.stage = st)],
         summaryMedian |-> Percentile(summaries, 5), summaryP90 |-> Percentile(summaries, 9),
         median |-> Percentile(transactions, 5), p90 |-> Percentile(transactions, 9),
         max |-> IF transactions = << >> THEN None ELSE transactions[Len(transactions)],
         pending |-> Count(LAMBDA r : r.pending # None),
         over30 |-> Count(LAMBDA r : r.pending # None /\ r.pending > 30),
         over60 |-> Count(LAMBDA r : r.pending # None /\ r.pending > 60)]

LagInit == openFec \in Fecs /\ asked = << >>

(* hardmoney lag <id>... *)
AskAbout(id) ==
    /\ Len(asked) < MaxAsked
    /\ asked' = Append(asked, id)
    /\ UNCHANGED openFec

LagNext == \E id \in FilingIds : AskAbout(id)

(* run: a row for each id that was given. *)
Shown == LET statuses == ProcessingStatus(asked) IN [i \in DOMAIN statuses |-> Row(statuses[i])]

-----------------------------------------------------------------------------
(* What is known of a filing does not depend on which other filings were   *)
(* asked about, nor on the batches they fell into.                         *)
EachAsIfAlone ==
    LET rs == Shown
    IN  \A i \in DOMAIN asked : rs[i] = Row(ProcessingStatus(<<asked[i]>>)[1])

(* Asking for a committee's filings never says more of one than asking for *)
(* it by its number, and says the same of its stage where its listing has  *)
(* its image number and the log files its report under this cycle.         *)
CommitteeKnowsTheSame ==
    \A c \in Committees : \A s \in Range(CommitteeStatus(c)) :
        LET alone == ProcessingStatus(<<s.id>>)[1]
        IN  /\ s.transactions \in {None, alone.transactions}
            /\ s.image # None /\ (\A r \in Range(openFec.log) :
                                      r.image = s.image => r.year \in CycleYears)
                   => Stage(s) = Stage(alone)

(* The distribution is of the rows shown: every filing at one stage, half  *)
(* of the known lags within the median and nine tenths within the ninth    *)
(* decile but no fewer, a filing that is received pending until its        *)
(* transactions are loaded.                                                *)
Within(values, d) == Cardinality({i \in DOMAIN values : values[i] # None /\ values[i] <= d})
Below(values, d)  == Cardinality({i \in DOMAIN values : values[i] # None /\ values[i] < d})
Splits(values, tenths, d) ==
    LET known == Cardinality({i \in DOMAIN values : values[i] # None})
    IN  IF known = 0 THEN d = None
        ELSE 10 * Within(values, d) >= tenths * known /\ 10 * Below(values, d) < tenths * known

SummaryIsOfItsRows ==
    LET rs   == Shown
        sum  == Summarize(rs)
        lags == [i \in DOMAIN rs |-> rs[i].transactionLag]
        Total[S \in SUBSET Stages] ==
            IF S = {} THEN 0 ELSE LET st == CHOOSE x \in S : TRUE
                                  IN  sum.stages[st] + Total[S \ {st}]
    IN  /\ Total[Stages] = Len(asked)
        /\ Splits(lags, 5, sum.median) /\ Splits(lags, 9, sum.p90) /\ Splits(lags, 10, sum.max)
        /\ Splits([i \in DOMAIN rs |-> rs[i].summaryLag], 5, sum.summaryMedian)
        /\ Splits([i \in DOMAIN rs |-> rs[i].summaryLag], 9, sum.summaryP90)
        /\ sum.pending + sum.stages["transactions_loaded"]
               = Cardinality({i \in DOMAIN rs :
                                rs[i].status.received # None \/ rs[i].status.transactions # None})

(* A count that openFEC did not give has its reason beside it. *)
CountsAreExplained ==
    \A i \in DOMAIN asked : \A raw \in RawFilings, t \in Tallies :
        LET s == ProcessingStatus(asked)[i]
            c == AddCounts(s, raw, t)
        IN  /\ c.errors = {} => \A k \in DOMAIN t : c.counts[k].processed = t[k] /\ t[k] # None
            /\ c.errors # {} /\ s.committee # None => c.counts = << >>
                   \/ \E k \in DOMAIN t : c.counts[k].processed = None

LagIsTold ==
    EachAsIfAlone /\ CommitteeKnowsTheSame /\ SummaryIsOfItsRows /\ CountsAreExplained
=============================================================================
