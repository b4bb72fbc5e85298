----------------------------- MODULE FilingRuns -----------------------------
(***************************************************************************)
(* `hardmoney filings` and `hardmoney efile backfill`: find filings in     *)
(* openFEC's listing or in the daily archives, and save, check and ingest  *)
(* each, one after the other. A step that fails is counted and the rest    *)
(* goes on; a run may be killed and given again over what it left.         *)
(***************************************************************************)
EXTENDS Integers, Sequences, SequencesExt, FiniteSets, FiniteSetsExt, Functions

CONSTANTS Known,     \* id -> [form, suffix, old, parses, filer, rules, from, through]
          FecLists,   \* what openFEC lists: [id, hint], id 0 for a filing on paper
          Archive,   \* day -> the entries of its archive: [id, file]
          RunJobs,   \* commands: [cmd, limit, filter, acts, chain, from, to]
          YearDays,
          MaxRuns, MaxFaults, MaxClears

\* A filing on paper has no id; what an archive holds under a number is a filing.
ASSUME FilingsAssumption ==
    /\ 0 \notin DOMAIN Known
    /\ \A id \in DOMAIN Known : Known[id].from \in Nat /\ Known[id].through \in Nat
    /\ \A id \in DOMAIN Known : Known[id].parses \in BOOLEAN /\ Known[id].rules \in BOOLEAN
    /\ FecLists \in Seq([id : DOMAIN Known \cup {0}, hint : {"store", "other"}])
    /\ DOMAIN Archive \subseteq Nat
    /\ \A d \in DOMAIN Archive : Archive[d] \in Seq([id : DOMAIN Known \cup {0}, file : BOOLEAN])

\* Of the two commands one has days, the other a listing.
ASSUME RunJobsAssumption ==
    /\ YearDays \in Nat \ {0}
    /\ \A j \in RunJobs :
          /\ j.acts \subseteq {"out", "check", "ingest"} /\ j.limit \in Nat \cup {-1}
          /\ j.from \in Nat /\ j.to \in Nat /\ j.chain \in BOOLEAN
          /\ \/ j.cmd = "filings" /\ j.to < j.from
             \/ j.cmd = "backfill" /\ ~j.chain

VARIABLES run,      \* the command under way
          at,       \* where it is
          tally,    \* failures, days
          chained,  \* reports loaded for --reconcile-chain, and the rows
          cached,   \* ids under filings/
          zips,     \* day -> the archive under efile/: "none", "good" or "bad"
          saved, ingested,
          ended,   \* of the last command
          ran, mishaps, clears,
          checked, faulty, lost, earlier \* what this run did or could not do (history)

runVars == <<run, at, tally, chained, cached, zips, saved, ingested, ended, ran, mishaps, clears,
             checked, faulty, lost, earlier>>

NoLimit == -1
NoRun  == [cmd |-> "none", limit |-> 0, filter |-> {}, acts |-> {}, chain |-> FALSE, from |-> 1, to |-> 0]
NoTally == [failures |-> 0, days |-> 0]
ErrorRow(id) == [id |-> id, error |-> TRUE, summed |-> {}, gaps |-> FALSE]
NoneChained == [loaded |-> << >>, rows |-> << >>]
Nowhere == [phase |-> "idle", day |-> 0, todo |-> << >>, left |-> << >>, wrong |-> FALSE, via |-> ""]
-----------------------------------------------------------------------------
(* What is asked for.                                                       *)

\* form_type_matches of the token peek_form_type finds on the second line:
\* there is none under a header of many lines.
FormMatches(id, filters) ==
    LET f == Known[id]
    IN  filters = {} \/ (~f.old /\ (f.form \o f.suffix \in filters \/ f.form \in filters))

\* The loop looks at the limit after it took a record.
Taken(j) ==
    LET n == IF j.limit = 0 THEN 1 ELSE j.limit
    IN  IF j.limit = NoLimit \/ n > Len(FecLists) THEN FecLists ELSE SubSeq(FecLists, 1, n)

\* "refusing to page through every filing"; --to earlier --from.
RefusesRun(j) ==
    IF j.cmd = "filings" THEN j.filter = {} /\ j.limit = NoLimit ELSE j.to < j.from

LastDay(day) == day >= run.to

StepsOf(j) ==
    LET Step(a) == IF a \in j.acts THEN <<a>> ELSE << >>
    IN  Step("out") \o Step("check") \o Step("ingest")
-----------------------------------------------------------------------------
Alone == <<ran, clears, earlier>>

GiveRun ==
    /\ at.phase = "idle" /\ ran < MaxRuns /\ ran' = ran + 1
    /\ \E j \in RunJobs :
        /\ run' = j
        /\ ended' = IF RefusesRun(j) THEN "refused" ELSE "none"
        /\ at' = IF RefusesRun(j) THEN Nowhere
                 ELSE [Nowhere EXCEPT !.phase = IF j.cmd = "filings" THEN "list" ELSE "day", !.day = j.from]
    /\ tally' = NoTally /\ chained' = NoneChained
    /\ checked' = {} /\ faulty' = {} /\ lost' = {} /\ earlier' = [saved |-> saved, ingested |-> ingested]
    /\ UNCHANGED <<cached, zips, saved, ingested, mishaps, clears>>

RunEnds ==
    /\ at' = Nowhere
    /\ ended' = IF tally'.failures + tally'.days > 0 THEN "failed" ELSE "ok"

RunFault == mishaps < MaxFaults /\ mishaps' = mishaps + 1

\* The whole listing first; a page that fails is the end of it.
List ==
    /\ at.phase = "list"
    /\ \/ at' = [at EXCEPT !.phase = "each", !.todo = Taken(run)] /\ UNCHANGED <<ended, mishaps>>
       \/ RunFault /\ at' = Nowhere /\ ended' = "refused"
    /\ UNCHANGED <<run, tally, chained, cached, zips, saved, ingested, Alone, checked, faulty, lost>>

ThisFiling == Head(at.todo)

\* The next record: nothing to do, or its bytes have to be there.
Each ==
    /\ at.phase = "each"
    /\ IF at.todo # << >>
       THEN /\ at' = IF run.acts = {} \/ ThisFiling.id = 0 THEN [at EXCEPT !.todo = Tail(@)]
                     ELSE [at EXCEPT !.phase = "fetch", !.via = ThisFiling.hint, !.wrong = FALSE]
            /\ UNCHANGED <<tally, ended>>
       ELSE /\ UNCHANGED tally
            /\ IF run.chain THEN at' = [at EXCEPT !.phase = "chain", !.todo = Taken(run)] /\ UNCHANGED ended
               ELSE RunEnds
    /\ UNCHANGED <<run, chained, cached, zips, saved, ingested, Alone, mishaps, checked, faulty, lost>>

\* fetch_filing_bytes_with: the cache, the URL openFEC gave, and after a refusal
\* of that one the document store's. It is stored before it is used.
Got(p) == IF p = "fetch" THEN "apply" ELSE "load"

FetchBytes ==
    /\ at.phase \in {"fetch", "chainFetch"}
    /\ \/ /\ at' = [at EXCEPT !.phase = Got(@), !.left = StepsOf(run)]
          /\ cached' = cached \cup {ThisFiling.id}
          /\ UNCHANGED <<tally, chained, mishaps, faulty>>
       \/ /\ ThisFiling.id \notin cached /\ at.via = "other" /\ RunFault
          /\ at' = [at EXCEPT !.via = "store"]
          /\ UNCHANGED <<tally, chained, cached, faulty>>
       \/ /\ ThisFiling.id \notin cached /\ RunFault
          /\ faulty' = faulty \cup {ThisFiling.id}
          /\ tally' = [tally EXCEPT !.failures = @ + 1]
          /\ IF at.phase = "fetch" THEN at' = [at EXCEPT !.phase = "each", !.todo = Tail(@)] /\ UNCHANGED chained
             ELSE /\ at' = [at EXCEPT !.phase = "chain", !.todo = Tail(@)]
                  /\ chained' = [chained EXCEPT !.rows = Append(@, ErrorRow(ThisFiling.id))]
          /\ UNCHANGED cached
    /\ UNCHANGED <<run, zips, saved, ingested, ended, Alone, checked, lost>>

\* apply, a step at a time.
Apply ==
    /\ at.phase = "apply" /\ at.left # << >>
    /\ LET id == ThisFiling.id
           Done(fails) == at' = [at EXCEPT !.left = Tail(@), !.wrong = @ \/ fails]
       IN  \/ /\ RunFault /\ Done(TRUE) /\ faulty' = faulty \cup {id}
              /\ UNCHANGED <<saved, checked, ingested>>
           \/ /\ Head(at.left) = "out" /\ Done(FALSE) /\ saved' = saved \cup {id}
              /\ UNCHANGED <<checked, ingested, mishaps, faulty>>
           \/ /\ Head(at.left) = "check" /\ Done(~Known[id].parses)
              /\ checked' = IF Known[id].parses THEN checked \cup {id} ELSE checked
              /\ UNCHANGED <<saved, ingested, mishaps, faulty>>
           \/ /\ Head(at.left) = "ingest" /\ Done(~Known[id].parses)
              /\ ingested' = IF Known[id].parses THEN ingested \cup {id} ELSE ingested
              /\ UNCHANGED <<saved, checked, mishaps, faulty>>
    /\ UNCHANGED <<run, tally, chained, cached, zips, ended, Alone, lost>>

Applied ==
    /\ at.phase = "apply" /\ at.left = << >>
    /\ tally' = IF at.wrong THEN [tally EXCEPT !.failures = @ + 1] ELSE tally
    /\ at' = [at EXCEPT !.phase = IF run.cmd = "filings" THEN "each" ELSE "entries", !.todo = Tail(@)]
    /\ UNCHANGED <<run, chained, cached, zips, saved, ingested, ended, Alone, mishaps, checked, faulty, lost>>
-----------------------------------------------------------------------------
(* backfill: a day's archive, from the cache or downloaded; what was        *)
(* downloaded is kept, be it an archive or not.                             *)

DayIsLost ==
    /\ tally' = [tally EXCEPT !.days = @ + 1]
    /\ lost' = lost \cup {at.day}
    /\ IF LastDay(at.day) THEN RunEnds ELSE at' = [at EXCEPT !.day = @ + 1] /\ UNCHANGED ended

ArchiveOpens == at' = [at EXCEPT !.phase = "entries", !.todo = Archive[at.day]] /\ UNCHANGED <<tally, lost, ended>>

OpenDay ==
    /\ at.phase = "day"
    /\ LET day == at.day
       IN  \/ zips[day] = "good" /\ ArchiveOpens /\ UNCHANGED <<zips, mishaps>>
           \/ zips[day] = "bad" /\ DayIsLost /\ UNCHANGED <<zips, mishaps>>
           \/ /\ zips[day] = "none" /\ day \in DOMAIN Archive
              /\ zips' = [zips EXCEPT ![day] = "good"]
              /\ ArchiveOpens /\ UNCHANGED mishaps
           \/ /\ zips[day] = "none" /\ day \notin DOMAIN Archive \* 404, or a day to come
              /\ DayIsLost /\ UNCHANGED <<zips, mishaps>>
           \/ /\ zips[day] = "none" /\ RunFault
              /\ zips' \in {zips, [zips EXCEPT ![day] = "bad"]}
              /\ DayIsLost
    /\ UNCHANGED <<run, chained, cached, saved, ingested, Alone, checked, faulty>>

\* DailyZipFilings passes over directories and names that are no number.
IsFiling(entry) == entry.file /\ entry.id # 0

\* Its next filing, and the bytes kept for a later `filings` or `watch`.
ReadEntry ==
    /\ at.phase = "entries" /\ at.todo # << >>
    /\ \/ /\ RunFault \* unreadable
          /\ tally' = [tally EXCEPT !.failures = @ + 1]
          /\ faulty' = faulty \cup {ThisFiling.id}
          /\ at' = [at EXCEPT !.todo = Tail(@)] /\ UNCHANGED cached
       \/ /\ UNCHANGED <<tally, faulty, mishaps>>
          /\ IF IsFiling(ThisFiling) /\ FormMatches(ThisFiling.id, run.filter) /\ run.acts # {}
             THEN /\ cached' \in {cached, cached \cup {ThisFiling.id}} \* it may not be written
                  /\ at' = [at EXCEPT !.phase = "apply", !.left = StepsOf(run), !.wrong = FALSE]
             ELSE at' = [at EXCEPT !.todo = Tail(@)] /\ UNCHANGED cached
    /\ UNCHANGED <<run, chained, zips, saved, ingested, ended, Alone, checked, lost>>

DayEnds ==
    /\ at.phase = "entries" /\ at.todo = << >>
    /\ UNCHANGED tally
    /\ IF LastDay(at.day) THEN RunEnds ELSE at' = [at EXCEPT !.phase = "day", !.day = @ + 1] /\ UNCHANGED ended
    /\ UNCHANGED <<run, chained, cached, zips, saved, ingested, Alone, mishaps, checked, faulty, lost>>
-----------------------------------------------------------------------------
(* --reconcile-chain: load all, order them, and chain each to the reports   *)
(* of its form that come before it.                                        *)

\* sort_by_key: of one form by the days covered, as listed where these are the
\* same; how the forms follow one another is left out.
Earlier(loaded, i, j) ==
    LET a == loaded[i]
        b == loaded[j]
    IN  \/ a.from < b.from
        \/ a.from = b.from /\ (a.through < b.through \/ (a.through = b.through /\ i < j))
Ordered(loaded) ==
    LET places == 1..Len(loaded)
        Before(i) == Cardinality({j \in places : Earlier(loaded, j, i)})
    IN  [k \in places |-> loaded[CHOOSE i \in places : Before(i) = k - 1]]
Overlap(a, b) == a.from <= b.through /\ b.from <= a.through
YearOfDay(d)  == (d - 1) \div YearDays

\* ReportChain::new, of the reports at `before`.
ChainBrokenLoosely(r, loaded, before) == \E p \in before : loaded[p].filer # r.filer \/ loaded[p].through >= r.from
ChainBroken(r, loaded, before) ==
    \/ \E p \in before : loaded[p].filer # r.filer \/ loaded[p].through >= r.from
    \/ \E p, q \in before : p # q /\ Overlap(loaded[p], loaded[q])

\* period_reports and gaps: a year-to-date form begins on January 1.
Summed(r, priors) == {r} \cup {p \in priors : r.form = "F3X" => YearOfDay(p.through) = YearOfDay(r.from)}
Days(reports) == UNION {p.from..p.through : p \in reports}
PeriodStart(r, reports) == IF r.form = "F3X" THEN YearOfDay(r.from) * YearDays + 1 ELSE Min({p.from : p \in reports})
HasGaps(r, reports) == ~(PeriodStart(r, reports)..r.from - 1 \subseteq Days(reports))

ChainRow(k, loaded) ==
    LET r == loaded[k]
        before == {i \in 1..k - 1 : loaded[i].form = r.form}
        broken == ~r.rules \/ ChainBroken(r, loaded, before)
        summed == IF broken THEN {} ELSE Summed(r, {loaded[i] : i \in before})
    IN  [id |-> r.id, error |-> broken, summed |-> {p.id : p \in summed}, gaps |-> ~broken /\ HasGaps(r, summed)]

Loaded(id) ==
    LET f == Known[id]
    IN  [id |-> id, form |-> f.form, filer |-> f.filer, rules |-> f.rules, from |-> f.from, through |-> f.through]

LoadReport ==
    /\ at.phase = "load"
    /\ LET id == ThisFiling.id
           ok == Known[id].parses /\ Known[id].through > 0
       IN  /\ chained' = IF ok THEN [chained EXCEPT !.loaded = Append(@, Loaded(id))]
                         ELSE [chained EXCEPT !.rows = Append(@, ErrorRow(id))]
           /\ tally' = IF Known[id].parses THEN tally ELSE [tally EXCEPT !.failures = @ + 1]
           /\ at' = [at EXCEPT !.phase = "chain", !.todo = Tail(@)]
    /\ UNCHANGED <<run, cached, zips, saved, ingested, ended, Alone, mishaps, checked, faulty, lost>>

Chain ==
    /\ at.phase = "chain" /\ UNCHANGED tally
    /\ IF at.todo # << >>
       THEN /\ at' = IF ThisFiling.id = 0 THEN [at EXCEPT !.todo = Tail(@)]
                     ELSE [at EXCEPT !.phase = "chainFetch", !.via = ThisFiling.hint]
            /\ UNCHANGED <<chained, ended>>
       ELSE /\ LET sorted == Ordered(chained.loaded)
               IN  chained' = [chained EXCEPT !.rows = @ \o [k \in DOMAIN sorted |-> ChainRow(k, sorted)]]
            /\ RunEnds
    /\ UNCHANGED <<run, cached, zips, saved, ingested, Alone, mishaps, checked, faulty, lost>>
-----------------------------------------------------------------------------
KillRun ==
    /\ at.phase # "idle" /\ RunFault
    /\ at' = Nowhere /\ ended' = "killed"
    /\ UNCHANGED <<run, tally, chained, cached, zips, saved, ingested, Alone, checked, faulty, lost>>

\* efile cache-clear, by somebody else; an archive that is open stays so.
ClearCache ==
    /\ clears < MaxClears /\ clears' = clears + 1
    /\ cached' = {} /\ zips' = [d \in DOMAIN zips |-> "none"]
    /\ UNCHANGED <<run, at, tally, chained, saved, ingested, ended, ran, mishaps, checked, faulty, lost, earlier>>

RunInit ==
    /\ run = NoRun /\ at = Nowhere /\ tally = NoTally /\ chained = NoneChained
    /\ cached = {} /\ saved = {} /\ ingested = {}
    /\ zips = [d \in UNION {j.from..j.to : j \in RunJobs} |-> "none"]
    /\ ended = "none" /\ ran = 0 /\ mishaps = 0 /\ clears = 0
    /\ checked = {} /\ faulty = {} /\ lost = {} /\ earlier = [saved |-> {}, ingested |-> {}]

RunNext ==
    GiveRun \/ List \/ Each \/ FetchBytes \/ Apply \/ Applied \/ OpenDay \/ ReadEntry \/ DayEnds \/ LoadReport \/ Chain
    \/ KillRun \/ ClearCache

RunSpec == RunInit /\ [][RunNext]_runVars
-----------------------------------------------------------------------------
(* The filings a command is about: of the form, whatever its suffix. *)
IsOf(id, filters) ==
    LET f == Known[id]
    IN  filters = {} \/ (~f.old /\ {f.form, f.form \o f.suffix} \cap filters # {})
InArchives(days) ==
    UNION {{e.id : e \in {x \in Range(Archive[d]) : IsFiling(x)}} : d \in days \cap DOMAIN Archive}
Wanted(days) ==
    IF run.cmd = "filings" THEN {r.id : r \in Range(Taken(run))} \ {0}
    ELSE {id \in InArchives(days) : IsOf(id, run.filter)}

Treated(id) ==
    /\ "out" \in run.acts => id \in saved
    /\ Known[id].parses => /\ "check" \in run.acts => id \in checked
                           /\ "ingest" \in run.acts => id \in ingested

Unparsed(ids) == {id \in ids : ~Known[id].parses /\ run.acts \cap {"check", "ingest"} # {}}

\* A run that says it succeeded did everything to every filing it is about.
SuccessIsWhole ==
    ended = "ok" /\ run.acts # {} =>
        /\ run.from..run.to \subseteq DOMAIN Archive \/ run.cmd = "filings"
        /\ \A id \in Wanted(run.from..run.to) : Treated(id)
        /\ Unparsed(Wanted(run.from..run.to)) = {}

\* One that failed left nothing undone but what itself could not be done.
FailureIsOfItsOwn ==
    ended = "failed" => \A id \in Wanted((run.from..run.to) \ lost) \ faulty : Treated(id)

NothingElseTouched ==
    /\ saved \ earlier.saved \subseteq Wanted(run.from..run.to)
    /\ ingested \ earlier.ingested \subseteq Wanted(run.from..run.to)

\* A row that stands counts no day twice and, if it tells of no gap, every day
\* of its period.
RowIsSound(row) ==
    LET of == [id \in row.summed |-> Known[id]]
    IN  /\ \A a, b \in row.summed : a # b => ~Overlap(of[a], of[b]) /\ of[a].filer = of[b].filer
        /\ ~row.error /\ ~row.gaps /\ of[row.id].form = "F3X" =>
             \A d \in YearOfDay(of[row.id].from) * YearDays + 1..of[row.id].through :
                \E a \in row.summed : d \in of[a].from..of[a].through

ChainCountsDaysOnce == \A i \in DOMAIN chained.rows : RowIsSound(chained.rows[i])

\* Of the reports listed each has its row.
EveryReportHasARow ==
    ended \in {"ok", "failed"} /\ run.chain =>
        /\ {chained.rows[i].id : i \in DOMAIN chained.rows} = Wanted({})
        /\ Len(chained.rows) = Cardinality({i \in DOMAIN Taken(run) : Taken(run)[i].id # 0})

RunsAccountForAll ==
    SuccessIsWhole /\ FailureIsOfItsOwn /\ NothingElseTouched /\ ChainCountsDaysOnce /\ EveryReportHasARow
=============================================================================
