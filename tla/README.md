# hardmoney in TLA+

A verification development for **hardmoney**, a Rust program that parses FEC
filings, follows the FEC's electronic-filing feed, loads bulk data and database
dumps into PostgreSQL and serves them. It holds TLA+ models of the parts whose
correctness depends on interleavings, failures and ordering, and of the
algorithms whose answers people rely on, TLC runs that check them on small
instances, and TLAPS proofs of what holds for every instance. Every definition is
translated from the source; `PROJECT.json` maps each one to the lines it stands
for. Paths below are relative to the repository.

## 1. The system

| Component | Code | State it keeps | Operations |
|---|---|---|---|
| Parser | `src/parser/` | none (a filing in memory; the streaming reader keeps its position and the current text block) | parse a `.fec` file strictly or leniently, in memory or as a stream; write it back; typed views; JSON |
| Acceptance rules, reconciliation, review | `src/parser/validate.rs`, `reconcile.rs`, `review.rs`, `webcheck.rs` | none | pure functions of a filing and, for reviews, of its predecessors |
| Download cache | `src/fec/cache.rs`, `src/fec/mod.rs` | `filings/<id>.fec`, `efile/YYYYMMDD.zip`, `efile-seen.txt` on disk, shared by processes | read, write atomically, append to the seen list, clear |
| E-filing feed | `src/fec/efile.rs`, `src/cli/efile.rs` | the seen list in memory and on disk | poll, process new items, mark as seen, backfill from daily archives |
| openFEC client | `src/fec/openfec.rs` | paging cursor, retry counters | list filings with paging, retry on 429 |
| Ingestion | `src/bulk/ingest.rs` | tables `filings`, `schedule_e_lines` | one transaction per filing |
| Amendment chains | `src/db/mod.rs` | six derived columns of `filings` | resolve one chain, resolve all |
| Bulk loader | `src/bulk/loader.rs`, `source.rs` | bulk tables, `bulk_load_log` | download, stage, compare with the last load, replace or append |
| Database dumps | `src/bulk/dump.rs`, `src/cli/dumps.rs` | `<name>.dump`, `.dump.partial`, `.dump.meta` on disk; schema `disclosure`; restore log | resumable download, evict, restore, index, drop |
| Namespaces and views | `src/db/mod.rs`, `migrations/` | one schema per namespace, views over `disclosure` | migrate, create and drop views |
| Preflight | `src/bulk/preflight.rs` | none | disk, server and tool checks before a restore |
| HTTP API | `src/api/` | a connection pool, slots for fetches | read-only lists, the filing tools |
| UI | `src/ui/assets/` | the open filing and its edits; the lists of a page, the API key | the filing workbench, the data pages |
| Export | `src/export/` | an output file | CSV, JSON Lines, Parquet, SQLite sinks |
| Command line | `src/cli/`, `src/main.rs` | none | composes the above |
| Python binding | `python/` | a filing behind a lock | the parser's API |

How they interact: `efile watch` polls the feed, reads filings through the
cache (which downloads on a miss), and hands the bytes to the actions, one of
which is ingestion; ingestion calls the chain resolver inside its own
transaction; `backfill` and `filings --ingest` do the same from the daily
archives and from openFEC, in other processes, over the same cache directory
and the same database. `bulk-restore-dump` downloads a dump and runs
`pg_restore`, then recreates the views of every namespace. The API reads what
all of them have committed.

What is hard: several processes share a cache directory and a database with no
coordinator; PostgreSQL runs them at READ COMMITTED; a process may be killed
between any two system calls, and the machine may lose power; the FEC replaces
files while they are being downloaded; feeds and servers fail and answer late.

What makes each part correct:

* *Amendment chains*: the derived columns are those the rules give for the
  committed headers, after every commit; exactly one filing of a chain is
  current; no call waits for ever.
* *Cache*: what a reader finds under a final name is a whole document, whatever
  was killed and when.
* *Watcher*: an id is marked as seen only after it was acted on or filtered
  out; no id is acted on twice without a crash; every item that stays in the
  feed is eventually handled; older filings first.
* *Dumps*: a complete dump is one server version, never two spliced.
* *Bulk loads*: a table holds one file; "unchanged" is said only of a full load
  of the current file.
* *Restore*: a failed restore leaves the old table or none, and the views.
* *openFEC*: every page once, retries bounded.
* *Parser and writer*: the streaming reader and the in-memory parser agree, and
  what is written is read back as it was.
* *Rules, reconciliation, review*: an honest filing is found right, a wrong
  amount or a missing report shows, and a verdict does not depend on the order
  of lines or on where a period's books were closed.
* *Commands*: what a command says it did was done, to everything it is about,
  and a step that fails undoes nothing before it.
* *Pages and tools*: what is shown is of what is open, whatever answer came
  late; a reader who turns pages meets every row once.

## 2. The modules

Order of work: what several actors can break first, the database's amendment
chains above all, then the files shared on disk, the loads into the database,
the sequential protocols, and the pure algorithms. The plan of the first
version is carried out; what could still be added is named below the table.

| Part | Modules | Section |
|---|---|---|
| Amendment chains | `ChainRules`, `ChainIndex`, `AmendmentChains`; proofs in `AmendmentChainsProofs`; `MCAmendmentChains`, `MCFixedChains` | 3 |
| Download cache | `FilingCache`, `MCFilingCache`; proofs in `FecClientProofs` | 4 |
| E-filing watcher | `EfileWatch`, `MCEfileWatch`; proofs in `FilingCommandsProofs` | 5 |
| Dump download | `DumpDownload`, `DumpDownloadProofs`, `MCDumpDownload` | 6 |
| Dump restore, views | `DumpRestore`, `DumpRestoreProofs`, `MCDumpRestore` | 7 |
| Bulk loads | `BulkTable` (what a table promises), `BulkLoad`, `BulkLoadProofs`, `MCBulkLoad` | 8 |
| Other commands and the pages that list tables | `Exports`, `ReviewEval`, `GuidedImport`, `DataBrowser`, `FilingTools`, `SpecTools`, `FilingRuns`, `BulkRuns`, composed in `MCCommands`; proofs of `FilingRuns` and `Exports` in `FilingCommandsProofs`, of `ReviewEval` in `WorkbenchProofs`, of `GuidedImport` in `DumpDownloadProofs` | 9 |
| Documents, rules and pages | `FilingParse`, `FilingStream`, `FilingWriter`, `EfileFeed`, `OpenFecPages`, `FilingLag`, `AcceptanceRules`, `ReportRules`, `Reconcile`, `Review`, `WebCheck`, `Workbench`, composed in `MCDocuments`; proofs of `OpenFecPages` in `FecClientProofs`, of `Workbench` in `WorkbenchProofs` | 10 |

Two abstract specifications are shown to be implemented: `ChainIndex` by
`AmendmentChains` and `BulkTable` by `BulkLoad`. A third kind of reference is a
declarative definition the algorithm is compared with: `FilingParse` for the
streaming reader, each filing asked for alone for the batches of `FilingLag`,
one report for a period of `Review`.

`OrderLemmas` holds what several of the proofs need of finite sets of numbers,
their order and sequences made of them.

What is left: a proof of `DataBrowser`, whose property is partly of sums and
folds, and of the space `GuidedImport` foresees, which is a sum.

The parts composed in `MCDocuments` and `MCCommands` share no state. `focus` and
`running` say which of them a behaviour is of, and the others stay as they are.

## 3. Amendment chains

`ingest_filing_with` is one transaction at READ COMMITTED: read and lock the
old row, upsert the header and replace its lines, take the advisory lock of the
chain (or of the two chains, in ascending order, when a filing moved), resolve
each, commit. `resolve_amendment_chain` does the last part alone, and
`resolve_all_amendment_chains` is one statement over the whole table.

* `ChainRules` is `resolve_chain_sql!` as operators: `OriginalId` is the
  `attached` step, `Members` the `scope`, `Before` the window's ORDER BY,
  `Rank` the window functions, `ResolveOne` and `ResolveAll` the two statements.
* `ChainIndex` is the promise: a filing is stored and every row's derived
  columns agree (`RowAgrees`) with a declarative definition of its chain, which
  uses neither windows nor scopes.
* `AmendmentChains` has one action per statement. A statement sees what was
  committed when it began plus its own writes (`Visible`). Rows and chains are
  locked; a chain's UPDATE writes the rows of its members one at a time in any
  order, each when its lock is free. `Deadlocked` is the cycle PostgreSQL
  detects, `Victim` its abort, `Fail` an error in any statement. State in the
  code's terms: `filings` and `derived` are the committed table, `stored` and
  `dirty` what a transaction has written and not committed.

| Run | What it shows |
|---|---|
| `chains_one_chain` | three callers, an original and two amendments that may come with any number, and resolutions of their chain: one current filing per chain after every commit, each commit is a `ChainIndex` step, and (liveness) every call ends |
| `chains_corrections` | two callers, headers corrected so that filings change chains and originals become amendments: the columns equal `ResolveAll` of the table after every commit, and locking is two-phase |
| `chains_batch` | one caller, every header well formed or not, ingested at once or deferred, four calls: resolving only the chain joined and the chain left keeps a right table right, and `resolve_all_amendment_chains` puts any table right, both against the declarative `ChainIndex` |
| `chains_resolve_all_race` | a comment promises more than concurrent callers get; see section 13 |

*Bounds.* Three filings are an original and two amendments, which is the least
for every order, for a tie of numbers and for a member that is neither first
nor last. Three callers are the least for one to wait on two. `MaxJobs` lets each caller do
more than one call.

*Fairness.* PostgreSQL's lock queues are first come, first served, so a step
that becomes possible again and again is taken (SF of `Step`); its deadlock
detector always ends one of a cycle (WF of `Victim`).

*Proved* (for any set of filings, callers, calls and initial table):
`TypeCorrect`; `TwoPhaseLocking`; and, with `FixedChains` as hypothesis,
`ColumnsStayCurrent`, which is `DerivedCurrent`. `FixedChains` says what the
FEC's validator enforces: a filing keeps its designator and its original,
amendments name originals, and the calls are ingests and resolutions of an
original's chain. `MCFixedChains` has TLC evaluate it on its workloads; without
it the property is false, as `chains_resolve_all_race` shows. The argument: under
`FixedChains` a chain is all rows that name its original, whoever writes one
holds the row's lock, and the chain is resolved under the advisory lock with
the rows of its other members as committed; so each commit replaces exactly one
chain by its resolution (the first part of `AmendmentChainsProofs` has the
facts about the rules).
`OneRowPerChain`, which is `OneCurrentPerChain`, follows from it: the window's
order is total, so a finite chain has one last member (`LastIsLatest`). The
invariant adds, per statement, which row is written, which chain lock is held
and what the computed columns are equal to.

`CommitsAreStores` is the refinement, `ImplementsIndex`, under the same
hypothesis: the window functions give each row the place that `RowAgrees`
defines, for any table (`ResolvedAgrees`), so a committed table that equals its
resolution agrees with `ChainIndex`; a commit is one `Store`, and every other
step leaves what readers see alone.

`ResolvingIsRight` is `ResolvingAgrees` for one caller and *any* headers,
designators that change and amendments of amendments included, resolved at once
or deferred to `resolve_all_amendment_chains`. Its lemmas: storing a filing
changes only the chain it joins and the chain it leaves (`StoringIsLocal`), and
the columns that agree are those the resolution gives, no others
(`OnlyResolvedAgrees`). The invariant (`Alone`) says which rows the statement
under way has put right and which chains are still to come. One caller is the
hypothesis because with two the promise is false (`chains_resolve_all_race`).

## 4. The download cache

`FilingCache` follows `write_atomically` system call by system call: create
`<name>.partial`, write in pieces, sync, rename; on an error remove it, and go on
if that fails too (`RemoveFails`). Files
are what they hold and what of it is on the disk; an open file outlives its
name (`Moved`). `Fetch` is a read-through miss, `Store` is backfill,
`Clear` and the two `Unlink` steps are `cache-clear`, `Kill` and
`PowerFailure` end processes at any step.

| Run | What it shows |
|---|---|
| `cache_one_writer` | two processes with a document each and a third that clears: a stored document is whole, and a `.partial` nobody is at is of a document whose last write was killed, lost its power or could not remove it |

*Bounds.* Two pieces are the least that can be cut between. *Assumed of the file
system:* rename is atomic, and names change on the disk in the order they were
changed; a file that was not synced keeps a prefix of what was written.

*Proved*, for any processes, documents and number of pieces:
`OnlyCutWritesLeavePartials`, and `CachedDocumentsAreWhole` under `OneWriter` (each
document has one process that fetches it), which says that the `.partial` a
process is about to rename is its own and as far as the process is
(`OwnPartial`, the inductive part).

## 5. The e-filing watcher

`EfileWatch` has the actions of `watch`: start (read the seen list once), poll,
act on the oldest wanted item, record every new id, sleep. The list on disk is
the ids on finished lines and an unfinished `tail`, so that an append cut short
and the append after it do to the file what they do (`AppendSeen`,
`AppendCutShort`). The feed publishes and expires items at will. A watcher can
be stopped between any two steps; `acted` and `passed` are history.

| Run | What it shows |
|---|---|
| `watch_restarts` | two watchers, all modes and filters, stops at every step, torn appends, `cache-clear --seen`: nothing is listed that was not dealt with, and until the first interruption no watcher acts on a filing twice; and (liveness) every item that stays in the feed is dealt with, though polls fail and a watcher is restarted |

Two watchers on one cache may each act on one filing: `seen` is read once, at
the start (`efile.rs:146`), and not at every poll as the sequence diagram of
`architecture.md` draws it. An id that is appended to an unfinished line is lost
from the list, and its filing is acted on again: `ActsOnce` ends at the first
interruption.

*Bounds.* Two ids let one be filtered out or cut off and the other not, or be
old and the other new. *Fairness.* The loop always goes on
(WF); a stopped watcher is started again while `MaxStarts` allows; a poll that
is tried for ever succeeds at some time (SF of `Poll`): otherwise nothing can
be promised of a feed.

*Proved*: `WatchTypes`; `NoUnseenFilingIsLost` (`SeenWasDealtWith` for any
number of watchers; the inductive part is `NewIsAccountedFor`: each new item is
still to be acted on, acted on, or passed over); `UndisturbedActOnce`
(`ActsOnce` for any number of watchers; the inductive part is `Knows`: what a
watcher acted on is in the list when it is off, and in its `seen` or among its
new items while it runs).

## 6. The dump download

`DumpDownload` is `download_resumable` step by step, over files that outlive
their names. `Answers` is what the server may send and `HttpRange` makes of it:
the whole file, the rest of it, or nothing more (416), with or without a total
and a tag. The server replaces its file at any time. The end of a connection
is `BodyEnds` (a short body whose total was declared) or `Fails`.

| Run | What it shows |
|---|---|
| `dump_ignores_if_range` | one process, a server that ignores `If-Range` but tags every range, a file replaced by a longer one, kills, a power failure, an eviction: the complete file is one version, as `.meta` says, and no older than the download |
| `dump_resumes` | liveness, with a server that ignores `If-Range`, leaves its 416 untagged and replaces the file by a shorter one: cut after any byte, again and again, the download completes, and a partial that is too long is thrown away |

*Bounds.* Versions of two and three bytes, growing in one run and shrinking in
the other: a partial can be shorter than, as long as and longer than the next
version. *Fairness.* Somebody starts the
download again (WF of `Begin`), and no step fails every time (SF).

*Assumed.* Two versions never share a validator. As for the cache, names and
truncations reach the disk in order. A body with no declared total that breaks
off is an error (HTTP chunking). A 416 from a server that ignores `If-Range`
carries its tag (`TagOn416`): otherwise an old partial that is long enough
passes, which the code does not claim to prevent.

*Proved*, for any sizes and number of versions, stops and evictions:
`DownloadTypes`; and for one process and a server in `ChangeIsSeen`
(`If-Range`, or tags on every range) `DumpIsOneVersion`, `DumpIsAsRecorded`
and `DumpIsFresh`. The invariant `Spliceless` says that what `.meta` names is
the version a partial is a prefix of (`PartialFits`), that what the process
writes is a prefix of the version that answered (`Writing`), and that a range
that was accepted is of the version the partial is of (`Answering`, `Opening`).

## 7. Dump restore and the views

`DumpRestore` has one action per statement of `restore_with` and of what it
calls: planning from the archive's list, `LockTable`/`DropTable`/`DropChild`,
`Create`, `CopyTable` and `MakeKeys` of `pg_restore`, which goes on past its
errors, `CountRows`, `EnsureViews` with `Look`, `DropView` and `CreateView`,
`Record`, `Index`. `Import`, `Update`, `Remove`, `RestoreDump` (the command
`bulk-restore-dump`) and `DumpIndex` (`bulk-dump-index`) are the commands that
run it and `Serve` a server start, which makes the views of its namespace.
`data` is what each table of the schema `disclosure` holds, `records` the restore
records of each namespace, `views` the namespaces that have theirs.

| Run | What it shows |
|---|---|
| `restores` | two restorers and a server start in two namespaces: a one-table dump through weekly updates and removals, and a dump of two cycles restored whole and by cycle at once, every statement failing. Nobody waits for ever (`NobodyWaitsForEver`: no cycle of waits among all locks); a restore that reaches its record has given the views back (`ViewsComeBack`); what is recorded is in the tables, whole and once, unless `pg_restore` complained (`RecordedIsRestored`); `dumps update` says up to date only of what fec.gov has, for a single restorer of one table (`UpToDateIsTrue`); a cycle's table goes only with the whole dump or to be replaced, and making one namespace's views takes no other's (`NothingGoesForGood`) |

*Bounds.* `MaxRuns = 3` commands and server starts; two cycles, one of which the
first archive does not have; two file versions. A restorer and a disturbance of
its tables by another are told apart by `disturbed`. *Left out*: a `pg_restore`
child that outlives a killed hardmoney, the creation of extensions, the checks
for an index that exists, is unique or trigram, a reader that deadlocks with a
DROP; the snapshot reads of one function are one step. `DROP TABLE` of
a cycle's child locks that child only for the one statement, and no step holds a
lock on a child from one statement to the next, so it needs no lock variable. *Deadlock is not
checked* (nor below) because a run ends when its commands are used up.

*Proved*, for any restorers, servers (none of which is both), namespaces,
commands, dumps and number of runs: each property of the run, and the types.

* `NoDeadlock`: who has locked a view waits for nobody, who has the table only
  for those, and all others for one of these two (`RestoreLocks`).
* `RecordsAreOfWhatWasRestored`: step by step, what an undisturbed restore has
  already done to the tables of its plan (`ProgressInv`): dropped, created,
  copied once, or marked as broken.
* `ViewsAreBack`: whose view is being looked at, dropped or made, and that an
  undisturbed restore past a view's creation has it (`ViewsInv`). As in the
  property, either nobody or everybody works in `public`.
* `NothingIsLost` needs both, since what a DROP takes depends on the plan and on
  whose view the unqualified name is.
* `UpToDateIsRight`: for one restorer and a one-table dump, how the last record,
  the table, the files on disk and fec.gov's version hang together (`PlainInv`).

## 8. Bulk loads

`BulkTable` promises that the rows of a source and cycle are replaced from one
staged file to another in one step. `BulkLoad` is `load` from the HEAD request
to the commit, with the log that `--if-changed` reads. The server publishes a
newer file at any time, also between the HEAD and the GET; a DELETE sees what
was committed when it began, a COPY fails on a row that is there.

| Run | What it shows |
|---|---|
| `commands` (loads) | two loaders of one table, replacing, appending, samples, local files, with and without tags and `--yes`: the table goes from file to file (`ImplementsTable`); "skipped: unchanged" is said only while every row of the server's file is there, where one loader replaces with whole files (`SkipsOnlyWhatIsThere`); without `--yes` more rows than the threshold go only if somebody loaded after the count (`UnconfirmedDeletesLittle`) |
| `bulk_sample_then_if_changed` | section 13 |

*Bounds.* Three loads, files of up to three lines, a threshold of one row: a
full load, what replaces it, and a load that may skip.

*Proved*, for any loaders, calls, files and number of loads: `LoadTypes` (no key
is twice in the table); `CountedDeletes` (`UnconfirmedDeletesLittle`: while
nobody else has loaded, the table, the DELETE's snapshot and what it deleted
are each no more than was counted);
`TableIsOneFile` (`ImplementsTable`, so `BulkLoad` implements `BulkTable`: a load
deletes every row of the table as it will be at its commit, because somebody
who committed in between makes its COPY fail on a row that both files have);
`SkipsAreTrue` (`SkipsOnlyWhatIsThere`: the row of the log that counts as the
last full load is of rows that only the one replacing loader can take). What the
last two suppose is inside the properties: all replace and any two files share a
row, or one loader replaces with whole files and the ETags tell files apart.

## 9. Commands and pages over the tables

All of these are parts of the run `commands`; each row is one property.

| Module | What is modelled, and what the property says |
|---|---|
| `Exports` | `export` record by record into files or SQLite, failing or killed anywhere. `ExportsAreWhole`: the database holds each successful export whole and nothing of another; what an export reports is in the directory. Exports follow each other (SQLite's lock orders them; two into one directory at once are not modelled); files of tables that an earlier export left stay |
| `ReviewEval` | `review --eval`: letters and listings paged through while they grow, a budget of requests, requests that fail. `SamplesAreComparable`: no committee twice, clean reports really clean when looked at, the two cuts agree, the budget kept. The letters of one committee fit a page |
| `GuidedImport` | `dumps check`, `status`, `import`, `update` on eight computers: sizes, checks, questions, one dump after the other. `GuideKeepsItsWord`: what says it changed nothing did not, an import whose checks passed has the space they measured, a failed step leaves the later ones undone. Checks are made at one moment; time estimates and wording are left out. Nothing is promised where downloads and database share a disk: each is judged alone |
| `DataBrowser` | the list routes, the data pages (answers in any order, the dialog for the key, navigation) and `query`. `ReadersMissNothing`: a reader who turns the pages meets every row once, the labels are of the rows shown, a list is refused only for want of a key. Cards, totals and columns are left out; contributions and disbursements stand with the other lists |
| `FilingTools` | `/tools/*`: parse, fetch, validate, reconcile, write, with slots, cap and timeout. `ToolsKeepTheirWord`: what is accepted is exactly what reads back record by record, a refusal that names a record names a wrong one and passes over no other but those whose only fault is a token of no table (section 13), a thread reads no more than a byte past the cap, and a fetched document is of a file that was read whole; and `FormatIsTold` |
| `SpecTools` | `spec tables`, `fields`, `export`, `diff` over layouts as data, and a vendor who reads the columns once and then follows the differences. `FormatIsTold`: the vendor's picture stays that of the bundled layouts, what `tables` offers can be asked for, and the differences from A to B mirror those from B to A. Six version texts, five names, four tables; a table with one electronic version has no newest one in `spec tables` |
| `FilingRuns` | `filings` and `efile backfill`: listing or archives, save, check, ingest, chain; faults and kills. `RunsAccountForAll`: success means everything was done to every filing wanted, failure only what could not be done was not, nothing else is touched, a chain counts no day twice |
| `BulkRuns` | `bulk load-all` and `bulk-dump-compare`. `BulkRunsTellAll`: each source was tried and told of, and the differences listed account for the difference of the totals unless a transaction is there twice, or another process restored the dump or ingested the filing between two statements (then they need not, section 13) |

`MaxCommands`, `MaxMeddling`, `MaxFaults`, `MaxClears`, `MaxRestores`,
`Unlisted`, `MaxExports` bound how much may happen; each is as large as it takes
for the case its property is about (a fault in the middle of several filings, a
letter between two pages, an export after one that failed).

*Proved*, for any listing, archives, commands and faults: `RunsAccount`
(`RunsAccountForAll` of `FilingRuns`). What a run says at its end is not inductive:
`RunInv` says while it runs that each filing behind it either had all done to it or
was counted as failed (`NothingLeftUndone`, `FailuresAreCounted`), that nothing not
asked for was touched, and how each loaded report came into the chain. It assumes of
the constants that the listing and archives name known filings, that days are
numbers, and that `efile backfill` makes no chain, as its flags have it
(`FilingsAssumption`, `RunJobsAssumption`).

*Proved*, for any filings, selections, formats and batch size: `ExportsLeaveWhole`
(`ExportsAreWhole` of `Exports`). Half way through an export nothing is whole;
`ExportInv` says what it is half of: each table met is open once, its written and
pending rows are together its records so far (`OpenAsRead`), the transaction is what
was committed and the lines so far (`TxAsRead`), and while files are written no report
stands (`UnderWay`). A step adds the last of the lines, and the rows of a set of lines
with one more at its end are those rows and one more (`RowsOfOneMore`).

*Proved*, for any letters, reports, pages, stride, sample size and budget, with
letters sent and requests failing at any time: `EvalCompares`
(`SamplesAreComparable` of `ReviewEval`). That no committee has two rows holds for
two reasons, and `EvalInv` states both: the letters to look up are of one committee
each (`LettersAreApart`), so that the report of the next one is of a committee no row
has, and every committee of a row, and of a letter that led to none, counts as seen
(`CommitteesAreSeen`). A row says what the letters told when it was looked at (`asOf`);
without it the property would be undone by the next letter. Nothing is assumed of the
constants but that letters and reports are sequences and the bounds numbers
(`EvalAssumption`).

*Proved*, for any dumps, computers, downloads and commands: `GuideTellsWhatIsSo`, which
is `GuideKeepsItsWord` of `GuidedImport` but for the space. `GuideInv` says where a
command is: until it goes ahead nothing has changed (`NothingYet`), while it runs the
steps before the one under way have their parts, that one has what it has or still
will load, and those after it are untouched (`RunInOrder`). The steps are of different
dumps because a command is given one dump, `all-small` or all, never one twice
(`GuideAssumption`), and `update` takes some of them in their order (`ToUpdateIs`). That an
import has the space its checks measured stays with TLC: it is a statement about a sum
of rounded shares, the parts' against the estimate's, which is cut at the whole file
and covers the parts only while their shares add up to less.

## 10. Documents, rules and pages

All of these are parts of the run `documents`.

| Module | What is modelled, and what the property says |
|---|---|
| `FilingParse`, `FilingStream` | the in-memory parser as a definition over kinds of lines, the streaming reader as a machine that holds one record back. `StreamIsParse`: read to its end, it has given the same records, error, skipped lines and cover. Every file of up to three further lines (and selected longer ones), every option, an I/O error at any line |
| `FilingWriter` | splitting, quoting, hoisted text blocks and sanitizing over symbols, two columns a record. `WrittenReadsTheSame`: what is written parses to the filing written, in both formats and encodings: exactly, if nothing was set; and after values were set, each value as a file can carry it (a line feed or delimiter within a column comes back as a space, at an end as nothing, and a CR before a line feed of a block's text is lost), no other value disturbed. Left out: texts that a block cannot carry (section 13), files whose delimiter is not their version's. Seven values to set |
| `EfileFeed` | the RSS extractor over symbols. `FeedReadsBack`: each listed filing that has a number is read once, in order, with its own parts; of a document cut off, all before the cut. Two entries, cut after any symbol |
| `OpenFecPages` | paging and 429s. `ListingIsRead`: no row missed though rows are added, bounded retries and waits. Proved (below) |
| `FilingLag` | the join of three endpoints by batches, and the stages and counts of `lag`. `LagIsTold`: a filing's status in a batch is its status alone, the summary is of its rows, a count that is missing has its reason. One image number stands for the range |
| `AcceptanceRules` | every rule of `validate.rs` over kinds of values. `AcceptanceIsOfItsLines`: the verdict does not depend on the order of the lines, skipped lines or age, and removing a line nothing refers to makes no filing unacceptable, and the counts by rule are of the findings in whatever order they were made |
| `ReportRules`, `Reconcile` | the summary arithmetic of F3, F3X and F3P and their chains, from their formulas. `BooksTellRight`: honest books balance alone and together, no single wrong amount passes, a missing or doubled report shows. Three reports, years of two days; which lines a committee carries is external |
| `Review` | the rules of a report and of a report with its period. `ReviewAsOneReport`: where the books of a period are closed does not change what is found on the last report's lines. Words are abstracted to kinds; a filer's own aggregates are read only from the report reviewed |
| `WebCheck` | the FEC's validator beside ours. Messages are sequences of words, matched as the code does: a template's words in order, anywhere in the message, of all text cells of the item. `EveryFindingIsSettled`: every finding told is read whole, is matched at most once and only with a rule whose words it has, and none that could still be matched is left on both sides; where no message has the words of two of the rules found in that field, as many are matched as can be. Where one has, pairing is greedy and may leave more over (section 13) |
| `Workbench` | the page: one filing open, edits on cards and in the table, checks some time later, answers in any order. `PageIsOfTheFiling`: settled findings are of the fields as they are, the Edits tab is the difference, what is drawn is the view. Sorting, column layout, cover-card redraws and downloads are left out |

*Proved*, for any page size, retry limits, answers and additions: `ListingsAreRead`
(`ListingIsRead` of `OpenFecPages`). Listings are newest first (`NewestFirst`), so
a row that is added only moves others to later places; hence every row that was
there at the start and is not yet read lies beyond what has been asked for
(`Reached`), no place is read twice (`NoMoreThanAsked`), and each attempt slept for
no longer than its share (`SleptPerAttempt`).

*Proved*, for any filings, finitely many lines and any texts (`LinesAssumption`):
`ThePageIsOfTheFiling` (`PageIsOfTheFiling` of `Workbench`). The inductive invariant
adds where a check's answer comes from: a check on its way of the open filing carries
its fields as they are, for an edit since has started the timer, and with it another
check (`CheckCarriesTheFields`); an open editor remembers what its field holds, the
table has the open filing's rows, and only a drawing that is put off leaves what is
drawn behind the view (`PutOffIsDrawn`).
That rows stand where they are clicked rests on `LinesInOrderAre`: a finite set of
lines has one increasing enumeration.

## 11. Assumptions shared by the models

PostgreSQL is READ COMMITTED with first-come queues and a deadlock detector;
rename is atomic; the FEC's services answer what their pages say or fail. No
run assumes fairness except `chains_one_chain`, `watch_restarts` and
`dump_resumes`, whose sections say why the code justifies it.

## 12. What is proved, checked only, and not modelled

*Proved for every value of the constants*: the theorems of sections 3 to 10
(`theorems` in `PROJECT.json`), by inductive invariants that TLC checked first.

*Checked only*: liveness under fairness (`EveryCallEnds`, `EveryItemDealtWith`,
`EventuallyDownloaded`) and `ENABLED`, which the prover does not handle; what
recursive definitions compute (sections 9 and 10), which needs induction over
data; and the other sequential commands of section 9.

*Not modelled*: the components marked so in `PROJECT.json`, each with its reason.
Inside the modelled ones: wording, progress bars, statistics, character
classes, dates and money as text, the schedule E lines an ingest stores beside
its header (same transaction, and nothing modelled reads them there).

Some hazards are named here without a property. A filing whose download or
ingest failed is recorded as seen and not tried again (`efile.rs:225`,
documented). Two processes share one `.partial` of a dump
(`dump.rs:955`, `NothingSpliced`). Two lists refused at once (`api.js:57`). A
candidate page left while its card is under way (`data.js:227`). A fetch that
times out frees its slot but not its thread (`tools.rs:292`, `AtMostSlots`). An
archive body that is no zip is cached for good (`efile.rs:436`).

## 13. Where the code and its comments disagree

The first two are runs that TLC ends with a counterexample; `findings` in
`PROJECT.json` quotes the line.

| Run | In short |
|---|---|
| `chains_resolve_all_race` | resolving the whole table takes no chain lock and can overwrite a concurrent ingest's columns with older ones |
| `bulk_sample_then_if_changed` | the newest full load counts as current though a sample has replaced its rows, so `--if-changed` skips |

The others were met while modelling. Where a definition is named it states the
promise and does not hold, and the properties above leave the case out by name.

* Two more schedules break `DerivedCurrent`: two first ingests of one id from
  files that name different originals (`FOR UPDATE` finds no row), and an
  original ingested while an amendment of its amendment is.
* `MovesDoNotDeadlock` (`AmendmentChains`): taking both chain locks in order
  (`ingest.rs:272`) does not prevent deadlocks, because row locks are taken too.
* Two writers of one cached document share the fixed `.partial` name
  (`cache.rs:15`), so one may rename the other's empty file; a failed write whose
  removal of its `.partial` fails too leaves it without a word (`cache.rs:236`);
  two downloaders of
  one dump can splice versions (`dump.rs:905`, `NothingSpliced`).
* With a namespace named `public`, an unqualified DROP VIEW may be another
  namespace's (`db/mod.rs:24`, `301`).
* `stream.rs:31` says what is received is always complete; after an I/O error
  the record held back is released without its text block.
* `writer.rs:8` promises a round trip; a Form 99 whose text holds a line
  `[ENDTEXT]`, or a block text that begins and ends with a quote, does not
  (`writer.rs:164`). A CR before a line feed of a text that was set is lost in a
  block (`writer.rs:174`), and a delimiter at the end of a set value becomes a
  space that the reader trims. A comma-delimited file that declares 6.0 or later is
  written with ASCII 28. `utils.rs:47` says VT is trimmed, and it is not.
* Workbench: the findings of a check land in a filing opened meanwhile
  (`workbench.js:440`, `~crossed`); a late layout gives a table another filing's
  rows (`workbench.js:545`, `~strayed`).
* Data pages: answers out of order mislabel a list's rows; two lists refused at
  once both ask for the key and only the second is tried again; after a failed
  Next the offset stays advanced; a candidate page left quickly shows another's
  expenditures.
* `webcheck.rs:1376` pairs greedily: where a message has the words of two of the
  rules found in one field, the first takes it, and the other may be left without
  though the two could be paired (`WordingsApart` leaves this out).
* Filing tools: `tools.rs:483` says the first inconsistency is reported, but all
  records are built before any token is looked up, so one whose token no table
  has is passed over for a later one. `SentBackUnchanged` (`tools.rs:352`) fails
  for a TEXT record of versions 3 to 5; `AtMostSlots` (`tools.rs:64`), since a
  timed-out thread goes on.
* `filings --limit 0` takes one filing (`filings.rs:663`). A filing that fails
  an action and the chain is counted twice. An archive entry named with digits
  and no `.fec` is taken, though `efile.rs` says it is skipped. A file before
  6.0 with a blank second line has no form type for `peek_form_type`, though the
  parser skips the blank line.
* Preflight judges a shared disk twice, once for each use. Connecting creates
  the namespace's schema though `--explain` says nothing is changed
  (`preflight.rs:9` admits it).
* `lag`: "pending" counts only filings with a received date; a count is missing
  without a reason where a `/filings/` row had no committee id.
* `bulk-dump-compare` reads its statements outside a transaction, so a restore or
  an ingest between them mixes two states; its matched column shows raw matches for both
  sides when ids repeat.
* An SQLite export whose COMMIT succeeded and whose `metadata()` then fails
  reports an error though it is stored.
* `validate.rs:1453` says a phone number of the wrong length is reported once; one
  that is too long is also reported as such (`validate.rs:1437`).
