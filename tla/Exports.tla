------------------------------ MODULE Exports ------------------------------
(***************************************************************************)
(* `hardmoney export`: the records of a filing as they are read, one output *)
(* table per table of the filing, into a directory of files or into an     *)
(* SQLite database. Exports follow each other, as a loop over filings does *)
(* or as SQLite's lock makes them; each may fail in the middle or be       *)
(* killed. What is read and how is FilingStream's.                         *)
(***************************************************************************)
EXTENDS Integers, Sequences, SequencesExt, FiniteSets

CONSTANTS Exported,     \* the filings: the table of each record, the cover first; where
                        \* the reader fails, or 0; the columns of this version
          ExportJobs,   \* [filing, format, only, withId]
          AllTables,    \* no --only
          BatchRows,    \* parquet_out::BATCH_ROWS
          MaxExports    \* bound

ASSUME ExportsAssumption ==
    /\ \A f \in DOMAIN Exported : Exported[f].records \in Seq(Range(Exported[f].records))
    /\ \A job \in ExportJobs : job.filing \in DOMAIN Exported

VARIABLES
    dir,       \* the files of the output directory: table and format -> rows, whole
    database,  \* what is committed: columns of each table, rows, and `filings`
    exporting, \* the export under way
    exported,  \* how many were begun
    report,    \* what the last export into the directory said, or << >>
    intoDb     \* the exports into the database that succeeded, and how many rows there
               \* were before each (history)

exportVars == <<dir, database, exporting, exported, report, intoDb>>

NoDatabase == [columns |-> << >>, rows |-> << >>, filings |-> << >>]
NotExporting == [job |-> [format |-> "none"], next |-> 0, open |-> << >>, tx |-> NoDatabase]

ExportInit ==
    /\ dir = << >> /\ database = NoDatabase
    /\ exporting = NotExporting /\ exported = 0
    /\ report = << >> /\ intoDb = << >>

Job       == exporting.job
Idle      == exporting = NotExporting
RecordsOf(job) == Exported[job.filing].records
RowAt(job, i)  == [filing |-> job.filing, line |-> i, table |-> RecordsOf(job)[i]]

\* The cover line is asked about, the body is filtered by the reader.
Chosen(job, i) == job.only = AllTables \/ RecordsOf(job)[i] \in job.only
-----------------------------------------------------------------------------
\* open_sink: SQLite begins its transaction and describes the filing.
ExportBegins ==
    /\ Idle /\ exported < MaxExports
    /\ \E job \in ExportJobs :
        /\ exporting' = [job |-> job, next |-> 1, open |-> << >>,
                         tx |-> [database EXCEPT !.filings = Append(@, job.filing)]]
        /\ report' = IF job.format = "sqlite" THEN report ELSE << >>
    /\ exported' = exported + 1
    /\ UNCHANGED <<dir, database, intoDb>>

OpenAt(t) == {k \in DOMAIN exporting.open : exporting.open[k].table = t}

\* line_no is always there.
RowColumns == Exported[Job.filing].columns \cup IF Job.withId THEN {"filing_id"} ELSE {}

\* CREATE TABLE IF NOT EXISTS: an older table keeps its columns.
ColumnsOf(t) == IF t \in DOMAIN exporting.tx.columns THEN exporting.tx.columns[t] ELSE RowColumns

IntoDirectory == Job.format # "sqlite"

\* A parquet file is written batch by batch; the rest of a batch is pending.
BatchedRow(o, row) ==
    LET pending == Append(o.pending, row)
    IN  IF Len(pending) < BatchRows THEN [o EXCEPT !.pending = pending]
        ELSE [o EXCEPT !.rows = @ \o pending, !.pending = << >>]
TextRow(o, row) == [o EXCEPT !.rows = Append(@, row)]
WithRow(o, row) == IF Job.format = "parquet" THEN BatchedRow(o, row) ELSE TextRow(o, row)

NewFile(t)   == [table |-> t, rows |-> << >>, pending |-> << >>]
EmptyFile    == [rows |-> << >>, whole |-> FALSE]
PathFor(t)   == <<t, Job.format>>
With(f, k, v) == [x \in DOMAIN f \cup {k} |-> IF x = k THEN v ELSE f[x]]

RecordLeft == ~Idle /\ exporting.next <= Len(RecordsOf(Job))
ReaderFails == exporting.next = Exported[Job.filing].breaksAt
Insertable(t) == ~IntoDirectory => RowColumns \subseteq ColumnsOf(t)

\* The first record of a table opens its output, truncating a file that is there.
WriteRecord ==
    /\ RecordLeft /\ ~ReaderFails /\ Chosen(Job, exporting.next)
    /\ LET i == exporting.next
           t == RecordsOf(Job)[i]
           open == IF OpenAt(t) = {} THEN Append(exporting.open, NewFile(t)) ELSE exporting.open
           tx == exporting.tx
       IN  /\ Insertable(t)
           /\ exporting' =
                 [job  |-> Job,
                  next |-> i + 1,
                  open |-> [k \in DOMAIN open |-> IF open[k].table = t THEN WithRow(open[k], RowAt(Job, i))
                                                  ELSE open[k]],
                  tx   |-> IF IntoDirectory THEN tx
                           ELSE [tx EXCEPT !.columns = With(@, t, ColumnsOf(t)),
                                           !.rows = Append(@, RowAt(Job, i))]]
           /\ dir' = IF IntoDirectory /\ OpenAt(t) = {}
                     THEN With(dir, PathFor(t), EmptyFile) ELSE dir
    /\ UNCHANGED <<database, exported, report, intoDb>>

PassOver ==
    /\ RecordLeft /\ ~ReaderFails /\ ~Chosen(Job, exporting.next)
    /\ exporting' = [exporting EXCEPT !.next = @ + 1]
    /\ UNCHANGED <<dir, database, exported, report, intoDb>>

\* finish of each file: the pending batch, then the footer.
FooterOnly(o) == o.rows
Flushed(o) == o.rows \o o.pending

\* The reader's rows, table by table, as the sinks leave them.
FilesClosed(written, whole) ==
    [f \in DOMAIN dir |->
        IF OpenAt(f[1]) = {} \/ f[2] # Job.format THEN dir[f]
        ELSE [rows |-> written[CHOOSE k \in OpenAt(f[1]) : TRUE], whole |-> whole]]

ReportOf(open) == [job |-> Job, tables |-> [k \in DOMAIN open |-> open[k].table]]

ExportEnds ==
    /\ ~Idle /\ exporting.next > Len(RecordsOf(Job))
    /\ IF ~IntoDirectory
       THEN /\ database' = exporting.tx /\ intoDb' = Append(intoDb, [job |-> Job, after |-> Len(database.rows)])
            /\ UNCHANGED <<dir, report>>
       ELSE /\ dir' = FilesClosed([k \in DOMAIN exporting.open |-> Flushed(exporting.open[k])], TRUE)
            /\ report' = <<ReportOf(exporting.open)>>
            /\ UNCHANGED <<database, intoDb>>
    /\ exporting' = NotExporting
    /\ UNCHANGED exported

\* A dropped sink: the transaction is rolled back, the text files are flushed,
\* a parquet file has no footer.
CommittedOnDrop(tx) == tx
RolledBack(tx) == database

ExportFails ==
    /\ ~Idle
    /\ database' = RolledBack(exporting.tx)
    /\ dir' = FilesClosed([k \in DOMAIN exporting.open |-> FooterOnly(exporting.open[k])], Job.format # "parquet")
    /\ exporting' = NotExporting
    /\ UNCHANGED <<exported, report, intoDb>>

\* A kill: what had been written of the text files may be less.
ExportKilled ==
    /\ ~Idle
    /\ \E n \in 0..exporting.next :
           LET Cut(rows) == SubSeq(rows, 1, IF n < Len(rows) THEN n ELSE Len(rows))
           IN  dir' = FilesClosed([k \in DOMAIN exporting.open |-> Cut(exporting.open[k].rows)], FALSE)
    /\ exporting' = NotExporting
    /\ UNCHANGED <<database, exported, report, intoDb>>

ExportNext == ExportBegins \/ WriteRecord \/ PassOver \/ ExportEnds \/ ExportFails \/ ExportKilled

ExportSpec == ExportInit /\ [][ExportNext]_exportVars
-----------------------------------------------------------------------------
\* The rows of some lines, and of those selected, in the filing's order.
RowsOf(job, some) ==
    [k \in 1..Cardinality(some) |->
        RowAt(job, CHOOSE i \in some : Cardinality({j \in some : j < i}) = k - 1)]
Selected(job) == {i \in DOMAIN RecordsOf(job) : job.only = AllTables \/ RecordsOf(job)[i] \in job.only}

TablesOf(job)   == {RecordsOf(job)[i] : i \in Selected(job)}
OfTable(job, t) == {i \in Selected(job) : RecordsOf(job)[i] = t}

CommittedBefore(k) == IF k \in DOMAIN intoDb THEN intoDb[k].after ELSE Len(database.rows)

(* The database holds the exports that succeeded, each whole and one after *)
(* the other, and nothing of one that failed, was killed, or met a table   *)
(* without its columns.                                                    *)
DatabaseHoldsWholeExports ==
    /\ CommittedBefore(1) = 0
    /\ \A k \in DOMAIN intoDb :
          LET rows == RowsOf(intoDb[k].job, Selected(intoDb[k].job))
          IN  /\ CommittedBefore(k + 1) = CommittedBefore(k) + Len(rows)
              /\ \A i \in DOMAIN rows : database.rows[CommittedBefore(k) + i] = rows[i]
    /\ database.filings = [k \in DOMAIN intoDb |-> intoDb[k].job.filing]

(* What an export reports it wrote is in the directory: a file for each    *)
(* table of what was selected, with all its records in the filing's order, *)
(* whatever earlier exports left there under the same names.               *)
FilesAreTheFiling ==
    \A r \in Range(report) :
        /\ Range(r.tables) = TablesOf(r.job)
        /\ \A t \in TablesOf(r.job) :
              LET file == dir[<<t, r.job.format>>]
              IN  file.whole /\ file.rows = RowsOf(r.job, OfTable(r.job, t))

(* Whatever failed or was killed between two exports: what is kept is whole. *)
ExportsAreWhole == DatabaseHoldsWholeExports /\ FilesAreTheFiling
=============================================================================
