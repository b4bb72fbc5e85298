------------------------------ MODULE BulkLoad ------------------------------
(***************************************************************************)
(* bulk::load: one bulk file of one cycle into its table. The file is      *)
(* staged outside the database, then one transaction at READ COMMITTED     *)
(* deletes the cycle's rows (unless --append), copies the staged rows and  *)
(* writes the log. With --if-changed the server is asked first whether its *)
(* file is the one of the last full load.                                  *)
(*                                                                         *)
(* Loaders are processes or calls of the library. A row remembers the load *)
(* that wrote it (`by`), which tells a row from an equal one written later.*)
(***************************************************************************)
EXTENDS Integers, Sequences, FiniteSets

CONSTANTS Loaders,
          Workloads,      \* functions: the calls each loader may make
          Lines,          \* Lines[v]: the lines of version v of the FEC's file
          Tag, Date,      \* what the server says of each version, or None
          None,
          LongLinesPass,  \* source.allow_extra_trailing_fields
          Threshold,      \* options.confirm_threshold
          MaxLoads        \* bound: calls in all

Versions == DOMAIN Lines
Modes    == {"replace", "append"}
Calls    == [mode : Modes, limit : Nat \cup {None}, ifChanged : BOOLEAN,
             confirmed : BOOLEAN, from : {"url", "file"}]

ASSUME WorkloadAssumption == Workloads \subseteq [Loaders -> SUBSET Calls]
ASSUME FileAssumption ==
    /\ Lines # << >>
    /\ Lines \in Seq(Seq([key : Nat, kind : {"row", "blank", "short", "long"},
                          date : {"good", "bad", "none"}]))
ASSUME BoundAssumption == Threshold \in Nat /\ MaxLoads \in Nat /\ None \notin Nat

Meta(v) == [tag |-> Tag[v], date |-> Date[v]]
Unknown == [tag |-> None, date |-> None]

VARIABLES
    jobs,       \* the workload
    published,  \* the version the FEC serves
    table,      \* the committed rows of the cycle
    log,        \* the rows of `loads`, in the order of commit
    clock,      \* now()
    pc, call,   \* what each loader does next, and its options
    calls,      \* loads begun so far
    prev,       \* the log row it compares the server's file with
    counted,    \* how often anybody had loaded when it counted (history)
    staged,     \* the staged file: its lines, dates nulled, meta, version
    began,      \* now() in its transaction
    snapshot,   \* the rows its DELETE saw
    doomed,     \* the rows it has deleted and not committed
    copied      \* the rows it has copied and not committed

server == <<jobs, published>>
db     == <<table, log, clock>>
mine   == <<prev, counted, staged>>
tx     == <<began, snapshot, doomed, copied>>
vars   == <<server, db, pc, call, calls, mine, tx>>

NoFile == [lines |-> {}, nulled |-> 0, meta |-> Unknown, of |-> None]
NoCall == [mode |-> "append", limit |-> None, ifChanged |-> FALSE,
           confirmed |-> FALSE, from |-> "file"]

Init ==
    /\ jobs \in Workloads
    /\ published = 1
    /\ table = {} /\ log = << >> /\ clock = 0
    /\ pc = [l \in Loaders |-> "idle"]
    /\ call = [l \in Loaders |-> NoCall]
    /\ calls = 0
    /\ prev = [l \in Loaders |-> Unknown]
    /\ counted = [l \in Loaders |-> 0]
    /\ staged = [l \in Loaders |-> NoFile]
    /\ began = [l \in Loaders |-> 0]
    /\ snapshot = [l \in Loaders |-> {}]
    /\ doomed = [l \in Loaders |-> {}]
    /\ copied = [l \in Loaders |-> {}]

GoTo(l, label) == pc' = [pc EXCEPT ![l] = label]

-----------------------------------------------------------------------------
(* The FEC publishes the next file. *)
Publish ==
    /\ published + 1 \in Versions
    /\ published' = published + 1
    /\ UNCHANGED <<jobs, db, pc, call, calls, mine, tx>>

(* The replace guard, or the download when there is nothing to guard. *)
Guarded(c) == IF c.mode = "replace" /\ ~c.confirmed THEN "count" ELSE "get"

Call(l) ==
    /\ pc[l] = "idle" /\ calls < MaxLoads
    /\ \E c \in jobs[l] :
         /\ call' = [call EXCEPT ![l] = c]
         /\ GoTo(l, IF c.ifChanged /\ c.from = "url" THEN "last" ELSE Guarded(c))
    /\ calls' = calls + 1
    /\ UNCHANGED <<server, db, mine, tx>>

(* Mutant: samples count as full loads. *)
AnyLoads == DOMAIN log

(* last_full_load: the row without a limit that has the latest loaded_at. *)
FullLoads == {i \in DOMAIN log : log[i].limit = None}

LastFullLoad(l) ==
    /\ pc[l] = "last"
    /\ IF FullLoads = {} THEN GoTo(l, Guarded(call[l])) /\ UNCHANGED prev
       ELSE \E i \in FullLoads :
              /\ \A j \in FullLoads : log[j].at <= log[i].at
              /\ prev' = [prev EXCEPT ![l] = log[i].meta]
              /\ GoTo(l, "head")
    /\ UNCHANGED <<server, db, call, calls, counted, staged, tx>>

(* RemoteMeta::matches: the tags if both have one, else the dates. *)
Matches(a, b) ==
    \/ a.tag # None /\ b.tag # None /\ a.tag = b.tag
    \/ (a.tag = None \/ b.tag = None) /\ a.date # None /\ a.date = b.date

(* head_metadata, which may fail; a match ends the call. *)
HeadMetadata(l) ==
    /\ pc[l] = "head"
    /\ \E answer \in {Meta(published), Unknown} :
         GoTo(l, IF Matches(answer, prev[l]) THEN "idle" ELSE Guarded(call[l]))
    /\ UNCHANGED <<server, db, call, calls, mine, tx>>

(* Mutant: a sample is let through. *)
CountUnlessSample(l) ==
    /\ pc[l] = "count"
    /\ counted' = [counted EXCEPT ![l] = Len(log)]
    /\ GoTo(l, IF Cardinality(table) > Threshold /\ call[l].limit = None
               THEN "idle" ELSE "get")
    /\ UNCHANGED <<server, db, call, calls, prev, staged, tx>>

(* count_rows against the threshold: ConfirmationRequired, or go on. *)
Count(l) ==
    /\ pc[l] = "count"
    /\ counted' = [counted EXCEPT ![l] = Len(log)]
    /\ GoTo(l, IF Cardinality(table) > Threshold THEN "idle" ELSE "get")
    /\ UNCHANGED <<server, db, call, calls, prev, staged, tx>>

-----------------------------------------------------------------------------
(* stage_to_temp_csv: the lines it stages. Blank ones are skipped; the     *)
(* limit is looked at after a row is written, so that it never takes fewer *)
(* than one; what is beyond it is not read.                                *)
RowsBefore(v, i) == Cardinality({j \in 1..(i - 1) : Lines[v][j].kind # "blank"})

Staged(v, limit) ==
    {i \in DOMAIN Lines[v] :
        /\ Lines[v][i].kind # "blank"
        /\ limit = None \/ RowsBefore(v, i) = 0 \/ RowsBefore(v, i) < limit}

(* MalformedRow: too few fields, or too many where that is not allowed. *)
Malformed(v, lines) ==
    \E i \in lines :
        \/ Lines[v][i].kind = "short"
        \/ Lines[v][i].kind = "long" /\ ~LongLinesPass

(* A date that is there and does not parse becomes NULL. *)
Nulled(v, lines) == Cardinality({i \in lines : Lines[v][i].date = "bad"})

(* The version read: the server's, or whatever a local file is a copy of. *)
Sources(c) == IF c.from = "url" THEN {published} ELSE Versions

(* The download is one step, to a file of its own that goes when the call   *)
(* does. The meta is that of the answer that carried the body.              *)
Stage(l) ==
    /\ pc[l] = "get"
    /\ \E v \in Sources(call[l]) :
         LET lines == Staged(v, call[l].limit)
         IN  /\ staged' = [staged EXCEPT ![l] =
                    [lines |-> lines, nulled |-> Nulled(v, lines), of |-> v,
                     meta |-> IF call[l].from = "url" THEN Meta(v) ELSE Unknown]]
             /\ GoTo(l, IF Malformed(v, lines) THEN "idle" ELSE "begin")
    /\ UNCHANGED <<server, db, call, calls, prev, counted, tx>>

(* The connection or the archive fails. *)
StageFails(l) ==
    /\ pc[l] = "get"
    /\ GoTo(l, "idle")
    /\ UNCHANGED <<server, db, call, calls, mine, tx>>

-----------------------------------------------------------------------------
(* BEGIN, whose time is what now() says until the end. *)
Begin(l) ==
    /\ pc[l] = "begin"
    /\ clock' = clock + 1
    /\ began' = [began EXCEPT ![l] = clock + 1]
    /\ GoTo(l, IF call[l].mode = "replace" THEN "delete" ELSE "copy")
    /\ UNCHANGED <<server, table, log, call, calls, mine, snapshot, doomed, copied>>

(* DELETE: it sees what is committed now ... *)
Delete(l) ==
    /\ pc[l] = "delete"
    /\ snapshot' = [snapshot EXCEPT ![l] = table]
    /\ GoTo(l, "deleting")
    /\ UNCHANGED <<server, db, call, calls, mine, began, doomed, copied>>

(* Mutant: the DELETE is committed by itself. *)
DeletedForGood(l) ==
    /\ pc[l] = "deleting"
    /\ \A k \in Loaders : doomed[k] \cap snapshot[l] = {}
    /\ table' = table \ snapshot[l]
    /\ GoTo(l, "copy")
    /\ UNCHANGED <<server, log, clock, call, calls, mine, tx>>

(* ... waits for those who are deleting the same rows, and skips what they  *)
(* have deleted. (Row locks are taken in the table's order, all at once.)   *)
Deleted(l) ==
    /\ pc[l] = "deleting"
    /\ \A k \in Loaders : doomed[k] \cap snapshot[l] = {}
    /\ doomed' = [doomed EXCEPT ![l] = snapshot[l] \cap table]
    /\ GoTo(l, "copy")
    /\ UNCHANGED <<server, db, call, calls, mine, began, snapshot, copied>>

CopyOf(v, i, by) == [key |-> Lines[v][i].key, of |-> v, by |-> by]
Rows(l)       == {CopyOf(staged[l].of, i, began[l]) : i \in staged[l].lines}
Keys(rows)    == {r.key : r \in rows}

(* A key of the file that is in the table, or twice in the file. *)
Duplicate(l) ==
    \/ Keys(Rows(l)) \cap Keys(table \ doomed[l]) # {}
    \/ \E i, j \in staged[l].lines :
          i # j /\ Lines[staged[l].of][i].key = Lines[staged[l].of][j].key

(* COPY waits for those who are writing or deleting one of its keys; then   *)
(* it fails on a key that is there, and the transaction is rolled back.     *)
Copy(l) ==
    /\ pc[l] = "copy"
    /\ \A k \in Loaders \ {l} :
           Keys(Rows(l)) \cap Keys(doomed[k] \cup copied[k]) = {}
    /\ ~Duplicate(l)
    /\ copied' = [copied EXCEPT ![l] = Rows(l)]
    /\ GoTo(l, "commit")
    /\ UNCHANGED <<server, db, call, calls, mine, began, snapshot, doomed>>

Entry(l) == [limit |-> call[l].limit, mode |-> call[l].mode, at |-> began[l],
             meta |-> staged[l].meta, of |-> staged[l].of,
             rows |-> Cardinality(staged[l].lines), nulled |-> staged[l].nulled]

(* The log row and COMMIT. *)
Commit(l) ==
    /\ pc[l] = "commit"
    /\ table' = (table \ doomed[l]) \cup copied[l]
    /\ log' = Append(log, Entry(l))
    /\ doomed' = [doomed EXCEPT ![l] = {}]
    /\ copied' = [copied EXCEPT ![l] = {}]
    /\ GoTo(l, "idle")
    /\ UNCHANGED <<server, clock, call, calls, mine, began, snapshot>>

(* A duplicate key, any other error of a statement, or the loader's death. *)
Rollback(l) ==
    /\ pc[l] \in {"delete", "deleting", "copy", "commit"}
    /\ doomed' = [doomed EXCEPT ![l] = {}]
    /\ copied' = [copied EXCEPT ![l] = {}]
    /\ GoTo(l, "idle")
    /\ UNCHANGED <<server, db, call, calls, mine, began, snapshot>>

Load(l) ==
    \/ Call(l) \/ LastFullLoad(l) \/ HeadMetadata(l) \/ Count(l)
    \/ Stage(l) \/ StageFails(l)
    \/ Begin(l) \/ Delete(l) \/ Deleted(l) \/ Copy(l) \/ Commit(l) \/ Rollback(l)

Next == Publish \/ \E l \in Loaders : Load(l)

Spec == Init /\ [][Next]_vars

-----------------------------------------------------------------------------
(* Rows written so far, as a reader sees them. *)
Visible == {[key |-> r.key, of |-> r.of] : r \in table}

File(v, limit) == {[key |-> Lines[v][i].key, of |-> v] : i \in Staged(v, limit)}

Limits == {c.limit : c \in UNION {w[l] : w \in Workloads, l \in Loaders}}

Promise == INSTANCE BulkTable WITH
    content <- Visible,
    Files <- {File(v, n) : v \in Versions, n \in Limits}

(* Everybody replaces. *)
AllReplace == \A l \in Loaders : \A c \in jobs[l] : c.mode = "replace"

(* Any two files that may be staged have a row in common: the FEC adds to a *)
(* cycle's file at its end.                                                 *)
FilesMeet ==
    \A v, w \in Versions : \A m, n \in Limits : Keys(File(v, m)) \cap Keys(File(w, n)) # {}

(* Whatever the loaders do at once, with samples and local files too, the  *)
(* table goes from one staged file to another in one step: a second DELETE *)
(* that missed the first loader's rows cannot be followed by a COPY.       *)
ImplementsTable == [][AllReplace /\ FilesMeet => UNCHANGED Visible \/ Promise!Next]_vars

(* One loader replaces or loads whole files of the server; the others add  *)
(* samples and local files, and do not ask whether the file is a new one.  *)
Replaces(l) ==
    /\ \A c \in jobs[l] : c.mode = "replace" => c.limit = None
    /\ \A k \in Loaders \ {l} : \A c \in jobs[k] :
          c.mode = "append" /\ ~c.ifChanged /\ (c.limit # None \/ c.from = "file")

OneReplacer == \E l \in Loaders : Replaces(l)

(* What the server says of a file is said of no other. *)
MetasTell == \A v, w \in Versions : Matches(Meta(v), Meta(w)) => v = w

Skips(l) == pc[l] = "head" /\ pc'[l] = "idle"

(* "skipped: unchanged" is said only while every row of the file that the  *)
(* server has is in the table.                                             *)
SkipsOnlyWhatIsThere ==
    [][\A l \in Loaders : Skips(l) /\ OneReplacer /\ MetasTell =>
            File(published, None) \subseteq Visible]_vars

(* Without --yes, more rows than the threshold are deleted only if someone *)
(* loaded after they were counted.                                         *)
UnconfirmedDeletesLittle ==
    \A l \in Loaders :
        Cardinality(doomed[l]) > Threshold /\ ~call[l].confirmed
            => Len(log) > counted[l]

Labels == {"idle", "last", "head", "count", "get", "begin", "delete", "deleting",
           "copy", "commit"}
Values(S) == S \cup {None}
Metas     == [tag : Values({Tag[v] : v \in Versions}),
              date : Values({Date[v] : v \in Versions})]
Rowset    == [key : Nat, of : Versions, by : Nat]
StagedFile == [lines : SUBSET Nat, nulled : Nat, meta : Metas, of : Values(Versions)]
LogRow(now) == [limit : Values(Nat), mode : Modes, at : 1..now, meta : Metas,
                of : Versions, rows : Nat, nulled : Nat]

TypeOK ==
    /\ jobs \in Workloads
    /\ published \in Versions
    /\ table \subseteq Rowset
    /\ \A r, s \in table : r.key = s.key => r = s
    /\ log \in Seq(LogRow(clock))
    /\ clock \in Nat /\ calls \in 0..MaxLoads
    /\ pc \in [Loaders -> Labels]
    /\ call \in [Loaders -> Calls]
    /\ prev \in [Loaders -> Metas]
    /\ counted \in [Loaders -> Nat]
    /\ staged \in [Loaders -> StagedFile]
    /\ began \in [Loaders -> 0..clock]
    /\ snapshot \in [Loaders -> SUBSET Rowset]
    /\ doomed \in [Loaders -> SUBSET table]
    /\ copied \in [Loaders -> SUBSET Rowset]
=============================================================================
