---------------------------- MODULE DumpRestore ----------------------------
(***************************************************************************)
(* What becomes of a downloaded dump: bulk-restore-dump and the guided     *)
(* `dumps` import, update and remove (bulk::dump::restore_with, cli::      *)
(* dumps), pg_restore as a program that goes on past its errors, the views *)
(* that every namespace has over the shared table (db::ensure_views), and  *)
(* the records of the restores in each namespace's `loads`.                *)
(*                                                                         *)
(* One dump: its parent table and, for a split dump, a child per cycle. A  *)
(* table holds the versions that were copied into it, in order. There is   *)
(* no transaction around a restore: each statement commits by itself.      *)
(***************************************************************************)
EXTENDS Integers, Sequences, FiniteSets

CONSTANTS Restorers, Servers,  \* processes: `dumps` commands; serve, schema-init
          Namespaces, Public,  \* schemas, and the one on every search_path
          Home,                \* the namespace of each process
          Workloads,           \* a dump, and the commands each restorer may give
          Cycles, ThisCycle,   \* the children the FEC may have; the current one
          ByDate,              \* versions are told by date, not by ETag
          NoVersion, NoProc,
          MaxRuns              \* bound: commands and server starts

Parent       == 0
Tables       == {Parent} \cup Cycles
Procs        == Restorers \cup Servers
Absent       == << -1 >>     \* the content of a table that is not there

(* A dump: whether it is split by cycle, whether it is large, and which     *)
(* children each version of it has.                                         *)
Dumps == [split : BOOLEAN, large : BOOLEAN, children : Seq(SUBSET Cycles)]

Commands == [cmd : {"restore", "import", "update", "remove", "index"}, cycles : SUBSET Cycles,
             dataOnly : BOOLEAN, allowLarge : BOOLEAN, keepFile : BOOLEAN,
             file : Nat]

ASSUME WorkloadAssumption ==
    \A w \in Workloads :
        /\ w.dump \in Dumps /\ w.dump.children # << >>
        /\ ~w.dump.split => \A v \in DOMAIN w.dump.children : w.dump.children[v] = {}
        /\ w.plans \in [Restorers -> SUBSET Commands]
        /\ \A p \in Restorers : \A c \in w.plans[p] :
              c.file \in DOMAIN w.dump.children \cup {NoVersion}
ASSUME HomeAssumption  == Home \in [Procs -> Namespaces] /\ Restorers \cap Servers = {}
ASSUME BoundsAssumption ==
    /\ Cycles \subseteq Nat \ {Parent} /\ ThisCycle \in Cycles
    /\ NoVersion = 0 /\ NoProc \notin Procs /\ MaxRuns \in Nat

VARIABLES
    dump,     \* the dump
    plans,    \* the commands given in this behaviour
    onFec,    \* the version fec.gov serves
    cached,   \* the version of the complete download
    data,     \* what each table holds
    keyed,    \* the tables with the archive's primary key
    indexed,  \* the tables with hardmoney's indexes
    views,    \* the namespaces that have the view
    records,  \* each namespace's `loads` rows of restores, newest last
    broken,   \* tables a restore left unfinished or warned of (history)
    xlock,    \* who has the table exclusively
    shared,   \* who has it in ACCESS SHARE mode
    vlock,    \* who has each view
    step, cmd,    \* what each process does next, and its options
    archive,      \* the version it restores
    plan,         \* the tables to create and copy, the children to replace
    todo,         \* tables left in the step it is at
    disturbed,    \* somebody else changed the tables meanwhile (history)
    runs

given    == <<dump, plans>>
fec      == <<onFec, cached>>
content  == <<data, keyed, indexed>>
locks    == <<xlock, shared, vlock>>
own      == <<cmd, archive, plan, todo>>
restoreVars == <<given, fec, content, views, records, broken, locks, step, own,
                 disturbed, runs>>

NoPlan    == [tables |-> {}, partitions |-> {}, dataOnly |-> FALSE]
NoCommand == [cmd |-> "restore", cycles |-> {}, dataOnly |-> FALSE, allowLarge |-> FALSE,
              keepFile |-> FALSE, file |-> NoVersion]

RestoreInit ==
    /\ \E w \in Workloads : dump = w.dump /\ plans = w.plans
    /\ onFec = 1 /\ cached = NoVersion
    /\ data = [t \in Tables |-> Absent] /\ keyed = {} /\ indexed = {}
    /\ views = {} /\ records = [n \in Namespaces |-> << >>] /\ broken = {}
    /\ xlock = NoProc /\ shared = {} /\ vlock = [n \in Namespaces |-> NoProc]
    /\ step = [p \in Procs |-> "idle"]
    /\ cmd = [p \in Procs |-> NoCommand]
    /\ archive = [p \in Procs |-> NoVersion]
    /\ plan = [p \in Procs |-> NoPlan]
    /\ todo = [p \in Procs |-> {}]
    /\ disturbed = {} /\ runs = 0

DumpVersions  == DOMAIN dump.children
InArchive(v)  == IF v = NoVersion THEN {} ELSE dump.children[v]

At(p, label)  == step[p] = label
To(p, label)  == step' = [step EXCEPT ![p] = label]
Exists(t)     == data[t] # Absent
Disturbs(p)   == disturbed' = disturbed \cup {q \in Procs \ {p} : ~At(q, "idle")}

-----------------------------------------------------------------------------
(* The FEC's weekly refresh. *)
Refresh ==
    /\ onFec + 1 \in DumpVersions
    /\ onFec' = onFec + 1
    /\ UNCHANGED <<given, cached, content, views, records, broken, locks, step, own,
                   disturbed, runs>>

(* cycles_for: none for a dump that is one table, else those asked for or   *)
(* the current one.                                                         *)
CyclesFor(asked) == IF ~dump.split THEN {} ELSE IF asked = {} THEN {ThisCycle} ELSE asked
Refused(c)       == c.cmd = "import" /\ ~dump.split /\ c.cycles # {}

(* The options restore_with gets: those of bulk-restore-dump as they are,   *)
(* or those of a step of the guided commands (Step::options).               *)
Options(c) ==
    IF c.cmd = "restore" THEN c
    ELSE [c EXCEPT !.cycles = CyclesFor(c.cycles), !.dataOnly = dump.split, !.allowLarge = FALSE]

Start(p, c, label) ==
    /\ At(p, "idle") /\ runs < MaxRuns
    /\ runs' = runs + 1
    /\ cmd' = [cmd EXCEPT ![p] = c]
    /\ disturbed' = disturbed \ {p}
    /\ To(p, label)

RestoreDump(p) ==
    /\ \E c \in plans[p] : c.cmd = "restore" /\ Start(p, Options(c), "locate")
    /\ UNCHANGED <<given, fec, content, views, records, broken, locks, archive, plan, todo>>

Import(p) ==
    /\ \E c \in plans[p] : c.cmd = "import" /\ ~Refused(c) /\ Start(p, Options(c), "locate")
    /\ UNCHANGED <<given, fec, content, views, records, broken, locks, archive, plan, todo>>

-----------------------------------------------------------------------------
(* `dumps update`: what is in the database is compared with fec.gov.        *)
Validated(seq) == {i \in DOMAIN seq : seq[i].of # NoVersion}

(* DumpView::local_version: that of this namespace's newest record, else    *)
(* that of the download.                                                    *)
LocalVersion(n) ==
    LET seq == records[n]
    IN  IF seq # << >> /\ seq[Len(seq)].of # NoVersion THEN seq[Len(seq)].of ELSE cached

(* RemoteDump::is_newer_than. *)
IsNewer(remote, local) == IF ByDate THEN remote > local ELSE remote # local

CyclesPresent == {c \in Cycles : Exists(c)}

Outdated(n) == LocalVersion(n) # NoVersion /\ IsNewer(onFec, LocalVersion(n))

(* There is a newer file: the cycles that are there are imported again.     *)
Update(p) ==
    /\ Exists(Parent) /\ Outdated(Home[p])
    /\ \E c \in plans[p] :
         /\ c.cmd = "update"
         /\ Start(p, Options([c EXCEPT !.cycles = CyclesPresent]), "evict")
    /\ UNCHANGED <<given, fec, content, views, records, broken, locks, archive, plan, todo>>

(* "up to date": said if a version is known and fec.gov's is not newer. *)
SaysCurrent(n) == Exists(Parent) /\ LocalVersion(n) # NoVersion /\ ~Outdated(n)

(* evict_cached, after the confirmation. *)
Evict(p) ==
    /\ At(p, "evict")
    /\ cached' = NoVersion
    /\ To(p, IF cmd[p].cmd = "remove" THEN "idle" ELSE "locate")
    /\ UNCHANGED <<given, onFec, content, views, records, broken, locks, own, disturbed, runs>>

(* `dumps remove`: drop_restored, then the file. *)
Remove(p) ==
    /\ \E c \in plans[p] : c.cmd = "remove" /\ Start(p, c, IF Exists(Parent) THEN "lockTable" ELSE "look")
    /\ plan' = [plan EXCEPT ![p] = NoPlan]
    /\ UNCHANGED <<given, fec, content, views, records, broken, locks, archive, todo>>

-----------------------------------------------------------------------------
(* restore_with: LargeDumpNotAllowed, or the file given, the download that  *)
(* is there, or a new download (module DumpDownload).                       *)
Locate(p) ==
    /\ At(p, "locate")
    /\ IF dump.large /\ ~cmd[p].allowLarge /\ cmd[p].cycles = {}
       THEN To(p, "idle") /\ UNCHANGED <<cached, archive>>
       ELSE LET got == IF cached # NoVersion THEN cached ELSE onFec
            IN  /\ cached' = IF cmd[p].file # NoVersion THEN cached ELSE got
                /\ archive' = [archive EXCEPT ![p] =
                                 IF cmd[p].file # NoVersion THEN cmd[p].file ELSE got]
                /\ To(p, "plan")
    /\ UNCHANGED <<given, onFec, content, views, records, broken, locks, cmd, plan, todo,
                   disturbed, runs>>

(* plan_restore: NotPartitioned and MissingPartition end the call. *)
Plannable(p) == cmd[p].cycles = {} \/ cmd[p].cycles \subseteq InArchive(archive[p])

(* The parent is asked for only if it is not there. *)
PlanOf(p) ==
    [partitions |-> cmd[p].cycles,
     dataOnly   |-> cmd[p].dataOnly \/ cmd[p].cycles # {},
     tables     |-> IF cmd[p].cycles = {} THEN {Parent} \cup InArchive(archive[p])
                    ELSE cmd[p].cycles \cup (IF Exists(Parent) THEN {} ELSE {Parent})]

PlanRestore(p) ==
    /\ At(p, "plan")
    /\ IF Plannable(p)
       THEN /\ plan' = [plan EXCEPT ![p] = PlanOf(p)]
            /\ todo' = [todo EXCEPT ![p] = cmd[p].cycles]
            /\ To(p, IF cmd[p].cycles = {} THEN "lockTable" ELSE "dropChildren")
       ELSE To(p, "idle") /\ UNCHANGED <<plan, todo>>
    /\ UNCHANGED <<given, fec, content, views, records, broken, locks, cmd, archive,
                   disturbed, runs>>

-----------------------------------------------------------------------------
(* DROP TABLE ... CASCADE takes the table exclusively ... *)
LockTable(p) ==
    /\ At(p, "lockTable") /\ xlock = NoProc /\ shared = {}
    /\ xlock' = p
    /\ To(p, "dropTable")
    /\ UNCHANGED <<given, fec, content, views, records, broken, shared, vlock, own, disturbed, runs>>

AfterDrop(p) == IF cmd[p].cmd = "remove" THEN "look" ELSE "create"

(* ... then each view over it, and drops it with its children and views.    *)
DropTable(p) ==
    /\ At(p, "dropTable") /\ \A n \in views : vlock[n] = NoProc
    /\ xlock' = NoProc
    /\ data' = [t \in Tables |-> Absent]
    /\ keyed' = {} /\ indexed' = {} /\ views' = {} /\ broken' = {}
    /\ Disturbs(p)
    /\ To(p, AfterDrop(p))
    /\ UNCHANGED <<given, fec, records, shared, vlock, own, runs>>

(* Mutant: the children that are there are kept. *)
DropNoChild(p) ==
    /\ At(p, "dropChildren")
    /\ To(p, "create")
    /\ Disturbs(p)
    /\ UNCHANGED <<given, fec, content, views, records, broken, locks, own, runs>>

(* The children to be replaced, one statement each. A statement has its     *)
(* child exclusively and ends at once; no step of this module holds a lock  *)
(* on a child from one step to the next: a view locks only the parent.      *)
DropChild(p) ==
    /\ At(p, "dropChildren")
    /\ \E t \in todo[p] :
         /\ data' = [data EXCEPT ![t] = Absent]
         /\ keyed' = keyed \ {t} /\ indexed' = indexed \ {t} /\ broken' = broken \ {t}
         /\ todo' = [todo EXCEPT ![p] = @ \ {t}]
         /\ To(p, IF todo[p] = {t} THEN "create" ELSE "dropChildren")
    /\ Disturbs(p)
    /\ UNCHANGED <<given, fec, views, records, locks, cmd, archive, plan, runs>>

(* pg_restore, pre-data: CREATE fails for a table that is there and for a   *)
(* child without its parent, and pg_restore goes on.                        *)
Create(p) ==
    /\ At(p, "create")
    /\ LET new == {t \in plan[p].tables : ~Exists(t)
                       /\ (t = Parent \/ Parent \in plan[p].tables \/ Exists(Parent))}
       IN  /\ data' = [t \in Tables |-> IF t \in new THEN << >> ELSE data[t]]
           /\ broken' = broken \cup new
    /\ todo' = [todo EXCEPT ![p] = plan[p].tables]
    /\ Disturbs(p)
    /\ To(p, "copy")
    /\ UNCHANGED <<given, fec, keyed, indexed, views, records, locks, cmd, archive, plan, runs>>

(* pg_restore, data: a table's COPY, which fails as a whole; a key that is  *)
(* there makes it fail, and so may anything else.                           *)
Copies(p, t) == Exists(t) /\ (t \in keyed => data[t] = << >>)

CopyTable(p) ==
    /\ At(p, "copy")
    /\ \E t \in todo[p] :
         /\ \/ /\ Copies(p, t)
               /\ data' = [data EXCEPT ![t] = Append(@, archive[p])]
               /\ broken' = broken \ {t}
            \/ /\ broken' = broken \cup {t}
               /\ UNCHANGED data
         /\ todo' = [todo EXCEPT ![p] = @ \ {t}]
         /\ To(p, IF todo[p] # {t} THEN "copy"
                  ELSE IF plan[p].dataOnly THEN "count" ELSE "keys")
    /\ Disturbs(p)
    /\ UNCHANGED <<given, fec, keyed, indexed, views, records, locks, cmd, archive, plan, runs>>

(* pg_restore, post-data: keys are not made over rows that are there twice. *)
MakeKeys(p) ==
    /\ At(p, "keys")
    /\ keyed' = keyed \cup {t \in plan[p].tables : Exists(t) /\ Len(data[t]) <= 1}
    /\ To(p, "count")
    /\ UNCHANGED <<given, fec, data, indexed, views, records, broken, locks, own, disturbed, runs>>

Targets(p) == IF plan[p].partitions = {} THEN {Parent} ELSE plan[p].partitions

(* Mutant: no views are made after a restore. *)
CountRowsOnly(p) ==
    /\ At(p, "count")
    /\ todo' = [todo EXCEPT ![p] = Targets(p)]
    /\ To(p, IF \A t \in Targets(p) : Exists(t) THEN "record" ELSE "idle")
    /\ UNCHANGED <<given, fec, content, views, records, broken, locks, cmd, archive, plan,
                   disturbed, runs>>

(* Each table is there and is counted, or the restore has failed. *)
CountRows(p) ==
    /\ At(p, "count")
    /\ To(p, IF \A t \in Targets(p) : Exists(t) THEN "look" ELSE "idle")
    /\ UNCHANGED <<given, fec, content, views, records, broken, locks, own, disturbed, runs>>

(* Mutant: the old view goes before the table is locked. *)
AfterStepViewFirst(label) ==
    [look |-> "dropView", dropView |-> "lock", lock |-> "createView"][label]

-----------------------------------------------------------------------------
(* ensure_views, one DO block: after a restore, after a removal, and when a *)
(* server starts. Each of these labels leads to the next.                   *)
AfterStep(label) == [look |-> "lock", lock |-> "dropView", dropView |-> "createView"][label]

AfterViews(p) ==
    IF p \in Servers THEN "idle"
    ELSE IF cmd[p].cmd # "remove" THEN "record"
    ELSE IF cmd[p].keepFile THEN "idle" ELSE "evict"

Serve(p) ==
    /\ p \in Servers
    /\ Start(p, NoCommand, "look")
    /\ UNCHANGED <<given, fec, content, views, records, broken, locks, archive, plan, todo>>

Unlock(p) ==
    /\ shared' = shared \ {p}
    /\ vlock' = [n \in Namespaces |-> IF vlock[n] = p THEN NoProc ELSE vlock[n]]

Look(p) ==
    /\ At(p, "look")
    /\ To(p, IF Exists(Parent) THEN AfterStep("look") ELSE AfterViews(p))
    /\ todo' = [todo EXCEPT ![p] = Targets(p)]
    /\ UNCHANGED <<given, fec, content, views, records, broken, locks, cmd, archive, plan, disturbed, runs>>

(* LOCK TABLE waits for a DROP; a table that is gone then ends the block.   *)
LockShared(p) ==
    /\ At(p, "lock") /\ xlock = NoProc
    /\ IF Exists(Parent)
       THEN shared' = shared \cup {p} /\ To(p, AfterStep("lock")) /\ UNCHANGED vlock
       ELSE Unlock(p) /\ To(p, AfterViews(p))
    /\ UNCHANGED <<given, fec, content, views, records, broken, xlock, own, disturbed, runs>>

(* Mutant of Named: any namespace's. *)
NamedAnywhere(n) == IF n \in views THEN {n} ELSE IF views = {} THEN {} ELSE {CHOOSE m \in views : TRUE}

(* The view that an unqualified name means on a search_path of the          *)
(* namespace and public.                                                    *)
Named(n) == IF n \in views THEN {n} ELSE {Public} \cap views

DropView(p) ==
    /\ At(p, "dropView")
    /\ \A n \in Named(Home[p]) : vlock[n] = NoProc
    /\ vlock' = [n \in Namespaces |-> IF n \in Named(Home[p]) THEN p ELSE vlock[n]]
    /\ To(p, AfterStep("dropView"))
    /\ UNCHANGED <<given, fec, content, views, records, broken, xlock, shared, own, disturbed, runs>>

(* CREATE VIEW and the end of the block; it fails on a view that somebody   *)
(* else has made since.                                                     *)
CreateView(p) ==
    LET gone == {n \in views : vlock[n] = p}
    IN  /\ At(p, "createView")
        /\ IF Home[p] \in views \ gone
           THEN UNCHANGED views /\ To(p, "idle")
           ELSE views' = (views \ gone) \cup {Home[p]} /\ To(p, AfterViews(p))
        /\ Unlock(p)
        /\ UNCHANGED <<given, fec, content, records, broken, xlock, own, disturbed, runs>>

(* Mutant of Recorded: the file that fec.gov has now. *)
RecordedOnFec(p) == IF cmd[p].file # NoVersion THEN NoVersion ELSE onFec

-----------------------------------------------------------------------------
(* record_restore: one row for a whole restore, one per cycle otherwise. *)
Recorded(p) == IF cmd[p].file # NoVersion THEN NoVersion ELSE archive[p]

AfterRecords(p) == IF cmd[p].cmd # "restore" /\ plan[p].dataOnly THEN "targets" ELSE "idle"

Record(p) ==
    /\ At(p, "record")
    /\ \E t \in todo[p] :
         /\ records' = [records EXCEPT ![Home[p]] = Append(@, [table |-> t, of |-> Recorded(p)])]
         /\ todo' = [todo EXCEPT ![p] = IF @ = {t} THEN Targets(p) ELSE @ \ {t}]
         /\ To(p, IF todo[p] = {t} THEN AfterRecords(p) ELSE "record")
    /\ UNCHANGED <<given, fec, content, views, broken, locks, cmd, archive, plan, disturbed, runs>>

(* bulk-dump-index: the indexes alone. *)
DumpIndex(p) ==
    /\ \E c \in plans[p] : c.cmd = "index" /\ Start(p, c, "targets")
    /\ UNCHANGED <<given, fec, content, views, records, broken, locks, archive, plan, todo>>

(* index_targets: the children asked for, or all there are, or the table    *)
(* itself; NotPartitioned and TableMissing end the call.                    *)
Indexable(p) ==
    IF cmd[p].cycles # {} THEN dump.split /\ cmd[p].cycles \subseteq CyclesPresent
    ELSE Exists(Parent)

IndexTargets(p) ==
    /\ At(p, "targets")
    /\ IF Indexable(p)
       THEN /\ todo' = [todo EXCEPT ![p] = IF cmd[p].cycles # {} THEN cmd[p].cycles
                                          ELSE IF CyclesPresent # {} THEN CyclesPresent
                                          ELSE {Parent}]
            /\ To(p, "index")
       ELSE To(p, "idle") /\ UNCHANGED todo
    /\ UNCHANGED <<given, fec, content, views, records, broken, locks, cmd, archive, plan,
                   disturbed, runs>>

(* create_indexes, table by table. *)
Index(p) ==
    /\ At(p, "index")
    /\ \E t \in todo[p] :
         /\ indexed' = IF Exists(t) THEN indexed \cup {t} ELSE indexed
         /\ todo' = [todo EXCEPT ![p] = @ \ {t}]
         /\ To(p, IF Exists(t) /\ todo[p] # {t} THEN "index" ELSE "idle")
    /\ UNCHANGED <<given, fec, data, keyed, views, records, broken, locks, cmd, archive, plan,
                   disturbed, runs>>

(* An error of a statement, a file or pg_restore's start; or the process's  *)
(* death. What it holds is released, what it did stays.                     *)
Fail(p) ==
    /\ ~At(p, "idle")
    /\ xlock' = IF xlock = p THEN NoProc ELSE xlock
    /\ Unlock(p)
    /\ To(p, "idle")
    /\ UNCHANGED <<given, fec, content, views, records, broken, own, disturbed, runs>>

EnsureViews(p) == Look(p) \/ LockShared(p) \/ DropView(p) \/ CreateView(p)

Restore(p) ==
    \/ Locate(p) \/ PlanRestore(p) \/ LockTable(p) \/ DropTable(p) \/ DropChild(p)
    \/ Create(p) \/ CopyTable(p) \/ MakeKeys(p) \/ CountRows(p) \/ Record(p)
    \/ IndexTargets(p) \/ Index(p)

RestoreNext ==
    \/ Refresh
    \/ \E p \in Restorers :
         RestoreDump(p) \/ Import(p) \/ Update(p) \/ Evict(p) \/ Remove(p) \/ DumpIndex(p) \/ Restore(p)
    \/ \E p \in Servers : Serve(p)
    \/ \E p \in Procs : EnsureViews(p) \/ Fail(p)

RestoreSpec == RestoreInit /\ [][RestoreNext]_restoreVars

-----------------------------------------------------------------------------
RestoreLabels ==
    {"idle", "locate", "plan", "evict", "lockTable", "dropTable", "dropChildren", "create",
     "copy", "keys", "count", "look", "lock", "dropView", "createView", "record", "targets", "index"}

Contents == Seq(DumpVersions) \cup {Absent}
Records  == Seq([table : Tables, of : DumpVersions \cup {NoVersion}])
Plans    == [tables : SUBSET Tables, partitions : SUBSET Cycles, dataOnly : BOOLEAN]

RestoreTypeOK ==
    /\ \E w \in Workloads : dump = w.dump /\ plans = w.plans
    /\ onFec \in DumpVersions /\ cached \in DumpVersions \cup {NoVersion}
    /\ data \in [Tables -> Contents]
    /\ keyed \cup indexed \subseteq {t \in Tables : Exists(t)}
    /\ views \subseteq Namespaces
    /\ records \in [Namespaces -> Records]
    /\ broken \subseteq Tables
    /\ xlock \in Procs \cup {NoProc} /\ shared \subseteq Procs
    /\ vlock \in [Namespaces -> Procs \cup {NoProc}]
    /\ step \in [Procs -> RestoreLabels]
    /\ cmd \in [Procs -> {c \in Commands : c.file \in DumpVersions \cup {NoVersion}}]
    /\ archive \in [Procs -> DumpVersions \cup {NoVersion}]
    /\ plan \in [Procs -> Plans]
    /\ todo \in [Procs -> SUBSET Tables]
    /\ disturbed \subseteq Procs /\ runs \in 0..MaxRuns

(* q has what p is waiting for. *)
Blocks(q, p) ==
    \/ At(p, "lockTable") /\ (q = xlock \/ q \in shared)
    \/ At(p, "lock")      /\ q = xlock
    \/ At(p, "dropTable") /\ q # p /\ \E n \in views : vlock[n] = q
    \/ At(p, "dropView")  /\ q # p /\ \E n \in Named(Home[p]) : vlock[n] = q

(* Restores, removals and ensure_views in any namespaces never wait for    *)
(* each other in a circle: the table is locked before any view by all.     *)
NobodyWaitsForEver ==
    \A S \in (SUBSET Procs) \ {{}} : \E p \in S : \A q \in S : ~Blocks(q, p)

(* A cycle's table goes only with the whole dump, or to be replaced by     *)
(* one that the archive in hand has: no planning error costs data.         *)
LostOnlyToTheArchive ==
    [][\A t \in Cycles : Exists(t) /\ data'[t] = Absent =>
          \/ data'[Parent] = Absent
          \/ \E p \in Restorers : t \in todo[p] \cap InArchive(archive[p])]_restoreVars

(* What a restore is about to record as restored, nobody having changed the *)
(* tables meanwhile, is in them once and alone, unless pg_restore           *)
(* complained of it: no key and no drop was missed.                         *)
RecordedIsRestored ==
    \A p \in Restorers \ disturbed :
        At(p, "record") =>
            \A t \in plan[p].tables : t \in broken \/ data[t] = <<archive[p]>>

(* Nobody works in the namespace that is on every search_path, or all do. *)
PublicApart == \A p, q \in Procs : Home[q] = Public => Home[p] = Public

(* A restore that gets as far as its record has given its namespace its    *)
(* view back, whatever other namespaces and servers did to theirs.         *)
ViewsComeBack ==
    PublicApart =>
        \A p \in Restorers \ disturbed : At(p, "record") => Home[p] \in views

(* Making one namespace's views takes none from another: they go only with *)
(* the table.                                                              *)
ViewsAreOnesOwn ==
    [][PublicApart => \A n \in views : n \in views' \/ data'[Parent] = Absent]_restoreVars

(* Nothing goes that is not replaced: neither a table nor a view. *)
NothingGoesForGood == LostOnlyToTheArchive /\ ViewsAreOnesOwn

(* One restorer, no files of its own, a dump of one table. *)
Plain ==
    /\ ~dump.split
    /\ \A p \in Restorers : \A c \in plans[p] : c.file = NoVersion
    /\ \A p, q \in Restorers : plans[p] # {} /\ plans[q] # {} => p = q

(* Then, from the first record on, `dumps update` calls up to date only    *)
(* what was copied from the file fec.gov has, or what an earlier restore   *)
(* left unfinished or was warned of.                                       *)
UpToDateIsTrue ==
    \A n \in Namespaces :
        Plain /\ records[n] # << >> /\ SaysCurrent(n) =>
            Parent \in broken \/ data[Parent] = <<onFec>>
=============================================================================
