--------------------------- MODULE AmendmentChains ---------------------------
(***************************************************************************)
(* Concurrent ingestion of filings into one namespace: every transaction   *)
(* of bulk::ingest::ingest_filing_with and of db::resolve_amendment_chain  *)
(* and db::resolve_all_amendment_chains, statement by statement, over      *)
(* PostgreSQL's READ COMMITTED isolation.                                  *)
(*                                                                         *)
(* What the database promises is external to the code: a statement reads   *)
(* the rows committed when it starts, overlaid with its own transaction's  *)
(* writes; an UPDATE locks its rows one at a time and, once it has waited  *)
(* for a row, writes the value it had already computed; row locks and      *)
(* pg_advisory_xact_lock last until commit or rollback; a cycle of waits   *)
(* is broken by aborting one of its members.                               *)
(***************************************************************************)
EXTENDS ChainRules, Sequences

CONSTANTS Procs,        \* concurrent callers, each on its own connection
          Jobs,         \* the calls they may make
          MaxJobs,      \* bound: calls begun in a behaviour
          Loaded,       \* the headers already in the namespace, resolved
          NoProc        \* no one (a free lock)

IngestJob == [kind : {"ingest", "defer"}, id : Filings, header : Header]
ChainJob  == [kind : {"chain"}, id : Filings]
AllJob    == [kind : {"all"}]

ASSUME JobsAssumption == Jobs \subseteq IngestJob \cup ChainJob \cup AllJob
ASSUME ProcsAssumption == NoProc \notin Procs
ASSUME MaxJobsAssumption == MaxJobs \in Nat
ASSUME LoadedAssumption == /\ DOMAIN Loaded \subseteq Filings
                           /\ Loaded \in [DOMAIN Loaded -> Header]

VARIABLES
    filings,    \* committed header columns, by the ids that have a row
    derived,    \* committed chain columns, by the ids that were resolved
    begun,      \* how many calls have been made
    pc,         \* the statement each transaction executes next
    job,        \* the call each transaction serves
    oldKey,     \* previous_key of ingest_filing_with
    keys,       \* chains still to resolve, in order
    stored,     \* whether the transaction has written its filings row
    todo,       \* rows the running UPDATE has still to write, with values
    nextRow,    \* the row it writes next
    dirty,      \* chain columns written and not yet committed
    rowLock,    \* holder of each filings row (or of its pending insert)
    chainLock   \* holder of each advisory lock (db::chain_lock)

table  == <<filings, derived>>
local  == <<job, oldKey, keys, stored, todo, nextRow, dirty>>
locks  == <<rowLock, chainLock>>
vars   == <<table, begun, pc, local, locks>>

Empty == [f \in {} |-> NoFiling]

Init ==
    /\ filings = Loaded
    /\ derived = ResolveAll(Loaded)
    /\ begun = 0
    /\ pc = [p \in Procs |-> "idle"]
    /\ job = [p \in Procs |-> [kind |-> "all"]]
    /\ oldKey = [p \in Procs |-> NoFiling]
    /\ keys = [p \in Procs |-> << >>]
    /\ stored = [p \in Procs |-> FALSE]
    /\ todo = [p \in Procs |-> Empty]
    /\ nextRow = [p \in Procs |-> NoFiling]
    /\ dirty = [p \in Procs |-> Empty]
    /\ rowLock = [f \in Filings |-> NoProc]
    /\ chainLock = [k \in Filings |-> NoProc]

-----------------------------------------------------------------------------
(* Mutant of LeftKey: the chain a re-ingest leaves is not remembered. *)
LeftKeyForgotten(p) == NoFiling

(* previous_key: the chain of the committed row of the filing p re-ingests. *)
LeftKey(p) == ChainKey(job[p].id, filings[job[p].id])

(* What a statement of p sees. *)
Visible(p) ==
    IF stored[p] THEN Put(filings, job[p].id, job[p].header) ELSE filings

Ingests(p) == job[p].kind \in {"ingest", "defer"}

(* A lock p may take now: free, or already its own. *)
Available(lock, x, p) == lock[x] \in {NoProc, p}

(* Mutant of LockRow: the row is written without its lock being kept. *)
LockRowBriefly(p, f) == Available(rowLock, f, p) /\ UNCHANGED rowLock

(* A row is locked by whoever writes it, until its transaction ends. *)
LockRow(p, f) ==
    /\ Available(rowLock, f, p)
    /\ rowLock' = [rowLock EXCEPT ![f] = p]

GoTo(p, label) == pc' = [pc EXCEPT ![p] = label]

(* A call begins: pool.begin(), or the single statement of resolve_all. *)
Begin(p, j) ==
    /\ pc[p] = "idle"
    /\ begun < MaxJobs
    /\ begun' = begun + 1
    /\ job' = [job EXCEPT ![p] = j]
    /\ GoTo(p, CASE j.kind = "chain" -> "lock"
                 [] j.kind = "all"   -> "resolve"
                 [] OTHER            -> "select")
    /\ keys' = [keys EXCEPT ![p] = IF j.kind = "chain" THEN <<j.id>> ELSE << >>]
    /\ UNCHANGED <<table, oldKey, stored, todo, nextRow, dirty, locks>>

(* SELECT is_amendment, amends_filing_id ... FOR UPDATE: locks the row if   *)
(* there is a committed one, and nothing otherwise.                         *)
SelectForUpdate(p) ==
    LET f == job[p].id IN
    /\ pc[p] = "select"
    /\ \/ /\ f \notin DOMAIN filings
          /\ UNCHANGED <<oldKey, rowLock>>
       \/ /\ f \in DOMAIN filings
          /\ LockRow(p, f)
          /\ oldKey' = [oldKey EXCEPT ![p] = LeftKey(p)]
    /\ GoTo(p, "upsert")
    /\ UNCHANGED <<table, begun, job, keys, stored, todo, nextRow, dirty, chainLock>>

(* INSERT ... ON CONFLICT DO UPDATE (it waits for whoever holds the row, or *)
(* is inserting it), the schedule_e_lines that go with the row, and the     *)
(* choice of the chains to resolve: the new key first, then the one left.   *)
Upsert(p) ==
    LET f   == job[p].id
        key == ChainKey(f, job[p].header)
        old == IF oldKey[p] = key THEN NoFiling ELSE oldKey[p]
    IN
    /\ pc[p] = "upsert"
    /\ LockRow(p, f)
    /\ stored' = [stored EXCEPT ![p] = TRUE]
    /\ \/ /\ job[p].kind = "defer"
          /\ GoTo(p, "commit")
          /\ UNCHANGED keys
       \/ /\ job[p].kind = "ingest"
          /\ keys' = [keys EXCEPT ![p] = IF old = NoFiling THEN <<key>> ELSE <<key, old>>]
          /\ GoTo(p, IF old = NoFiling THEN "lock" ELSE "lockLow")
    /\ UNCHANGED <<table, begun, job, oldKey, todo, nextRow, dirty, chainLock>>

(* Mutant of ChainLock: the lock is skipped. *)
ChainLockSkipped(p, k) == UNCHANGED chainLock

(* pg_advisory_xact_lock(k). *)
ChainLock(p, k) ==
    /\ Available(chainLock, k, p)
    /\ chainLock' = [chainLock EXCEPT ![k] = p]

Lowest(p)  == IF keys[p][1] < keys[p][2] THEN keys[p][1] ELSE keys[p][2]
Highest(p) == IF keys[p][1] > keys[p][2] THEN keys[p][1] ELSE keys[p][2]

(* "Both chain locks up front, in ascending order". *)
LockLow(p) ==
    /\ pc[p] = "lockLow"
    /\ ChainLock(p, Lowest(p))
    /\ GoTo(p, "lockHigh")
    /\ UNCHANGED <<table, begun, local, rowLock>>

LockHigh(p) ==
    /\ pc[p] = "lockHigh"
    /\ ChainLock(p, Highest(p))
    /\ GoTo(p, "lock")
    /\ UNCHANGED <<table, begun, local, rowLock>>

(* resolve_amendment_chain_in: its lock, a no-op when already held. *)
Lock(p) ==
    /\ pc[p] = "lock"
    /\ ChainLock(p, Head(keys[p]))
    /\ GoTo(p, "resolve")
    /\ UNCHANGED <<table, begun, local, rowLock>>

(* The rows and values the UPDATE computes from its snapshot. *)
Computed(p) ==
    IF job[p].kind = "all" THEN ResolveAll(Visible(p))
                           ELSE ResolveOne(Visible(p), Head(keys[p]))

(* After an UPDATE: the other chain of a move, or the commit. *)
Finish(p) ==
    /\ GoTo(p, IF Len(keys[p]) > 1 THEN "lock" ELSE "commit")
    /\ keys' = [keys EXCEPT ![p] = IF @ = << >> THEN << >> ELSE Tail(@)]

(* The UPDATE takes its snapshot; it visits its rows in any order. *)
Resolve(p) ==
    LET rows == Computed(p) IN
    /\ pc[p] = "resolve"
    /\ \/ /\ DOMAIN rows = {}
          /\ Finish(p)
          /\ UNCHANGED <<todo, nextRow>>
       \/ /\ GoTo(p, "rows")
          /\ todo' = [todo EXCEPT ![p] = rows]
          /\ \E f \in DOMAIN rows : nextRow' = [nextRow EXCEPT ![p] = f]
          /\ UNCHANGED keys
    /\ UNCHANGED <<table, begun, job, oldKey, stored, dirty, locks>>

(* One row of the UPDATE: wait for its lock, write the computed columns. *)
WriteRow(p) ==
    LET f    == nextRow[p]
        rest == DOMAIN todo[p] \ {f}
    IN
    /\ pc[p] = "rows"
    /\ LockRow(p, f)
    /\ dirty' = [dirty EXCEPT ![p] = Put(@, f, todo[p][f])]
    /\ todo' = [todo EXCEPT ![p] = [g \in rest |-> @[g]]]
    /\ \/ /\ rest = {}
          /\ nextRow' = [nextRow EXCEPT ![p] = NoFiling]
          /\ Finish(p)
       \/ /\ \E g \in rest : nextRow' = [nextRow EXCEPT ![p] = g]
          /\ UNCHANGED <<pc, keys>>
    /\ UNCHANGED <<table, begun, job, oldKey, stored, chainLock>>

Released(lock, p) == [x \in Filings |-> IF lock[x] = p THEN NoProc ELSE lock[x]]

(* Mutant of FreeLocks: a session-scoped advisory lock outlives the          *)
(* transaction.                                                             *)
FreeRowLocks(p) == rowLock' = Released(rowLock, p) /\ UNCHANGED chainLock

FreeLocks(p) == rowLock' = Released(rowLock, p) /\ chainLock' = Released(chainLock, p)

(* The end of a transaction: locks released, private state forgotten. *)
End(p) ==
    /\ GoTo(p, "idle")
    /\ job' = [job EXCEPT ![p] = [kind |-> "all"]]
    /\ oldKey' = [oldKey EXCEPT ![p] = NoFiling]
    /\ keys' = [keys EXCEPT ![p] = << >>]
    /\ stored' = [stored EXCEPT ![p] = FALSE]
    /\ todo' = [todo EXCEPT ![p] = Empty]
    /\ nextRow' = [nextRow EXCEPT ![p] = NoFiling]
    /\ dirty' = [dirty EXCEPT ![p] = Empty]
    /\ FreeLocks(p)
    /\ UNCHANGED begun

Commit(p) ==
    /\ pc[p] = "commit"
    /\ filings' = Visible(p)
    /\ derived' = Overlay(derived, dirty[p])
    /\ End(p)

(* Any database error, a lost connection or a crash of the caller: the      *)
(* whole transaction is rolled back.                                        *)
Fail(p) ==
    /\ pc[p] # "idle"
    /\ UNCHANGED table
    /\ End(p)

-----------------------------------------------------------------------------
(* Who p waits for, NoProc if no one. *)
Holder(p) ==
    CASE pc[p] = "select" /\ job[p].id \in DOMAIN filings -> rowLock[job[p].id]
      [] pc[p] = "upsert"   -> rowLock[job[p].id]
      [] pc[p] = "lockLow"  -> chainLock[Lowest(p)]
      [] pc[p] = "lockHigh" -> chainLock[Highest(p)]
      [] pc[p] = "lock"     -> chainLock[Head(keys[p])]
      [] pc[p] = "rows"     -> rowLock[nextRow[p]]
      [] OTHER              -> NoProc

(* p is on a cycle of waits. *)
Deadlocked(p) ==
    \E S \in SUBSET Procs :
        /\ p \in S
        /\ \A q \in S : Holder(q) # q
        /\ {Holder(q) : q \in S} = S

(* The deadlock detector aborts a transaction of the cycle; the code does   *)
(* not retry it.                                                            *)
Victim(p) == Deadlocked(p) /\ Fail(p)

Step(p) == \/ SelectForUpdate(p) \/ Upsert(p) \/ LockLow(p) \/ LockHigh(p)
           \/ Lock(p) \/ Resolve(p) \/ WriteRow(p) \/ Commit(p)

(* All calls are over and no caller makes another. *)
Done ==
    /\ begun = MaxJobs
    /\ \A p \in Procs : pc[p] = "idle"
    /\ UNCHANGED vars

Next == \/ \E p \in Procs : (\E j \in Jobs : Begin(p, j)) \/ Step(p) \/ Fail(p)
        \/ Done

Spec == Init /\ [][Next]_vars

(* Lock queues are first come first served, so a waiter whose lock is freed *)
(* again and again gets it (strong fairness); a deadlock is noticed.        *)
Fairness == \A p \in Procs : SF_vars(Step(p)) /\ WF_vars(Victim(p))

FairSpec == Spec /\ Fairness

-----------------------------------------------------------------------------
Proc == Procs \cup {NoProc}

TypeOK ==
    /\ DOMAIN filings \subseteq Filings /\ filings \in [DOMAIN filings -> Header]
    /\ DOMAIN derived \subseteq DOMAIN filings /\ derived \in [DOMAIN derived -> Resolved]
    /\ begun \in 0..MaxJobs
    /\ pc \in [Procs -> {"idle", "select", "upsert", "lockLow", "lockHigh",
                         "lock", "resolve", "rows", "commit"}]
    /\ job \in [Procs -> IngestJob \cup ChainJob \cup AllJob]
    /\ oldKey \in [Procs -> Filings \cup {NoFiling}]
    /\ keys \in [Procs -> Seq(Filings)]
    /\ stored \in [Procs -> BOOLEAN]
    /\ nextRow \in [Procs -> Filings \cup {NoFiling}]
    /\ DOMAIN todo = Procs /\ DOMAIN dirty = Procs
    /\ \A p \in Procs :
          /\ DOMAIN todo[p] \subseteq Filings /\ todo[p] \in [DOMAIN todo[p] -> Resolved]
          /\ DOMAIN dirty[p] \subseteq Filings /\ dirty[p] \in [DOMAIN dirty[p] -> Resolved]
    /\ rowLock \in [Filings -> Proc]
    /\ chainLock \in [Filings -> Proc]

(* The chain columns are never observably stale: whatever has committed,    *)
(* every row carries what resolving the whole committed table would write.  *)
DerivedCurrent == derived = ResolveAll(filings)

(* filings_current has one row per chain: of the filings that head or join  *)
(* a chain exactly one is most_recent (migration 0003, filings_current).    *)
OneCurrentPerChain ==
    \A o \in DOMAIN filings :
        LET members == {f \in DOMAIN filings : OriginalId(filings, f) = o}
        IN  ~ filings[o].isAmendment =>
               Cardinality({f \in members \cap DOMAIN derived : derived[f].latest = f}) = 1

(* Two-phase locking: until it ends a transaction holds the row lock of     *)
(* every row it has written, and the advisory lock (db::chain_lock) of      *)
(* every chain it resolves or has resolved, the one a move left included.   *)
TwoPhase ==
    \A p \in Procs :
        /\ \A f \in DOMAIN dirty[p] : rowLock[f] = p
        /\ stored[p] => rowLock[job[p].id] = p
        /\ pc[p] \in {"resolve", "rows"} /\ job[p].kind # "all" => chainLock[Head(keys[p])] = p
        /\ pc[p] = "commit" /\ job[p].kind = "ingest" =>
              /\ chainLock[ChainKey(job[p].id, job[p].header)] = p
              /\ oldKey[p] # NoFiling => chainLock[oldKey[p]] = p

(* Two calls that move filings between the same two chains never wait for   *)
(* each other (the comment on "both chain locks up front" in                *)
(* ingest_filing_with).                                                     *)
Pair(p) == {ChainKey(job[p].id, job[p].header), oldKey[p]}
MovesDoNotDeadlock ==
    \A p, q \in {r \in Procs : stored[r]} :
        p # q /\ Pair(p) = Pair(q) => ~ (Deadlocked(p) /\ Deadlocked(q))

(* The FEC's filing rules, as a restriction on the workload: a filing keeps *)
(* its designator and the original it names, no amendment names an          *)
(* amendment, and nothing is deferred or resolved wholesale.                *)
Storable ==
    {<<j.id, j.header>> : j \in {i \in Jobs : i.kind = "ingest"}}
        \cup {<<f, Loaded[f]>> : f \in DOMAIN Loaded}

FixedChains ==
    /\ \A j \in Jobs : j.kind \in {"ingest", "chain"}
    /\ \A s, r \in Storable :
          /\ s[1] = r[1] => /\ s[2].isAmendment = r[2].isAmendment
                            /\ s[2].amends = r[2].amends
          /\ s[2].isAmendment /\ s[2].amends = r[1] /\ r[1] # s[1] => ~ r[2].isAmendment
    /\ \A j \in Jobs, s \in Storable :
          j.kind = "chain" /\ s[1] = j.id => ~ s[2].isAmendment

(* Every call ends: with its commit, or with an error the caller sees. *)
EveryCallEnds == \A p \in Procs : pc[p] # "idle" ~> pc[p] = "idle"

(* The abstract specification, with the committed columns as the index:     *)
(* every commit stores one filing and leaves every row's columns in         *)
(* agreement with the table (the semantics of resolve_amendment_chain).     *)
Index == INSTANCE ChainIndex
           WITH index <- derived,
                Headers <- {j.header : j \in {i \in Jobs : i.kind \in {"ingest", "defer"}}}
ImplementsIndex == Index!Spec

(* resolve_all_amendment_chains puts every column of every row right,       *)
(* whatever was ingested with ChainResolution::Defer before it.             *)
ResolveAllHeals ==
    [][\A p \in Procs : Commit(p) /\ job[p].kind = "all"
                            => Index!Agrees(filings', derived')]_vars

(* A namespace that is right stays right: recomputing only the chain joined *)
(* and the chain left is enough, whatever the header says and in whatever   *)
(* order filings arrive ("so the result does not depend on the order        *)
(* filings arrive in", resolve_amendment_chain).                            *)
IngestKeepsAgreement ==
    [][\A p \in Procs : Commit(p) /\ job[p].kind \in {"ingest", "chain"}
                            /\ Index!Agrees(filings, derived)
                            => Index!Agrees(filings', derived')]_vars

(* Each way to resolve, one chain or all, leaves the namespace right. *)
ResolvingAgrees == ResolveAllHeals /\ IngestKeepsAgreement
==============================================================================
