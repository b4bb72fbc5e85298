----------------------- MODULE AmendmentChainsProofs --------------------------
(***************************************************************************)
(* Invariance proofs for AmendmentChains, for any filings, callers, calls  *)
(* and number of calls.                                                    *)
(***************************************************************************)
EXTENDS AmendmentChains, FiniteSetTheorems, WellFoundedInduction, SequenceTheorems, TLAPS

(***************************************************************************)
(* Facts about the resolver's SQL that hold for every table: its window    *)
(* order is a strict total order, so that every partition has a last row,  *)
(* and what it writes is well typed.                                       *)
(***************************************************************************)

(* ORDER BY (filing_id <> original_id), amendment_number NULLS FIRST,       *)
(* filing_id orders any two different rows, and one way only.               *)
LEMMA BeforeIsStrictTotal ==
    ASSUME NEW S \in SUBSET Filings, NEW num \in [S -> Number], NEW o
    PROVE  /\ \A f \in S : ~ Before(o, num, f, f)
           /\ \A f, g, h \in S : Before(o, num, f, g) /\ Before(o, num, g, h)
                                     => Before(o, num, f, h)
           /\ \A f, g \in S : f = g \/ Before(o, num, f, g) \/ Before(o, num, g, f)
<1>1. \A f \in S : f \in Int /\ num[f] \in Int
  BY FilingsAssumption DEF Number, NoNumber
<1>2. \A f \in S : ~ Before(o, num, f, f)
  BY <1>1 DEF Before
<1>3. ASSUME NEW f \in S, NEW g \in S, NEW h \in S,
             Before(o, num, f, g), Before(o, num, g, h)
      PROVE  Before(o, num, f, h)
  BY <1>1, <1>3 DEF Before
<1>4. \A f, g \in S : f = g \/ Before(o, num, f, g) \/ Before(o, num, g, f)
  BY <1>1 DEF Before
<1>5. QED
  BY <1>2, <1>3, <1>4

(* Some row of a non-empty part of a partition comes last: the part after   *)
(* it, being the smallest, is empty.                                        *)
LEMMA LastExists ==
    ASSUME NEW P \in SUBSET Filings, NEW num \in [P -> Number], NEW o,
           NEW S \in SUBSET P, S # {}
    PROVE  /\ Last(o, num, S) \in S
           /\ \A h \in S \ {Last(o, num, S)} : Before(o, num, h, Last(o, num, S))
<1> DEFINE After(f) == {g \in S : Before(o, num, f, g)}
           U == {After(f) : f \in S}
           R == StrictSubsetOrdering(S)
<1>1. \A f, g, h \in S : /\ ~ Before(o, num, f, f)
                         /\ Before(o, num, f, g) /\ Before(o, num, g, h)
                               => Before(o, num, f, h)
                         /\ f = g \/ Before(o, num, f, g) \/ Before(o, num, g, f)
  BY BeforeIsStrictTotal
<1>2. IsFiniteSet(S)
  BY FS_Subset, FilingsAssumption
<1>3. U \subseteq FiniteSubsetsOf(S)
  BY <1>2, FS_Subset DEF FiniteSubsetsOf
<1>4. U # {}
  OBVIOUS
<1>5. IsWellFoundedOn(R, FiniteSubsetsOf(S))
  BY FS_StrictSubsetOrderingWellFounded
<1>6. \E u \in U : \A v \in U : ~ (<<v, u>> \in R)
  <2> HIDE DEF U, R
  <2> QED BY <1>3, <1>4, <1>5, WFMin
<1>7. PICK f \in S : \A g \in S : ~ (<<After(g), After(f)>> \in R)
  BY <1>6
<1>8. After(f) = {}
  <2>1. SUFFICES ASSUME NEW g \in After(f) PROVE FALSE
    OBVIOUS
  <2>2. After(g) \subseteq After(f) /\ g \notin After(g)
    BY <1>1, <2>1
  <2>3. <<After(g), After(f)>> \in R
    BY <2>1, <2>2 DEF StrictSubsetOrdering
  <2> QED BY <1>7, <2>1, <2>3
<1>9. \A h \in S \ {f} : Before(o, num, h, f)
  BY <1>1, <1>8
<1> QED BY <1>9 DEF Last

(* What the SQL writes is well typed, for one chain and for the table. *)
LEMMA RankType ==
    ASSUME NEW P \in SUBSET Filings, NEW num \in [P -> Number], NEW f \in P,
           NEW o, NEW b \in BOOLEAN
    PROVE  Rank(o, num, b, f) \in Resolved
<1> DEFINE upTo == {g \in DOMAIN num : g = f \/ Before(o, num, g, f)}
<1>1. Last(o, num, P) \in P
  BY LastExists
<1>2. upTo \subseteq P /\ f \in upTo
  OBVIOUS
<1>3. upTo # {f} => Last(o, num, upTo \ {f}) \in P
  <2> HIDE DEF upTo
  <2> QED BY <1>2, LastExists
<1> QED BY <1>1, <1>2, <1>3 DEF Rank, Resolved

LEMMA ResolveType ==
    ASSUME NEW t, DOMAIN t \subseteq Filings, t \in [DOMAIN t -> Header]
    PROVE  /\ ResolveAll(t) \in [DOMAIN t -> Resolved]
           /\ \A k : /\ Members(t, k) \subseteq DOMAIN t
                     /\ ResolveOne(t, k) \in [Members(t, k) -> Resolved]
<1>1. ASSUME NEW S \in SUBSET DOMAIN t, NEW f \in S
      PROVE  RankIn(t, S, f) \in Resolved
  <2> DEFINE o == OriginalId(t, f)
             P == Partition(t, S, o)
  <2>1. P \in SUBSET Filings /\ f \in P
    BY DEF Partition
  <2>2. [g \in P |-> t[g].number] \in [P -> Number]
    BY DEF Partition, Header
  <2>3. t[f].isAmendment \in BOOLEAN
    BY DEF Header
  <2> HIDE DEF o, P
  <2>4. Rank(o, [g \in P |-> t[g].number], t[f].isAmendment, f) \in Resolved
    BY <2>1, <2>2, <2>3, RankType
  <2> QED BY <2>4 DEF RankIn, o, P
<1>2. \A k : Members(t, k) \subseteq DOMAIN t
  BY DEF Members, Scope
<1> QED BY <1>1, <1>2 DEF ResolveAll, ResolveOne

-----------------------------------------------------------------------------
(* The invariants, and the proof of each action that it preserves them.     *)


(* What holds at each statement: which calls reach it, which chains are     *)
(* left to it, and that an UPDATE only writes rows its transaction sees.    *)
ControlOK ==
    \A p \in Procs :
        /\ pc[p] \in {"select", "upsert"} => Ingests(p)
        /\ stored[p] => Ingests(p) /\ pc[p] # "idle"
        /\ pc[p] \in {"lockLow", "lockHigh"} => Len(keys[p]) = 2
        /\ pc[p] = "lock" => keys[p] # << >>
        /\ pc[p] \in {"resolve", "rows"} => job[p].kind = "all" \/ keys[p] # << >>
        /\ pc[p] = "rows" => nextRow[p] \in DOMAIN todo[p]
        /\ DOMAIN todo[p] \cup DOMAIN dirty[p] \subseteq DOMAIN Visible(p)

Typed == TypeOK /\ ControlOK

Labels == {"idle", "select", "upsert", "lockLow", "lockHigh", "lock",
           "resolve", "rows", "commit"}

(* A transaction sees a well-typed table. *)
LEMMA VisibleType ==
    ASSUME Typed, NEW p \in Procs
    PROVE  /\ DOMAIN filings \subseteq DOMAIN Visible(p)
           /\ DOMAIN Visible(p) \subseteq Filings
           /\ Visible(p) \in [DOMAIN Visible(p) -> Header]
           /\ Ingests(p) => job[p] \in IngestJob
<1>1. Ingests(p) => job[p] \in IngestJob
  BY DEF Typed, TypeOK, Ingests, IngestJob, ChainJob, AllJob
<1>2. CASE stored[p]
  <2>1. job[p].id \in Filings /\ job[p].header \in Header
    BY <1>1, <1>2 DEF Typed, ControlOK, IngestJob
  <2> QED BY <1>1, <1>2, <2>1 DEF Visible, Put, Typed, TypeOK
<1>3. CASE ~ stored[p]
  BY <1>1, <1>3 DEF Visible, Typed, TypeOK
<1> QED BY <1>2, <1>3

LEMMA ChainKeyType ==
    ASSUME NEW f \in Filings, NEW h \in Header
    PROVE  ChainKey(f, h) \in Filings
BY DEF ChainKey, Header

LEMMA InitTyped == Init => Typed
<1> SUFFICES ASSUME Init PROVE Typed
  OBVIOUS
<1>1. ResolveAll(Loaded) \in [DOMAIN Loaded -> Resolved]
  BY ResolveType, LoadedAssumption
<1>2. Empty \in [DOMAIN Empty -> Resolved] /\ DOMAIN Empty = {}
  BY DEF Empty
<1>3. TypeOK
  BY <1>1, <1>2, LoadedAssumption, MaxJobsAssumption
  DEF Init, TypeOK, AllJob, Proc
<1>4. ControlOK
  BY <1>2 DEF Init, ControlOK, Visible
<1> QED BY <1>3, <1>4 DEF Typed

(* A step that only moves p's control and takes locks. *)
LEMMA LocksTyped ==
    ASSUME Typed, NEW p \in Procs, LockLow(p) \/ LockHigh(p) \/ Lock(p)
    PROVE  Typed'
<1>1. Len(keys[p]) \in Nat /\ keys[p] \in Seq(Filings)
  BY DEF Typed, TypeOK
<1>2. keys[p] # << >> => Head(keys[p]) \in Filings
  BY <1>1
<1>3. Len(keys[p]) = 2 => keys[p] # << >> /\ Lowest(p) \in Filings /\ Highest(p) \in Filings
  BY <1>1 DEF Lowest, Highest
<1>4. \E k \in Filings : chainLock' = [chainLock EXCEPT ![k] = p]
  BY <1>2, <1>3 DEF LockLow, LockHigh, Lock, ChainLock, Typed, ControlOK
<1>5. /\ UNCHANGED <<table, begun, local, rowLock>>
      /\ \/ pc' = [pc EXCEPT ![p] = "lockHigh"] /\ Len(keys[p]) = 2
         \/ pc' = [pc EXCEPT ![p] = "lock"] /\ keys[p] # << >>
         \/ pc' = [pc EXCEPT ![p] = "resolve"] /\ keys[p] # << >>
  BY <1>3 DEF LockLow, LockHigh, Lock, GoTo, Typed, ControlOK
<1>6. TypeOK'
  <2>1. pc' \in [Procs -> Labels]
    BY <1>5 DEF Typed, TypeOK, Labels
  <2>2. chainLock' \in [Filings -> Proc]
    BY <1>4 DEF Typed, TypeOK, Proc
  <2> QED BY <1>5, <2>1, <2>2 DEF Typed, TypeOK, Labels, table, local
<1>7. ControlOK'
  BY <1>5 DEF Typed, TypeOK, ControlOK, Visible, Ingests, table, local
<1> QED BY <1>6, <1>7 DEF Typed

LEMMA BeginTyped ==
    ASSUME Typed, NEW p \in Procs, NEW j \in Jobs, Begin(p, j)
    PROVE  Typed'
<1>1. j \in IngestJob \cup ChainJob \cup AllJob
  BY JobsAssumption
<1>2. j.kind # "chain" \/ (<<j.id>> \in Seq(Filings) /\ <<j.id>> # << >>)
  BY <1>1 DEF IngestJob, ChainJob, AllJob
<1>3. TypeOK'
  <2>1. begun' \in 0..MaxJobs
    BY MaxJobsAssumption DEF Begin, Typed, TypeOK
  <2>2. pc' \in [Procs -> Labels]
    BY DEF Begin, GoTo, Typed, TypeOK, Labels
  <2>3. keys' \in [Procs -> Seq(Filings)]
    BY <1>2 DEF Begin, Typed, TypeOK
  <2>4. job' \in [Procs -> IngestJob \cup ChainJob \cup AllJob]
    BY <1>1 DEF Begin, Typed, TypeOK
  <2> QED BY <2>1, <2>2, <2>3, <2>4 DEF Begin, Typed, TypeOK, Labels, table, locks
<1>4. ~ stored[p] /\ p \in DOMAIN pc /\ p \in DOMAIN job /\ p \in DOMAIN keys
  BY DEF Begin, Typed, TypeOK, ControlOK
<1>5. \A q \in Procs : Visible(q)' = Visible(q)
  BY <1>4 DEF Begin, Visible, table, Typed, TypeOK
<1>6. ControlOK'
  <2>1. ASSUME NEW q \in Procs, q # p
        PROVE  /\ pc'[q] = pc[q] /\ job'[q] = job[q] /\ keys'[q] = keys[q]
    BY <2>1 DEF Begin, GoTo, Typed, TypeOK
  <2>2. /\ job'[p] = j
        /\ pc'[p] = CASE j.kind = "chain" -> "lock" [] j.kind = "all" -> "resolve" [] OTHER -> "select"
        /\ keys'[p] = IF j.kind = "chain" THEN <<j.id>> ELSE << >>
    BY <1>4 DEF Begin, GoTo
  <2>3. j.kind \in {"ingest", "defer", "chain", "all"}
    BY <1>1 DEF IngestJob, ChainJob, AllJob
  <2>4. /\ pc'[p] = "select" => j.kind \in {"ingest", "defer"}
        /\ pc'[p] = "lock" => keys'[p] # << >>
        /\ pc'[p] = "resolve" => j.kind = "all"
        /\ pc'[p] \in {"select", "lock", "resolve"}
    BY <2>2, <2>3
  <2>5. UNCHANGED <<stored, todo, nextRow, dirty>>
    BY DEF Begin
  <2> QED BY <1>4, <1>5, <2>1, <2>2, <2>4, <2>5 DEF ControlOK, Ingests, Typed
<1> QED BY <1>3, <1>6 DEF Typed

LEMMA SelectTyped ==
    ASSUME Typed, NEW p \in Procs, SelectForUpdate(p)
    PROVE  Typed'
<1>1. job[p].id \in Filings /\ Ingests(p)
  BY VisibleType DEF SelectForUpdate, Typed, ControlOK, IngestJob
<1>2. job[p].id \in DOMAIN filings => LeftKey(p) \in Filings
  BY <1>1, ChainKeyType DEF LeftKey, Typed, TypeOK
<1>3. TypeOK'
  <2>1. pc' \in [Procs -> Labels]
    BY DEF SelectForUpdate, GoTo, Typed, TypeOK, Labels
  <2>2. oldKey' \in [Procs -> Filings \cup {NoFiling}] /\ rowLock' \in [Filings -> Proc]
    <3>1. \/ UNCHANGED <<oldKey, rowLock>>
          \/ /\ job[p].id \in DOMAIN filings
             /\ rowLock' = [rowLock EXCEPT ![job[p].id] = p]
             /\ oldKey' = [oldKey EXCEPT ![p] = LeftKey(p)]
      BY DEF SelectForUpdate, LockRow
    <3>2. /\ oldKey \in [Procs -> Filings \cup {NoFiling}]
          /\ rowLock \in [Filings -> Proc] /\ p \in Proc
      BY DEF Typed, TypeOK, Proc
    <3> QED BY <1>2, <3>1, <3>2
  <2> QED BY <2>1, <2>2 DEF SelectForUpdate, Typed, TypeOK, Labels, table
<1>4. ControlOK'
  BY <1>1 DEF SelectForUpdate, GoTo, Typed, TypeOK, ControlOK, Visible, Ingests, table
<1> QED BY <1>3, <1>4 DEF Typed

LEMMA UpsertTyped ==
    ASSUME Typed, NEW p \in Procs, Upsert(p)
    PROVE  Typed'
<1> DEFINE key == ChainKey(job[p].id, job[p].header)
<1>1. Ingests(p) /\ job[p].id \in Filings /\ key \in Filings
  BY VisibleType, ChainKeyType DEF Upsert, Typed, ControlOK, IngestJob
<1>2. oldKey[p] \in Filings \cup {NoFiling}
  BY DEF Typed, TypeOK
<1>3. \/ pc' = [pc EXCEPT ![p] = "commit"] /\ UNCHANGED keys
      \/ /\ pc' = [pc EXCEPT ![p] = "lock"]
         /\ keys' = [keys EXCEPT ![p] = <<key>>]
      \/ /\ pc' = [pc EXCEPT ![p] = "lockLow"]
         /\ oldKey[p] \in Filings
         /\ keys' = [keys EXCEPT ![p] = <<key, oldKey[p]>>]
  BY <1>2 DEF Upsert, GoTo
<1>4. TypeOK'
  <2>1. pc' \in [Procs -> Labels]
    BY DEF Upsert, GoTo, Typed, TypeOK, Labels
  <2>2. keys' \in [Procs -> Seq(Filings)]
    <3> HIDE DEF key
    <3>1. keys \in [Procs -> Seq(Filings)] /\ <<key>> \in Seq(Filings)
      BY <1>1 DEF Typed, TypeOK
    <3>2. oldKey[p] \in Filings => <<key, oldKey[p]>> \in Seq(Filings)
      BY <1>1
    <3> QED BY <1>3, <3>1, <3>2
  <2>3. stored' \in [Procs -> BOOLEAN] /\ rowLock' \in [Filings -> Proc]
    BY DEF Upsert, LockRow, Typed, TypeOK, Proc
  <2> QED BY <2>1, <2>2, <2>3 DEF Upsert, Typed, TypeOK, Labels, table
<1>5. \A q \in Procs : DOMAIN Visible(q) \subseteq DOMAIN Visible(q)'
  BY DEF Upsert, Visible, Put, Typed, TypeOK, table
<1>6. ControlOK'
  <2>1. /\ stored' = [stored EXCEPT ![p] = TRUE]
        /\ UNCHANGED <<job, todo, nextRow, dirty>>
    BY DEF Upsert
  <2>2. ASSUME NEW q \in Procs
        PROVE  /\ pc'[q] \in {"select", "upsert"} => Ingests(q)'
               /\ stored'[q] => Ingests(q)' /\ pc'[q] # "idle"
               /\ pc'[q] = "rows" => nextRow'[q] \in DOMAIN todo'[q]
    BY <1>1, <1>3, <2>1 DEF Ingests, Typed, TypeOK, ControlOK
  <2>3. ASSUME NEW q \in Procs
        PROVE  /\ pc'[q] \in {"lockLow", "lockHigh"} => Len(keys'[q]) = 2
               /\ pc'[q] = "lock" => keys'[q] # << >>
               /\ pc'[q] \in {"resolve", "rows"} => job'[q].kind = "all" \/ keys'[q] # << >>
    <3> HIDE DEF key
    <3>1. Len(<<key, oldKey[p]>>) = 2 /\ <<key>> # << >>
      OBVIOUS
    <3>2. CASE q = p
      BY <1>3, <2>1, <3>1, <3>2 DEF Typed, TypeOK, ControlOK
    <3>3. CASE q # p
      BY <1>3, <2>1, <3>3 DEF Typed, TypeOK, ControlOK
    <3> QED BY <3>2, <3>3
  <2>4. \A q \in Procs : DOMAIN todo'[q] \cup DOMAIN dirty'[q] \subseteq DOMAIN Visible(q)'
    BY <1>5, <2>1 DEF Typed, ControlOK
  <2> QED BY <2>2, <2>3, <2>4 DEF ControlOK
<1> QED BY <1>4, <1>6 DEF Typed

(* What an UPDATE computes is typed, and for rows its transaction sees. *)
LEMMA ComputedType ==
    ASSUME Typed, NEW p \in Procs
    PROVE  /\ DOMAIN Computed(p) \subseteq DOMAIN Visible(p)
           /\ Computed(p) \in [DOMAIN Computed(p) -> Resolved]
<1>1. /\ DOMAIN Visible(p) \subseteq Filings
      /\ Visible(p) \in [DOMAIN Visible(p) -> Header]
  BY VisibleType
<1>2. /\ ResolveAll(Visible(p)) \in [DOMAIN Visible(p) -> Resolved]
      /\ \A k : /\ Members(Visible(p), k) \subseteq DOMAIN Visible(p)
                /\ ResolveOne(Visible(p), k) \in [Members(Visible(p), k) -> Resolved]
  BY <1>1, ResolveType
<1> QED BY <1>2 DEF Computed

(* The chains left after an UPDATE. *)
LEMMA FinishType ==
    ASSUME Typed, NEW p \in Procs, Finish(p)
    PROVE  /\ keys' \in [Procs -> Seq(Filings)]
           /\ \A q \in Procs \ {p} : keys'[q] = keys[q]
           /\ \/ pc' = [pc EXCEPT ![p] = "commit"]
              \/ pc' = [pc EXCEPT ![p] = "lock"] /\ keys'[p] # << >>
<1>1. keys \in [Procs -> Seq(Filings)]
  BY DEF Typed, TypeOK
<1>2. keys[p] # << >> => /\ Tail(keys[p]) \in Seq(Filings)
                         /\ Len(keys[p]) > 1 => Tail(keys[p]) # << >>
  <2>1. SUFFICES ASSUME NEW s \in Seq(Filings), s # << >>
                 PROVE  Tail(s) \in Seq(Filings) /\ (Len(s) > 1 => Tail(s) # << >>)
    BY <1>1
  <2>2. Tail(s) \in Seq(Filings) /\ Len(Tail(s)) = Len(s) - 1
    BY <2>1, HeadTailProperties
  <2>3. Len(s) > 1 => Len(Tail(s)) # 0
    BY <2>2, LenProperties
  <2> QED BY <2>2, <2>3, EmptySeq
<1>3. keys[p] = << >> => Len(keys[p]) = 0 /\ << >> \in Seq(Filings)
  OBVIOUS
<1>4. keys' = [keys EXCEPT ![p] = IF keys[p] = << >> THEN << >> ELSE Tail(keys[p])]
  BY <1>1 DEF Finish
<1>5. pc' = [pc EXCEPT ![p] = IF Len(keys[p]) > 1 THEN "lock" ELSE "commit"]
  BY DEF Finish, GoTo
<1>6. keys' \in [Procs -> Seq(Filings)] /\ \A q \in Procs \ {p} : keys'[q] = keys[q]
  BY <1>1, <1>2, <1>3, <1>4
<1>7. CASE Len(keys[p]) > 1
  <2>1. keys[p] # << >> /\ Tail(keys[p]) # << >>
    BY <1>2, <1>3, <1>7
  <2>2. keys'[p] # << >>
    BY <1>1, <1>4, <2>1
  <2> QED BY <1>5, <1>6, <1>7, <2>2
<1>8. CASE ~ (Len(keys[p]) > 1)
  BY <1>5, <1>6, <1>8
<1> QED BY <1>7, <1>8

LEMMA ResolveTyped ==
    ASSUME Typed, NEW p \in Procs, Resolve(p)
    PROVE  Typed'
<1>1. UNCHANGED <<filings, derived, begun, job, oldKey, stored, dirty, rowLock, chainLock>>
  BY DEF Resolve, table, locks
<1>2. CASE Finish(p) /\ UNCHANGED <<todo, nextRow>>
  <2>1. /\ keys' \in [Procs -> Seq(Filings)]
        /\ \A q \in Procs \ {p} : keys'[q] = keys[q]
        /\ \/ pc' = [pc EXCEPT ![p] = "commit"]
           \/ pc' = [pc EXCEPT ![p] = "lock"] /\ keys'[p] # << >>
    BY <1>2, FinishType
  <2>2. pc' \in [Procs -> Labels]
    BY <2>1 DEF Typed, TypeOK, Labels
  <2>3. TypeOK'
    BY <1>1, <1>2, <2>1, <2>2 DEF Typed, TypeOK, Labels
  <2>4. ControlOK'
    BY <1>1, <1>2, <2>1 DEF Typed, TypeOK, ControlOK, Visible, Ingests
  <2> QED BY <2>3, <2>4 DEF Typed
<1>3. CASE ~ (Finish(p) /\ UNCHANGED <<todo, nextRow>>)
  <2>1. PICK f \in DOMAIN Computed(p) :
           /\ pc' = [pc EXCEPT ![p] = "rows"]
           /\ todo' = [todo EXCEPT ![p] = Computed(p)]
           /\ nextRow' = [nextRow EXCEPT ![p] = f]
           /\ UNCHANGED keys
    BY <1>3 DEF Resolve, GoTo
  <2>2. /\ DOMAIN Computed(p) \subseteq DOMAIN Visible(p)
        /\ DOMAIN Visible(p) \subseteq Filings
        /\ Computed(p) \in [DOMAIN Computed(p) -> Resolved]
    BY ComputedType, VisibleType
  <2>3. TypeOK'
    <3>1. pc' \in [Procs -> Labels] /\ nextRow' \in [Procs -> Filings \cup {NoFiling}]
      BY <2>1, <2>2 DEF Typed, TypeOK, Labels
    <3>2. /\ DOMAIN todo' = Procs
          /\ \A q \in Procs : DOMAIN todo'[q] \subseteq Filings
                               /\ todo'[q] \in [DOMAIN todo'[q] -> Resolved]
      BY <2>1, <2>2 DEF Typed, TypeOK
    <3> QED BY <1>1, <2>1, <3>1, <3>2 DEF Typed, TypeOK, Labels
  <2>4. pc[p] = "resolve" /\ p \in DOMAIN pc /\ p \in DOMAIN todo /\ p \in DOMAIN nextRow
    BY DEF Resolve, Typed, TypeOK
  <2>5. \A q \in Procs : Visible(q)' = Visible(q)
    BY <1>1 DEF Visible
  <2>6. ControlOK'
    BY <1>1, <2>1, <2>2, <2>4, <2>5 DEF Typed, TypeOK, ControlOK, Ingests
  <2> QED BY <2>3, <2>6 DEF Typed
<1> QED BY <1>2, <1>3

LEMMA WriteRowTyped ==
    ASSUME Typed, NEW p \in Procs, WriteRow(p)
    PROVE  Typed'
<1> DEFINE f == nextRow[p]
           rest == DOMAIN todo[p] \ {f}
<1>1. /\ UNCHANGED <<filings, derived, begun, job, oldKey, stored, chainLock>>
      /\ rowLock' = [rowLock EXCEPT ![f] = p]
      /\ dirty' = [dirty EXCEPT ![p] = Put(dirty[p], f, todo[p][f])]
      /\ todo' = [todo EXCEPT ![p] = [g \in rest |-> todo[p][g]]]
  BY DEF WriteRow, LockRow, table, Typed, TypeOK
<1>2. f \in DOMAIN todo[p] /\ f \in Filings /\ f \in DOMAIN Visible(p)
  BY VisibleType DEF WriteRow, Typed, ControlOK
<1>3. /\ rowLock' \in [Filings -> Proc]
      /\ DOMAIN todo' = Procs /\ DOMAIN dirty' = Procs
      /\ \A q \in Procs :
            /\ DOMAIN todo'[q] \subseteq Filings /\ todo'[q] \in [DOMAIN todo'[q] -> Resolved]
            /\ DOMAIN dirty'[q] \subseteq Filings /\ dirty'[q] \in [DOMAIN dirty'[q] -> Resolved]
  <2>1. rowLock' \in [Filings -> Proc]
    BY <1>1, <1>2 DEF Typed, TypeOK, Proc
  <2>2. [g \in rest |-> todo[p][g]] \in [rest -> Resolved] /\ rest \subseteq Filings
    BY <1>2 DEF Typed, TypeOK
  <2>3. /\ Put(dirty[p], f, todo[p][f]) \in [DOMAIN dirty[p] \cup {f} -> Resolved]
        /\ DOMAIN dirty[p] \cup {f} \subseteq Filings
    BY <1>2 DEF Put, Typed, TypeOK
  <2> HIDE DEF f, rest
  <2>4. DOMAIN todo' = Procs /\ DOMAIN dirty' = Procs
    BY <1>1 DEF Typed, TypeOK
  <2>5. ASSUME NEW q \in Procs
        PROVE  DOMAIN todo'[q] \subseteq Filings /\ todo'[q] \in [DOMAIN todo'[q] -> Resolved]
    BY <1>1, <2>2 DEF Typed, TypeOK
  <2>6. ASSUME NEW q \in Procs
        PROVE  DOMAIN dirty'[q] \subseteq Filings /\ dirty'[q] \in [DOMAIN dirty'[q] -> Resolved]
    BY <1>1, <2>3 DEF Typed, TypeOK
  <2> QED BY <2>1, <2>4, <2>5, <2>6
<1>4. \A q \in Procs : /\ DOMAIN todo'[q] \cup DOMAIN dirty'[q] \subseteq DOMAIN Visible(q)
                       /\ Visible(q)' = Visible(q)
  BY <1>1, <1>2 DEF Typed, TypeOK, ControlOK, Visible, Put
<1>5. CASE rest = {}
  <2>1. Finish(p) /\ nextRow' = [nextRow EXCEPT ![p] = NoFiling]
    BY <1>5 DEF WriteRow
  <2>2. /\ keys' \in [Procs -> Seq(Filings)]
        /\ \A q \in Procs \ {p} : keys'[q] = keys[q]
        /\ \/ pc' = [pc EXCEPT ![p] = "commit"]
           \/ pc' = [pc EXCEPT ![p] = "lock"] /\ keys'[p] # << >>
    BY <2>1, FinishType
  <2>3. pc' \in [Procs -> Labels] /\ nextRow' \in [Procs -> Filings \cup {NoFiling}]
    BY <2>1, <2>2 DEF Typed, TypeOK, Labels
  <2>4. TypeOK'
    BY <1>1, <1>3, <2>2, <2>3 DEF Typed, TypeOK, Labels
  <2>5. ControlOK'
    BY <1>1, <1>4, <2>1, <2>2 DEF Typed, TypeOK, ControlOK, Ingests
  <2> QED BY <2>4, <2>5 DEF Typed
<1>6. CASE rest # {}
  <2>1. PICK g \in rest : nextRow' = [nextRow EXCEPT ![p] = g] /\ UNCHANGED <<pc, keys>>
    BY <1>6 DEF WriteRow
  <2>2. g \in Filings /\ DOMAIN todo'[p] = rest
    BY <1>1 DEF Typed, TypeOK
  <2>3. TypeOK'
    BY <1>1, <1>3, <2>1, <2>2 DEF Typed, TypeOK
  <2>4. ControlOK'
    BY <1>1, <1>4, <2>1, <2>2 DEF Typed, TypeOK, ControlOK, Ingests
  <2> QED BY <2>3, <2>4 DEF Typed
<1> QED BY <1>5, <1>6

(* A commit installs what the transaction sees and has written; the end of  *)
(* a transaction, committed or not, leaves it idle and holding nothing.     *)
LEMMA EndTyped ==
    ASSUME Typed, NEW p \in Procs, Commit(p) \/ Fail(p)
    PROVE  Typed'
<1>1. /\ DOMAIN filings \subseteq DOMAIN filings' /\ DOMAIN filings' \subseteq Filings
      /\ filings' \in [DOMAIN filings' -> Header]
      /\ DOMAIN derived' \subseteq DOMAIN filings'
      /\ derived' \in [DOMAIN derived' -> Resolved]
  <2>1. CASE Commit(p)
    BY <2>1, VisibleType DEF Commit, Overlay, Typed, TypeOK, ControlOK
  <2>2. CASE Fail(p)
    BY <2>2 DEF Fail, table, Typed, TypeOK
  <2> QED BY <2>1, <2>2
<1>2. End(p)
  BY DEF Commit, Fail
<1>3. DOMAIN Empty = {} /\ Empty \in [{} -> Resolved]
  BY DEF Empty
<1>4. TypeOK'
  <2>1. pc' \in [Procs -> Labels] /\ UNCHANGED begun
    BY <1>2 DEF End, GoTo, Typed, TypeOK, Labels
  <2>2. /\ job' \in [Procs -> IngestJob \cup ChainJob \cup AllJob]
        /\ oldKey' \in [Procs -> Filings \cup {NoFiling}]
        /\ stored' \in [Procs -> BOOLEAN]
        /\ nextRow' \in [Procs -> Filings \cup {NoFiling}]
    BY <1>2 DEF End, Typed, TypeOK, AllJob
  <2>3. keys' \in [Procs -> Seq(Filings)]
    BY <1>2 DEF End, Typed, TypeOK
  <2>4. /\ DOMAIN todo' = Procs /\ DOMAIN dirty' = Procs
        /\ \A q \in Procs :
              /\ DOMAIN todo'[q] \subseteq Filings /\ todo'[q] \in [DOMAIN todo'[q] -> Resolved]
              /\ DOMAIN dirty'[q] \subseteq Filings /\ dirty'[q] \in [DOMAIN dirty'[q] -> Resolved]
    BY <1>2, <1>3 DEF End, Typed, TypeOK
  <2>5. rowLock' \in [Filings -> Proc] /\ chainLock' \in [Filings -> Proc]
    BY <1>2 DEF End, FreeLocks, Released, Typed, TypeOK, Proc
  <2> QED BY <1>1, <2>1, <2>2, <2>3, <2>4, <2>5 DEF TypeOK, Labels, Typed
<1>5. ControlOK'
  <2>1. /\ pc'[p] = "idle" /\ ~ stored'[p] /\ DOMAIN todo'[p] = {} /\ DOMAIN dirty'[p] = {}
    BY <1>2, <1>3 DEF End, GoTo, Typed, TypeOK
  <2>2. ASSUME NEW q \in Procs, q # p
        PROVE  /\ pc'[q] = pc[q] /\ job'[q] = job[q] /\ keys'[q] = keys[q]
               /\ stored'[q] = stored[q] /\ nextRow'[q] = nextRow[q]
               /\ todo'[q] = todo[q] /\ dirty'[q] = dirty[q]
    BY <1>2, <2>2 DEF End, GoTo, Typed, TypeOK
  <2>3. ASSUME NEW q \in Procs, q # p
        PROVE  DOMAIN Visible(q) \subseteq DOMAIN Visible(q)'
    BY <1>1, <2>2, <2>3 DEF Visible, Put
  <2>4. ASSUME NEW q \in Procs, q # p
        PROVE  DOMAIN todo'[q] \cup DOMAIN dirty'[q] \subseteq DOMAIN Visible(q)'
    BY <2>2, <2>3, <2>4 DEF Typed, ControlOK
  <2>5. DOMAIN todo'[p] \cup DOMAIN dirty'[p] \subseteq DOMAIN Visible(p)'
    BY <2>1
  <2> QED BY <2>1, <2>2, <2>4, <2>5 DEF Typed, ControlOK, Ingests
<1> QED BY <1>4, <1>5 DEF Typed

LEMMA NextTyped == Typed /\ [Next]_vars => Typed'
<1> SUFFICES ASSUME Typed, [Next]_vars PROVE Typed'
  OBVIOUS
<1>1. ASSUME NEW p \in Procs, NEW j \in Jobs, Begin(p, j) PROVE Typed'
  BY <1>1, BeginTyped
<1>2. ASSUME NEW p \in Procs, Step(p) PROVE Typed'
  BY <1>2, SelectTyped, UpsertTyped, LocksTyped, ResolveTyped, WriteRowTyped, EndTyped
  DEF Step
<1>3. ASSUME NEW p \in Procs, Fail(p) PROVE Typed'
  BY <1>3, EndTyped
<1>4. CASE UNCHANGED vars
  BY <1>4 DEF vars, table, local, locks, Typed, TypeOK, ControlOK, Visible, Ingests
<1> QED BY <1>1, <1>2, <1>3, <1>4 DEF Next, Done

LEMMA TypedAlways == Spec => []Typed
<1>1. Init => Typed
  BY InitTyped
<1>2. Typed /\ [Next]_vars => Typed'
  BY NextTyped
<1> QED BY <1>1, <1>2, PTL DEF Spec

(* Every column, lock and transaction variable keeps its type; it rests on  *)
(* what holds at each statement (ControlOK), above all that a transaction   *)
(* writes chain columns only of rows it sees.                               *)
THEOREM TypeCorrect == Spec => []TypeOK
<1>1. Typed => TypeOK
  BY DEF Typed
<1> QED BY <1>1, TypedAlways, PTL

-----------------------------------------------------------------------------
(* The locks p holds at each statement, strong enough to be inductive: a    *)
(* move takes both advisory locks before it resolves, so it still holds the *)
(* first chain's while it resolves, and after it has resolved, the second.  *)
Key(p) == ChainKey(job[p].id, job[p].header)
IsMove(p) == oldKey[p] \notin {NoFiling, Key(p)}

HeldRows(p) ==
    /\ \A f \in DOMAIN dirty[p] : rowLock[f] = p
    /\ stored[p] => rowLock[job[p].id] = p

HeldChains(p) ==
    /\ pc[p] \in {"resolve", "rows"} /\ job[p].kind # "all" => chainLock[Head(keys[p])] = p
    /\ job[p].kind = "ingest" =>
          /\ pc[p] \in {"lockLow", "lockHigh"} => IsMove(p) /\ keys[p] = <<Key(p), oldKey[p]>>
          /\ pc[p] = "lockHigh" => chainLock[Lowest(p)] = p
          /\ pc[p] \in {"lock", "resolve", "rows"} /\ ~ IsMove(p) => keys[p] = <<Key(p)>>
          /\ pc[p] \in {"lock", "resolve", "rows", "commit"} /\ IsMove(p) =>
                chainLock[Key(p)] = p /\ chainLock[oldKey[p]] = p
          /\ pc[p] = "commit" => chainLock[Key(p)] = p

Held == \A p \in Procs : HeldRows(p) /\ HeldChains(p)

(* A step of p leaves the private state of the others alone, and the locks  *)
(* they hold.                                                               *)
LEMMA OthersKeepTheirs ==
    ASSUME Typed, NEW p \in Procs, NEW q \in Procs, q # p,
           \/ Step(p) \/ Fail(p) \/ \E j \in Jobs : Begin(p, j)
    PROVE  /\ pc'[q] = pc[q] /\ job'[q] = job[q] /\ oldKey'[q] = oldKey[q]
           /\ keys'[q] = keys[q] /\ stored'[q] = stored[q] /\ todo'[q] = todo[q]
           /\ nextRow'[q] = nextRow[q] /\ dirty'[q] = dirty[q]
           /\ \A f \in Filings : /\ rowLock[f] = q => rowLock'[f] = q
                                 /\ chainLock[f] = q => chainLock'[f] = q
<1> DEFINE Kept == /\ pc'[q] = pc[q] /\ job'[q] = job[q] /\ oldKey'[q] = oldKey[q]
                   /\ keys'[q] = keys[q] /\ stored'[q] = stored[q] /\ todo'[q] = todo[q]
                   /\ nextRow'[q] = nextRow[q] /\ dirty'[q] = dirty[q]
           Rows   == \A f \in Filings : rowLock[f] = q => rowLock'[f] = q
           Chains == \A f \in Filings : chainLock[f] = q => chainLock'[f] = q
<1>1. /\ DOMAIN pc = Procs /\ DOMAIN job = Procs /\ DOMAIN oldKey = Procs
      /\ DOMAIN keys = Procs /\ DOMAIN stored = Procs /\ DOMAIN todo = Procs
      /\ DOMAIN nextRow = Procs /\ DOMAIN dirty = Procs
      /\ pc = [r \in Procs |-> pc[r]] /\ keys = [r \in Procs |-> keys[r]]
      /\ rowLock = [f \in Filings |-> rowLock[f]]
      /\ chainLock = [f \in Filings |-> chainLock[f]]
      /\ q # NoProc
  BY ProcsAssumption DEF Typed, TypeOK
<1>2. ASSUME NEW j \in Jobs, Begin(p, j) PROVE Kept /\ Rows /\ Chains
  BY <1>1, <1>2 DEF Begin, GoTo, locks
<1>3. ASSUME SelectForUpdate(p) PROVE Kept /\ Rows /\ Chains
  BY <1>1, <1>3 DEF SelectForUpdate, LockRow, Available, GoTo
<1>4. ASSUME Upsert(p) PROVE Kept /\ Rows /\ Chains
  BY <1>1, <1>4 DEF Upsert, LockRow, Available, GoTo
<1>5. ASSUME LockLow(p) \/ LockHigh(p) \/ Lock(p) PROVE Kept /\ Rows /\ Chains
  BY <1>1, <1>5 DEF LockLow, LockHigh, Lock, ChainLock, Available, GoTo, local
<1>6. ASSUME Resolve(p) PROVE Kept /\ Rows /\ Chains
  BY <1>1, <1>6 DEF Resolve, Finish, GoTo, locks
<1>7. ASSUME WriteRow(p) PROVE Kept /\ Rows /\ Chains
  BY <1>1, <1>7 DEF WriteRow, LockRow, Available, Finish, GoTo
<1>8. ASSUME Commit(p) \/ Fail(p) PROVE Kept /\ Rows /\ Chains
  BY <1>1, <1>8 DEF Commit, Fail, End, FreeLocks, Released, GoTo
<1> QED BY <1>2, <1>3, <1>4, <1>5, <1>6, <1>7, <1>8 DEF Step

(* So whatever another caller does, what q holds it keeps. *)
LEMMA OthersHeld ==
    ASSUME Typed, Held, NEW p \in Procs, NEW q \in Procs, q # p,
           \/ Step(p) \/ Fail(p) \/ \E j \in Jobs : Begin(p, j)
    PROVE  HeldRows(q)' /\ HeldChains(q)'
<1>1. /\ pc'[q] = pc[q] /\ job'[q] = job[q] /\ oldKey'[q] = oldKey[q]
      /\ keys'[q] = keys[q] /\ stored'[q] = stored[q] /\ dirty'[q] = dirty[q]
      /\ \A f \in Filings : /\ rowLock[f] = q => rowLock'[f] = q
                            /\ chainLock[f] = q => chainLock'[f] = q
  BY OthersKeepTheirs
<1>2. /\ DOMAIN dirty[q] \subseteq Filings
      /\ Ingests(q) => job[q].id \in Filings /\ Key(q) \in Filings
      /\ oldKey[q] \in Filings \cup {NoFiling}
      /\ keys[q] # << >> => Head(keys[q]) \in Filings
  <2>1. keys[q] \in Seq(Filings)
    BY DEF Typed, TypeOK
  <2>2. Ingests(q) => job[q].id \in Filings /\ Key(q) \in Filings
    BY VisibleType, ChainKeyType DEF IngestJob, Key
  <2> QED BY <2>1, <2>2, HeadTailProperties DEF Typed, TypeOK
<1>3. HeldRows(q)'
  <2>1. HeldRows(q) /\ (stored[q] => Ingests(q))
    BY DEF Held, Typed, ControlOK
  <2>2. ASSUME NEW f \in DOMAIN dirty'[q] PROVE rowLock'[f] = q
    <3>1. f \in DOMAIN dirty[q]
      BY <1>1
    <3>2. rowLock[f] = q /\ f \in Filings
      BY <1>2, <2>1, <3>1 DEF HeldRows
    <3> QED BY <1>1, <3>2
  <2>3. stored'[q] => rowLock'[job'[q].id] = q
    BY <1>1, <1>2, <2>1 DEF HeldRows
  <2> QED BY <2>2, <2>3 DEF HeldRows
<1>4. HeldChains(q)'
  <2>1. /\ Key(q)' = Key(q) /\ Lowest(q)' = Lowest(q) /\ IsMove(q)' = IsMove(q)
    BY <1>1 DEF Key, Lowest, IsMove
  <2>2. job[q].kind = "ingest" => Ingests(q)
    BY DEF Ingests
  <2>3. job[q].kind = "ingest" /\ pc[q] = "lockHigh" => Lowest(q) \in Filings
    BY <1>2, <2>2 DEF Held, HeldChains, Lowest, IsMove
  <2>4. pc[q] \in {"resolve", "rows"} /\ job[q].kind # "all" => keys[q] # << >>
    BY DEF Typed, ControlOK
  <2>5. IsMove(q) => oldKey[q] \in Filings
    BY <1>2 DEF IsMove
  <2>6. HeldChains(q)
    BY DEF Held
  <2>7. pc'[q] \in {"resolve", "rows"} /\ job'[q].kind # "all"
           => chainLock'[Head(keys'[q])] = q
    BY <1>1, <1>2, <2>4, <2>6 DEF HeldChains
  <2>8. CASE job[q].kind = "ingest"
    <3>1. pc'[q] = "lockHigh" => chainLock'[Lowest(q)'] = q
      BY <1>1, <2>1, <2>3, <2>6, <2>8 DEF HeldChains
    <3>2. /\ pc'[q] \in {"lockLow", "lockHigh"} =>
                IsMove(q)' /\ keys'[q] = <<Key(q)', oldKey'[q]>>
          /\ pc'[q] \in {"lock", "resolve", "rows"} /\ ~ IsMove(q)' => keys'[q] = <<Key(q)'>>
      BY <1>1, <2>1, <2>6, <2>8 DEF HeldChains
    <3>3. /\ pc'[q] \in {"lock", "resolve", "rows", "commit"} /\ IsMove(q)' =>
                chainLock'[Key(q)'] = q /\ chainLock'[oldKey'[q]] = q
          /\ pc'[q] = "commit" => chainLock'[Key(q)'] = q
      BY <1>1, <1>2, <2>1, <2>2, <2>5, <2>6, <2>8 DEF HeldChains
    <3> QED BY <2>7, <3>1, <3>2, <3>3 DEF HeldChains
  <2>9. CASE job[q].kind # "ingest"
    BY <1>1, <2>7, <2>9 DEF HeldChains
  <2> QED BY <2>8, <2>9
<1> QED BY <1>3, <1>4

(* The steps by which p takes its own locks. *)
LEMMA OwnRows ==
    ASSUME Typed, Held, NEW p \in Procs,
           \/ Step(p) \/ Fail(p) \/ \E j \in Jobs : Begin(p, j)
    PROVE  HeldRows(p)'
<1>1. HeldRows(p) /\ DOMAIN dirty[p] \subseteq Filings /\ p \in DOMAIN dirty
  BY DEF Held, Typed, TypeOK
<1>2. stored \in [Procs -> BOOLEAN] /\ job = [q \in Procs |-> job[q]]
  BY DEF Typed, TypeOK
<1>3. ASSUME NEW j \in Jobs, Begin(p, j) PROVE HeldRows(p)'
  <2>1. stored'[p] = stored[p] /\ dirty'[p] = dirty[p] /\ rowLock' = rowLock
    BY <1>3 DEF Begin, locks
  <2>2. ~ stored[p]
    BY <1>3 DEF Begin, Typed, ControlOK
  <2> QED BY <1>1, <2>1, <2>2 DEF HeldRows
<1>4. CASE LockLow(p) \/ LockHigh(p) \/ Lock(p) \/ Resolve(p)
  <2>1. UNCHANGED <<stored, dirty, job, rowLock>>
    BY <1>4 DEF LockLow, LockHigh, Lock, Resolve, local, locks
  <2> QED BY <1>1, <2>1 DEF HeldRows
<1>5. CASE SelectForUpdate(p)
  <2>1. UNCHANGED <<stored, dirty, job>> /\ Ingests(p)
    BY <1>5 DEF SelectForUpdate, Typed, ControlOK
  <2>2. rowLock' = rowLock \/ rowLock' = [rowLock EXCEPT ![job[p].id] = p]
    BY <1>5 DEF SelectForUpdate, LockRow
  <2>3. \A f \in Filings : rowLock[f] = p => rowLock'[f] = p
    BY <2>2 DEF Typed, TypeOK
  <2>4. job[p].id \in Filings
    BY <2>1, VisibleType DEF IngestJob
  <2> QED BY <1>1, <2>1, <2>3, <2>4 DEF HeldRows
<1>6. CASE Upsert(p)
  <2>1. UNCHANGED <<dirty, job>> /\ Ingests(p) /\ rowLock' = [rowLock EXCEPT ![job[p].id] = p]
    BY <1>6 DEF Upsert, LockRow, Typed, ControlOK
  <2>2. job[p].id \in Filings
    BY <2>1, VisibleType DEF IngestJob
  <2>3. \A f \in Filings : rowLock[f] = p => rowLock'[f] = p
    BY <2>1 DEF Typed, TypeOK
  <2>4. rowLock'[job[p].id] = p
    BY <2>1, <2>2 DEF Typed, TypeOK
  <2> QED BY <1>1, <2>1, <2>3, <2>4 DEF HeldRows
<1>7. CASE WriteRow(p)
  <2> DEFINE f == nextRow[p]
  <2>1. /\ UNCHANGED <<stored, job>>
        /\ rowLock' = [rowLock EXCEPT ![f] = p]
        /\ dirty' = [dirty EXCEPT ![p] = Put(dirty[p], f, todo[p][f])]
    BY <1>1, <1>7 DEF WriteRow, LockRow
  <2>2. f \in Filings
    BY <1>7 DEF WriteRow, Typed, TypeOK, ControlOK
  <2>3. \A g \in Filings : rowLock[g] = p => rowLock'[g] = p
    BY <2>1, <2>2 DEF Typed, TypeOK
  <2>4. rowLock'[f] = p
    BY <2>1, <2>2 DEF Typed, TypeOK
  <2>5. DOMAIN dirty'[p] = DOMAIN dirty[p] \cup {f}
    BY <1>1, <2>1 DEF Put
  <2>6. stored[p] => job[p].id \in Filings
    BY VisibleType DEF Typed, ControlOK, IngestJob
  <2> QED BY <1>1, <2>1, <2>3, <2>4, <2>5, <2>6 DEF HeldRows
<1>8. CASE Commit(p) \/ Fail(p)
  <2>1. stored' = [stored EXCEPT ![p] = FALSE] /\ dirty' = [dirty EXCEPT ![p] = Empty]
    BY <1>8 DEF Commit, Fail, End
  <2>2. ~ stored'[p] /\ DOMAIN dirty'[p] = {}
    BY <1>1, <1>2, <2>1 DEF Empty
  <2> QED BY <2>2 DEF HeldRows
<1> QED BY <1>3, <1>4, <1>5, <1>6, <1>7, <1>8 DEF Step

(* Control of a move: the chains it resolves, in the order it does. *)
LEMMA FinishHeld ==
    ASSUME Typed, Held, NEW p \in Procs, Finish(p),
           pc[p] \in {"resolve", "rows"},
           UNCHANGED <<job, oldKey, chainLock>>
    PROVE  HeldChains(p)'
<1>1. /\ keys' = [keys EXCEPT ![p] = IF keys[p] = << >> THEN << >> ELSE Tail(keys[p])]
      /\ pc' = [pc EXCEPT ![p] = IF Len(keys[p]) > 1 THEN "lock" ELSE "commit"]
      /\ keys \in [Procs -> Seq(Filings)] /\ p \in DOMAIN pc
  BY DEF Finish, GoTo, Typed, TypeOK
<1>2. pc'[p] = IF Len(keys[p]) > 1 THEN "lock" ELSE "commit"
  BY <1>1
<1>3. UNCHANGED <<Key(p), IsMove(p)>> /\ job' = job /\ oldKey' = oldKey /\ chainLock' = chainLock
  BY DEF Key, IsMove
<1>4. HeldChains(p)
  BY DEF Held
<1>5. ASSUME job[p].kind = "ingest", pc'[p] = "lock" PROVE IsMove(p)
  <2>1. SUFFICES ASSUME ~ IsMove(p) PROVE FALSE
    OBVIOUS
  <2>2. keys[p] = <<Key(p)>>
    BY <1>4, <1>5, <2>1 DEF HeldChains
  <2>3. Len(keys[p]) = 1
    BY <2>2
  <2> QED BY <1>2, <1>5, <2>3
<1>6. ASSUME job[p].kind = "ingest", pc'[p] = "commit" PROVE chainLock[Key(p)] = p
  <2>1. CASE IsMove(p)
    BY <1>4, <1>6, <2>1 DEF HeldChains
  <2>2. CASE ~ IsMove(p)
    <3>1. keys[p] = <<Key(p)>> /\ chainLock[Head(keys[p])] = p
      BY <1>4, <1>6, <2>2 DEF HeldChains
    <3>2. Head(<<Key(p)>>) = Key(p)
      OBVIOUS
    <3> QED BY <3>1, <3>2
  <2> QED BY <2>1, <2>2
<1>7. job[p].kind = "ingest" /\ IsMove(p) => chainLock[Key(p)] = p /\ chainLock[oldKey[p]] = p
  BY <1>4 DEF HeldChains
<1> QED BY <1>2, <1>3, <1>5, <1>6, <1>7 DEF HeldChains

LEMMA OwnChains ==
    ASSUME Typed, Held, NEW p \in Procs,
           \/ Step(p) \/ Fail(p) \/ \E j \in Jobs : Begin(p, j)
    PROVE  HeldChains(p)'
<1>1. /\ HeldChains(p) /\ p \in DOMAIN pc /\ p \in DOMAIN job /\ p \in DOMAIN keys
      /\ p \in DOMAIN oldKey
  BY DEF Held, Typed, TypeOK
<1>2. ASSUME NEW j \in Jobs, Begin(p, j) PROVE HeldChains(p)'
  <2>1. /\ job'[p] = j
        /\ pc'[p] = CASE j.kind = "chain" -> "lock" [] j.kind = "all" -> "resolve" [] OTHER -> "select"
    BY <1>1, <1>2 DEF Begin, GoTo
  <2>2. j.kind \in {"ingest", "defer", "chain", "all"}
    BY JobsAssumption DEF IngestJob, ChainJob, AllJob
  <2>3. /\ pc'[p] \notin {"rows", "lockLow", "lockHigh", "commit"}
        /\ pc'[p] = "resolve" => job'[p].kind = "all"
        /\ job'[p].kind = "ingest" => pc'[p] = "select"
    BY <2>1, <2>2
  <2> QED BY <2>3 DEF HeldChains
<1>3. CASE SelectForUpdate(p)
  <2>1. pc'[p] = "upsert"
    BY <1>1, <1>3 DEF SelectForUpdate, GoTo
  <2> QED BY <2>1 DEF HeldChains
<1>4. CASE Upsert(p)
  <2>1. /\ job' = job /\ oldKey' = oldKey /\ Key(p)' = Key(p) /\ IsMove(p)' = IsMove(p)
    BY <1>4 DEF Upsert, Key, IsMove
  <2>2. CASE job[p].kind = "defer"
    <3>1. pc'[p] = "commit"
      BY <1>1, <1>4, <2>2 DEF Upsert, GoTo
    <3> QED BY <2>1, <2>2, <3>1 DEF HeldChains
  <2>3. CASE job[p].kind # "defer" /\ IsMove(p)
    <3>1. pc'[p] = "lockLow" /\ keys'[p] = <<Key(p), oldKey[p]>>
      BY <1>1, <1>4, <2>3 DEF Upsert, GoTo, Key, IsMove
    <3> QED BY <2>1, <2>3, <3>1 DEF HeldChains
  <2>4. CASE job[p].kind # "defer" /\ ~ IsMove(p)
    <3>1. pc'[p] = "lock" /\ keys'[p] = <<Key(p)>>
      BY <1>1, <1>4, <2>4 DEF Upsert, GoTo, Key, IsMove
    <3> QED BY <2>1, <2>4, <3>1 DEF HeldChains
  <2> QED BY <2>2, <2>3, <2>4
<1>5. ASSUME LockLow(p) \/ LockHigh(p) \/ Lock(p)
      PROVE  /\ job' = job /\ oldKey' = oldKey /\ keys' = keys
             /\ Key(p)' = Key(p) /\ IsMove(p)' = IsMove(p) /\ Lowest(p)' = Lowest(p)
             /\ \A k \in Filings : chainLock[k] = p => chainLock'[k] = p
  <2>1. /\ job' = job /\ oldKey' = oldKey /\ keys' = keys
    BY <1>5 DEF LockLow, LockHigh, Lock, local
  <2>2. \E k : chainLock' = [chainLock EXCEPT ![k] = p]
    BY <1>5 DEF LockLow, LockHigh, Lock, ChainLock
  <2>3. \A k \in Filings : chainLock[k] = p => chainLock'[k] = p
    BY <2>2 DEF Typed, TypeOK
  <2> QED BY <2>1, <2>3 DEF Key, IsMove, Lowest
<1>6. Key(p) \in Filings \/ job[p].kind # "ingest"
  BY VisibleType, ChainKeyType DEF Ingests, IngestJob, Key
<1>7. oldKey[p] \in Filings \/ ~ IsMove(p)
  BY DEF IsMove, Typed, TypeOK
<1>8. /\ job[p].kind = "ingest" /\ pc[p] \in {"lockLow", "lockHigh"} =>
           /\ IsMove(p) /\ keys[p][1] = Key(p) /\ keys[p][2] = oldKey[p]
           /\ {Lowest(p), Highest(p)} = {Key(p), oldKey[p]}
           /\ Lowest(p) \in Filings /\ Highest(p) \in Filings
  <2>1. SUFFICES ASSUME job[p].kind = "ingest", pc[p] \in {"lockLow", "lockHigh"}
                 PROVE  /\ IsMove(p) /\ keys[p][1] = Key(p) /\ keys[p][2] = oldKey[p]
                        /\ {Lowest(p), Highest(p)} = {Key(p), oldKey[p]}
                        /\ Lowest(p) \in Filings /\ Highest(p) \in Filings
    OBVIOUS
  <2>2. IsMove(p) /\ keys[p][1] = Key(p) /\ keys[p][2] = oldKey[p]
    BY <1>1, <2>1 DEF HeldChains
  <2>3. Key(p) \in Int /\ oldKey[p] \in Int
    <3>1. Key(p) \in Filings /\ oldKey[p] \in Filings
      BY <1>6, <1>7, <2>1, <2>2
    <3>2. Filings \subseteq Int
      BY FilingsAssumption
    <3> QED BY <3>1, <3>2
  <2> QED BY <1>6, <1>7, <2>1, <2>2, <2>3 DEF Lowest, Highest
<1>9. CASE LockLow(p)
  <2>1. pc[p] = "lockLow" /\ pc'[p] = "lockHigh" /\ chainLock' = [chainLock EXCEPT ![Lowest(p)] = p]
    BY <1>1, <1>9 DEF LockLow, ChainLock, GoTo
  <2>2. job[p].kind = "ingest" => chainLock'[Lowest(p)] = p
    BY <1>8, <2>1 DEF Typed, TypeOK
  <2> QED BY <1>1, <1>5, <1>9, <2>1, <2>2 DEF HeldChains
<1>10. CASE LockHigh(p)
  <2>1. pc[p] = "lockHigh" /\ pc'[p] = "lock" /\ chainLock' = [chainLock EXCEPT ![Highest(p)] = p]
    BY <1>1, <1>10 DEF LockHigh, ChainLock, GoTo
  <2>2. job[p].kind = "ingest" => chainLock'[Lowest(p)] = p /\ chainLock'[Highest(p)] = p
    BY <1>1, <1>5, <1>8, <1>10, <2>1 DEF HeldChains, Typed, TypeOK
  <2>3. job[p].kind = "ingest" => chainLock'[Key(p)] = p /\ chainLock'[oldKey[p]] = p
    BY <1>8, <2>1, <2>2
  <2> QED BY <1>1, <1>5, <1>8, <1>10, <2>1, <2>3 DEF HeldChains
<1>11. CASE Lock(p)
  <2>1. pc[p] = "lock" /\ pc'[p] = "resolve" /\ chainLock' = [chainLock EXCEPT ![Head(keys[p])] = p]
    BY <1>1, <1>11 DEF Lock, ChainLock, GoTo
  <2>2. Head(keys[p]) \in Filings
    BY <2>1, HeadTailProperties DEF Typed, TypeOK, ControlOK
  <2>3. chainLock'[Head(keys[p])] = p
    BY <2>1, <2>2 DEF Typed, TypeOK
  <2> QED BY <1>1, <1>5, <1>6, <1>7, <1>11, <2>1, <2>3 DEF HeldChains
<1>12. CASE Resolve(p)
  <2>1. UNCHANGED <<job, oldKey, chainLock>> /\ pc[p] = "resolve"
    BY <1>12 DEF Resolve, locks
  <2>2. CASE Finish(p)
    BY <2>1, <2>2, FinishHeld
  <2>3. CASE ~ Finish(p)
    <3>1. pc'[p] = "rows" /\ UNCHANGED keys
      BY <1>1, <1>12, <2>3 DEF Resolve, GoTo
    <3>2. Key(p)' = Key(p) /\ IsMove(p)' = IsMove(p)
      BY <2>1 DEF Key, IsMove
    <3> QED BY <1>1, <2>1, <3>1, <3>2 DEF HeldChains
  <2> QED BY <2>2, <2>3
<1>13. CASE WriteRow(p)
  <2>1. UNCHANGED <<job, oldKey, chainLock>> /\ pc[p] = "rows"
    BY <1>13 DEF WriteRow
  <2>2. CASE Finish(p)
    BY <2>1, <2>2, FinishHeld
  <2>3. CASE ~ Finish(p)
    <3>1. UNCHANGED <<pc, keys>>
      BY <1>13, <2>3 DEF WriteRow
    <3>2. Key(p)' = Key(p) /\ IsMove(p)' = IsMove(p)
      BY <2>1 DEF Key, IsMove
    <3> QED BY <1>1, <2>1, <3>1, <3>2 DEF HeldChains
  <2> QED BY <2>2, <2>3
<1>14. CASE Commit(p) \/ Fail(p)
  <2>1. pc'[p] = "idle"
    BY <1>1, <1>14 DEF Commit, Fail, End, GoTo
  <2> QED BY <2>1 DEF HeldChains
<1> QED BY <1>2, <1>3, <1>4, <1>9, <1>10, <1>11, <1>12, <1>13, <1>14 DEF Step

LEMMA InitHeld == Init => Held
<1> SUFFICES ASSUME Init, NEW p \in Procs PROVE HeldRows(p) /\ HeldChains(p)
  BY DEF Held
<1>1. pc[p] = "idle" /\ ~ stored[p] /\ DOMAIN dirty[p] = {}
  BY DEF Init, Empty
<1> QED BY <1>1 DEF HeldRows, HeldChains

LEMMA NextHeld == Typed /\ Held /\ [Next]_vars => Held'
<1> SUFFICES ASSUME Typed, Held, [Next]_vars PROVE Held'
  OBVIOUS
<1>1. ASSUME NEW p \in Procs, \/ Step(p) \/ Fail(p) \/ \E j \in Jobs : Begin(p, j)
      PROVE  Held'
  <2>1. \A q \in Procs : HeldRows(q)' /\ HeldChains(q)'
    BY <1>1, OwnRows, OwnChains, OthersHeld
  <2> QED BY <2>1 DEF Held
<1>2. CASE UNCHANGED vars
  BY <1>2 DEF vars, table, local, locks, Held, HeldRows, HeldChains, IsMove, Key, Lowest
<1> QED BY <1>1, <1>2 DEF Next, Done

(* Locking is two-phase, for every number of callers: nothing another       *)
(* caller does takes a row or a chain from a transaction that has written   *)
(* or resolved it, before that transaction ends.                            *)
THEOREM TwoPhaseLocking == Spec => []TwoPhase
<1>1. Typed /\ Held => TwoPhase
  <2> SUFFICES ASSUME Typed, Held, NEW p \in Procs
               PROVE  /\ \A f \in DOMAIN dirty[p] : rowLock[f] = p
                      /\ stored[p] => rowLock[job[p].id] = p
                      /\ pc[p] \in {"resolve", "rows"} /\ job[p].kind # "all" =>
                            chainLock[Head(keys[p])] = p
                      /\ pc[p] = "commit" /\ job[p].kind = "ingest" =>
                            /\ chainLock[Key(p)] = p
                            /\ oldKey[p] # NoFiling => chainLock[oldKey[p]] = p
    BY DEF TwoPhase, Key
  <2> QED BY DEF Held, HeldRows, HeldChains, IsMove
<1> QED BY <1>1, InitHeld, NextHeld, TypedAlways, PTL DEF Spec

-----------------------------------------------------------------------------
(***************************************************************************)
(* When filings keep to the FEC's rules (FixedChains) the chain columns    *)
(* are never observably stale, however many callers ingest at once, fail,  *)
(* deadlock and are rolled back.                                           *)
(***************************************************************************)

(* The rows of chain k. *)
ChainRows(t, k) == {f \in DOMAIN t : ChainKey(f, t[f]) = k}

Clean(t) ==
    /\ DOMAIN t \subseteq Filings
    /\ t = [f \in DOMAIN t |-> t[f]]
    /\ \A f \in DOMAIN t : <<f, t[f]>> \in Storable

(* k heads a chain: a row of its own, if there is one, belongs to it. *)
Heads(k) == k \in Filings /\ \A s \in Storable : s[1] = k => ChainKey(k, s[2]) = k

LEMMA StorableType ==
    ASSUME FixedChains, NEW s \in Storable
    PROVE  s = <<s[1], s[2]>> /\ s[1] \in Filings /\ s[2] \in Header
<1>1. CASE \E j \in Jobs : j.kind = "ingest" /\ s = <<j.id, j.header>>
  <2>1. PICK j \in Jobs : j.kind = "ingest" /\ s = <<j.id, j.header>>
    BY <1>1
  <2>2. j \in IngestJob
    BY <2>1, JobsAssumption DEF IngestJob, ChainJob, AllJob
  <2> QED BY <2>1, <2>2 DEF IngestJob
<1>2. CASE \E f \in DOMAIN Loaded : s = <<f, Loaded[f]>>
  BY <1>2, LoadedAssumption
<1> QED BY <1>1, <1>2 DEF Storable

(* A filing's chain is headed by the filing its header names. *)
LEMMA KeyHeads ==
    ASSUME FixedChains, NEW s \in Storable
    PROVE  Heads(ChainKey(s[1], s[2]))
<1> DEFINE k == ChainKey(s[1], s[2])
<1>1. k \in Filings
  BY StorableType, ChainKeyType
<1>2. ASSUME NEW r \in Storable, r[1] = k PROVE ChainKey(k, r[2]) = k
  <2>1. CASE s[1] = k
    BY <1>2, <2>1 DEF ChainKey, FixedChains
  <2>2. CASE s[1] # k
    <3>1. s[2].isAmendment /\ s[2].amends = r[1] /\ r[1] # s[1]
      BY <1>2, <2>2 DEF ChainKey
    <3>2. ~ r[2].isAmendment
      BY <3>1 DEF FixedChains
    <3> QED BY <3>2 DEF ChainKey
  <2> QED BY <2>1, <2>2
<1> QED BY <1>1, <1>2 DEF Heads

(* What RESOLVE_ONE_CHAIN_SQL keeps of its scope is the chain. *)
LEMMA MembersAreChain ==
    ASSUME FixedChains, NEW t, Clean(t), NEW k, Heads(k)
    PROVE  Members(t, k) = ChainRows(t, k)
<1>1. k # NoFiling
  BY FilingsAssumption DEF Heads, NoFiling
<1>2. \A f \in DOMAIN t : f = k => ChainKey(f, t[f]) = k
  BY DEF Heads, Clean
<1>3. ASSUME NEW f \in Members(t, k) PROVE f \in ChainRows(t, k)
  BY <1>1, <1>2, <1>3 DEF Members, Scope, ChainRows, ChainKey, OriginalId, Attached
<1>4. ASSUME NEW f \in ChainRows(t, k) PROVE f \in Members(t, k)
  BY <1>1, <1>4 DEF Members, Scope, ChainRows, ChainKey, OriginalId, Attached
<1> QED BY <1>3, <1>4

(* "The partition is then complete": one chain's UPDATE writes what the     *)
(* whole table's would, whatever the headers say.                           *)
LEMMA OneAgreesWithAll ==
    ASSUME NEW t, NEW k, NEW f \in Members(t, k)
    PROVE  ResolveOne(t, k)[f] = ResolveAll(t)[f] /\ f \in DOMAIN t
<1> DEFINE o == OriginalId(t, f)
           M == Members(t, k)
<1>1. f \in DOMAIN t /\ M \subseteq DOMAIN t
  BY DEF Members, Scope
<1>2. ASSUME NEW g \in DOMAIN t, OriginalId(t, g) = o PROVE g \in M
  <2>1. CASE o = k
    BY <1>2, <2>1 DEF Members, Scope, OriginalId, Attached
  <2>2. CASE o = f /\ t[f].isAmendment
    <3>1. g = f
      BY <1>1, <1>2, <2>2 DEF OriginalId, Attached
    <3> QED BY <3>1
  <2> QED BY <2>1, <2>2 DEF Members
<1>3. Partition(t, M, o) = Partition(t, DOMAIN t, o)
  BY <1>1, <1>2 DEF Partition
<1>4. RankIn(t, M, f) = RankIn(t, DOMAIN t, f)
  BY <1>3 DEF RankIn
<1> QED BY <1>1, <1>4 DEF ResolveOne, ResolveAll

(* Two tables with the same rows of a chain resolve it alike. *)
SameChain(t, u, k) ==
    /\ ChainRows(t, k) = ChainRows(u, k)
    /\ \A f \in ChainRows(t, k) : t[f] = u[f]

LEMMA ResolveIsLocal ==
    ASSUME FixedChains, NEW t, Clean(t), NEW u, Clean(u), NEW k, Heads(k),
           SameChain(t, u, k)
    PROVE  ResolveOne(t, k) = ResolveOne(u, k) /\ Members(t, k) = Members(u, k)
<1> DEFINE M == Members(t, k)
<1>1. M = ChainRows(t, k) /\ M = Members(u, k) /\ \A f \in M : t[f] = u[f]
  BY MembersAreChain DEF SameChain
<1>2. (k \in DOMAIN t <=> k \in DOMAIN u) /\ (k \in DOMAIN t => t[k] = u[k])
  <2>1. \A v : Clean(v) /\ k \in DOMAIN v => k \in ChainRows(v, k)
    BY DEF Clean, Heads, ChainRows
  <2> QED BY <2>1 DEF SameChain, ChainRows
<1>3. ASSUME NEW f \in M PROVE OriginalId(t, f) = OriginalId(u, f)
  <2>1. f = k \/ t[f].amends \in {k, NoFiling} \/ ~ t[f].isAmendment
    BY <1>1, <1>3 DEF ChainRows, ChainKey
  <2>2. CASE f # k
    BY <1>1, <1>2, <1>3, <2>1, <2>2 DEF OriginalId, Attached
  <2>3. CASE f = k
    <3>1. ChainKey(k, t[k]) = k
      BY <1>1, <1>3, <2>3 DEF ChainRows
    <3>2. ~ Attached(t, k) /\ ~ Attached(u, k)
      BY <1>1, <1>3, <2>3, <3>1 DEF ChainKey, Attached
    <3> QED BY <2>3, <3>2 DEF OriginalId
  <2> QED BY <2>2, <2>3
<1>4. ASSUME NEW f \in M PROVE RankIn(t, M, f) = RankIn(u, M, f)
  <2> DEFINE o == OriginalId(t, f)
  <2>1. o = OriginalId(u, f) /\ t[f].isAmendment = u[f].isAmendment
    BY <1>1, <1>3
  <2>2. Partition(t, M, o) = Partition(u, M, o)
    BY <1>3 DEF Partition
  <2>3. [g \in Partition(t, M, o) |-> t[g].number] = [g \in Partition(u, M, o) |-> u[g].number]
    BY <1>1, <2>2 DEF Partition
  <2> QED BY <2>1, <2>3 DEF RankIn
<1> QED BY <1>1, <1>4 DEF ResolveOne

-----------------------------------------------------------------------------
(* The chain a transaction resolves: under FixedChains there is only one.   *)
Home(p) == IF job[p].kind = "chain" THEN job[p].id ELSE Key(p)

Caller(p) ==
    /\ pc[p] # "idle" => job[p] \in Jobs
    /\ pc[p] \notin {"lockLow", "lockHigh"}
    /\ pc[p] \in {"idle", "select"} => oldKey[p] = NoFiling
    /\ job[p].kind = "ingest" => oldKey[p] \in {NoFiling, Key(p)}
    /\ pc[p] \in {"lock", "resolve", "rows"} => keys[p] = <<Home(p)>>
    /\ job[p].kind = "ingest" /\ pc[p] \in {"lock", "resolve", "rows", "commit"} => stored[p]

(* What the running UPDATE has written and has still to write is, all in    *)
(* all, what resolving the chain p sees would write now.                    *)
Written(p) ==
    /\ pc[p] \notin {"rows", "commit"} => DOMAIN dirty[p] = {}
    /\ pc[p] # "rows" => DOMAIN todo[p] = {}
    /\ pc[p] \in {"rows", "commit"} =>
          /\ chainLock[Home(p)] = p
          /\ DOMAIN todo[p] \cup DOMAIN dirty[p] = Members(Visible(p), Home(p))
          /\ \A f \in DOMAIN todo[p] : todo[p][f] = ResolveOne(Visible(p), Home(p))[f]
          /\ \A f \in DOMAIN dirty[p] : dirty[p][f] = ResolveOne(Visible(p), Home(p))[f]

Callers == \A p \in Procs : Caller(p)

Inv == /\ Typed /\ Held
       /\ Clean(filings)
       /\ DerivedCurrent
       /\ Callers
       /\ \A p \in Procs : Written(p)

(* The chain of a call is headed by a filing, and the rows of the caller's  *)
(* table are ones that may be stored.                                       *)
LEMMA HomeHeads ==
    ASSUME FixedChains, Inv, NEW p \in Procs, pc[p] # "idle"
    PROVE  /\ Heads(Home(p))
           /\ Clean(Visible(p))
           /\ job[p].kind \in {"ingest", "chain"}
           /\ job[p].kind = "ingest" => <<job[p].id, job[p].header>> \in Storable
<1>1. job[p] \in Jobs /\ job[p].kind \in {"ingest", "chain"}
  BY DEF Inv, Callers, Caller, FixedChains
<1>2. job[p].kind = "ingest" => <<job[p].id, job[p].header>> \in Storable
  BY <1>1 DEF Storable
<1>3. Heads(Home(p))
  <2>1. CASE job[p].kind = "ingest"
    BY <1>2, <2>1, KeyHeads DEF Home, Key
  <2>2. CASE job[p].kind = "chain"
    <3>1. job[p].id \in Filings
      BY <1>1, <2>2, JobsAssumption DEF IngestJob, ChainJob, AllJob
    <3>2. \A s \in Storable : s[1] = job[p].id => ~ s[2].isAmendment
      BY <1>1, <2>2 DEF FixedChains
    <3> QED BY <2>2, <3>1, <3>2 DEF Home, Heads, ChainKey
  <2> QED BY <1>1, <2>1, <2>2
<1>4. Clean(Visible(p))
  <2>1. CASE stored[p]
    <3>1. job[p].kind = "ingest"
      BY <1>1, <2>1 DEF Inv, Typed, ControlOK, Ingests
    <3>2. job[p].id \in Filings
      BY <1>2, <3>1, StorableType
    <3> QED BY <1>2, <2>1, <3>1, <3>2 DEF Visible, Put, Inv, Clean
  <2>2. CASE ~ stored[p]
    BY <2>2 DEF Visible, Inv
  <2> QED BY <2>1, <2>2
<1> QED BY <1>1, <1>2, <1>3, <1>4

(* Before a call has stored its row, the chain of the row it replaces is    *)
(* the chain of the row it brings.                                          *)
LEMMA SameKey ==
    ASSUME FixedChains, NEW t, Clean(t), NEW s \in Storable, s[1] \in DOMAIN t
    PROVE  ChainKey(s[1], t[s[1]]) = ChainKey(s[1], s[2])
<1>1. <<s[1], t[s[1]]>> \in Storable
  BY DEF Clean
<1>2. /\ t[s[1]].isAmendment = s[2].isAmendment
      /\ t[s[1]].amends = s[2].amends
  BY <1>1 DEF FixedChains
<1> QED BY <1>2 DEF ChainKey

(* Storing a row of another chain changes no chain but its own. *)
LEMMA PutIsLocal ==
    ASSUME FixedChains, NEW t, Clean(t), NEW s \in Storable,
           NEW k, k # ChainKey(s[1], s[2])
    PROVE  SameChain(t, Put(t, s[1], s[2]), k)
<1> DEFINE u == Put(t, s[1], s[2])
<1>1. DOMAIN u = DOMAIN t \cup {s[1]} /\ u[s[1]] = s[2]
  BY DEF Put
<1>2. \A f \in DOMAIN t : f # s[1] => u[f] = t[f]
  BY DEF Put
<1>3. s[1] \notin ChainRows(u, k) /\ s[1] \notin ChainRows(t, k)
  BY <1>1, SameKey DEF ChainRows
<1> HIDE DEF u
<1>4. ChainRows(t, k) = ChainRows(u, k)
  BY <1>1, <1>2, <1>3 DEF ChainRows
<1>5. \A f \in ChainRows(t, k) : t[f] = u[f]
  BY <1>2, <1>3 DEF ChainRows
<1> QED BY <1>4, <1>5 DEF SameChain, u

(* Another caller's step, a commit included, does not change the chain a    *)
(* transaction has locked, nor what the transaction makes of it.            *)
LEMMA OthersCurrent ==
    ASSUME FixedChains, Inv, NEW p \in Procs, NEW q \in Procs, q # p,
           \/ Step(p) \/ Fail(p) \/ \E j \in Jobs : Begin(p, j)
    PROVE  Caller(q)' /\ Written(q)'
<1>1. /\ pc'[q] = pc[q] /\ job'[q] = job[q] /\ oldKey'[q] = oldKey[q]
      /\ keys'[q] = keys[q] /\ stored'[q] = stored[q] /\ todo'[q] = todo[q]
      /\ nextRow'[q] = nextRow[q] /\ dirty'[q] = dirty[q]
      /\ \A f \in Filings : /\ rowLock[f] = q => rowLock'[f] = q
                            /\ chainLock[f] = q => chainLock'[f] = q
  BY OthersKeepTheirs DEF Inv
<1>2. Key(q)' = Key(q) /\ Home(q)' = Home(q)
  BY <1>1 DEF Key, Home
<1>3. Caller(q) /\ Written(q)
  BY DEF Inv, Callers
<1>4. Caller(q)'
  <2>1. /\ pc'[q] # "idle" => job'[q] \in Jobs
        /\ pc'[q] \notin {"lockLow", "lockHigh"}
        /\ pc'[q] \in {"idle", "select"} => oldKey'[q] = NoFiling
    BY <1>1, <1>3 DEF Caller
  <2>2. /\ job'[q].kind = "ingest" => oldKey'[q] \in {NoFiling, Key(q)'}
        /\ pc'[q] \in {"lock", "resolve", "rows"} => keys'[q] = <<Home(q)'>>
    BY <1>1, <1>2, <1>3 DEF Caller
  <2>3. job'[q].kind = "ingest" /\ pc'[q] \in {"lock", "resolve", "rows", "commit"} => stored'[q]
    BY <1>1, <1>3 DEF Caller
  <2> QED BY <2>1, <2>2, <2>3 DEF Caller
<1>5. CASE pc[q] \notin {"rows", "commit"}
  BY <1>1, <1>3, <1>4, <1>5 DEF Written
<1>6. ASSUME pc[q] \in {"rows", "commit"}, chainLock'[Home(q)] = q,
             ResolveOne(Visible(q), Home(q)) = ResolveOne(Visible(q)', Home(q)),
             Members(Visible(q), Home(q)) = Members(Visible(q)', Home(q))
      PROVE  Written(q)'
  <2>1. pc'[q] # "rows" => DOMAIN todo'[q] = {}
    BY <1>1, <1>3 DEF Written
  <2>2. DOMAIN todo'[q] \cup DOMAIN dirty'[q] = Members(Visible(q)', Home(q)')
    BY <1>1, <1>2, <1>3, <1>6 DEF Written
  <2>3. /\ \A f \in DOMAIN todo'[q] : todo'[q][f] = ResolveOne(Visible(q)', Home(q)')[f]
        /\ \A f \in DOMAIN dirty'[q] : dirty'[q][f] = ResolveOne(Visible(q)', Home(q)')[f]
    BY <1>1, <1>2, <1>3, <1>6 DEF Written
  <2> QED BY <1>1, <1>2, <1>6, <2>1, <2>2, <2>3 DEF Written
<1>7. CASE pc[q] \in {"rows", "commit"}
  <2>1. /\ Heads(Home(q)) /\ Clean(Visible(q)) /\ chainLock[Home(q)] = q
        /\ job[q].kind = "ingest" => <<job[q].id, job[q].header>> \in Storable
    BY <1>3, <1>7, HomeHeads DEF Written
  <2>2. Home(q) \in Filings /\ chainLock'[Home(q)] = q
    BY <1>1, <2>1 DEF Heads
  <2>3. CASE filings' = filings
    <3>1. Visible(q)' = Visible(q)
      BY <1>1, <2>3 DEF Visible
    <3> QED BY <1>1, <1>2, <1>4, <1>7, <1>6, <2>2, <3>1
  <2>4. CASE filings' # filings
    <3>1. Commit(p) /\ stored[p] /\ filings' = Put(filings, job[p].id, job[p].header)
      BY <2>4 DEF Step, SelectForUpdate, Upsert, LockLow, LockHigh, Lock, Resolve,
                  WriteRow, Commit, Fail, Begin, table, Visible
    <3> DEFINE s == <<job[p].id, job[p].header>>
    <3>2. pc[p] = "commit" /\ job[p].kind = "ingest" /\ Key(p) = Home(p)
      <4>1. pc[p] = "commit" /\ Ingests(p)
        BY <3>1 DEF Commit, Inv, Typed, ControlOK
      <4>2. job[p].kind \in {"ingest", "chain"}
        BY <4>1, HomeHeads
      <4> QED BY <4>1, <4>2 DEF Ingests, Home
    <3>3. s \in Storable /\ s[1] = job[p].id /\ s[2] = job[p].header
      BY <3>2, HomeHeads
    <3>4. chainLock[Key(p)] = p
      BY <3>2 DEF Inv, Written
    <3>5. Home(q) # ChainKey(s[1], s[2])
      BY <2>1, <3>3, <3>4 DEF Key
    <3>6. SameChain(Visible(q), Visible(q)', Home(q)) /\ Clean(Visible(q)')
      <4>1. CASE stored[q]
        <5> DEFINE r == <<job[q].id, job[q].header>>
        <5>1. job[q].kind = "ingest" /\ job[q].id # job[p].id
          <6>1. Ingests(q) /\ job[q].kind \in {"ingest", "chain"}
            BY <1>7, <4>1, HomeHeads DEF Inv, Typed, ControlOK
          <6>2. rowLock[job[p].id] = p /\ rowLock[job[q].id] = q
            BY <3>1, <4>1 DEF Inv, Held, HeldRows
          <6> QED BY <6>1, <6>2 DEF Ingests
        <5>2. Visible(q) = Put(filings, r[1], r[2])
          BY <4>1 DEF Visible
        <5>3. Visible(q)' = Put(Put(filings, s[1], s[2]), r[1], r[2])
          BY <1>1, <3>1, <4>1 DEF Visible
        <5>4. Visible(q)' = Put(Visible(q), s[1], s[2])
          <6>1. Put(Put(filings, s[1], s[2]), r[1], r[2]) = Put(Put(filings, r[1], r[2]), s[1], s[2])
            BY <5>1 DEF Put
          <6> QED BY <5>2, <5>3, <6>1
        <5>5. Clean(Put(Visible(q), s[1], s[2]))
          BY <2>1, <3>3, StorableType DEF Clean, Put
        <5> QED BY <2>1, <3>3, <3>5, <5>4, <5>5, PutIsLocal
      <4>2. CASE ~ stored[q]
        <5>1. Visible(q) = filings /\ Visible(q)' = Put(Visible(q), s[1], s[2])
          BY <1>1, <3>1, <4>2 DEF Visible
        <5>2. Clean(Put(Visible(q), s[1], s[2]))
          BY <2>1, <3>3, StorableType DEF Clean, Put
        <5> QED BY <2>1, <3>3, <3>5, <5>1, <5>2, PutIsLocal
      <4> QED BY <4>1, <4>2
    <3>7. /\ ResolveOne(Visible(q), Home(q)) = ResolveOne(Visible(q)', Home(q))
          /\ Members(Visible(q), Home(q)) = Members(Visible(q)', Home(q))
      BY <2>1, <3>6, ResolveIsLocal
    <3> QED BY <1>4, <1>7, <1>6, <2>2, <3>7
  <2> QED BY <2>3, <2>4
<1> QED BY <1>5, <1>7

(* A transaction's own steps up to its commit. *)
LEMMA OwnCurrent ==
    ASSUME FixedChains, Inv, NEW p \in Procs,
           \/ Step(p) \/ Fail(p) \/ \E j \in Jobs : Begin(p, j)
    PROVE  Caller(p)' /\ Written(p)'
<1>1. /\ Caller(p) /\ Written(p) /\ Typed
      /\ p \in DOMAIN pc /\ p \in DOMAIN job /\ p \in DOMAIN keys /\ p \in DOMAIN oldKey
      /\ p \in DOMAIN todo /\ p \in DOMAIN dirty /\ p \in DOMAIN stored
  BY DEF Inv, Callers, Typed, TypeOK
<1>2. ASSUME NEW j \in Jobs, Begin(p, j) PROVE Caller(p)' /\ Written(p)'
  <2>1. /\ pc[p] = "idle" /\ job'[p] = j /\ oldKey' = oldKey /\ dirty' = dirty /\ todo' = todo
        /\ keys'[p] = IF j.kind = "chain" THEN <<j.id>> ELSE << >>
        /\ pc'[p] = CASE j.kind = "chain" -> "lock" [] j.kind = "all" -> "resolve" [] OTHER -> "select"
    BY <1>1, <1>2 DEF Begin, GoTo
  <2>2. j.kind \in {"ingest", "chain"}
    BY DEF FixedChains
  <2>3. CASE j.kind = "ingest"
    BY <1>1, <2>1, <2>3 DEF Caller, Written
  <2>4. CASE j.kind = "chain"
    <3>1. Home(p)' = j.id
      BY <2>1, <2>4 DEF Home
    <3> QED BY <1>1, <2>1, <2>4, <3>1 DEF Caller, Written
  <2> QED BY <2>2, <2>3, <2>4
<1>3. CASE SelectForUpdate(p)
  <2>1. /\ pc[p] = "select" /\ pc'[p] = "upsert" /\ job' = job /\ dirty' = dirty /\ todo' = todo
        /\ stored' = stored
    BY <1>1, <1>3 DEF SelectForUpdate, GoTo
  <2>2. job[p].kind = "ingest" /\ <<job[p].id, job[p].header>> \in Storable
    <3>1. job[p].kind \in {"ingest", "chain"} /\ Ingests(p)
      BY <2>1, HomeHeads DEF Inv, Typed, ControlOK
    <3> QED BY <2>1, <3>1, HomeHeads DEF Ingests
  <2>3. oldKey'[p] \in {NoFiling, Key(p)}
    <3> DEFINE s == <<job[p].id, job[p].header>>
    <3>1. job[p].id \in DOMAIN filings => LeftKey(p) = Key(p)
      <4>1. s \in Storable /\ s[1] = job[p].id /\ s[2] = job[p].header /\ Clean(filings)
        BY <2>2 DEF Inv
      <4> HIDE DEF s
      <4>2. s[1] \in DOMAIN filings => ChainKey(s[1], filings[s[1]]) = ChainKey(s[1], s[2])
        BY <4>1, SameKey
      <4> QED BY <4>1, <4>2 DEF LeftKey, Key
    <3>2. \/ oldKey'[p] = oldKey[p]
          \/ job[p].id \in DOMAIN filings /\ oldKey'[p] = LeftKey(p)
      BY <1>1, <1>3 DEF SelectForUpdate
    <3> QED BY <1>1, <2>2, <3>1, <3>2 DEF Caller
  <2>4. Key(p)' = Key(p)
    BY <2>1 DEF Key
  <2> QED BY <1>1, <2>1, <2>2, <2>3, <2>4 DEF Caller, Written
<1>4. CASE Upsert(p)
  <2>1. /\ pc[p] = "upsert" /\ job' = job /\ dirty' = dirty /\ todo' = todo /\ oldKey' = oldKey
        /\ stored'[p]
    BY <1>1, <1>4 DEF Upsert
  <2>2. job[p].kind = "ingest"
    <3>1. job[p].kind \in {"ingest", "chain"} /\ Ingests(p)
      BY <2>1, HomeHeads DEF Inv, Typed, ControlOK
    <3> QED BY <3>1 DEF Ingests
  <2>3. oldKey[p] \in {NoFiling, Key(p)}
    BY <1>1, <2>2 DEF Caller
  <2>4. pc'[p] = "lock" /\ keys'[p] = <<Key(p)>>
    BY <1>1, <1>4, <2>2, <2>3 DEF Upsert, GoTo, Key
  <2>5. Key(p)' = Key(p) /\ Home(p)' = Key(p)
    BY <2>1, <2>2 DEF Key, Home
  <2> QED BY <1>1, <2>1, <2>2, <2>3, <2>4, <2>5 DEF Caller, Written
<1>5. CASE LockLow(p) \/ LockHigh(p)
  BY <1>1, <1>5 DEF LockLow, LockHigh, Caller
<1>6. CASE Lock(p)
  <2>1. /\ pc[p] = "lock" /\ pc'[p] = "resolve" /\ job' = job /\ dirty' = dirty /\ todo' = todo
        /\ oldKey' = oldKey /\ keys' = keys /\ stored' = stored
    BY <1>1, <1>6 DEF Lock, GoTo, local
  <2>2. Key(p)' = Key(p) /\ Home(p)' = Home(p)
    BY <2>1 DEF Key, Home
  <2> QED BY <1>1, <2>1, <2>2 DEF Caller, Written
<1>7. ASSUME pc[p] \in {"resolve", "rows"}, job' = job, oldKey' = oldKey, stored' = stored,
             filings' = filings, chainLock' = chainLock
      PROVE  /\ Key(p)' = Key(p) /\ Home(p)' = Home(p) /\ Visible(p)' = Visible(p)
             /\ chainLock'[Home(p)'] = p
             /\ keys[p] = <<Home(p)>> /\ Len(keys[p]) = 1
             /\ job[p].kind \in {"ingest", "chain"}
             /\ pc'[p] \in {"rows", "commit"} /\ (pc'[p] = "rows" => keys'[p] = keys[p]) => Caller(p)'
  <2>1. Key(p)' = Key(p) /\ Home(p)' = Home(p) /\ Visible(p)' = Visible(p)
    BY <1>7 DEF Key, Home, Visible
  <2>2. keys[p] = <<Home(p)>> /\ Len(keys[p]) = 1
    BY <1>1, <1>7 DEF Caller
  <2>3. job[p].kind \in {"ingest", "chain"}
    BY <1>7, HomeHeads
  <2>4. chainLock[Head(keys[p])] = p
    BY <1>7, <2>3 DEF Inv, Held, HeldChains
  <2>5. Head(keys[p]) = Home(p)
    BY <2>2
  <2>6. pc'[p] \in {"rows", "commit"} /\ (pc'[p] = "rows" => keys'[p] = keys[p]) => Caller(p)'
    BY <1>1, <1>7, <2>1 DEF Caller
  <2> QED BY <1>7, <2>1, <2>2, <2>3, <2>4, <2>5, <2>6
<1>8. CASE Resolve(p)
  <2>1. /\ pc[p] = "resolve" /\ job' = job /\ oldKey' = oldKey /\ stored' = stored
        /\ filings' = filings /\ chainLock' = chainLock /\ dirty' = dirty
    BY <1>8 DEF Resolve, table, locks
  <2>2. /\ Home(p)' = Home(p) /\ Visible(p)' = Visible(p) /\ chainLock'[Home(p)'] = p
        /\ keys[p] = <<Home(p)>> /\ Len(keys[p]) = 1 /\ job[p].kind \in {"ingest", "chain"}
        /\ pc'[p] \in {"rows", "commit"} /\ (pc'[p] = "rows" => keys'[p] = keys[p]) => Caller(p)'
    BY <1>7, <2>1
  <2>3. Computed(p) = ResolveOne(Visible(p), Home(p))
    BY <2>2 DEF Computed
  <2>4. DOMAIN Computed(p) = Members(Visible(p), Home(p))
    BY <2>3 DEF ResolveOne
  <2>5. DOMAIN dirty[p] = {} /\ DOMAIN todo[p] = {}
    BY <1>1, <2>1 DEF Written
  <2>6. CASE Finish(p) /\ UNCHANGED <<todo, nextRow>> /\ DOMAIN Computed(p) = {}
    <3>1. pc'[p] = "commit"
      BY <1>1, <2>2, <2>6 DEF Finish, GoTo
    <3> QED BY <2>1, <2>2, <2>4, <2>5, <2>6, <3>1 DEF Written
  <2>7. CASE ~ (Finish(p) /\ UNCHANGED <<todo, nextRow>> /\ DOMAIN Computed(p) = {})
    <3>1. pc'[p] = "rows" /\ todo'[p] = Computed(p) /\ keys' = keys
      BY <1>1, <1>8, <2>7 DEF Resolve, GoTo
    <3>2. Caller(p)'
      BY <2>2, <3>1
    <3>3. /\ DOMAIN todo'[p] \cup DOMAIN dirty'[p] = Members(Visible(p)', Home(p)')
          /\ \A f \in DOMAIN todo'[p] : todo'[p][f] = ResolveOne(Visible(p)', Home(p)')[f]
          /\ \A f \in DOMAIN dirty'[p] : dirty'[p][f] = ResolveOne(Visible(p)', Home(p)')[f]
      BY <2>1, <2>2, <2>3, <2>4, <2>5, <3>1
    <3> QED BY <2>2, <3>1, <3>2, <3>3 DEF Written
  <2> QED BY <2>6, <2>7
<1>9. CASE WriteRow(p)
  <2> DEFINE f == nextRow[p]
             rest == DOMAIN todo[p] \ {f}
  <2>1. /\ pc[p] = "rows" /\ job' = job /\ oldKey' = oldKey /\ stored' = stored
        /\ filings' = filings /\ chainLock' = chainLock
        /\ dirty'[p] = Put(dirty[p], f, todo[p][f])
        /\ todo'[p] = [g \in rest |-> todo[p][g]]
    BY <1>1, <1>9 DEF WriteRow, table
  <2>2. /\ Home(p)' = Home(p) /\ Visible(p)' = Visible(p) /\ chainLock'[Home(p)'] = p
        /\ keys[p] = <<Home(p)>> /\ Len(keys[p]) = 1
        /\ pc'[p] \in {"rows", "commit"} /\ (pc'[p] = "rows" => keys'[p] = keys[p]) => Caller(p)'
    BY <1>7, <2>1
  <2>3. \/ rest = {} /\ pc'[p] = "commit"
        \/ pc'[p] = "rows" /\ keys' = keys
    BY <1>1, <1>9, <2>2 DEF WriteRow, Finish, GoTo
  <2>4. f \in DOMAIN todo[p]
    BY <2>1 DEF Inv, Typed, ControlOK
  <2>5. /\ DOMAIN todo[p] \cup DOMAIN dirty[p] = Members(Visible(p), Home(p))
        /\ \A g \in DOMAIN todo[p] : todo[p][g] = ResolveOne(Visible(p), Home(p))[g]
        /\ \A g \in DOMAIN dirty[p] : dirty[p][g] = ResolveOne(Visible(p), Home(p))[g]
    BY <1>1, <2>1 DEF Written
  <2>6. DOMAIN todo'[p] \cup DOMAIN dirty'[p] = Members(Visible(p)', Home(p)')
    BY <2>1, <2>2, <2>4, <2>5 DEF Put
  <2>7. \A g \in DOMAIN todo'[p] : todo'[p][g] = ResolveOne(Visible(p)', Home(p)')[g]
    BY <2>1, <2>2, <2>5
  <2>8. \A g \in DOMAIN dirty'[p] : dirty'[p][g] = ResolveOne(Visible(p)', Home(p)')[g]
    BY <2>1, <2>2, <2>4, <2>5 DEF Put
  <2>9. Caller(p)'
    BY <2>2, <2>3
  <2>10. pc'[p] # "rows" => DOMAIN todo'[p] = {}
    BY <2>1, <2>3
  <2> QED BY <2>2, <2>3, <2>6, <2>7, <2>8, <2>9, <2>10 DEF Written
<1>10. CASE Commit(p) \/ Fail(p)
  <2>1. /\ pc'[p] = "idle" /\ oldKey'[p] = NoFiling /\ job'[p].kind = "all"
        /\ DOMAIN dirty'[p] = {} /\ DOMAIN todo'[p] = {}
    BY <1>1, <1>10 DEF Commit, Fail, End, GoTo, Empty
  <2> QED BY <2>1 DEF Caller, Written
<1> QED BY <1>2, <1>3, <1>4, <1>5, <1>6, <1>8, <1>9, <1>10 DEF Step

(* A commit brings every row's columns in line with the table it leaves. *)
LEMMA CommitCurrent ==
    ASSUME FixedChains, Inv, NEW p \in Procs, Commit(p)
    PROVE  Clean(filings') /\ DerivedCurrent'
<1> DEFINE k == Home(p)
           t == filings
           u == Visible(p)
<1>1. pc[p] = "commit" /\ filings' = u /\ derived' = Overlay(derived, dirty[p])
  BY DEF Commit
<1>2. /\ Heads(k) /\ Clean(u) /\ Clean(t) /\ job[p].kind \in {"ingest", "chain"}
      /\ job[p].kind = "ingest" => <<job[p].id, job[p].header>> \in Storable
      /\ derived = ResolveAll(t)
  BY <1>1, HomeHeads DEF Inv, DerivedCurrent
<1>3. /\ DOMAIN dirty[p] = Members(u, k)
      /\ \A f \in DOMAIN dirty[p] : dirty[p][f] = ResolveOne(u, k)[f]
  BY <1>1 DEF Inv, Written
<1>4. u = t \/ (job[p].kind = "ingest" /\ u = Put(t, job[p].id, job[p].header))
  BY <1>2 DEF Visible, Inv, Typed, ControlOK, Ingests
<1>5. /\ DOMAIN t \subseteq DOMAIN u
      /\ \A f \in DOMAIN u : f \in DOMAIN t \/ f \in Members(u, k)
  <2>1. CASE u = t
    BY <2>1
  <2>2. CASE job[p].kind = "ingest" /\ u = Put(t, job[p].id, job[p].header)
    <3>1. job[p].id \in ChainRows(u, k)
      BY <2>2 DEF ChainRows, Put, Home, Key
    <3> QED BY <1>2, <2>2, <3>1, MembersAreChain DEF Put
  <2> QED BY <1>4, <2>1, <2>2
<1>6. ASSUME NEW f \in DOMAIN u, f \notin Members(u, k)
      PROVE  f \in DOMAIN t /\ ResolveAll(t)[f] = ResolveAll(u)[f]
  <2> DEFINE m == ChainKey(f, u[f])
  <2>1. f \in DOMAIN t /\ m # k
    BY <1>2, <1>5, <1>6, MembersAreChain DEF ChainRows
  <2>2. Heads(m)
    BY <1>2, KeyHeads DEF Clean
  <2>3. SameChain(t, u, m)
    <3>1. CASE u = t
      BY <3>1 DEF SameChain
    <3>2. CASE job[p].kind = "ingest" /\ u = Put(t, job[p].id, job[p].header)
      <4>1. m # ChainKey(job[p].id, job[p].header)
        BY <2>1, <3>2 DEF Home, Key
      <4> HIDE DEF m, t, u
      <4>2. SameChain(t, Put(t, job[p].id, job[p].header), m)
        BY <1>2, <3>2, <4>1, PutIsLocal
      <4> QED BY <3>2, <4>2
    <3> QED BY <1>4, <3>1, <3>2
  <2>4. f \in ChainRows(u, m) /\ f \in ChainRows(t, m)
    <3>1. f \in ChainRows(u, m)
      BY DEF ChainRows
    <3> QED BY <2>3, <3>1 DEF SameChain
  <2> HIDE DEF m, t, u
  <2>5. f \in Members(t, m) /\ f \in Members(u, m)
    BY <1>2, <2>2, <2>4, MembersAreChain
  <2>6. ResolveOne(t, m) = ResolveOne(u, m)
    BY <1>2, <2>2, <2>3, ResolveIsLocal
  <2>7. ResolveOne(t, m)[f] = ResolveAll(t)[f] /\ ResolveOne(u, m)[f] = ResolveAll(u)[f]
    BY <1>2, <2>2, <2>5, OneAgreesWithAll
  <2> QED BY <2>1, <2>6, <2>7
<1>7. \A f \in Members(u, k) : f \in DOMAIN u /\ ResolveOne(u, k)[f] = ResolveAll(u)[f]
  BY <1>2, OneAgreesWithAll
<1>8. Clean(filings')
  BY <1>1, <1>2
<1> HIDE DEF k, t, u
<1>9. DOMAIN t \cup Members(u, k) = DOMAIN u
  BY <1>5, <1>7
<1>10. DOMAIN derived = DOMAIN t
  BY <1>2 DEF ResolveAll
<1>11. \A f \in DOMAIN u : Overlay(derived, dirty[p])[f] = ResolveAll(u)[f]
  <2> SUFFICES ASSUME NEW f \in DOMAIN u
               PROVE  Overlay(derived, dirty[p])[f] = ResolveAll(u)[f]
    OBVIOUS
  <2>1. CASE f \in Members(u, k)
    BY <1>3, <1>7, <2>1 DEF Overlay
  <2>2. CASE f \notin Members(u, k)
    BY <1>2, <1>3, <1>5, <1>6, <1>10, <2>2 DEF Overlay
  <2> QED BY <2>1, <2>2
<1>12. Overlay(derived, dirty[p]) = ResolveAll(u)
  BY <1>3, <1>9, <1>10, <1>11 DEF Overlay, ResolveAll
<1> QED BY <1>1, <1>8, <1>12 DEF DerivedCurrent

LEMMA InitInv ==
    ASSUME FixedChains, Init
    PROVE  Inv
<1>1. Typed /\ Held
  BY InitTyped, InitHeld
<1>2. Clean(filings) /\ DerivedCurrent
  BY LoadedAssumption DEF Init, Clean, Storable, DerivedCurrent
<1>3. ASSUME NEW p \in Procs PROVE Caller(p) /\ Written(p)
  BY DEF Init, Empty, Caller, Written
<1> QED BY <1>1, <1>2, <1>3 DEF Inv, Callers

LEMMA NextInv ==
    ASSUME FixedChains, Inv, [Next]_vars
    PROVE  Inv'
<1>1. Typed' /\ Held'
  BY NextTyped, NextHeld DEF Inv
<1>2. ASSUME NEW p \in Procs, \/ Step(p) \/ Fail(p) \/ \E j \in Jobs : Begin(p, j)
      PROVE  Inv'
  <2>1. \A q \in Procs : Caller(q)' /\ Written(q)'
    BY <1>2, OwnCurrent, OthersCurrent
  <2>2. Clean(filings)' /\ DerivedCurrent'
    <3>1. CASE Commit(p)
      BY <3>1, CommitCurrent
    <3>2. CASE UNCHANGED table
      BY <3>2 DEF table, Inv, DerivedCurrent
    <3> QED BY <1>2, <3>1, <3>2 DEF Step, SelectForUpdate, Upsert, LockLow, LockHigh, Lock,
                                    Resolve, WriteRow, Fail, Begin
  <2> QED BY <1>1, <2>1, <2>2 DEF Inv, Callers
<1>3. CASE UNCHANGED vars
  <2>1. \A p \in Procs : Visible(p)' = Visible(p) /\ Home(p)' = Home(p) /\ Key(p)' = Key(p)
    BY <1>3 DEF vars, table, local, locks, Visible, Home, Key
  <2>2. \A p \in Procs : Caller(p)' /\ Written(p)'
    BY <1>3, <2>1 DEF vars, table, local, locks, Inv, Callers, Caller, Written
  <2>3. Clean(filings)' /\ DerivedCurrent'
    BY <1>3 DEF vars, table, Inv, DerivedCurrent
  <2> QED BY <1>1, <2>2, <2>3 DEF Inv, Callers
<1> QED BY <1>2, <1>3 DEF Next, Done

(* When filings keep to the FEC's rules the chain columns are current in    *)
(* every committed state, for any table, callers and calls: what            *)
(* ingest_filing_with's "never observably stale" comes to.                  *)
THEOREM ColumnsStayCurrent ==
    ASSUME FixedChains
    PROVE  Spec => []DerivedCurrent
<1>1. Init => Inv
  BY InitInv
<1>2. Inv /\ [Next]_vars => Inv'
  BY NextInv
<1>3. Inv => DerivedCurrent
  BY DEF Inv
<1> QED BY <1>1, <1>2, <1>3, PTL DEF Spec

(* Of the rows that head or join a chain the last one, and no other, is its *)
(* most recent: every member names it, and it names itself.                 *)
LEMMA LastIsLatest ==
    ASSUME FixedChains, NEW t, Clean(t), NEW o \in DOMAIN t, ~ t[o].isAmendment
    PROVE  \E l : {f \in Partition(t, DOMAIN t, o) : ResolveAll(t)[f].latest = f} = {l}
<1> DEFINE P   == Partition(t, DOMAIN t, o)
           num == [g \in P |-> t[g].number]
           l   == Last(o, num, P)
<1>1. o \in P /\ P \in SUBSET Filings
  BY DEF Partition, OriginalId, Attached, Clean
<1>2. \A g \in DOMAIN t : t[g] \in Header
  BY StorableType DEF Clean
<1>3. num \in [P -> Number]
  BY <1>2 DEF Header, Partition
<1>4. l \in P
  <2> HIDE DEF num, P
  <2> QED BY <1>1, <1>3, LastExists
<1>5. ASSUME NEW f \in P PROVE ResolveAll(t)[f].latest = l
  <2>1. f \in DOMAIN t /\ OriginalId(t, f) = o
    BY DEF Partition
  <2>2. ResolveAll(t)[f] = RankIn(t, DOMAIN t, f)
    BY <2>1 DEF ResolveAll
  <2>3. RankIn(t, DOMAIN t, f) = Rank(o, num, t[f].isAmendment, f)
    BY <2>1 DEF RankIn
  <2>4. DOMAIN num = P
    OBVIOUS
  <2> HIDE DEF num, P
  <2> QED BY <2>2, <2>3, <2>4 DEF Rank
<1>6. {f \in P : ResolveAll(t)[f].latest = f} = {l}
  <2> HIDE DEF l, P
  <2> QED BY <1>4, <1>5
<1> QED BY <1>6

(* filings_current has exactly one row per chain, in every state any number *)
(* of callers can reach that keep to the FEC's rules.                       *)
THEOREM OneRowPerChain ==
    ASSUME FixedChains
    PROVE  Spec => []OneCurrentPerChain
<1>1. ASSUME Inv PROVE OneCurrentPerChain
  <2> SUFFICES ASSUME NEW o \in DOMAIN filings, ~ filings[o].isAmendment
               PROVE  Cardinality({f \in {g \in DOMAIN filings : OriginalId(filings, g) = o}
                                              \cap DOMAIN derived : derived[f].latest = f}) = 1
    BY DEF OneCurrentPerChain
  <2>1. derived = ResolveAll(filings) /\ DOMAIN derived = DOMAIN filings
    BY <1>1 DEF Inv, DerivedCurrent, ResolveAll
  <2>2. {f \in {g \in DOMAIN filings : OriginalId(filings, g) = o} \cap DOMAIN derived :
            derived[f].latest = f}
        = {f \in Partition(filings, DOMAIN filings, o) : ResolveAll(filings)[f].latest = f}
    BY <2>1 DEF Partition
  <2>3. PICK l : {f \in Partition(filings, DOMAIN filings, o) : ResolveAll(filings)[f].latest = f} = {l}
    BY <1>1, LastIsLatest DEF Inv
  <2> QED BY <2>2, <2>3, FS_Singleton
<1>2. Inv /\ [Next]_vars => Inv'
  BY NextInv
<1>3. Init => Inv
  BY InitInv
<1> QED BY <1>1, <1>2, <1>3, PTL DEF Spec

-----------------------------------------------------------------------------
(* What resolving the whole table writes agrees with the table, whatever    *)
(* the headers say: the window functions give every row its place in the    *)
(* chain that ChainIndex, with no SQL, says it has.                         *)
LEMMA ResolvedAgrees ==
    ASSUME NEW t, DOMAIN t \subseteq Filings, t \in [DOMAIN t -> Header]
    PROVE  Index!Agrees(t, ResolveAll(t))
<1> DEFINE ix == ResolveAll(t)
<1>1. SUFFICES ASSUME NEW f \in DOMAIN t PROVE Index!RowAgrees(t, ix, f)
  BY DEF Index!Agrees, ResolveAll
<1> DEFINE o   == OriginalId(t, f)
           P   == Partition(t, DOMAIN t, o)
           num == [g \in P |-> t[g].number]
           UpTo(g) == {h \in P : h = g \/ Before(o, num, h, g)}
<1>2. \A g \in DOMAIN t : Index!Joins(t, g) <=> Attached(t, g)
  BY FilingsAssumption DEF Index!Joins, Attached, NoFiling
<1>3. /\ f \in P /\ o \in P /\ P \subseteq DOMAIN t /\ P \in SUBSET Filings
      /\ num \in [P -> Number]
      /\ ~ Attached(t, o)
      /\ Attached(t, f) <=> o # f
  BY DEF Partition, OriginalId, Attached, Header
<1>4. Index!Chain(t, f) = P
  BY <1>2, <1>3 DEF Index!Chain, Partition, OriginalId, Attached
<1>5. ASSUME NEW g \in P
      PROVE  /\ ix[g].chain = UpTo(g)
             /\ ix[g].latest = Last(o, num, P)
             /\ ix[g].previous = IF UpTo(g) = {g} THEN g ELSE Last(o, num, UpTo(g) \ {g})
             /\ ix[g].unresolved = (t[g].isAmendment /\ o = g)
  <2>1. g \in DOMAIN t /\ OriginalId(t, g) = o
    BY DEF Partition
  <2>2. ix[g] = Rank(o, num, t[g].isAmendment, g)
    BY <2>1 DEF ResolveAll, RankIn
  <2>3. DOMAIN num = P
    OBVIOUS
  <2> HIDE DEF ix, num, P
  <2> QED BY <2>2, <2>3 DEF Rank
<1>6. /\ \A g \in P : ~ Before(o, num, g, g)
      /\ \A g, h, i \in P : Before(o, num, g, h) /\ Before(o, num, h, i) => Before(o, num, g, i)
      /\ \A g, h \in P : g = h \/ Before(o, num, g, h) \/ Before(o, num, h, g)
  <2> HIDE DEF num, P
  <2> QED BY <1>3, BeforeIsStrictTotal
<1>7. \A g \in P : g \in UpTo(g) /\ UpTo(g) \subseteq P
  OBVIOUS
<1>8. \A g, h \in P : h \in UpTo(g) \ {g} => UpTo(h) \subseteq UpTo(g) \ {g}
  BY <1>6
<1>9. \A g, h \in P : h \in UpTo(g) \/ g \in UpTo(h)
  BY <1>6
<1>10. \A g \in UpTo(f) \ {f} : \/ ~ Attached(t, g)
                                \/ t[g].number < t[f].number
                                \/ t[g].number = t[f].number /\ g < f
  <2> SUFFICES ASSUME NEW g \in P, Before(o, num, g, f), Attached(t, g)
               PROVE  t[g].number < t[f].number \/ (t[g].number = t[f].number /\ g < f)
    OBVIOUS
  <2>1. num[g] = t[g].number /\ num[f] = t[f].number
    BY <1>3
  <2>2. g # o
    BY <1>3
  <2> HIDE DEF num, P
  <2> QED BY <2>1, <2>2 DEF Before
<1>11. o = f => UpTo(f) = {f}
  BY <1>3 DEF Before
<1>12. Last(o, num, P) \in P /\ UpTo(Last(o, num, P)) = P
  <2>1. /\ Last(o, num, P) \in P
        /\ \A h \in P \ {Last(o, num, P)} : Before(o, num, h, Last(o, num, P))
    <3> HIDE DEF num, P
    <3> QED BY <1>3, LastExists
  <2> QED BY <2>1
<1>13. ASSUME UpTo(f) # {f}
       PROVE  /\ Last(o, num, UpTo(f) \ {f}) \in P
              /\ UpTo(Last(o, num, UpTo(f) \ {f})) = UpTo(f) \ {f}
  <2> DEFINE S == UpTo(f) \ {f}
             m == Last(o, num, S)
  <2>1. S \in SUBSET P /\ S # {}
    BY <1>3, <1>7, <1>13
  <2>2. m \in S /\ \A h \in S \ {m} : Before(o, num, h, m)
    <3> HIDE DEF num, P, S
    <3> QED BY <1>3, <2>1, LastExists
  <2>3. UpTo(m) \subseteq S
    BY <1>3, <1>8, <2>1, <2>2
  <2>4. S \subseteq UpTo(m)
    BY <2>1, <2>2
  <2> QED BY <2>1, <2>2, <2>3, <2>4
<1> HIDE DEF ix, P, num, UpTo
<1>14. f \in ix[f].chain /\ ix[f].chain \subseteq P
  BY <1>3, <1>5, <1>7
<1>15. \A g \in P : f \in ix[g].chain \/ g \in ix[f].chain
  BY <1>3, <1>5, <1>9
<1>16. \A g \in ix[f].chain \ {f} :
          /\ ix[g].chain \subseteq ix[f].chain \ {f}
          /\ \/ ~ Index!Joins(t, g)
             \/ t[g].number < t[f].number
             \/ t[g].number = t[f].number /\ g < f
  <2> SUFFICES ASSUME NEW g \in ix[f].chain \ {f}
               PROVE  /\ ix[g].chain \subseteq ix[f].chain \ {f}
                      /\ \/ ~ Index!Joins(t, g)
                         \/ t[g].number < t[f].number
                         \/ t[g].number = t[f].number /\ g < f
    OBVIOUS
  <2>1. g \in UpTo(f) \ {f} /\ g \in P /\ g \in DOMAIN t
    BY <1>3, <1>5, <1>7
  <2>2. ix[g].chain = UpTo(g) /\ ix[f].chain = UpTo(f)
    BY <1>3, <1>5, <2>1
  <2> QED BY <1>2, <1>3, <1>8, <1>10, <2>1, <2>2
<1>17. Index!Joins(t, f) \/ ix[f].chain = {f}
  BY <1>2, <1>3, <1>5, <1>11
<1>18. ix[f].latest \in P /\ ix[ix[f].latest].chain = P
  BY <1>3, <1>5, <1>12
<1>19. /\ ix[f].previous \in P
       /\ \/ ix[f].chain = {f} /\ ix[f].previous = f
          \/ ix[ix[f].previous].chain = ix[f].chain \ {f}
  BY <1>3, <1>5, <1>13
<1>20. ix[f].unresolved = (t[f].isAmendment /\ ~ Index!Joins(t, f))
  BY <1>2, <1>3, <1>5
<1> QED BY <1>4, <1>14, <1>15, <1>16, <1>17, <1>18, <1>19, <1>20 DEF Index!RowAgrees

(* Every commit stores one filing and leaves the columns in agreement with  *)
(* the table, and no other statement of any caller shows: many transactions *)
(* that lock, resolve and write row by row are, to a reader, ChainIndex.    *)
THEOREM CommitsAreStores ==
    ASSUME FixedChains
    PROVE  Spec => ImplementsIndex
<1>1. ASSUME Inv PROVE Index!Agrees(filings, derived)
  <2>1. DOMAIN filings \subseteq Filings /\ filings \in [DOMAIN filings -> Header]
    BY <1>1, StorableType DEF Inv, Clean
  <2> QED BY <1>1, <2>1, ResolvedAgrees DEF Inv, DerivedCurrent
<1>2. Init => Inv
  BY InitInv
<1>3. Inv /\ [Next]_vars => Inv'
  BY NextInv
<1>4. Inv => Index!Init
  BY <1>1 DEF Index!Init
<1>5. Inv' => Index!Agrees(filings', derived')
  <2>1. ASSUME Inv' PROVE DOMAIN filings' \subseteq Filings /\ filings' \in [DOMAIN filings' -> Header]
    BY <2>1, StorableType DEF Inv, Clean
  <2> QED BY <2>1, ResolvedAgrees DEF Inv, DerivedCurrent
<1>6. ASSUME Inv, Inv', [Next]_vars
      PROVE  [Index!Next]_<<filings, derived>>
  <2>1. ASSUME NEW p \in Procs, Commit(p), stored[p] PROVE Index!Next
    <3>1. pc[p] = "commit" /\ Ingests(p)
      BY <1>6, <2>1 DEF Commit, Inv, Typed, ControlOK
    <3>2. /\ job[p] \in Jobs /\ job[p].kind \in {"ingest", "defer"}
          /\ job[p].id \in Filings
      <4>1. job[p] \in Jobs
        BY <1>6, <3>1 DEF Inv, Callers, Caller
      <4> QED BY <3>1, <4>1, JobsAssumption DEF Ingests, IngestJob, ChainJob, AllJob
    <3>3. filings' = Index!Put(filings, job[p].id, job[p].header)
      BY <2>1 DEF Commit, Visible, Put, Index!Put
    <3> QED BY <1>5, <1>6, <3>2, <3>3 DEF Index!Next, Index!Store
  <2>2. ASSUME NEW p \in Procs, Commit(p), ~ stored[p] PROVE UNCHANGED <<filings, derived>>
    BY <1>6, <2>2 DEF Commit, Visible, Inv, DerivedCurrent
  <2>3. ASSUME NEW p \in Procs, \/ Fail(p) \/ (\E j \in Jobs : Begin(p, j))
                                \/ (Step(p) /\ ~ Commit(p))
        PROVE  UNCHANGED <<filings, derived>>
    BY <2>3 DEF Step, SelectForUpdate, Upsert, LockLow, LockHigh, Lock, Resolve,
                WriteRow, Fail, Begin, table
  <2>4. ASSUME UNCHANGED vars PROVE UNCHANGED <<filings, derived>>
    BY <2>4 DEF vars, table
  <2> QED BY <1>6, <2>1, <2>2, <2>3, <2>4 DEF Next, Done, Step
<1> QED BY <1>2, <1>3, <1>4, <1>6, PTL DEF Spec, ImplementsIndex, Index!Spec

-----------------------------------------------------------------------------
(* A caller with the namespace to itself: whatever the headers say.         *)

(* Storing a row changes the place of no row but those of the chain it      *)
(* joins and the chain it leaves.                                           *)
LEMMA StoringIsLocal ==
    ASSUME NEW t, DOMAIN t \subseteq Filings, NEW s \in Filings, NEW h,
           NEW f \in DOMAIN Put(t, s, h), f \notin Members(Put(t, s, h), ChainKey(s, h)),
           s \in DOMAIN t => f \notin Members(Put(t, s, h), ChainKey(s, t[s]))
    PROVE  f \in DOMAIN t /\ ResolveAll(Put(t, s, h))[f] = ResolveAll(t)[f]
<1> DEFINE u   == Put(t, s, h)
           key == ChainKey(s, h)
           old == ChainKey(s, t[s])
           o   == OriginalId(u, f)
<1>1. /\ DOMAIN u = DOMAIN t \cup {s} /\ u[s] = h
      /\ \A g \in DOMAIN u : g # s => g \in DOMAIN t /\ u[g] = t[g]
  BY DEF Put
<1>2. s # NoFiling
  BY FilingsAssumption DEF NoFiling
<1> HIDE DEF u
<1>3. ~ Attached(u, s) => OriginalId(u, s) = s
  BY DEF OriginalId
<1>4. s \in Members(u, key)
  BY <1>1, <1>2 DEF Members, Scope, ChainKey, OriginalId, Attached
<1>5. f # s /\ f \in DOMAIN t /\ u[f] = t[f]
  BY <1>1, <1>4 DEF u
(* f is attached to s neither before nor after. *)
<1>6. o # s
  <2> SUFFICES ASSUME o = s PROVE FALSE
    OBVIOUS
  <2>1. Attached(u, f) /\ u[f].amends = s /\ ~ u[s].isAmendment
    BY <1>5 DEF OriginalId, Attached
  <2>2. key = s
    BY <1>1, <2>1 DEF ChainKey
  <2>3. f \in Members(u, s)
    BY <2>1 DEF Members, Scope, u
  <2> QED BY <2>2, <2>3 DEF u
<1>7. ~ (Attached(t, f) /\ t[f].amends = s)
  <2> SUFFICES ASSUME Attached(t, f), t[f].amends = s PROVE FALSE
    OBVIOUS
  <2>1. s \in DOMAIN t /\ ~ t[s].isAmendment /\ old = s /\ u[f].isAmendment /\ u[f].amends = s
    BY <1>5 DEF Attached, ChainKey
  <2>2. OriginalId(u, f) \in {f, s}
    BY <2>1 DEF OriginalId
  <2>3. f \in Members(u, s)
    BY <1>5, <2>1, <2>2 DEF Members, Scope, u
  <2> QED BY <2>1, <2>3 DEF u
<1>8. Attached(t, f) <=> Attached(u, f)
  BY <1>1, <1>5, <1>6, <1>7 DEF Attached, OriginalId
<1>9. OriginalId(t, f) = o
  BY <1>5, <1>8 DEF OriginalId
(* Nor is s of f's chain, before or after. *)
<1>10. OriginalId(u, s) # o
  <2> SUFFICES ASSUME OriginalId(u, s) = o PROVE FALSE
    OBVIOUS
  <2>1. Attached(u, s) /\ key = o
    BY <1>1, <1>2, <1>6 DEF OriginalId, Attached, ChainKey
  <2>2. f = o \/ u[f].amends = o
    BY DEF OriginalId
  <2>3. f \in Members(u, o)
    BY <2>2 DEF Members, Scope, u
  <2> QED BY <2>1, <2>3 DEF u
<1>11. s \in DOMAIN t => OriginalId(t, s) # o
  <2> SUFFICES ASSUME s \in DOMAIN t, OriginalId(t, s) = o PROVE FALSE
    OBVIOUS
  <2>1. Attached(t, s) /\ old = o
    BY <1>2, <1>6 DEF OriginalId, Attached, ChainKey
  <2>2. f = o \/ u[f].amends = o
    BY DEF OriginalId
  <2>3. f \in Members(u, o)
    BY <2>2 DEF Members, Scope, u
  <2> QED BY <2>1, <2>3 DEF u
<1>12. ASSUME NEW g \in DOMAIN t, g # s
       PROVE  OriginalId(t, g) = o <=> OriginalId(u, g) = o
  <2>1. g \in DOMAIN u /\ u[g] = t[g]
    BY <1>1, <1>12
  <2>2. CASE g = f
    BY <1>9, <2>2
  <2>3. CASE g # f /\ t[g].amends # s
    <3>1. Attached(t, g) <=> Attached(u, g)
      BY <1>1, <2>1, <2>3 DEF Attached
    <3> QED BY <2>1, <3>1 DEF OriginalId
  <2>4. CASE g # f /\ t[g].amends = s
    <3>1. OriginalId(t, g) \in {g, s} /\ OriginalId(u, g) \in {g, s}
      BY <2>1, <2>4 DEF OriginalId
    <3>2. ASSUME o = g PROVE ~ t[g].isAmendment
      BY <1>5, <2>1, <2>4, <3>2 DEF OriginalId, Attached
    <3>3. ~ t[g].isAmendment => OriginalId(t, g) = g /\ OriginalId(u, g) = g
      BY <2>1 DEF OriginalId, Attached
    <3> QED BY <1>6, <3>1, <3>2, <3>3
  <2> QED BY <2>2, <2>3, <2>4
<1>13. Partition(u, DOMAIN u, o) = Partition(t, DOMAIN t, o)
  BY <1>1, <1>10, <1>11, <1>12 DEF Partition
<1>14. [g \in Partition(u, DOMAIN u, o) |-> u[g].number] = [g \in Partition(t, DOMAIN t, o) |-> t[g].number]
  <2>1. \A g \in Partition(u, DOMAIN u, o) : u[g] = t[g]
    BY <1>1, <1>10 DEF Partition
  <2> QED BY <1>13, <2>1
<1>15. RankIn(u, DOMAIN u, f) = RankIn(t, DOMAIN t, f)
  BY <1>5, <1>9, <1>14 DEF RankIn
<1> QED BY <1>5, <1>15 DEF ResolveAll, u

(* Only what resolving the whole table writes agrees with the table. *)
LEMMA OnlyResolvedAgrees ==
    ASSUME NEW t, DOMAIN t \subseteq Filings, t \in [DOMAIN t -> Header],
           NEW ix \in [DOMAIN t -> Resolved], Index!Agrees(t, ix)
    PROVE  ix = ResolveAll(t)
<1>1. SUFFICES ASSUME NEW f \in DOMAIN t PROVE ix[f] = ResolveAll(t)[f]
  BY DEF ResolveAll
<1> DEFINE o   == OriginalId(t, f)
           P   == Partition(t, DOMAIN t, o)
           num == [g \in P |-> t[g].number]
           UpTo(g) == {h \in P : h = g \/ Before(o, num, h, g)}
<1>2. \A g \in DOMAIN t : Index!Joins(t, g) <=> Attached(t, g)
  BY FilingsAssumption DEF Index!Joins, Attached, NoFiling
<1>3. /\ f \in P /\ o \in P /\ P \subseteq DOMAIN t /\ P \in SUBSET Filings
      /\ num \in [P -> Number]
      /\ \A g \in P : OriginalId(t, g) = o /\ (Attached(t, g) <=> g # o)
      /\ \A g \in P : num[g] = t[g].number
  BY DEF Partition, OriginalId, Attached, Header
<1>4. \A g \in P : Index!Chain(t, g) = P
  BY <1>2, <1>3 DEF Index!Chain, Partition, OriginalId, Attached
<1>5. /\ \A g \in P : ~ Before(o, num, g, g)
      /\ \A g, h, i \in P : Before(o, num, g, h) /\ Before(o, num, h, i) => Before(o, num, g, i)
      /\ \A g, h \in P : g = h \/ Before(o, num, g, h) \/ Before(o, num, h, g)
  <2> HIDE DEF num, P
  <2> QED BY <1>3, BeforeIsStrictTotal
<1>6. ASSUME NEW g \in P
      PROVE  /\ g \in ix[g].chain /\ ix[g].chain \subseteq P
             /\ \A h \in P : g \in ix[h].chain \/ h \in ix[g].chain
             /\ \A h \in ix[g].chain \ {g} : h = o \/ t[h].number < t[g].number
                                             \/ (t[h].number = t[g].number /\ h < g)
             /\ g = o => ix[g].chain = {g}
             /\ ix[g].latest \in P /\ ix[ix[g].latest].chain = P
             /\ ix[g].previous \in P
             /\ \/ ix[g].chain = {g} /\ ix[g].previous = g
                \/ ix[ix[g].previous].chain = ix[g].chain \ {g}
             /\ ix[g].unresolved = (t[g].isAmendment /\ o = g)
  <2>1. g \in DOMAIN t /\ Index!RowAgrees(t, ix, g)
    BY <1>3 DEF Index!Agrees
  <2>2. Index!Chain(t, g) = P
    BY <1>4
  <2> HIDE DEF num, P
  <2>3. /\ g \in ix[g].chain /\ ix[g].chain \subseteq P
        /\ \A h \in P : g \in ix[h].chain \/ h \in ix[g].chain
        /\ ix[g].latest \in P /\ ix[ix[g].latest].chain = P
        /\ ix[g].previous \in P
        /\ \/ ix[g].chain = {g} /\ ix[g].previous = g
           \/ ix[ix[g].previous].chain = ix[g].chain \ {g}
    BY <2>1, <2>2 DEF Index!RowAgrees
  <2>4. \A h \in ix[g].chain \ {g} : ~ Index!Joins(t, h) \/ t[h].number < t[g].number
                                     \/ (t[h].number = t[g].number /\ h < g)
    BY <2>1 DEF Index!RowAgrees
  <2>5. \A h \in P : Index!Joins(t, h) <=> h # o
    BY <1>2, <1>3
  <2>6. Index!Joins(t, g) \/ ix[g].chain = {g}
    BY <2>1 DEF Index!RowAgrees
  <2>7. ix[g].unresolved = (t[g].isAmendment /\ ~ Index!Joins(t, g))
    BY <2>1 DEF Index!RowAgrees
  <2> QED BY <2>3, <2>4, <2>5, <2>6, <2>7
<1>7. ASSUME NEW g \in P PROVE ix[g].chain = UpTo(g)
  <2>1. ASSUME NEW h \in ix[g].chain, h # g PROVE Before(o, num, h, g)
    <3>1. h \in P /\ g # o
      <4> HIDE DEF num, P
      <4>1. ix[g].chain \subseteq P /\ (g = o => ix[g].chain = {g})
        BY <1>6
      <4> QED BY <2>1, <4>1
    <3>2. h = o \/ t[h].number < t[g].number \/ (t[h].number = t[g].number /\ h < g)
      BY <1>6, <2>1
    <3>3. num[h] = t[h].number /\ num[g] = t[g].number
      BY <1>3, <3>1
    <3> HIDE DEF num, P
    <3> QED BY <3>1, <3>2, <3>3 DEF Before
  <2>2. ASSUME NEW h \in P, Before(o, num, h, g) PROVE h \in ix[g].chain
    <3>1. CASE h # g /\ g \in ix[h].chain
      <4>1. Before(o, num, g, h)
        <5>1. g \in P /\ h # o
          <6> HIDE DEF num, P
          <6>1. h = o => ix[h].chain = {h}
            BY <1>6
          <6> QED BY <3>1, <6>1
        <5>2. g = o \/ t[g].number < t[h].number \/ (t[g].number = t[h].number /\ g < h)
          BY <1>6, <3>1
        <5>3. num[h] = t[h].number /\ num[g] = t[g].number
          BY <1>3, <2>2
        <5> HIDE DEF num, P
        <5> QED BY <5>1, <5>2, <5>3 DEF Before
      <4> HIDE DEF num, P
      <4> QED BY <1>5, <2>2, <4>1
    <3> QED BY <1>6, <2>2, <3>1
  <2> QED BY <1>6, <2>1, <2>2
<1> HIDE DEF num, P
(* A row whose list is all of S is the last of S, for there is only one. *)
<1>8. ASSUME NEW S \in SUBSET P, NEW l \in S, UpTo(l) = S
      PROVE  l = Last(o, num, S)
  <2>1. /\ Last(o, num, S) \in S
        /\ \A h \in S \ {Last(o, num, S)} : Before(o, num, h, Last(o, num, S))
    BY <1>3, <1>8, LastExists
  <2> QED BY <1>5, <1>8, <2>1
<1>9. ResolveAll(t)[f] = Rank(o, num, t[f].isAmendment, f)
  BY DEF ResolveAll, RankIn, num, P
<1>10. DOMAIN num = P
  BY DEF num
<1>11. ix[f].latest = Last(o, num, P)
  BY <1>3, <1>6, <1>7, <1>8
<1>12. ix[f].previous = IF UpTo(f) = {f} THEN f ELSE Last(o, num, UpTo(f) \ {f})
  <2>1. CASE UpTo(f) = {f}
    BY <1>3, <1>6, <1>7, <2>1
  <2>2. CASE UpTo(f) # {f}
    <3> DEFINE S == UpTo(f) \ {f}
               l == ix[f].previous
    <3>1. l \in P /\ UpTo(l) = S
      BY <1>3, <1>6, <1>7, <2>2
    <3>2. l \in UpTo(l)
      BY <1>6, <1>7, <3>1
    <3>3. S \in SUBSET P
      BY <1>3, <1>6, <1>7
    <3> QED BY <1>8, <2>2, <3>1, <3>2, <3>3
  <2> QED BY <2>1, <2>2
<1>13. Rank(o, num, t[f].isAmendment, f) =
          [chain |-> UpTo(f), latest |-> Last(o, num, P),
           previous |-> IF UpTo(f) = {f} THEN f ELSE Last(o, num, UpTo(f) \ {f}),
           unresolved |-> t[f].isAmendment /\ o = f]
  BY <1>10 DEF Rank
<1>14. ix[f] = [chain |-> ix[f].chain, latest |-> ix[f].latest,
                previous |-> ix[f].previous, unresolved |-> ix[f].unresolved]
  BY DEF Resolved
<1> QED BY <1>3, <1>6, <1>7, <1>9, <1>11, <1>12, <1>13, <1>14

-----------------------------------------------------------------------------
(* The chain of the row a call replaces; none if it brings a new one. *)
Left(p) == IF job[p].id \in DOMAIN filings THEN LeftKey(p) ELSE NoFiling

(* The chains whose UPDATE a call has still to run. *)
Pending(p) == {keys[p][i] : i \in (IF pc[p] = "rows" THEN 2 ELSE 1)..Len(keys[p])}

(* The rows a call has written and those it is about to. *)
Taken(p) == DOMAIN todo[p] \cup DOMAIN dirty[p]

(* What each UPDATE writes is right for the table the transaction leaves,   *)
(* and between them they write the chain joined, the chain left, or all.    *)
RightSoFar(p) ==
    /\ \A f \in DOMAIN todo[p] : todo[p][f] = ResolveAll(Visible(p))[f]
    /\ \A f \in DOMAIN dirty[p] : dirty[p][f] = ResolveAll(Visible(p))[f]

Settled(p) ==
    \A k \in {Key(p), oldKey[p]} \ {NoFiling} :
        Members(Visible(p), k) \subseteq Taken(p) \/ k \in Pending(p)

Alone(p) ==
    /\ pc[p] \in {"idle", "select", "upsert"} => DOMAIN dirty[p] = {}
    /\ pc[p] # "rows" => DOMAIN todo[p] = {}
    /\ pc[p] \in {"idle", "select"} => oldKey[p] = NoFiling
    /\ job[p].kind = "ingest" =>
          /\ pc[p] \notin {"idle", "select"} => oldKey[p] = Left(p)
          /\ pc[p] \notin {"idle", "select", "upsert"} => stored[p] /\ Settled(p)
          /\ pc[p] = "commit" => keys[p] = << >>
    /\ job[p].kind = "all" /\ pc[p] \in {"rows", "commit"} => DOMAIN Visible(p) \subseteq Taken(p)
    /\ RightSoFar(p)

(* What is left to resolve once the first chain of a list is done. *)
LEMMA TailKeepsRest ==
    ASSUME NEW s \in Seq(Filings), s # << >>
    PROVE  /\ Len(s) \in Nat \ {0} /\ Head(s) = s[1]
           /\ \A i \in 2..Len(s) : s[i] \in {Tail(s)[j] : j \in 1..Len(Tail(s))}
           /\ Len(s) <= 1 => Tail(s) = << >>
<1>1. Len(s) \in Nat \ {0} /\ Head(s) = s[1]
  OBVIOUS
<1>2. Len(Tail(s)) = Len(s) - 1
  OBVIOUS
<1>3. ASSUME NEW i \in 2..Len(s) PROVE s[i] \in {Tail(s)[j] : j \in 1..Len(Tail(s))}
  <2>1. i - 1 \in 1..Len(Tail(s)) /\ Tail(s)[i - 1] = s[i]
    BY <1>1, <1>2
  <2> QED BY <2>1
<1>4. Len(s) <= 1 => Tail(s) = << >>
  BY <1>1, <1>2
<1> QED BY <1>1, <1>3, <1>4

(* An UPDATE is over: nothing of its chain is left to write. *)
LEMMA FinishSettles ==
    ASSUME Typed, NEW p \in Procs, Finish(p), job[p].kind = "ingest" => keys[p] # << >>,
           \A k \in Pending(p) : job[p].kind = "ingest" => k = Head(keys[p])
                                      \/ \E i \in 2..Len(keys[p]) : k = keys[p][i]
    PROVE  /\ pc'[p] \in {"lock", "commit"}
           /\ job[p].kind = "ingest" =>
                 /\ \A k \in Pending(p) : k = Head(keys[p]) \/ k \in Pending(p)'
                 /\ pc'[p] = "commit" => keys'[p] = << >>
<1>1. /\ pc'[p] = IF Len(keys[p]) > 1 THEN "lock" ELSE "commit"
      /\ keys'[p] = IF keys[p] = << >> THEN << >> ELSE Tail(keys[p])
      /\ keys[p] \in Seq(Filings)
  BY DEF Finish, GoTo, Typed, TypeOK
<1>2. ASSUME job[p].kind = "ingest"
      PROVE  /\ \A k \in Pending(p) : k = Head(keys[p]) \/ k \in Pending(p)'
             /\ pc'[p] = "commit" => keys'[p] = << >>
  <2>1. keys'[p] = Tail(keys[p]) /\ pc'[p] # "rows"
    BY <1>1, <1>2
  <2>2. Pending(p)' = {Tail(keys[p])[j] : j \in 1..Len(Tail(keys[p]))}
    BY <2>1 DEF Pending
  <2>3. pc'[p] = "commit" => ~ (Len(keys[p]) > 1)
    BY <1>1
  <2>4. Len(keys[p]) <= 1 => keys'[p] = << >>
    BY <1>1, <1>2, <2>1, TailKeepsRest
  <2>5. Len(keys[p]) \in Nat
    BY <1>1
  <2>6. \A i \in 2..Len(keys[p]) : keys[p][i] \in Pending(p)'
    BY <1>1, <1>2, <2>2, TailKeepsRest
  <2> QED BY <1>2, <2>3, <2>4, <2>5, <2>6
<1> QED BY <1>1, <1>2

(* A pending chain is the first of the list or one of the rest. *)
LEMMA PendingIsListed ==
    ASSUME Typed, NEW p \in Procs, NEW k \in Pending(p), keys[p] # << >>
    PROVE  \/ k = Head(keys[p]) /\ pc[p] # "rows"
           \/ \E i \in 2..Len(keys[p]) : k = keys[p][i]
<1>1. keys[p] \in Seq(Filings)
  BY DEF Typed, TypeOK
<1>2. Len(keys[p]) \in Nat \ {0} /\ Head(keys[p]) = keys[p][1]
  BY <1>1, TailKeepsRest
<1>3. PICK i \in (IF pc[p] = "rows" THEN 2 ELSE 1)..Len(keys[p]) : k = keys[p][i]
  BY DEF Pending
<1>4. CASE i = 1
  BY <1>2, <1>3, <1>4
<1>5. CASE i # 1
  BY <1>2, <1>3, <1>5
<1> QED BY <1>4, <1>5

(* What the rows of an UPDATE get is what the whole table's would get. *)
LEMMA ComputedRight ==
    ASSUME Typed, NEW p \in Procs
    PROVE  /\ \A f \in DOMAIN Computed(p) : Computed(p)[f] = ResolveAll(Visible(p))[f]
           /\ job[p].kind = "all" => DOMAIN Computed(p) = DOMAIN Visible(p)
           /\ job[p].kind # "all" => DOMAIN Computed(p) = Members(Visible(p), Head(keys[p]))
<1>1. CASE job[p].kind = "all"
  BY <1>1 DEF Computed, ResolveAll
<1>2. CASE job[p].kind # "all"
  <2>1. Computed(p) = ResolveOne(Visible(p), Head(keys[p]))
    BY <1>2 DEF Computed
  <2>2. DOMAIN Computed(p) = Members(Visible(p), Head(keys[p]))
    BY <2>1 DEF ResolveOne
  <2> QED BY <1>2, <2>1, <2>2, OneAgreesWithAll
<1> QED BY <1>1, <1>2

(* A caller's own steps keep its books, whatever the headers say, as long   *)
(* as no one else's transaction comes between them.                         *)
LEMMA AloneStep ==
    ASSUME Typed, NEW p \in Procs, Alone(p),
           \/ Step(p) \/ Fail(p) \/ \E j \in Jobs : Begin(p, j)
    PROVE  Alone(p)'
<1>1. /\ p \in DOMAIN pc /\ p \in DOMAIN job /\ p \in DOMAIN keys /\ p \in DOMAIN oldKey
      /\ p \in DOMAIN todo /\ p \in DOMAIN dirty /\ p \in DOMAIN stored /\ p \in DOMAIN nextRow
  BY DEF Typed, TypeOK
<1>2. ASSUME NEW j \in Jobs, Begin(p, j) PROVE Alone(p)'
  <2>1. /\ pc[p] = "idle" /\ oldKey' = oldKey /\ dirty' = dirty /\ todo' = todo
        /\ pc'[p] \in {"lock", "resolve", "select"} /\ job'[p] = j
        /\ j.kind = "chain" => pc'[p] = "lock"
        /\ j.kind = "all" => pc'[p] = "resolve"
        /\ j.kind \notin {"chain", "all"} => pc'[p] = "select"
    BY <1>1, <1>2 DEF Begin, GoTo
  <2>2. DOMAIN dirty[p] = {} /\ DOMAIN todo[p] = {} /\ oldKey[p] = NoFiling
    BY <2>1 DEF Alone
  <2>3. RightSoFar(p)'
    BY <2>1, <2>2 DEF RightSoFar
  <2> QED BY <2>1, <2>2, <2>3 DEF Alone
<1>3. ASSUME SelectForUpdate(p) PROVE Alone(p)'
  <2>1. /\ pc[p] = "select" /\ pc'[p] = "upsert"
        /\ UNCHANGED <<filings, job, keys, stored, todo, dirty>>
    BY <1>1, <1>3 DEF SelectForUpdate, GoTo, table
  <2>2. oldKey'[p] = Left(p)
    BY <1>1, <1>3, <2>1 DEF SelectForUpdate, Left, Alone
  <2>3. Left(p)' = Left(p) /\ Visible(p)' = Visible(p)
    BY <2>1 DEF Left, LeftKey, Visible
  <2>4. RightSoFar(p)'
    BY <2>1, <2>3 DEF RightSoFar, Alone
  <2> QED BY <2>1, <2>2, <2>3, <2>4 DEF Alone
<1>4. ASSUME Upsert(p) PROVE Alone(p)'
  <2> DEFINE old == IF oldKey[p] = Key(p) THEN NoFiling ELSE oldKey[p]
  <2>1. /\ pc[p] = "upsert" /\ stored'[p] = TRUE
        /\ UNCHANGED <<filings, job, oldKey, todo, dirty>>
        /\ \/ job[p].kind = "defer" /\ pc'[p] = "commit"
           \/ /\ job[p].kind = "ingest" /\ pc'[p] \in {"lock", "lockLow"}
              /\ keys'[p] = IF old = NoFiling THEN <<Key(p)>> ELSE <<Key(p), old>>
    BY <1>1, <1>4 DEF Upsert, GoTo, table, Key
  <2>2. DOMAIN dirty[p] = {} /\ DOMAIN todo[p] = {}
    BY <2>1 DEF Alone
  <2>3. RightSoFar(p)'
    BY <2>1, <2>2 DEF RightSoFar
  <2>4. Left(p)' = Left(p) /\ Key(p)' = Key(p)
    BY <2>1 DEF Left, LeftKey, Key
  <2>5. CASE job[p].kind = "defer"
    BY <2>1, <2>2, <2>3, <2>5 DEF Alone
  <2>6. CASE job[p].kind = "ingest"
    <3>1. Pending(p)' = {keys'[p][i] : i \in 1..Len(keys'[p])}
      BY <2>1, <2>6 DEF Pending
    <3>2. \A k \in {Key(p), oldKey[p]} \ {NoFiling} : k \in Pending(p)'
      <4>1. CASE old = NoFiling
        <5>1. keys'[p] = <<Key(p)>> /\ Len(keys'[p]) = 1 /\ keys'[p][1] = Key(p)
          BY <2>1, <2>6, <4>1
        <5>2. Key(p) \in Pending(p)'
          BY <3>1, <5>1
        <5>3. oldKey[p] \in {Key(p), NoFiling}
          BY <4>1
        <5> QED BY <5>2, <5>3
      <4>2. CASE old # NoFiling
        <5>1. /\ keys'[p] = <<Key(p), oldKey[p]>> /\ Len(keys'[p]) = 2
              /\ keys'[p][1] = Key(p) /\ keys'[p][2] = oldKey[p]
          BY <2>1, <2>6, <4>2
        <5> QED BY <3>1, <5>1
      <4> QED BY <4>1, <4>2
    <3>3. Settled(p)'
      BY <2>1, <2>4, <3>2 DEF Settled
    <3>4. oldKey[p] = Left(p)
      BY <2>1, <2>6 DEF Alone
    <3> HIDE DEF old
    <3> QED BY <2>1, <2>2, <2>3, <2>4, <2>6, <3>3, <3>4 DEF Alone
  <2> QED BY <2>1, <2>5, <2>6
<1>5. ASSUME LockLow(p) \/ LockHigh(p) \/ Lock(p) PROVE Alone(p)'
  <2>1. /\ pc[p] \in {"lockLow", "lockHigh", "lock"} /\ pc'[p] \in {"lockHigh", "lock", "resolve"}
        /\ UNCHANGED <<filings, job, oldKey, keys, stored, todo, dirty>>
    BY <1>1, <1>5 DEF LockLow, LockHigh, Lock, GoTo, table, local
  <2>2. /\ Left(p)' = Left(p) /\ Key(p)' = Key(p) /\ Visible(p)' = Visible(p)
        /\ Pending(p)' = Pending(p) /\ Taken(p)' = Taken(p)
    BY <2>1 DEF Left, LeftKey, Key, Visible, Pending, Taken
  <2>3. RightSoFar(p)'
    BY <2>1, <2>2 DEF RightSoFar, Alone
  <2>4. Settled(p) => Settled(p)'
    BY <2>1, <2>2 DEF Settled
  <2> QED BY <2>1, <2>2, <2>3, <2>4 DEF Alone
<1>6. ASSUME Resolve(p) PROVE Alone(p)'
  <2>1. /\ pc[p] = "resolve" /\ UNCHANGED <<filings, job, oldKey, stored, dirty>>
        /\ \/ /\ DOMAIN Computed(p) = {} /\ Finish(p) /\ todo' = todo
           \/ pc'[p] = "rows" /\ todo'[p] = Computed(p) /\ keys' = keys
    BY <1>1, <1>6 DEF Resolve, GoTo, table
  <2>2. /\ Left(p)' = Left(p) /\ Key(p)' = Key(p) /\ Visible(p)' = Visible(p)
    BY <2>1 DEF Left, LeftKey, Key, Visible
  <2>3. DOMAIN todo[p] = {} /\ (job[p].kind = "all" \/ keys[p] # << >>)
    BY <2>1 DEF Alone, Typed, ControlOK
  <2>4. CASE DOMAIN Computed(p) = {} /\ Finish(p) /\ todo' = todo
    <3>1. Taken(p)' = Taken(p)
      BY <2>1, <2>4 DEF Taken
    <3>2. RightSoFar(p)'
      BY <2>1, <2>2, <2>4 DEF RightSoFar, Alone
    <3>3. pc'[p] \in {"lock", "commit"} /\
          (job[p].kind = "ingest" => /\ \A k \in Pending(p) : k = Head(keys[p]) \/ k \in Pending(p)'
                                     /\ pc'[p] = "commit" => keys'[p] = << >>)
      BY <2>3, <2>4, FinishSettles, PendingIsListed
    <3>4. job[p].kind = "ingest" => Settled(p)'
      <4> SUFFICES ASSUME job[p].kind = "ingest",
                          NEW k \in {Key(p), oldKey[p]} \ {NoFiling}
                   PROVE  Members(Visible(p), k) \subseteq Taken(p) \/ k \in Pending(p)'
        BY <2>1, <2>2, <3>1 DEF Settled
      <4>1. Members(Visible(p), k) \subseteq Taken(p) \/ k \in Pending(p)
        BY <2>1 DEF Alone, Settled
      <4>2. Members(Visible(p), Head(keys[p])) = {}
        BY <2>4, ComputedRight
      <4> QED BY <3>3, <4>1, <4>2
    <3>5. job[p].kind = "all" => DOMAIN Visible(p) = {}
      BY <2>4, ComputedRight
    <3> QED BY <2>1, <2>2, <2>3, <2>4, <3>1, <3>2, <3>3, <3>4, <3>5 DEF Alone
  <2>5. CASE pc'[p] = "rows" /\ todo'[p] = Computed(p) /\ keys' = keys
    <3>1. Taken(p)' = DOMAIN Computed(p) \cup Taken(p)
      BY <2>1, <2>3, <2>5 DEF Taken
    <3>2. RightSoFar(p)'
      BY <2>1, <2>2, <2>5, ComputedRight DEF RightSoFar, Alone
    <3>3. job[p].kind = "ingest" => Settled(p)'
      <4> SUFFICES ASSUME job[p].kind = "ingest",
                          NEW k \in {Key(p), oldKey[p]} \ {NoFiling}
                   PROVE  Members(Visible(p), k) \subseteq Taken(p)' \/ k \in Pending(p)'
        BY <2>1, <2>2 DEF Settled
      <4>1. Members(Visible(p), k) \subseteq Taken(p) \/ k \in Pending(p)
        BY <2>1 DEF Alone, Settled
      <4>2. DOMAIN Computed(p) = Members(Visible(p), Head(keys[p]))
        BY ComputedRight
      <4>3. ASSUME NEW i \in 2..Len(keys[p]) PROVE keys[p][i] \in Pending(p)'
        BY <2>5 DEF Pending
      <4>4. k \in Pending(p) => k = Head(keys[p]) \/ k \in Pending(p)'
        BY <2>3, <4>3, PendingIsListed
      <4> QED BY <3>1, <4>1, <4>2, <4>4
    <3>4. job[p].kind = "all" => DOMAIN Visible(p) \subseteq Taken(p)'
      BY <3>1, ComputedRight
    <3> QED BY <2>1, <2>2, <2>5, <3>2, <3>3, <3>4 DEF Alone
  <2> QED BY <2>1, <2>4, <2>5
<1>7. ASSUME WriteRow(p) PROVE Alone(p)'
  <2> DEFINE f == nextRow[p]
             rest == DOMAIN todo[p] \ {f}
  <2>1. /\ pc[p] = "rows" /\ UNCHANGED <<filings, job, oldKey, stored>>
        /\ dirty'[p] = Put(dirty[p], f, todo[p][f])
        /\ todo'[p] = [g \in rest |-> todo[p][g]]
        /\ \/ rest = {} /\ Finish(p)
           \/ pc' = pc /\ keys' = keys
    BY <1>1, <1>7 DEF WriteRow, table
  <2>2. /\ Left(p)' = Left(p) /\ Key(p)' = Key(p) /\ Visible(p)' = Visible(p)
    BY <2>1 DEF Left, LeftKey, Key, Visible
  <2>3. f \in DOMAIN todo[p] /\ (job[p].kind = "all" \/ keys[p] # << >>)
    BY <2>1 DEF Typed, ControlOK
  <2>4. DOMAIN todo'[p] = rest /\ DOMAIN dirty'[p] = DOMAIN dirty[p] \cup {f}
    BY <2>1 DEF Put
  <2>5. Taken(p)' = Taken(p)
    BY <2>3, <2>4 DEF Taken
  <2>6. RightSoFar(p)'
    <3>1. \A g \in DOMAIN todo[p] : todo[p][g] = ResolveAll(Visible(p))[g]
      BY DEF Alone, RightSoFar
    <3>2. \A g \in DOMAIN dirty[p] : dirty[p][g] = ResolveAll(Visible(p))[g]
      BY DEF Alone, RightSoFar
    <3>3. \A g \in DOMAIN todo'[p] : todo'[p][g] = ResolveAll(Visible(p))[g]
      BY <2>1, <3>1
    <3>4. \A g \in DOMAIN dirty'[p] : dirty'[p][g] = ResolveAll(Visible(p))[g]
      BY <2>1, <2>3, <3>1, <3>2 DEF Put
    <3> QED BY <2>2, <3>3, <3>4 DEF RightSoFar
  <2> HIDE DEF f, rest
  <2>7. CASE rest = {} /\ Finish(p)
    <3>1. pc'[p] \in {"lock", "commit"} /\
          (job[p].kind = "ingest" => /\ \A k \in Pending(p) : k = Head(keys[p]) \/ k \in Pending(p)'
                                     /\ pc'[p] = "commit" => keys'[p] = << >>)
      BY <2>3, <2>7, FinishSettles, PendingIsListed
    <3>2. job[p].kind = "ingest" => Settled(p)'
      <4> SUFFICES ASSUME job[p].kind = "ingest",
                          NEW k \in {Key(p), oldKey[p]} \ {NoFiling}
                   PROVE  Members(Visible(p), k) \subseteq Taken(p) \/ k \in Pending(p)'
        BY <2>1, <2>2, <2>5 DEF Settled
      <4>1. Members(Visible(p), k) \subseteq Taken(p) \/ k \in Pending(p)
        BY <2>1 DEF Alone, Settled
      <4>2. ASSUME k \in Pending(p) PROVE k \in Pending(p)'
        <5>1. PICK i \in 2..Len(keys[p]) : k = keys[p][i]
          BY <2>1, <4>2 DEF Pending
        <5>2. keys[p] \in Seq(Filings) /\ keys[p] # << >>
          BY <2>3 DEF Typed, TypeOK
        <5>3. k \in {Tail(keys[p])[j] : j \in 1..Len(Tail(keys[p]))}
          BY <5>1, <5>2, TailKeepsRest
        <5>4. keys'[p] = Tail(keys[p]) /\ pc'[p] # "rows"
          BY <1>1, <2>7, <3>1, <5>2 DEF Finish
        <5> QED BY <5>3, <5>4 DEF Pending
      <4> QED BY <4>1, <4>2
    <3> QED BY <2>1, <2>2, <2>4, <2>5, <2>6, <2>7, <3>1, <3>2 DEF Alone
  <2>8. CASE pc' = pc /\ keys' = keys
    <3>1. Pending(p)' = Pending(p)
      BY <2>8 DEF Pending
    <3>2. Settled(p) => Settled(p)'
      BY <2>1, <2>2, <2>5, <3>1 DEF Settled
    <3> QED BY <2>1, <2>2, <2>5, <2>6, <2>8, <3>2 DEF Alone
  <2> QED BY <2>1, <2>7, <2>8
<1>8. ASSUME Commit(p) \/ Fail(p) PROVE Alone(p)'
  <2>1. /\ pc'[p] = "idle" /\ oldKey'[p] = NoFiling /\ job'[p].kind = "all"
        /\ DOMAIN dirty'[p] = {} /\ DOMAIN todo'[p] = {}
    BY <1>1, <1>8 DEF Commit, Fail, End, GoTo, Empty
  <2> QED BY <2>1 DEF Alone, RightSoFar
<1> QED BY <1>2, <1>3, <1>4, <1>5, <1>6, <1>7, <1>8 DEF Step

(* What a commit of a call that had the namespace to itself leaves. *)
LEMMA CommitAgrees ==
    ASSUME Typed, NEW p \in Procs, Alone(p), Commit(p),
           \/ job[p].kind = "all"
           \/ job[p].kind \in {"ingest", "chain"} /\ Index!Agrees(filings, derived)
    PROVE  Index!Agrees(filings', derived')
<1> DEFINE u == Visible(p)
<1>1. /\ pc[p] = "commit" /\ filings' = u /\ derived' = Overlay(derived, dirty[p])
      /\ DOMAIN dirty[p] = Taken(p)
      /\ \A f \in DOMAIN dirty[p] : dirty[p][f] = ResolveAll(u)[f]
      /\ DOMAIN dirty[p] \subseteq DOMAIN u
  BY DEF Commit, Alone, RightSoFar, Taken, Typed, ControlOK
<1>2. /\ DOMAIN filings \subseteq DOMAIN u /\ DOMAIN u \subseteq Filings
      /\ u \in [DOMAIN u -> Header]
      /\ DOMAIN filings \subseteq Filings /\ filings \in [DOMAIN filings -> Header]
      /\ DOMAIN derived \subseteq DOMAIN filings
  BY VisibleType DEF Typed, TypeOK
<1>3. ASSUME NEW f \in DOMAIN u
      PROVE  f \in DOMAIN dirty[p] \/ (f \in DOMAIN derived /\ derived[f] = ResolveAll(u)[f])
  <2>1. CASE job[p].kind = "all"
    BY <1>1, <2>1 DEF Alone
  <2>2. CASE job[p].kind \in {"ingest", "chain"} /\ Index!Agrees(filings, derived)
    <3>1. derived = ResolveAll(filings)
      <4>1. DOMAIN derived = DOMAIN filings
        BY <2>2 DEF Index!Agrees
      <4>2. derived \in [DOMAIN filings -> Resolved]
        BY <4>1 DEF Typed, TypeOK
      <4> QED BY <1>2, <2>2, <4>2, OnlyResolvedAgrees
    <3>2. DOMAIN derived = DOMAIN filings
      BY <3>1 DEF ResolveAll
    <3>3. CASE ~ stored[p]
      BY <3>1, <3>2, <3>3 DEF Visible
    <3>4. CASE stored[p]
      <4>1. job[p].kind = "ingest" /\ u = Put(filings, job[p].id, job[p].header)
        BY <2>2, <3>4 DEF Visible, Typed, ControlOK, Ingests
      <4>2. job[p].id \in Filings /\ job[p].header \in Header
        BY <4>1 DEF Typed, TypeOK, IngestJob, ChainJob, AllJob
      <4>3. Key(p) \in Filings /\ Key(p) # NoFiling
        BY <4>2, ChainKeyType, FilingsAssumption DEF Key, NoFiling
      <4>4. Pending(p) = {}
        BY <1>1, <4>1 DEF Alone, Pending
      <4>5. Members(u, Key(p)) \subseteq DOMAIN dirty[p]
        BY <1>1, <4>1, <4>3, <4>4 DEF Alone, Settled
      <4>6. job[p].id \in DOMAIN filings =>
               Members(u, ChainKey(job[p].id, filings[job[p].id])) \subseteq DOMAIN dirty[p]
        <5> SUFFICES ASSUME job[p].id \in DOMAIN filings
                     PROVE  Members(u, ChainKey(job[p].id, filings[job[p].id])) \subseteq DOMAIN dirty[p]
          OBVIOUS
        <5>1. oldKey[p] = ChainKey(job[p].id, filings[job[p].id])
          BY <1>1, <4>1 DEF Alone, Left, LeftKey
        <5>2. oldKey[p] \in Filings /\ oldKey[p] # NoFiling
          BY <1>2, <4>2, <5>1, ChainKeyType, FilingsAssumption DEF NoFiling
        <5> QED BY <1>1, <4>1, <4>4, <5>1, <5>2 DEF Alone, Settled
      <4> HIDE DEF u
      <4>7. ASSUME f \notin DOMAIN dirty[p]
            PROVE  f \in DOMAIN filings /\ ResolveAll(u)[f] = ResolveAll(filings)[f]
        <5> DEFINE s == job[p].id
                   h == job[p].header
        <5>1. u = Put(filings, s, h) /\ s \in Filings /\ DOMAIN filings \subseteq Filings
          BY <1>2, <4>1, <4>2
        <5>2. f \in DOMAIN Put(filings, s, h) /\ f \notin Members(Put(filings, s, h), ChainKey(s, h))
          BY <4>5, <4>7, <5>1 DEF Key
        <5>3. s \in DOMAIN filings => f \notin Members(Put(filings, s, h), ChainKey(s, filings[s]))
          BY <4>6, <4>7, <5>1
        <5> HIDE DEF s, h
        <5> QED BY <5>1, <5>2, <5>3, StoringIsLocal
      <4> QED BY <3>1, <3>2, <4>7
    <3> QED BY <3>3, <3>4
  <2> QED BY <2>1, <2>2
<1> HIDE DEF u
<1>4. Overlay(derived, dirty[p]) = ResolveAll(u)
  BY <1>1, <1>2, <1>3 DEF Overlay, ResolveAll
<1> QED BY <1>1, <1>2, <1>4, ResolvedAgrees

(* For a caller that has the namespace to itself, as a batch load does:     *)
(* resolving everything puts every column right, whatever was stored with   *)
(* ChainResolution::Defer before it; and recomputing only the chain joined  *)
(* and the chain left keeps a right namespace right, whatever the header    *)
(* says and in whatever order filings arrive.                               *)
THEOREM ResolvingIsRight ==
    ASSUME NEW c, Procs = {c}
    PROVE  Spec => ResolvingAgrees
<1>1. Init => Typed /\ Alone(c)
  BY InitTyped DEF Init, Empty, Alone, RightSoFar
<1>2. Typed /\ Alone(c) /\ [Next]_vars => Typed' /\ Alone(c)'
  <2> SUFFICES ASSUME Typed, Alone(c), [Next]_vars PROVE Typed' /\ Alone(c)'
    OBVIOUS
  <2>1. Typed'
    BY NextTyped
  <2>2. CASE \/ Step(c) \/ Fail(c) \/ \E j \in Jobs : Begin(c, j)
    BY <2>1, <2>2, AloneStep
  <2>3. CASE UNCHANGED vars
    <3>1. UNCHANGED <<filings, pc, job, oldKey, keys, stored, todo, dirty>>
      BY <2>3 DEF vars, table, local
    <3>2. /\ Left(c)' = Left(c) /\ Key(c)' = Key(c) /\ Visible(c)' = Visible(c)
          /\ Pending(c)' = Pending(c) /\ Taken(c)' = Taken(c)
      BY <3>1 DEF Left, LeftKey, Key, Visible, Pending, Taken
    <3>3. RightSoFar(c)' /\ (Settled(c) => Settled(c)')
      BY <3>1, <3>2 DEF RightSoFar, Alone, Settled
    <3> QED BY <2>1, <3>1, <3>2, <3>3 DEF Alone
  <2> QED BY <2>2, <2>3 DEF Next, Done
<1>3. Typed /\ Alone(c) /\ [Next]_vars =>
        [\A p \in Procs : Commit(p) /\ job[p].kind = "all"
                              => Index!Agrees(filings', derived')]_vars
  BY CommitAgrees
<1>4. Typed /\ Alone(c) /\ [Next]_vars =>
        [\A p \in Procs : Commit(p) /\ job[p].kind \in {"ingest", "chain"}
                              /\ Index!Agrees(filings, derived)
                              => Index!Agrees(filings', derived')]_vars
  BY CommitAgrees
<1> QED BY <1>1, <1>2, <1>3, <1>4, PTL
        DEF Spec, ResolvingAgrees, ResolveAllHeals, IngestKeepsAgreement

=============================================================================
