--------------------------- MODULE BulkLoadProofs ---------------------------
(***************************************************************************)
(* Invariance proofs for BulkLoad, for any loaders, workloads and files,   *)
(* and the proof that it implements BulkTable.                             *)
(***************************************************************************)
EXTENDS BulkLoad, FiniteSetTheorems, SequenceTheorems, TLAPS

(* Inside the transaction, and with a staged file. *)
InTx(l)    == pc[l] \in {"delete", "deleting", "copy", "commit"}
Fetched(l) == pc[l] = "begin" \/ InTx(l)

(* Every call is one of the workload's, went the way its options ask for,   *)
(* and holds the lines of one version; what it has copied are these lines.  *)
CallInv ==
    \A l \in Loaders :
        /\ pc[l] # "idle" => call[l] \in jobs[l]
        /\ pc[l] \in {"last", "head"} => call[l].ifChanged
        /\ pc[l] = "count" => call[l].mode = "replace"
        /\ pc[l] \in {"delete", "deleting"} => call[l].mode = "replace"
        /\ Fetched(l) => /\ staged[l].of \in Versions
                         /\ staged[l].lines = Staged(staged[l].of, call[l].limit)
                         /\ staged[l].meta = IF call[l].from = "url" THEN Meta(staged[l].of) ELSE Unknown

Unique(rows) == \A r, s \in rows : r.key = s.key => r = s

(* What a transaction has deleted and copied is its own until it ends.      *)
LockInv ==
    \A l \in Loaders :
        /\ doomed[l] # {} => pc[l] \in {"copy", "commit"} /\ call[l].mode = "replace"
        /\ InTx(l) => began[l] > 0
        /\ pc[l] = "commit" => copied[l] = Rows(l)
        /\ pc[l] # "commit" => copied[l] = {}
        /\ Unique(copied[l])
        /\ Keys(copied[l]) \cap Keys(table \ doomed[l]) = {}
        /\ \A k \in Loaders \ {l} : /\ doomed[k] \cap doomed[l] = {}
                                    /\ Keys(copied[k]) \cap Keys(copied[l]) = {}

Inv == TypeOK /\ CallInv /\ LockInv

(* What was counted is still the table, or what was deleted of it, until    *)
(* somebody loads.                                                          *)
Asked(l) == call[l].mode = "replace" /\ ~call[l].confirmed

CountInv ==
    /\ IsFiniteSet(table)
    /\ \A l \in Loaders :
        /\ IsFiniteSet(snapshot[l])
        /\ counted[l] <= Len(log)
        /\ Asked(l) /\ Len(log) = counted[l] =>
              /\ pc[l] \in {"get", "begin", "delete"} => Cardinality(table) <= Threshold
              /\ pc[l] = "deleting" => Cardinality(snapshot[l]) <= Threshold
              /\ Cardinality(doomed[l]) <= Threshold

(* A transaction's rows have a time that no row has that anybody can see.   *)
TimeInv ==
    /\ \A r \in table : r.by <= clock
    /\ \A l \in Loaders : \A r \in snapshot[l] : r.by <= clock
    /\ \A l \in Loaders : InTx(l) =>
         /\ \A r \in table : r.by # began[l]
         /\ \A k \in Loaders : \A r \in snapshot[k] : r.by # began[l]
         /\ \A k \in Loaders \ {l} : InTx(k) => began[k] # began[l]

IsFile(rows) == \E v \in Versions, n \in Limits : rows = File(v, n)

(* Who has got past COPY has deleted all there is, and nobody else has.     *)
WholeInv ==
    /\ table = {} \/ IsFile(Visible)
    /\ \A l \in Loaders :
        /\ pc[l] = "deleting" => snapshot[l] = table \/ snapshot[l] \cap table = {}
        /\ pc[l] = "copy" => doomed[l] = {} \/ doomed[l] = table
        /\ pc[l] = "commit" => doomed[l] = table /\ \A k \in Loaders \ {l} : pc[k] # "commit"

TableInv == AllReplace /\ FilesMeet => WholeInv

(* The log rows that --if-changed may take for the server's file, and those *)
(* that hide them.                                                          *)
Dated == {i \in FullLoads : log[i].meta # Unknown}
Hidden(i) == \E j \in FullLoads : log[j].at > log[i].at

LastInv(l) ==
    /\ \A i \in Dated : log[i].meta = Meta(log[i].of) /\ (Hidden(i) \/ File(log[i].of, None) \subseteq Visible)
    /\ InTx(l) => \A i \in Dated : log[i].at < began[l]
    /\ pc[l] = "head" => prev[l] = Unknown \/ \E v \in Versions : prev[l] = Meta(v) /\ File(v, None) \subseteq Visible

SkipInv == \A l \in Loaders : Replaces(l) => LastInv(l)

-----------------------------------------------------------------------------
LEMMA LinesTypes ==
    ASSUME NEW v \in Versions
    PROVE  /\ DOMAIN Lines[v] \subseteq Nat
           /\ IsFiniteSet(DOMAIN Lines[v])
           /\ \A i \in DOMAIN Lines[v] : Lines[v][i].key \in Nat
<1>1. Lines[v] \in Seq([key : Nat, kind : {"row", "blank", "short", "long"},
                        date : {"good", "bad", "none"}])
  BY FileAssumption DEF Versions
<1>2. DOMAIN Lines[v] = 1..Len(Lines[v]) /\ Len(Lines[v]) \in Nat
  BY <1>1
<1>3. \A i \in DOMAIN Lines[v] : Lines[v][i] \in [key : Nat, kind : {"row", "blank", "short", "long"},
                                                    date : {"good", "bad", "none"}]
  BY <1>1, <1>2, ElementOfSeq
<1>4. IsFiniteSet(DOMAIN Lines[v])
  <2>1. 1 \in Int /\ Len(Lines[v]) \in Int
    BY <1>2
  <2> QED BY <1>2, <2>1, FS_Interval
<1>5. DOMAIN Lines[v] \subseteq Nat
  BY <1>2
<1>6. \A i \in DOMAIN Lines[v] : Lines[v][i].key \in Nat
  BY <1>3
<1> QED BY <1>4, <1>5, <1>6

LEMMA StagedTypes ==
    ASSUME NEW v \in Versions, NEW limit
    PROVE  /\ Staged(v, limit) \subseteq DOMAIN Lines[v]
           /\ Staged(v, limit) \in SUBSET Nat
           /\ IsFiniteSet(Staged(v, limit))
           /\ Nulled(v, Staged(v, limit)) \in Nat
<1>1. Staged(v, limit) \subseteq DOMAIN Lines[v]
  BY DEF Staged
<1>2. IsFiniteSet(Staged(v, limit))
  BY <1>1, LinesTypes, FS_Subset
<1>3. IsFiniteSet({i \in Staged(v, limit) : Lines[v][i].date = "bad"})
  BY <1>2, FS_Subset
<1> QED BY <1>1, <1>2, <1>3, LinesTypes, FS_CardinalityType DEF Nulled

LEMMA MetaTypes ==
    /\ Unknown \in Metas
    /\ \A v \in Versions : Meta(v) \in Metas
BY DEF Unknown, Meta, Metas, Values

LEMMA InitInv == Init => Inv
<1> SUFFICES ASSUME Init PROVE Inv
  OBVIOUS
<1> USE BoundAssumption
<1>1. 1 \in Versions
  <2>1. Len(Lines) # 0
    BY FileAssumption, EmptySeq
  <2> QED BY <2>1, FileAssumption DEF Versions
<1>2. NoCall \in Calls /\ NoFile \in StagedFile
  BY MetaTypes DEF NoCall, Calls, Modes, NoFile, StagedFile, Values
<1>3. log \in Seq(LogRow(clock))
  BY DEF Init
<1>4. TypeOK
  BY <1>1, <1>2, <1>3, MetaTypes DEF Init, TypeOK, Labels
<1>5. CallInv
  BY DEF Init, CallInv, Fetched, InTx
<1>6. LockInv
  BY DEF Init, LockInv, Keys, Unique, InTx
<1> QED BY <1>4, <1>5, <1>6 DEF Inv

LEMMA RowsTypes ==
    ASSUME Inv, NEW l \in Loaders, Fetched(l)
    PROVE  /\ Rows(l) \subseteq Rowset
           /\ IsFiniteSet(Rows(l))
           /\ \A r \in Rows(l) : r.by = began[l]
           /\ Cardinality(staged[l].lines) \in Nat
<1>1. staged[l].of \in Versions /\ staged[l].lines = Staged(staged[l].of, call[l].limit)
  BY DEF Inv, CallInv
<1>2. \A i \in staged[l].lines : Lines[staged[l].of][i].key \in Nat
  BY <1>1, StagedTypes, LinesTypes
<1>3. began[l] \in Nat
  BY DEF Inv, TypeOK
<1>4. Rows(l) \subseteq Rowset /\ \A r \in Rows(l) : r.by = began[l]
  BY <1>1, <1>2, <1>3 DEF Rows, CopyOf, Rowset
<1>5. IsFiniteSet(staged[l].lines)
  BY <1>1, StagedTypes
<1>6. IsFiniteSet(Rows(l))
  <2> DEFINE f == [i \in staged[l].lines |-> CopyOf(staged[l].of, i, began[l])]
  <2>1. f \in Surjection(staged[l].lines, Rows(l))
    BY DEF Surjection, Rows
  <2> HIDE DEF f
  <2> QED BY <1>5, <2>1, FS_Surjection
<1> QED BY <1>4, <1>5, <1>6, FS_CardinalityType

(* Which step changes what: the others keep the types for that reason.     *)
LEMMA NextTypes == Inv /\ [Next]_vars => TypeOK'
<1> SUFFICES ASSUME Inv, [Next]_vars PROVE TypeOK'
  OBVIOUS
<1> USE DEF server, db, mine, tx, GoTo
<1>1. CASE Publish
  BY <1>1 DEF Inv, TypeOK, Publish
<1>2. ASSUME NEW l \in Loaders, Call(l) PROVE TypeOK'
  <2>1. PICK c \in jobs[l] :
          /\ call' = [call EXCEPT ![l] = c]
          /\ GoTo(l, IF c.ifChanged /\ c.from = "url" THEN "last" ELSE Guarded(c))
    BY <1>2 DEF Call
  <2>2. c \in Calls
    BY WorkloadAssumption DEF Inv, TypeOK
  <2>3. pc' \in [Loaders -> Labels] /\ call' \in [Loaders -> Calls]
    BY <2>1, <2>2 DEF Inv, TypeOK, Labels, Guarded
  <2>4. calls' \in 0..MaxLoads
    BY <1>2, BoundAssumption DEF Call, Inv, TypeOK
  <2> QED BY <1>2, <2>3, <2>4 DEF Call, Inv, TypeOK
<1>3. ASSUME NEW l \in Loaders, LastFullLoad(l) PROVE TypeOK'
  <2>1. pc' \in [Loaders -> Labels] /\ prev' \in [Loaders -> Metas]
    <3>1. CASE FullLoads = {}
      BY <1>3, <3>1 DEF LastFullLoad, Inv, TypeOK, Labels, Guarded
    <3>2. CASE FullLoads # {}
      <4>1. PICK i \in FullLoads : prev' = [prev EXCEPT ![l] = log[i].meta] /\ GoTo(l, "head")
        BY <1>3, <3>2 DEF LastFullLoad
      <4>2. log[i] \in LogRow(clock)
        BY ElementOfSeq DEF FullLoads, Inv, TypeOK
      <4> QED BY <4>1, <4>2 DEF Inv, TypeOK, Labels, LogRow
    <3> QED BY <3>1, <3>2
  <2> QED BY <1>3, <2>1 DEF LastFullLoad, Inv, TypeOK
<1>4. ASSUME NEW l \in Loaders, HeadMetadata(l) PROVE TypeOK'
  <2>1. pc' \in [Loaders -> Labels]
    BY <1>4 DEF HeadMetadata, Inv, TypeOK, Labels, Guarded
  <2> QED BY <1>4, <2>1 DEF HeadMetadata, Inv, TypeOK
<1>5. ASSUME NEW l \in Loaders, Count(l) PROVE TypeOK'
  <2>1. Len(log) \in Nat
    BY LenProperties DEF Inv, TypeOK
  <2>2. pc' \in [Loaders -> Labels] /\ counted' \in [Loaders -> Nat]
    BY <1>5, <2>1 DEF Count, Inv, TypeOK, Labels
  <2> QED BY <1>5, <2>2 DEF Count, Inv, TypeOK
<1>6. ASSUME NEW l \in Loaders, Stage(l) PROVE TypeOK'
  <2>1. PICK v \in Sources(call[l]) :
          LET lines == Staged(v, call[l].limit)
          IN  /\ staged' = [staged EXCEPT ![l] =
                    [lines |-> lines, nulled |-> Nulled(v, lines), of |-> v,
                     meta |-> IF call[l].from = "url" THEN Meta(v) ELSE Unknown]]
              /\ GoTo(l, IF Malformed(v, lines) THEN "idle" ELSE "begin")
    BY <1>6 DEF Stage
  <2>2. v \in Versions
    BY <2>1 DEF Sources, Inv, TypeOK
  <2>3. [lines |-> Staged(v, call[l].limit), nulled |-> Nulled(v, Staged(v, call[l].limit)), of |-> v,
         meta |-> IF call[l].from = "url" THEN Meta(v) ELSE Unknown] \in StagedFile
    BY <2>2, StagedTypes, MetaTypes DEF StagedFile, Values
  <2>4. staged' \in [Loaders -> StagedFile] /\ pc' \in [Loaders -> Labels]
    BY <2>1, <2>3 DEF Inv, TypeOK, Labels
  <2> QED BY <1>6, <2>4 DEF Stage, Inv, TypeOK
<1>7. ASSUME NEW l \in Loaders, StageFails(l) PROVE TypeOK'
  BY <1>7 DEF StageFails, Inv, TypeOK, Labels
<1>8. ASSUME NEW l \in Loaders, Begin(l) PROVE TypeOK'
  <2>1. LogRow(clock) \subseteq LogRow(clock')
    BY <1>8 DEF Begin, LogRow, Inv, TypeOK
  <2>2. log' \in Seq(LogRow(clock'))
    BY <1>8, <2>1, SeqMonotonic DEF Begin, Inv, TypeOK
  <2>3. clock' \in Nat /\ began' \in [Loaders -> 0..clock']
    BY <1>8 DEF Begin, Inv, TypeOK
  <2>4. pc' \in [Loaders -> Labels]
    BY <1>8 DEF Begin, Inv, TypeOK, Labels
  <2> QED BY <1>8, <2>2, <2>3, <2>4 DEF Begin, Inv, TypeOK
<1>9. ASSUME NEW l \in Loaders, Delete(l) PROVE TypeOK'
  BY <1>9 DEF Delete, Inv, TypeOK, Labels
<1>10. ASSUME NEW l \in Loaders, Deleted(l) PROVE TypeOK'
  BY <1>10 DEF Deleted, Inv, TypeOK, Labels
<1>11. ASSUME NEW l \in Loaders, Copy(l) PROVE TypeOK'
  <2>1. Rows(l) \subseteq Rowset
    BY <1>11, RowsTypes DEF Copy, Fetched, InTx
  <2> QED BY <1>11, <2>1 DEF Copy, Inv, TypeOK, Labels
<1>12. ASSUME NEW l \in Loaders, Commit(l) PROVE TypeOK'
  <2>1. table' \subseteq Rowset /\ Unique(table')
    <3>1. Unique(table) /\ Unique(copied[l]) /\ Keys(copied[l]) \cap Keys(table \ doomed[l]) = {}
      BY DEF Inv, TypeOK, LockInv, Unique
    <3>2. \A r \in copied[l], s \in table \ doomed[l] : r.key # s.key
      BY <3>1 DEF Keys
    <3>3. table' = (table \ doomed[l]) \cup copied[l] /\ copied[l] \subseteq Rowset
      BY <1>12 DEF Commit, Inv, TypeOK
    <3>4. table' \subseteq Rowset
      BY <3>3 DEF Inv, TypeOK
    <3>5. Unique(table')
      BY <3>1, <3>2, <3>3 DEF Unique
    <3> QED BY <3>4, <3>5
  <2>2. doomed' \in [Loaders -> SUBSET table']
    <3>1. \A k \in Loaders \ {l} : doomed[k] \subseteq table \ doomed[l]
      BY DEF Inv, TypeOK, LockInv
    <3> QED BY <1>12, <3>1 DEF Commit, Inv, TypeOK
  <2>3. Entry(l) \in LogRow(clock)
    <3>1. Fetched(l) /\ staged[l].of \in Versions
      BY <1>12 DEF Commit, Fetched, InTx, Inv, CallInv
    <3>2. Cardinality(staged[l].lines) \in Nat
      BY <3>1, RowsTypes
    <3>3. staged[l] \in StagedFile /\ call[l] \in Calls
      BY DEF Inv, TypeOK
    <3>4. began[l] \in 1..clock
      <4>1. began[l] > 0
        BY <1>12 DEF Commit, Inv, LockInv, InTx
      <4>2. began[l] \in 0..clock /\ clock \in Nat
        BY DEF Inv, TypeOK
      <4> QED BY <4>1, <4>2
    <3> QED BY <3>1, <3>2, <3>3, <3>4 DEF Entry, LogRow, StagedFile, Calls, Values
  <2>4. log' \in Seq(LogRow(clock))
    BY <1>12, <2>3, AppendProperties DEF Commit, Inv, TypeOK
  <2>5. pc' \in [Loaders -> Labels] /\ copied' \in [Loaders -> SUBSET Rowset]
    BY <1>12 DEF Commit, Inv, TypeOK, Labels
  <2> QED BY <1>12, <2>1, <2>2, <2>4, <2>5 DEF Commit, Inv, TypeOK, Unique
<1>13. ASSUME NEW l \in Loaders, Rollback(l) PROVE TypeOK'
  BY <1>13 DEF Rollback, Inv, TypeOK, Labels
<1>14. CASE UNCHANGED vars
  BY <1>14 DEF vars, Inv, TypeOK
<1> QED BY <1>1, <1>2, <1>3, <1>4, <1>5, <1>6, <1>7, <1>8, <1>9, <1>10, <1>11, <1>12, <1>13,
           <1>14 DEF Next, Load

(* A step of one loader leaves what the others do and hold alone.           *)
LEMMA NextCalls == Inv /\ [Next]_vars => CallInv'
<1> SUFFICES ASSUME Inv, [Next]_vars PROVE CallInv'
  OBVIOUS
<1> USE DEF server, db, mine, tx, GoTo
<1>t. TypeOK /\ CallInv
  BY DEF Inv
<1>1. CASE Publish
  BY <1>1, <1>t DEF CallInv, Fetched, InTx, Publish
<1>2. ASSUME NEW l \in Loaders, Call(l) PROVE CallInv'
  <2>1. PICK c \in jobs[l] :
          /\ call' = [call EXCEPT ![l] = c]
          /\ GoTo(l, IF c.ifChanged /\ c.from = "url" THEN "last" ELSE Guarded(c))
    BY <1>2 DEF Call
  <2>2. UNCHANGED <<jobs, staged>>
    BY <1>2 DEF Call
  <2>3. pc'[l] \in {"last", "count", "get"} /\ call'[l] = c
    BY <2>1, <1>t DEF TypeOK, Guarded
  <2>4. pc'[l] = "last" => c.ifChanged
    BY <2>1, <1>t DEF TypeOK, Guarded
  <2>5. pc'[l] = "count" => c.mode = "replace"
    BY <2>1, <1>t DEF TypeOK, Guarded
  <2>6. \A k \in Loaders \ {l} : pc'[k] = pc[k] /\ call'[k] = call[k]
    BY <2>1, <1>t DEF TypeOK
  <2> QED BY <2>2, <2>3, <2>4, <2>5, <2>6, <1>t DEF CallInv, Fetched, InTx
<1>3. ASSUME NEW l \in Loaders, LastFullLoad(l) \/ HeadMetadata(l) PROVE CallInv'
  <2>1. /\ pc'[l] \in {"idle", "head", "count", "get"} /\ (pc'[l] = "count" => call[l].mode = "replace")
        /\ pc[l] \in {"last", "head"}
        /\ \A k \in Loaders \ {l} : pc'[k] = pc[k]
        /\ UNCHANGED <<jobs, call, staged>>
    BY <1>3, <1>t DEF LastFullLoad, HeadMetadata, TypeOK, Guarded
  <2> QED BY <2>1, <1>t DEF CallInv, Fetched, InTx
<1>4. ASSUME NEW l \in Loaders, Count(l) \/ StageFails(l) \/ Commit(l) \/ Rollback(l) PROVE CallInv'
  <2>1. /\ pc'[l] \in {"idle", "get"} /\ pc[l] # "idle"
        /\ \A k \in Loaders \ {l} : pc'[k] = pc[k]
        /\ UNCHANGED <<jobs, call, staged>>
    BY <1>4, <1>t DEF Count, StageFails, Commit, Rollback, TypeOK
  <2> QED BY <2>1, <1>t DEF CallInv, Fetched, InTx
<1>5. ASSUME NEW l \in Loaders, Stage(l) PROVE CallInv'
  <2>1. PICK v \in Sources(call[l]) :
          LET lines == Staged(v, call[l].limit)
          IN  /\ staged' = [staged EXCEPT ![l] =
                    [lines |-> lines, nulled |-> Nulled(v, lines), of |-> v,
                     meta |-> IF call[l].from = "url" THEN Meta(v) ELSE Unknown]]
              /\ GoTo(l, IF Malformed(v, lines) THEN "idle" ELSE "begin")
    BY <1>5 DEF Stage
  <2>2. v \in Versions
    BY <2>1, <1>t DEF Sources, TypeOK
  <2>3. /\ pc'[l] \in {"idle", "begin"} /\ pc[l] = "get"
        /\ staged'[l].of = v /\ staged'[l].lines = Staged(v, call[l].limit)
        /\ staged'[l].meta = IF call[l].from = "url" THEN Meta(v) ELSE Unknown
    BY <1>5, <2>1, <1>t DEF Stage, TypeOK
  <2>4. /\ \A k \in Loaders \ {l} : pc'[k] = pc[k] /\ staged'[k] = staged[k]
        /\ UNCHANGED <<jobs, call>>
    BY <1>5, <2>1, <1>t DEF Stage, TypeOK
  <2> QED BY <2>2, <2>3, <2>4, <1>t DEF CallInv, Fetched, InTx
<1>6. ASSUME NEW l \in Loaders, Begin(l) \/ Delete(l) \/ Deleted(l) \/ Copy(l) PROVE CallInv'
  <2>1. /\ pc'[l] \in {"delete", "deleting", "copy", "commit"} /\ Fetched(l)
        /\ pc'[l] \in {"delete", "deleting"} => call[l].mode = "replace"
        /\ \A k \in Loaders \ {l} : pc'[k] = pc[k]
        /\ UNCHANGED <<jobs, call, staged>>
    BY <1>6, <1>t DEF Begin, Delete, Deleted, Copy, TypeOK, CallInv, Fetched, InTx
  <2> QED BY <2>1, <1>t DEF CallInv, Fetched, InTx
<1>7. CASE UNCHANGED vars
  BY <1>7, <1>t DEF vars, CallInv, Fetched, InTx
<1> QED BY <1>1, <1>2, <1>3, <1>4, <1>5, <1>6, <1>7 DEF Next, Load

(* Every step but a transaction's own leaves the table and what is deleted  *)
(* and copied alone, and leads neither in nor out of a COMMIT.              *)
LEMMA NextLocks == Inv /\ [Next]_vars => LockInv'
<1> SUFFICES ASSUME Inv, [Next]_vars PROVE LockInv'
  OBVIOUS
<1> USE DEF server, db, mine, tx, GoTo
<1>t. TypeOK /\ CallInv /\ LockInv
  BY DEF Inv
<1>1. CASE Publish
  BY <1>1, <1>t DEF LockInv, Publish, Rows, InTx
<1>2. ASSUME NEW l \in Loaders,
             Call(l) \/ LastFullLoad(l) \/ HeadMetadata(l) \/ Count(l) \/ Stage(l) \/ StageFails(l)
      PROVE  LockInv'
  <2>1. /\ pc[l] \in {"idle", "last", "head", "count", "get"}
        /\ pc'[l] \in {"idle", "last", "head", "count", "get", "begin"}
        /\ \A k \in Loaders \ {l} : pc'[k] = pc[k] /\ call'[k] = call[k] /\ staged'[k] = staged[k]
        /\ UNCHANGED <<table, began, doomed, copied>>
    BY <1>2, <1>t DEF Call, LastFullLoad, HeadMetadata, Count, Stage, StageFails, TypeOK, Guarded
  <2>2. doomed[l] = {} /\ copied[l] = {}
    BY <2>1, <1>t DEF LockInv
  <2>3. \A k \in Loaders \ {l} : Rows(k)' = Rows(k)
    BY <2>1 DEF Rows
  <2> QED BY <2>1, <2>2, <2>3, <1>t DEF LockInv, InTx
<1>3. ASSUME NEW l \in Loaders, Begin(l) \/ Delete(l) PROVE LockInv'
  <2>1. /\ pc[l] \in {"begin", "delete"} /\ pc'[l] \in {"delete", "deleting", "copy"} /\ began'[l] > 0
        /\ \A k \in Loaders \ {l} : pc'[k] = pc[k] /\ began'[k] = began[k]
        /\ UNCHANGED <<table, call, staged, doomed, copied>>
    <3>1. CASE Begin(l)
      <4>1. began' = [began EXCEPT ![l] = clock + 1] /\ clock \in Nat
        BY <3>1, <1>t DEF Begin, TypeOK
      <4>2. began'[l] > 0
        BY <4>1, <1>t DEF TypeOK
      <4> QED BY <3>1, <4>2, <1>t DEF Begin, TypeOK
    <3>2. CASE Delete(l)
      BY <3>2, <1>t DEF Delete, TypeOK, LockInv, InTx
    <3> QED BY <1>3, <3>1, <3>2
  <2>2. doomed[l] = {} /\ copied[l] = {}
    BY <2>1, <1>t DEF LockInv
  <2>3. \A k \in Loaders \ {l} : Rows(k)' = Rows(k)
    BY <2>1 DEF Rows
  <2> QED BY <2>1, <2>2, <2>3, <1>t DEF LockInv, InTx
<1>4. ASSUME NEW l \in Loaders, Deleted(l) PROVE LockInv'
  <2>1. /\ pc[l] = "deleting" /\ pc'[l] = "copy"
        /\ doomed'[l] = snapshot[l] \cap table
        /\ \A k \in Loaders : doomed[k] \cap snapshot[l] = {}
        /\ \A k \in Loaders \ {l} : pc'[k] = pc[k] /\ doomed'[k] = doomed[k]
        /\ UNCHANGED <<table, call, staged, began, copied>>
    BY <1>4, <1>t DEF Deleted, TypeOK
  <2>2. doomed[l] = {} /\ copied[l] = {} /\ call[l].mode = "replace" /\ began[l] > 0
    BY <2>1, <1>t DEF LockInv, CallInv, InTx
  <2>3. \A k \in Loaders : Rows(k)' = Rows(k)
    BY <2>1 DEF Rows
  <2>4. \A k \in Loaders \ {l} : doomed'[k] \cap doomed'[l] = {}
    BY <2>1
  <2>5. Keys(copied'[l]) = {}
    BY <2>1, <2>2 DEF Keys
  <2>6. \A k \in Loaders : \A j \in Loaders \ {k} : doomed'[j] \cap doomed'[k] = {}
    BY <2>1, <2>4, <1>t DEF LockInv
  <2> QED BY <2>1, <2>2, <2>3, <2>5, <2>6, <1>t DEF LockInv, InTx
<1>5. ASSUME NEW l \in Loaders, Copy(l) PROVE LockInv'
  <2>1. /\ pc[l] = "copy" /\ pc'[l] = "commit" /\ copied'[l] = Rows(l)
        /\ \A k \in Loaders \ {l} : pc'[k] = pc[k] /\ copied'[k] = copied[k]
        /\ UNCHANGED <<table, call, staged, began, doomed>>
    BY <1>5, <1>t DEF Copy, TypeOK
  <2>2. \A k \in Loaders : Rows(k)' = Rows(k)
    BY <2>1 DEF Rows
  <2>3. Unique(Rows(l)) /\ Keys(Rows(l)) \cap Keys(table \ doomed[l]) = {}
    <3>1. \A i, j \in staged[l].lines :
             Lines[staged[l].of][i].key = Lines[staged[l].of][j].key => i = j
      BY <1>5 DEF Copy, Duplicate
    <3>2. Unique(Rows(l))
      BY <3>1 DEF Unique, Rows, CopyOf
    <3> QED BY <1>5, <3>2 DEF Copy, Duplicate
  <2>4. \A k \in Loaders \ {l} : Keys(Rows(l)) \cap Keys(copied[k]) = {}
    <3> TAKE k \in Loaders \ {l}
    <3>1. Keys(Rows(l)) \cap Keys(doomed[k] \cup copied[k]) = {}
      BY <1>5 DEF Copy
    <3>2. Keys(copied[k]) \subseteq Keys(doomed[k] \cup copied[k])
      BY DEF Keys
    <3> QED BY <3>1, <3>2
  <2>5. \A k \in Loaders : \A j \in Loaders \ {k} : Keys(copied'[j]) \cap Keys(copied'[k]) = {}
    <3> TAKE k \in Loaders
    <3> TAKE j \in Loaders \ {k}
    <3>1. CASE k = l
      BY <2>1, <2>4, <3>1
    <3>2. CASE j = l
      BY <2>1, <2>4, <3>2
    <3>3. CASE k # l /\ j # l
      BY <2>1, <3>3, <1>t DEF LockInv
    <3> QED BY <3>1, <3>2, <3>3
  <2> QED BY <2>1, <2>2, <2>3, <2>5, <1>t DEF LockInv, InTx
<1>6. ASSUME NEW l \in Loaders, Commit(l) PROVE LockInv'
  <2>1. /\ pc[l] = "commit" /\ pc'[l] = "idle" /\ doomed'[l] = {} /\ copied'[l] = {}
        /\ table' = (table \ doomed[l]) \cup copied[l]
        /\ \A k \in Loaders \ {l} : pc'[k] = pc[k] /\ doomed'[k] = doomed[k] /\ copied'[k] = copied[k]
        /\ UNCHANGED <<call, staged, began>>
    BY <1>6, <1>t DEF Commit, TypeOK
  <2>2. \A k \in Loaders : Rows(k)' = Rows(k)
    BY <2>1 DEF Rows
  <2>3. \A k \in Loaders \ {l} : Keys(copied[k]) \cap Keys(table' \ doomed[k]) = {}
    <3> TAKE k \in Loaders \ {l}
    <3>1. table' \ doomed[k] \subseteq (table \ doomed[k]) \cup copied[l]
      BY <2>1
    <3>2. Keys(table' \ doomed[k]) \subseteq Keys(table \ doomed[k]) \cup Keys(copied[l])
      BY <3>1 DEF Keys
    <3>3. Keys(copied[k]) \cap Keys(table \ doomed[k]) = {} /\ Keys(copied[k]) \cap Keys(copied[l]) = {}
      BY <1>t DEF LockInv
    <3> QED BY <3>2, <3>3
  <2>4. Unique(copied'[l]) /\ Keys(copied'[l]) = {}
    BY <2>1 DEF Unique, Keys
  <2> QED BY <2>1, <2>2, <2>3, <2>4, <1>t DEF LockInv, InTx
<1>7. ASSUME NEW l \in Loaders, Rollback(l) PROVE LockInv'
  <2>1. /\ pc'[l] = "idle" /\ doomed'[l] = {} /\ copied'[l] = {}
        /\ \A k \in Loaders \ {l} : pc'[k] = pc[k] /\ doomed'[k] = doomed[k] /\ copied'[k] = copied[k]
        /\ UNCHANGED <<table, call, staged, began>>
    BY <1>7, <1>t DEF Rollback, TypeOK
  <2>2. \A k \in Loaders : Rows(k)' = Rows(k)
    BY <2>1 DEF Rows
  <2>3. Unique(copied'[l]) /\ Keys(copied'[l]) = {}
    BY <2>1 DEF Unique, Keys
  <2> QED BY <2>1, <2>2, <2>3, <1>t DEF LockInv, InTx
<1>8. CASE UNCHANGED vars
  BY <1>8, <1>t DEF vars, LockInv, Rows, InTx
<1> QED BY <1>1, <1>2, <1>3, <1>4, <1>5, <1>6, <1>7, <1>8 DEF Next, Load

LEMMA Invariant == Spec => []Inv
<1>1. Inv /\ [Next]_vars => Inv'
  BY NextTypes, NextCalls, NextLocks DEF Inv
<1> QED BY InitInv, <1>1, PTL DEF Spec

(* A table's rows have one key each, what a load deletes is there and is    *)
(* its own: whatever loaders load at once, from any files.                  *)
THEOREM LoadTypes == Spec => []TypeOK
<1>1. Inv => TypeOK
  BY DEF Inv
<1> QED BY Invariant, <1>1, PTL

-----------------------------------------------------------------------------
LEMMA InitCount == Init => CountInv
<1> SUFFICES ASSUME Init PROVE CountInv
  OBVIOUS
<1>1. IsFiniteSet({}) /\ Cardinality({}) = 0
  BY FS_EmptySet
<1>2. Len(log) = 0
  BY DEF Init
<1> QED BY <1>1, <1>2, BoundAssumption DEF Init, CountInv

LEMMA NextCount == Inv /\ CountInv /\ [Next]_vars => CountInv'
<1> SUFFICES ASSUME Inv, CountInv, [Next]_vars PROVE CountInv'
  OBVIOUS
<1> USE DEF server, db, mine, tx, GoTo
<1>t. TypeOK /\ CallInv /\ LockInv
  BY DEF Inv
<1>e. Cardinality({}) <= Threshold
  BY FS_EmptySet, BoundAssumption
<1>1. CASE Publish
  BY <1>1 DEF CountInv, Asked, Publish
<1>2. ASSUME NEW l \in Loaders, Call(l) \/ LastFullLoad(l) \/ HeadMetadata(l) PROVE CountInv'
  <2>1. /\ pc[l] \in {"idle", "last", "head"} /\ pc'[l] \in {"idle", "last", "head", "count", "get"}
        /\ \A k \in Loaders \ {l} : pc'[k] = pc[k] /\ call'[k] = call[k]
        /\ UNCHANGED <<table, log, counted, snapshot, doomed>>
    BY <1>2, <1>t DEF Call, LastFullLoad, HeadMetadata, TypeOK, Guarded
  <2>2. pc'[l] = "get" => ~Asked(l)'
    BY <1>2, <1>t DEF Call, LastFullLoad, HeadMetadata, TypeOK, Guarded, Asked
  <2>3. doomed[l] = {}
    BY <2>1, <1>t DEF LockInv
  <2> QED BY <2>1, <2>2, <2>3, <1>e DEF CountInv, Asked
<1>3. ASSUME NEW l \in Loaders, Count(l) PROVE CountInv'
  <2>1. /\ pc[l] = "count" /\ pc'[l] \in {"idle", "get"} /\ counted'[l] = Len(log)
        /\ \A k \in Loaders \ {l} : pc'[k] = pc[k] /\ counted'[k] = counted[k]
        /\ UNCHANGED <<table, log, call, snapshot, doomed>>
        /\ pc'[l] = "get" => ~(Cardinality(table) > Threshold)
    BY <1>3, <1>t DEF Count, TypeOK
  <2>2. doomed[l] = {}
    BY <2>1, <1>t DEF LockInv
  <2>3. Cardinality(table) \in Nat /\ Len(log) \in Nat /\ Threshold \in Nat
    BY FS_CardinalityType, LenProperties, BoundAssumption, <1>t DEF CountInv, TypeOK
  <2>4. pc'[l] = "get" => Cardinality(table) <= Threshold
    BY <2>1, <2>3
  <2>5. \A k \in Loaders : counted'[k] <= Len(log)
    BY <2>1, <2>3 DEF CountInv
  <2> HIDE <2>3
  <2> QED BY <2>1, <2>2, <2>4, <2>5, <1>e DEF CountInv, Asked
<1>4. ASSUME NEW l \in Loaders, Stage(l) \/ StageFails(l) \/ Begin(l) PROVE CountInv'
  <2>1. /\ pc[l] \in {"get", "begin"} /\ pc'[l] \in {"idle", "begin", "delete", "copy"}
        /\ \A k \in Loaders \ {l} : pc'[k] = pc[k]
        /\ UNCHANGED <<table, log, call, counted, snapshot, doomed>>
    BY <1>4, <1>t DEF Stage, StageFails, Begin, TypeOK
  <2>2. doomed[l] = {}
    BY <2>1, <1>t DEF LockInv
  <2> QED BY <2>1, <2>2, <1>e DEF CountInv, Asked
<1>5. ASSUME NEW l \in Loaders, Delete(l) PROVE CountInv'
  <2>1. /\ pc[l] = "delete" /\ pc'[l] = "deleting" /\ snapshot'[l] = table
        /\ \A k \in Loaders \ {l} : pc'[k] = pc[k] /\ snapshot'[k] = snapshot[k]
        /\ UNCHANGED <<table, log, call, counted, doomed>>
    BY <1>5, <1>t DEF Delete, TypeOK
  <2>2. doomed[l] = {}
    BY <2>1, <1>t DEF LockInv
  <2> QED BY <2>1, <2>2, <1>e DEF CountInv, Asked
<1>6. ASSUME NEW l \in Loaders, Deleted(l) PROVE CountInv'
  <2>1. /\ pc[l] = "deleting" /\ pc'[l] = "copy" /\ doomed'[l] = snapshot[l] \cap table
        /\ \A k \in Loaders \ {l} : pc'[k] = pc[k] /\ doomed'[k] = doomed[k]
        /\ UNCHANGED <<table, log, call, counted, snapshot>>
    BY <1>6, <1>t DEF Deleted, TypeOK
  <2>2. /\ Cardinality(doomed'[l]) <= Cardinality(snapshot[l])
        /\ Cardinality(doomed'[l]) \in Nat /\ Cardinality(snapshot[l]) \in Nat
    <3>1. IsFiniteSet(snapshot[l]) /\ doomed'[l] \subseteq snapshot[l]
      BY <2>1 DEF CountInv
    <3> QED BY <3>1, FS_Subset, FS_CardinalityType
  <2>3. Cardinality(snapshot[l]) <= Threshold => Cardinality(doomed'[l]) <= Threshold
    BY <2>2, BoundAssumption
  <2> QED BY <2>1, <2>3, <1>e DEF CountInv, Asked
<1>7. ASSUME NEW l \in Loaders, Copy(l) \/ Rollback(l) PROVE CountInv'
  <2>1. /\ pc'[l] \in {"commit", "idle"} /\ (doomed'[l] = doomed[l] \/ doomed'[l] = {})
        /\ \A k \in Loaders \ {l} : pc'[k] = pc[k] /\ doomed'[k] = doomed[k]
        /\ UNCHANGED <<table, log, call, counted, snapshot>>
    BY <1>7, <1>t DEF Copy, Rollback, TypeOK
  <2> QED BY <2>1, <1>e DEF CountInv, Asked
<1>8. ASSUME NEW l \in Loaders, Commit(l) PROVE CountInv'
  <2>1. /\ table' = (table \ doomed[l]) \cup copied[l] /\ log' = Append(log, Entry(l))
        /\ UNCHANGED <<call, counted, snapshot>>
    BY <1>8 DEF Commit
  <2>2. IsFiniteSet(copied[l])
    <3>1. Fetched(l) /\ copied[l] = Rows(l)
      BY <1>8, <1>t DEF Commit, LockInv, Fetched, InTx
    <3> QED BY <3>1, RowsTypes
  <2>3. IsFiniteSet(table')
    <3>1. IsFiniteSet(table \ doomed[l])
      BY FS_Subset DEF CountInv
    <3> QED BY <2>1, <2>2, <3>1, FS_Union
  <2>4. Len(log') = Len(log) + 1 /\ Len(log) \in Nat
    BY <2>1, <1>t DEF TypeOK
  <2>5. \A k \in Loaders : counted[k] \in Nat
    BY <1>t DEF TypeOK
  <2>6. \A k \in Loaders : counted'[k] <= Len(log') /\ Len(log') # counted'[k]
    BY <2>1, <2>4, <2>5 DEF CountInv
  <2> QED BY <2>1, <2>3, <2>6 DEF CountInv, Asked
<1>9. CASE UNCHANGED vars
  BY <1>9 DEF vars, CountInv, Asked
<1> QED BY <1>1, <1>2, <1>3, <1>4, <1>5, <1>6, <1>7, <1>8, <1>9 DEF Next, Load

(* Without --yes, no load deletes more rows than the threshold but those   *)
(* that somebody loaded after it had counted.                              *)
THEOREM CountedDeletes == Spec => []UnconfirmedDeletesLittle
<1>1. Inv /\ CountInv => UnconfirmedDeletesLittle
  <2> SUFFICES ASSUME Inv, CountInv, NEW l \in Loaders,
                      Cardinality(doomed[l]) > Threshold, ~call[l].confirmed
               PROVE  Len(log) > counted[l]
    BY DEF UnconfirmedDeletesLittle
  <2>1. doomed[l] # {}
    BY FS_EmptySet, BoundAssumption
  <2>2. Asked(l)
    BY <2>1 DEF Inv, LockInv, Asked
  <2>3. Cardinality(doomed[l]) \in Nat
    BY FS_Subset, FS_CardinalityType DEF Inv, TypeOK, CountInv
  <2>4. Len(log) \in Nat /\ counted[l] \in Nat /\ Threshold \in Nat
    BY LenProperties, BoundAssumption DEF Inv, TypeOK
  <2> QED BY <2>2, <2>3, <2>4 DEF CountInv
<1> QED BY Invariant, InitCount, NextCount, <1>1, PTL DEF Spec

-----------------------------------------------------------------------------
LEMMA InitTime == Init => TimeInv
BY DEF Init, TimeInv, InTx

LEMMA NextTime == Inv /\ TimeInv /\ [Next]_vars => TimeInv'
<1> SUFFICES ASSUME Inv, TimeInv, [Next]_vars PROVE TimeInv'
  OBVIOUS
<1> USE DEF server, db, mine, tx, GoTo
<1>t. TypeOK /\ LockInv
  BY DEF Inv
<1>1. CASE Publish \/ UNCHANGED vars
  BY <1>1 DEF Publish, vars, TimeInv, InTx
<1>2. ASSUME NEW l \in Loaders,
             \/ Call(l) \/ LastFullLoad(l) \/ HeadMetadata(l) \/ Count(l) \/ Stage(l) \/ StageFails(l)
             \/ Deleted(l) \/ Copy(l) \/ Rollback(l)
      PROVE  TimeInv'
  <2>1. /\ InTx(l)' => InTx(l)
        /\ \A k \in Loaders \ {l} : pc'[k] = pc[k]
        /\ UNCHANGED <<table, clock, began, snapshot>>
    BY <1>2, <1>t DEF Call, LastFullLoad, HeadMetadata, Count, Stage, StageFails, Deleted, Copy,
                      Rollback, TypeOK, InTx, Guarded
  <2>2. \A k \in Loaders : InTx(k)' => InTx(k)
    BY <2>1 DEF InTx
  <2> QED BY <2>1, <2>2 DEF TimeInv
<1>3. ASSUME NEW l \in Loaders, Begin(l) PROVE TimeInv'
  <2>1. /\ clock' = clock + 1 /\ began'[l] = clock + 1
        /\ \A k \in Loaders \ {l} : pc'[k] = pc[k] /\ began'[k] = began[k]
        /\ UNCHANGED <<table, snapshot>>
    BY <1>3, <1>t DEF Begin, TypeOK
  <2>2. /\ clock \in Nat
        /\ \A k \in Loaders : began[k] \in Nat /\ began[k] <= clock
        /\ \A r \in table : r.by \in Nat
        /\ \A k \in Loaders : \A r \in snapshot[k] : r.by \in Nat
    BY <1>t DEF TypeOK, Rowset
  <2>3. /\ \A r \in table : r.by <= clock' /\ r.by # began'[l]
        /\ \A k \in Loaders : \A r \in snapshot[k] : r.by <= clock' /\ r.by # began'[l]
        /\ \A k \in Loaders \ {l} : began'[k] # began'[l]
    BY <2>1, <2>2 DEF TimeInv
  <2>4. \A k \in Loaders \ {l} : InTx(k)' => InTx(k)
    BY <2>1 DEF InTx
  <2> QED BY <2>1, <2>3, <2>4 DEF TimeInv
<1>4. ASSUME NEW l \in Loaders, Delete(l) PROVE TimeInv'
  <2>1. /\ InTx(l) /\ snapshot'[l] = table
        /\ \A k \in Loaders \ {l} : pc'[k] = pc[k] /\ snapshot'[k] = snapshot[k]
        /\ UNCHANGED <<table, clock, began>>
    BY <1>4, <1>t DEF Delete, TypeOK, InTx
  <2>2. \A k \in Loaders : InTx(k)' => InTx(k)
    BY <2>1 DEF InTx
  <2> QED BY <2>1, <2>2 DEF TimeInv
<1>5. ASSUME NEW l \in Loaders, Commit(l) PROVE TimeInv'
  <2>1. /\ InTx(l) /\ ~InTx(l)' /\ table' \subseteq table \cup copied[l]
        /\ \A k \in Loaders \ {l} : pc'[k] = pc[k]
        /\ UNCHANGED <<clock, began, snapshot>>
    BY <1>5, <1>t DEF Commit, TypeOK, InTx
  <2>2. \A r \in copied[l] : r.by = began[l]
    <3>1. Fetched(l) /\ copied[l] = Rows(l)
      BY <1>5, <1>t DEF Commit, LockInv, Fetched, InTx
    <3> QED BY <3>1, RowsTypes
  <2>3. began[l] <= clock
    BY <1>t DEF TypeOK
  <2>4. \A k \in Loaders : InTx(k)' => InTx(k) /\ k # l
    BY <2>1 DEF InTx
  <2>5. \A r \in table' : r \in table \/ r.by = began[l]
    BY <2>1, <2>2
  <2>6. \A r \in table' : r.by <= clock
    BY <2>3, <2>5 DEF TimeInv
  <2>7. \A k \in Loaders : InTx(k)' => \A r \in table' : r.by # began[k]
    BY <2>1, <2>4, <2>5 DEF TimeInv
  <2> QED BY <2>1, <2>4, <2>6, <2>7 DEF TimeInv
<1> QED BY <1>1, <1>2, <1>3, <1>4, <1>5 DEF Next, Load

-----------------------------------------------------------------------------
(* What a load copies is a staged file, as a reader sees it. *)
Seen(rows) == {[key |-> r.key, of |-> r.of] : r \in rows}

LEMMA SeenKeys == ASSUME NEW rows PROVE Keys(Seen(rows)) = Keys(rows)
<1>1. ASSUME NEW k \in Keys(rows) PROVE k \in Keys(Seen(rows))
  <2>1. PICK r \in rows : k = r.key
    BY DEF Keys
  <2>2. [key |-> r.key, of |-> r.of] \in Seen(rows)
    BY DEF Seen
  <2> QED BY <2>1, <2>2 DEF Keys
<1>2. ASSUME NEW k \in Keys(Seen(rows)) PROVE k \in Keys(rows)
  <2>1. PICK s \in Seen(rows) : k = s.key
    BY DEF Keys
  <2>2. PICK r \in rows : s = [key |-> r.key, of |-> r.of]
    BY DEF Seen
  <2> QED BY <2>1, <2>2 DEF Keys
<1> QED BY <1>1, <1>2

LEMMA SeenCopies ==
    ASSUME NEW v, NEW by, NEW S
    PROVE  Seen({CopyOf(v, i, by) : i \in S}) = {[key |-> Lines[v][i].key, of |-> v] : i \in S}
<1> DEFINE Copies == {CopyOf(v, i, by) : i \in S}
           Image  == {[key |-> Lines[v][i].key, of |-> v] : i \in S}
<1>1. \A i : CopyOf(v, i, by).key = Lines[v][i].key /\ CopyOf(v, i, by).of = v
  BY DEF CopyOf
<1>2. ASSUME NEW s \in Seen(Copies) PROVE s \in Image
  <2>1. PICK r \in Copies : s = [key |-> r.key, of |-> r.of]
    BY DEF Seen
  <2> QED BY <1>1, <2>1
<1>3. ASSUME NEW s \in Image PROVE s \in Seen(Copies)
  <2>1. PICK i \in S : s = [key |-> Lines[v][i].key, of |-> v]
    OBVIOUS
  <2>2. CopyOf(v, i, by) \in Copies
    OBVIOUS
  <2> QED BY <1>1, <2>1, <2>2 DEF Seen
<1> QED BY <1>2, <1>3

LEMMA CopiesFile ==
    ASSUME Inv, NEW l \in Loaders, Fetched(l)
    PROVE  /\ Seen(Rows(l)) = File(staged[l].of, call[l].limit)
           /\ Keys(Rows(l)) = Keys(File(staged[l].of, call[l].limit))
           /\ staged[l].of \in Versions /\ call[l].limit \in Limits
<1>1. /\ staged[l].of \in Versions
      /\ staged[l].lines = Staged(staged[l].of, call[l].limit)
      /\ call[l] \in jobs[l]
  BY DEF Inv, CallInv, Fetched, InTx
<1>2. call[l].limit \in Limits
  BY <1>1 DEF Limits, Inv, TypeOK
<1>3. Seen(Rows(l)) = File(staged[l].of, call[l].limit)
  BY <1>1, SeenCopies DEF Rows, File
<1>4. Keys(Rows(l)) = Keys(File(staged[l].of, call[l].limit))
  BY <1>3, SeenKeys
<1> QED BY <1>1, <1>2, <1>3, <1>4

LEMMA InitTable == Init => TableInv
BY DEF Init, TableInv, WholeInv

LEMMA NextTable == Inv /\ TimeInv /\ TableInv /\ [Next]_vars => TableInv'
<1> SUFFICES ASSUME Inv, TimeInv, TableInv, [Next]_vars, AllReplace', FilesMeet PROVE WholeInv'
  BY DEF TableInv
<1> USE DEF server, db, mine, tx, GoTo
<1>t. TypeOK /\ CallInv /\ LockInv
  BY DEF Inv
<1>j. jobs' = jobs
  BY DEF Next, Load, Publish, Call, LastFullLoad, HeadMetadata, Count, Stage, StageFails, Begin,
         Delete, Deleted, Copy, Commit, Rollback, vars
<1>w. AllReplace /\ WholeInv
  BY <1>j DEF AllReplace, TableInv
<1>v. UNCHANGED table => (IsFile(Visible) => IsFile(Visible)')
  BY DEF IsFile, Visible
<1>1. CASE Publish \/ UNCHANGED vars
  BY <1>1, <1>w, <1>v DEF Publish, vars, WholeInv
<1>2. ASSUME NEW l \in Loaders,
             \/ Call(l) \/ LastFullLoad(l) \/ HeadMetadata(l) \/ Count(l) \/ Stage(l) \/ StageFails(l)
             \/ Rollback(l)
      PROVE  WholeInv'
  <2>1. /\ pc'[l] \notin {"deleting", "copy", "commit"}
        /\ \A k \in Loaders \ {l} : pc'[k] = pc[k] /\ doomed'[k] = doomed[k]
        /\ UNCHANGED <<table, snapshot>>
    BY <1>2, <1>t DEF Call, LastFullLoad, HeadMetadata, Count, Stage, StageFails, Rollback, TypeOK, Guarded
  <2> QED BY <2>1, <1>w, <1>v DEF WholeInv
<1>3. ASSUME NEW l \in Loaders, Begin(l) PROVE WholeInv'
  <2>1. call[l].mode = "replace"
    BY <1>3, <1>t, <1>w DEF Begin, CallInv, AllReplace
  <2>2. /\ pc'[l] = "delete"
        /\ \A k \in Loaders \ {l} : pc'[k] = pc[k]
        /\ UNCHANGED <<table, snapshot, doomed>>
    BY <1>3, <2>1, <1>t DEF Begin, TypeOK
  <2> QED BY <2>2, <1>w, <1>v DEF WholeInv
<1>4. ASSUME NEW l \in Loaders, Delete(l) PROVE WholeInv'
  <2>1. /\ pc'[l] = "deleting" /\ snapshot'[l] = table
        /\ \A k \in Loaders \ {l} : pc'[k] = pc[k] /\ snapshot'[k] = snapshot[k]
        /\ UNCHANGED <<table, doomed>>
    BY <1>4, <1>t DEF Delete, TypeOK
  <2> QED BY <2>1, <1>w, <1>v DEF WholeInv
<1>5. ASSUME NEW l \in Loaders, Deleted(l) PROVE WholeInv'
  <2>1. /\ pc[l] = "deleting" /\ pc'[l] = "copy" /\ doomed'[l] = snapshot[l] \cap table
        /\ \A k \in Loaders \ {l} : pc'[k] = pc[k] /\ doomed'[k] = doomed[k]
        /\ UNCHANGED <<table, snapshot>>
    BY <1>5, <1>t DEF Deleted, TypeOK
  <2>2. doomed'[l] = {} \/ doomed'[l] = table
    BY <2>1, <1>w DEF WholeInv
  <2> QED BY <2>1, <2>2, <1>w, <1>v DEF WholeInv
<1>6. ASSUME NEW l \in Loaders, Copy(l) PROVE WholeInv'
  <2>1. /\ pc[l] = "copy" /\ pc'[l] = "commit"
        /\ \A k \in Loaders \ {l} : pc'[k] = pc[k]
        /\ UNCHANGED <<table, snapshot, doomed>>
    BY <1>6, <1>t DEF Copy, TypeOK
  <2>2. PICK v \in Versions, n \in Limits : Keys(Rows(l)) = Keys(File(v, n))
    BY <2>1, CopiesFile DEF Fetched, InTx
  <2>3. doomed[l] = table
    <3>1. SUFFICES ASSUME doomed[l] = {}, IsFile(Visible) PROVE FALSE
      BY <2>1, <1>w DEF WholeInv
    <3>2. Keys(table) = Keys(Visible)
      BY SeenKeys DEF Visible, Seen
    <3>3. Keys(Rows(l)) \cap Keys(table) # {}
      BY <2>2, <3>1, <3>2 DEF IsFile, FilesMeet
    <3>4. Keys(Rows(l)) \cap Keys(table \ doomed[l]) = {}
      BY <1>6 DEF Copy, Duplicate
    <3> QED BY <3>1, <3>3, <3>4
  <2>4. ASSUME NEW k \in Loaders \ {l}, pc[k] = "commit" PROVE FALSE
    <3>1. copied[k] = Rows(k) /\ Fetched(k)
      BY <2>4, <1>t DEF LockInv, Fetched, InTx
    <3>2. PICK w \in Versions, m \in Limits : Keys(copied[k]) = Keys(File(w, m))
      BY <3>1, CopiesFile
    <3>3. Keys(Rows(l)) \cap Keys(copied[k]) # {}
      BY <2>2, <3>2 DEF FilesMeet
    <3>4. Keys(Rows(l)) \cap Keys(doomed[k] \cup copied[k]) = {}
      BY <1>6 DEF Copy
    <3>5. Keys(copied[k]) \subseteq Keys(doomed[k] \cup copied[k])
      BY DEF Keys
    <3> QED BY <3>3, <3>4, <3>5
  <2> QED BY <2>1, <2>3, <2>4, <1>w, <1>v DEF WholeInv
<1>7. ASSUME NEW l \in Loaders, Commit(l) PROVE WholeInv'
  <2>1. /\ pc[l] = "commit" /\ pc'[l] = "idle"
        /\ table' = (table \ doomed[l]) \cup copied[l]
        /\ \A k \in Loaders \ {l} : pc'[k] = pc[k] /\ doomed'[k] = doomed[k]
        /\ UNCHANGED snapshot
    BY <1>7, <1>t DEF Commit, TypeOK
  <2>2. doomed[l] = table /\ copied[l] = Rows(l) /\ Fetched(l)
    BY <2>1, <1>w, <1>t DEF WholeInv, LockInv, Fetched, InTx
  <2>3. table' = Rows(l)
    BY <2>1, <2>2
  <2>4. IsFile(Visible)'
    <3>1. Visible' = Seen(Rows(l))
      BY <2>3 DEF Visible, Seen
    <3>2. PICK v \in Versions, n \in Limits : Visible' = File(v, n)
      BY <2>2, <3>1, CopiesFile
    <3> QED BY <3>2 DEF IsFile
  <2>5. ASSUME NEW k \in Loaders \ {l}, pc[k] = "deleting" PROVE snapshot[k] \cap Rows(l) = {}
    <3>1. \A r \in snapshot[k] : r.by # began[l]
      BY <2>1 DEF TimeInv, InTx
    <3> QED BY <2>2, <3>1, RowsTypes
  <2>6. ASSUME NEW k \in Loaders \ {l}, pc[k] = "copy" PROVE doomed[k] = {}
    BY <2>2, <2>6, <1>w, <1>t DEF WholeInv, LockInv
  <2>7. \A k \in Loaders \ {l} : pc[k] # "commit"
    BY <2>1, <1>w DEF WholeInv
  <2> QED BY <2>1, <2>3, <2>4, <2>5, <2>6, <2>7 DEF WholeInv
<1> QED BY <1>1, <1>2, <1>3, <1>4, <1>5, <1>6, <1>7 DEF Next, Load

(* While everybody replaces, readers see the table go from one staged file *)
(* to another in one step, whoever loads at once: BulkTable is implemented. *)
THEOREM TableIsOneFile == Spec => ImplementsTable
<1> DEFINE Step == AllReplace /\ FilesMeet => UNCHANGED Visible \/ Promise!Next
<1>1. Inv /\ TableInv /\ [Next]_vars => [Step]_vars
  <2> SUFFICES ASSUME Inv, TableInv, Next, AllReplace, FilesMeet
               PROVE  Promise!Next \/ UNCHANGED Visible
    OBVIOUS
  <2>1. ASSUME NEW l \in Loaders, Commit(l) PROVE Promise!Next
    <3>1. pc[l] = "commit" /\ table' = (table \ doomed[l]) \cup copied[l]
      BY <2>1 DEF Commit
    <3>2. doomed[l] = table /\ copied[l] = Rows(l) /\ Fetched(l)
      BY <3>1 DEF TableInv, WholeInv, Inv, LockInv, Fetched, InTx
    <3>3. Visible' = Seen(Rows(l))
      BY <3>1, <3>2 DEF Visible, Seen
    <3>4. PICK v \in Versions, n \in Limits : Visible' = File(v, n)
      BY <3>2, <3>3, CopiesFile
    <3> QED BY <3>4 DEF Promise!Next, Promise!Replace
  <2>2. UNCHANGED table => UNCHANGED Visible
    BY DEF Visible
  <2>3. (\A l \in Loaders : ~Commit(l)) => UNCHANGED table
    BY DEF Next, Load, Publish, Call, LastFullLoad, HeadMetadata, Count, Stage, StageFails, Begin,
           Delete, Deleted, Copy, Rollback, server, db, mine, tx
  <2> QED BY <2>1, <2>2, <2>3
<1>2. Init => Inv /\ TimeInv /\ TableInv
  BY InitInv, InitTime, InitTable
<1>3. Inv /\ TimeInv /\ TableInv /\ [Next]_vars => TimeInv' /\ TableInv'
  BY NextTime, NextTable
<1>4. Spec => [](Inv /\ TableInv)
  BY Invariant, <1>2, <1>3, PTL DEF Spec
<1>5. Spec => [][Step]_vars
  BY <1>1, <1>4, PTL DEF Spec
<1> QED BY <1>5 DEF ImplementsTable

-----------------------------------------------------------------------------
(* A row of the log after one is added. *)
LEMMA LongerLog ==
    ASSUME TypeOK, NEW l \in Loaders, log' = Append(log, Entry(l))
    PROVE  /\ \A i \in DOMAIN log : log'[i] = log[i]
           /\ DOMAIN log' = DOMAIN log \cup {Len(log) + 1}
           /\ log'[Len(log) + 1] = Entry(l)
BY DEF TypeOK

LEMMA InitSkip == Init => SkipInv
<1>1. Init => Dated = {}
  BY DEF Init, Dated, FullLoads
<1> QED BY <1>1 DEF Init, SkipInv, LastInv, InTx

(* The others add rows and hide no log row. *)
LEMMA OthersAdd ==
    ASSUME Inv, NEW l \in Loaders, Replaces(l), NEW k \in Loaders \ {l}, Commit(k)
    PROVE  /\ table \subseteq table'
           /\ Dated' \subseteq Dated
           /\ FullLoads \subseteq FullLoads'
           /\ \A i \in FullLoads : log'[i] = log[i]
<1>1. pc[k] = "commit" /\ table' = (table \ doomed[k]) \cup copied[k] /\ log' = Append(log, Entry(k))
  BY DEF Commit
<1>2. Fetched(k) /\ call[k] \in jobs[k]
  BY <1>1 DEF Inv, CallInv, Fetched, InTx
<1>3. call[k].mode = "append" /\ (call[k].limit # None \/ call[k].from = "file")
  BY <1>2 DEF Replaces
<1>4. doomed[k] = {}
  BY <1>3 DEF Inv, LockInv
<1>5. Entry(k).limit # None \/ Entry(k).meta = Unknown
  BY <1>2, <1>3 DEF Entry, Inv, CallInv
<1>6. /\ \A i \in DOMAIN log : log'[i] = log[i]
      /\ DOMAIN log' = DOMAIN log \cup {Len(log) + 1}
      /\ log'[Len(log) + 1] = Entry(k)
  BY <1>1, LongerLog DEF Inv
<1> QED BY <1>1, <1>4, <1>5, <1>6 DEF Dated, FullLoads

LEMMA OwnCommit ==
    ASSUME Inv, NEW l \in Loaders, Replaces(l), LastInv(l), Commit(l)
    PROVE  LastInv(l)'
<1>1. /\ pc[l] = "commit" /\ pc'[l] = "idle"
      /\ table' = (table \ doomed[l]) \cup copied[l] /\ log' = Append(log, Entry(l))
  BY DEF Commit, GoTo, Inv, TypeOK
<1>2. InTx(l) /\ Fetched(l) /\ call[l] \in jobs[l] /\ copied[l] = Rows(l)
  BY <1>1 DEF Inv, CallInv, LockInv, Fetched, InTx
<1>3. /\ \A i \in DOMAIN log : log'[i] = log[i]
      /\ DOMAIN log' = DOMAIN log \cup {Len(log) + 1}
      /\ log'[Len(log) + 1] = Entry(l)
  BY <1>1, LongerLog DEF Inv
<1>4. FullLoads \subseteq FullLoads' /\ \A i \in FullLoads : log'[i] = log[i]
  BY <1>3 DEF FullLoads
<1>5. ASSUME NEW i \in Dated', i \in DOMAIN log
      PROVE  log'[i].meta = Meta(log'[i].of) /\ (Hidden(i)' \/ File(log[i].of, None) \subseteq Visible')
  <2>1. i \in Dated /\ log'[i] = log[i]
    BY <1>3, <1>5 DEF Dated, FullLoads
  <2>2. CASE call[l].mode = "replace"
    <3>1. Entry(l).limit = None /\ Entry(l).at = began[l]
      BY <1>2, <2>2 DEF Replaces, Entry
    <3>2. Len(log) + 1 \in FullLoads' /\ log'[Len(log) + 1].at = began[l]
      BY <1>3, <3>1 DEF FullLoads
    <3>3. log[i].at < began[l] /\ log[i].at \in Nat /\ began[l] \in Nat
      <4>1. log[i] \in LogRow(clock)
        BY <1>5, ElementOfSeq DEF Inv, TypeOK
      <4>2. clock \in Nat /\ began[l] \in Nat
        BY DEF Inv, TypeOK
      <4> QED BY <1>2, <2>1, <4>1, <4>2 DEF LastInv, LogRow
    <3>4. Hidden(i)'
      BY <2>1, <3>2, <3>3 DEF Hidden
    <3> QED BY <2>1, <3>4 DEF LastInv
  <2>3. CASE call[l].mode # "replace"
    <3>1. table \subseteq table'
      BY <1>1, <2>3 DEF Inv, LockInv
    <3>2. File(log[i].of, None) \subseteq Visible => File(log[i].of, None) \subseteq Visible'
      BY <3>1 DEF Visible
    <3>3. Hidden(i) => Hidden(i)'
      BY <1>4, <2>1 DEF Hidden
    <3> QED BY <2>1, <3>2, <3>3 DEF LastInv
  <2> QED BY <2>2, <2>3
<1>6. ASSUME Len(log) + 1 \in Dated'
      PROVE  Entry(l).meta = Meta(Entry(l).of) /\ File(Entry(l).of, None) \subseteq Visible'
  <2>1. Entry(l).limit = None /\ Entry(l).meta # Unknown
    BY <1>3, <1>6 DEF Dated, FullLoads
  <2>2. call[l].limit = None /\ staged[l].meta # Unknown
    BY <2>1 DEF Entry
  <2>3. Entry(l).meta = Meta(Entry(l).of) /\ Entry(l).of = staged[l].of
    BY <1>2, <2>2 DEF Inv, CallInv, Entry
  <2>4. Seen(Rows(l)) = File(staged[l].of, None)
    BY <1>2, <2>2, CopiesFile
  <2>5. Seen(Rows(l)) \subseteq Visible'
    BY <1>1, <1>2 DEF Seen, Visible
  <2>6. File(staged[l].of, None) \subseteq Visible'
    BY <2>4, <2>5
  <2> QED BY <2>3, <2>6
<1>7. \A i \in Dated' : i \in DOMAIN log \/ i = Len(log) + 1
  BY <1>3 DEF Dated, FullLoads
<1>8. \A i \in Dated' : log'[i].meta = Meta(log'[i].of) /\ (Hidden(i)' \/ File(log'[i].of, None) \subseteq Visible')
  BY <1>3, <1>5, <1>6, <1>7
<1> QED BY <1>1, <1>8 DEF LastInv, InTx

LEMMA NextSkip == Inv /\ SkipInv /\ [Next]_vars => SkipInv'
<1> SUFFICES ASSUME Inv, SkipInv, [Next]_vars, NEW l \in Loaders, Replaces(l)' PROVE LastInv(l)'
  BY DEF SkipInv
<1> USE DEF server, db, mine, tx, GoTo
<1>t. TypeOK /\ CallInv /\ LockInv
  BY DEF Inv
<1>j. jobs' = jobs
  BY DEF Next, Load, Publish, Call, LastFullLoad, HeadMetadata, Count, Stage, StageFails, Begin,
         Delete, Deleted, Copy, Commit, Rollback, vars
<1>r. Replaces(l) /\ LastInv(l)
  BY <1>j DEF Replaces, SkipInv
<1>1. CASE Publish \/ UNCHANGED vars
  BY <1>1, <1>r DEF Publish, vars, LastInv, Dated, FullLoads, Hidden, Visible, InTx
<1>s. UNCHANGED <<table, log>> =>
        /\ Dated' = Dated /\ Visible' = Visible /\ log' = log
        /\ \A i \in Dated : Hidden(i) => Hidden(i)'
  BY DEF Dated, FullLoads, Hidden, Visible
<1>2. ASSUME NEW k \in Loaders \ {l},
             \/ Call(k) \/ LastFullLoad(k) \/ HeadMetadata(k) \/ Count(k) \/ Stage(k) \/ StageFails(k)
             \/ Begin(k) \/ Delete(k) \/ Deleted(k) \/ Copy(k) \/ Rollback(k)
      PROVE  LastInv(l)'
  <2>1. /\ pc'[l] = pc[l] /\ began'[l] = began[l] /\ prev'[l] = prev[l]
        /\ UNCHANGED <<table, log>>
    BY <1>2, <1>t DEF Call, LastFullLoad, HeadMetadata, Count, Stage, StageFails, Begin, Delete,
                      Deleted, Copy, Rollback, TypeOK
  <2> QED BY <2>1, <1>r, <1>s DEF LastInv, InTx
<1>3. ASSUME NEW k \in Loaders \ {l}, Commit(k) PROVE LastInv(l)'
  <2>1. /\ pc'[l] = pc[l] /\ began'[l] = began[l] /\ prev'[l] = prev[l]
    BY <1>3, <1>t DEF Commit, TypeOK
  <2>2. /\ table \subseteq table' /\ Dated' \subseteq Dated /\ FullLoads \subseteq FullLoads'
        /\ \A i \in FullLoads : log'[i] = log[i]
    BY <1>3, <1>r, OthersAdd
  <2>3. Dated \subseteq FullLoads
    BY DEF Dated
  <2>4. \A v : File(v, None) \subseteq Visible => File(v, None) \subseteq Visible'
    BY <2>2 DEF Visible
  <2>5. \A i \in Dated : Hidden(i) => Hidden(i)'
    BY <2>2, <2>3 DEF Hidden
  <2>6. \A i \in Dated' : log'[i].meta = Meta(log'[i].of) /\ (Hidden(i)' \/ File(log'[i].of, None) \subseteq Visible')
    BY <2>2, <2>3, <2>4, <2>5, <1>r DEF LastInv
  <2>7. InTx(l)' => \A i \in Dated' : log'[i].at < began'[l]
    BY <2>1, <2>2, <2>3, <1>r DEF LastInv, InTx
  <2>8. pc'[l] = "head" => prev'[l] = Unknown \/ \E v \in Versions : prev'[l] = Meta(v) /\ File(v, None) \subseteq Visible'
    BY <2>1, <2>4, <1>r DEF LastInv
  <2> QED BY <2>6, <2>7, <2>8 DEF LastInv
<1>4. CASE Call(l) \/ HeadMetadata(l) \/ Count(l) \/ Stage(l) \/ StageFails(l) \/ Delete(l)
           \/ Deleted(l) \/ Copy(l) \/ Rollback(l)
  <2>1. /\ pc'[l] # "head" /\ (InTx(l)' => InTx(l))
        /\ UNCHANGED <<table, log, began>>
    BY <1>4, <1>t DEF Call, HeadMetadata, Count, Stage, StageFails, Delete, Deleted, Copy, Rollback,
                      TypeOK, InTx, Guarded
  <2> QED BY <2>1, <1>r, <1>s DEF LastInv
<1>5. CASE LastFullLoad(l)
  <2>1. ~InTx(l)' /\ UNCHANGED <<table, log>>
    BY <1>5, <1>t DEF LastFullLoad, TypeOK, InTx, Guarded
  <2>2. pc'[l] = "head" => prev'[l] = Unknown \/ \E v \in Versions : prev'[l] = Meta(v) /\ File(v, None) \subseteq Visible
    <3>1. SUFFICES ASSUME pc'[l] = "head", prev'[l] # Unknown
                   PROVE  \E v \in Versions : prev'[l] = Meta(v) /\ File(v, None) \subseteq Visible
      OBVIOUS
    <3>2. PICK i \in FullLoads : /\ \A j \in FullLoads : log[j].at <= log[i].at
                                 /\ prev' = [prev EXCEPT ![l] = log[i].meta]
      BY <1>5, <1>t, <3>1 DEF LastFullLoad, TypeOK, Guarded
    <3>3. i \in Dated /\ prev'[l] = log[i].meta
      BY <3>1, <3>2, <1>t DEF Dated, TypeOK
    <3>4. \A j \in FullLoads : log[j] \in LogRow(clock)
      BY ElementOfSeq, <1>t DEF FullLoads, TypeOK
    <3>5. \A j \in FullLoads : log[j].at \in Nat
      BY <3>4, <1>t DEF LogRow, TypeOK
    <3>6. ~Hidden(i)
      BY <3>2, <3>5 DEF Hidden
    <3>7. log[i].of \in Versions
      BY <3>2, <3>4 DEF LogRow
    <3> QED BY <3>3, <3>6, <3>7, <1>r DEF LastInv
  <2> QED BY <2>1, <2>2, <1>r, <1>s DEF LastInv
<1>6. CASE Begin(l)
  <2>1. began'[l] = clock + 1 /\ pc'[l] # "head" /\ UNCHANGED <<table, log>>
    BY <1>6, <1>t DEF Begin, TypeOK
  <2>2. \A i \in Dated : log[i].at <= clock /\ log[i].at \in Nat
    <3>1. \A i \in Dated : log[i] \in LogRow(clock)
      BY ElementOfSeq, <1>t DEF Dated, FullLoads, TypeOK
    <3> QED BY <3>1, <1>t DEF LogRow, TypeOK
  <2>3. \A i \in Dated : log[i].at < began'[l]
    BY <2>1, <2>2, <1>t DEF TypeOK
  <2> QED BY <2>1, <2>3, <1>r, <1>s DEF LastInv
<1>7. CASE Commit(l)
  BY <1>7, <1>r, OwnCommit
<1> QED BY <1>1, <1>2, <1>3, <1>4, <1>5, <1>6, <1>7 DEF Next, Load

(* Where one loader replaces or loads whole files and the others add        *)
(* samples and local files, "skipped: unchanged" is never said but of a     *)
(* file whose every row is in the table.                                    *)
THEOREM SkipsAreTrue == Spec => SkipsOnlyWhatIsThere
<1> DEFINE Step == \A l \in Loaders : Skips(l) /\ OneReplacer /\ MetasTell =>
                       File(published, None) \subseteq Visible
<1>1. Inv /\ SkipInv /\ [Next]_vars => [Step]_vars
  <2> SUFFICES ASSUME Inv, SkipInv, Next, NEW l \in Loaders, NEW r \in Loaders, Replaces(r),
                      MetasTell, Skips(l)
               PROVE  File(published, None) \subseteq Visible
    BY DEF OneReplacer
  <2> USE DEF server, db, mine, tx, GoTo
  <2>1. pc[l] = "head" /\ pc'[l] = "idle"
    BY DEF Skips
  <2>2. HeadMetadata(l)
    <3>1. pc \in [Loaders -> Labels]
      BY DEF Inv, TypeOK
    <3>2. pc' # pc
      BY <2>1
    <3>3. PICK k \in Loaders : Load(k)
      BY <3>2 DEF Next, Publish
    <3>4. \E label : pc' = [pc EXCEPT ![k] = label]
      BY <3>3 DEF Load, Call, LastFullLoad, HeadMetadata, Count, Stage, StageFails, Begin, Delete,
                  Deleted, Copy, Commit, Rollback
    <3>5. k = l
      BY <2>1, <3>1, <3>4
    <3> QED BY <2>1, <3>3, <3>5 DEF Load, Call, LastFullLoad, Count, Stage, StageFails, Begin, Delete,
                  Deleted, Copy, Commit, Rollback
  <2>3. l = r
    BY <2>1 DEF Inv, CallInv, Replaces
  <2>4. prev[r] = Unknown \/ \E v \in Versions : prev[r] = Meta(v) /\ File(v, None) \subseteq Visible
    BY <2>1, <2>3 DEF SkipInv, LastInv
  <2>5. PICK answer \in {Meta(published), Unknown} : Matches(answer, prev[r])
    BY <2>1, <2>2, <2>3 DEF HeadMetadata, Guarded, Inv, TypeOK
  <2>6. /\ \A m : ~Matches(Unknown, m)
        /\ \A v \in Versions : ~Matches(Meta(v), Unknown)
    BY DEF Matches, Unknown, Meta
  <2>7. PICK v \in Versions : prev[r] = Meta(v) /\ File(v, None) \subseteq Visible
    BY <2>4, <2>5, <2>6 DEF Inv, TypeOK
  <2>8. published \in Versions
    BY DEF Inv, TypeOK
  <2>9. published = v
    BY <2>5, <2>6, <2>7, <2>8 DEF MetasTell
  <2> QED BY <2>7, <2>9
<1>2. Spec => [](Inv /\ SkipInv)
  BY Invariant, InitSkip, NextSkip, PTL DEF Spec
<1>3. Spec => [][Step]_vars
  BY <1>1, <1>2, PTL DEF Spec
<1> QED BY <1>3 DEF SkipsOnlyWhatIsThere
=============================================================================
