------------------------- MODULE DumpDownloadProofs -------------------------
(***************************************************************************)
(* Invariance proofs for DumpDownload: types for any number of downloading *)
(* processes; whole, current files for one of them and a server that does  *)
(* not hide that its file changed.  Then GuidedImport, the commands that   *)
(* size, ask for and run imports: what they say they left alone is.        *)
(***************************************************************************)
EXTENDS DumpDownload, GuidedImport, OrderLemmas, TLAPS

OneDownloader == \A d, e \in Downloaders : d = e

(* The server respects If-Range, or every range it sends carries its ETag.  *)
ChangeIsSeen == Compliant \/ (Validator = "etag" /\ TagOn416)

-----------------------------------------------------------------------------
LEMMA SizeTypes == \A v \in Versions : v \in Nat \ {0} /\ Size[v] \in Nat \ {0}
BY SizeAssumption DEF Versions

LEMMA OneIsAVersion == 1 \in Versions
BY SizeAssumption DEF Versions

(* The first n bytes of a version: their length, a longer and a shorter     *)
(* prefix, and the empty one.                                               *)
LEMMA BytesLen == ASSUME NEW v, NEW n \in Nat PROVE Len(Bytes(v, n)) = n
BY DEF Bytes

LEMMA BytesGrow ==
    ASSUME NEW v, NEW n \in Nat
    PROVE  WriteAt(Bytes(v, n), n + 1, <<v, n + 1>>) = Bytes(v, n + 1)
<1>1. Len(Bytes(v, n)) = n
  BY BytesLen
<1>2. \A i \in 1..n + 1 : i # n + 1 => i \in 1..n
  OBVIOUS
<1>3. \A i \in 1..n : Bytes(v, n)[i] = <<v, i>>
  BY DEF Bytes
<1>4. WriteAt(Bytes(v, n), n + 1, <<v, n + 1>>) =
        [i \in 1..n + 1 |-> IF i = n + 1 THEN <<v, n + 1>>
                            ELSE IF i <= n THEN Bytes(v, n)[i] ELSE Hole]
  BY <1>1 DEF WriteAt
<1>5. \A i \in 1..n + 1 :
        (IF i = n + 1 THEN <<v, n + 1>> ELSE IF i <= n THEN Bytes(v, n)[i] ELSE Hole) = <<v, i>>
  <2> SUFFICES ASSUME NEW i \in 1..n + 1
               PROVE  (IF i = n + 1 THEN <<v, n + 1>> ELSE IF i <= n THEN Bytes(v, n)[i] ELSE Hole)
                        = <<v, i>>
    OBVIOUS
  <2>1. CASE i = n + 1
    BY <2>1
  <2>2. CASE i # n + 1
    BY <2>2, <1>2, <1>3
  <2> QED BY <2>1, <2>2
<1> QED BY <1>4, <1>5 DEF Bytes

LEMMA BytesCut ==
    ASSUME NEW v, NEW n \in Nat, NEW m \in 0..n
    PROVE  SubSeq(Bytes(v, n), 1, m) = Bytes(v, m)
BY DEF Bytes

LEMMA BytesNone == \A v, w : Bytes(v, 0) = Bytes(w, 0) /\ Bytes(v, 0) = << >>
BY DEF Bytes

LEMMA WriteAtLen ==
    ASSUME NEW S, NEW s \in Seq(S), NEW n \in Nat \ {0}, NEW c \in S, Hole \in S
    PROVE  WriteAt(s, n, c) \in Seq(S)
<1> DEFINE m == IF n > Len(s) THEN n ELSE Len(s)
<1>1. m \in Nat
  OBVIOUS
<1>2. \A i \in 1..m : (IF i = n THEN c ELSE IF i <= Len(s) THEN s[i] ELSE Hole) \in S
  OBVIOUS
<1> QED BY <1>1, <1>2 DEF WriteAt

-----------------------------------------------------------------------------
LEMMA InitTypes == Init => TypeOK
<1>1. \A f \in Files : << >> \in Seq((Versions \cup {None}) \X Nat)
  OBVIOUS
<1> QED BY <1>1, OneIsAVersion, StopsAssumption DEF Init, TypeOK, NoAnswer, None

(* What the server answers is an answer. *)
LEMMA AnswerTypes ==
    ASSUME TypeOK, NEW from \in Nat, NEW validator, NEW a \in Answers(from, validator)
    PROVE  /\ a \in [version : Versions \cup {None}, start : Nat, total : Nat, etag : BOOLEAN]
           /\ a.version = current /\ a.total \in {Size[current], None} /\ a.start \in {0, from}
           /\ a.start # 0 => ~ (Compliant /\ validator # current)
           /\ a.start # 0 /\ Validator = "etag" /\ TagOn416 => a.etag
<1>1. current \in Versions /\ Size[current] \in Nat
  BY SizeTypes DEF TypeOK
<1>t. Tagged(TRUE) \subseteq BOOLEAN /\ Tagged(TagOn416) \subseteq BOOLEAN
  BY DEF Tagged
<1>n. {Size[current], None} \subseteq Nat /\ {current} \subseteq Versions \cup {None}
  BY <1>1 DEF None
<1>2. CASE a \in Answer200
  <2>1. a \in [version : Versions \cup {None}, start : Nat, total : Nat, etag : BOOLEAN]
    <3>1. {0} \subseteq Nat
      OBVIOUS
    <3> DEFINE zero == {0}
    <3>2. a \in [version : {current}, start : zero, total : {Size[current], None}, etag : Tagged(TRUE)]
      BY <1>2 DEF Answer200
    <3> HIDE DEF zero
    <3>3. zero \subseteq Nat
      BY <3>1 DEF zero
    <3> QED BY <1>t, <1>n, <3>2, <3>3
  <2>2. a.version = current /\ a.total \in {Size[current], None} /\ a.start = 0
    BY <1>2 DEF Answer200
  <2> QED BY <2>1, <2>2
<1>3. CASE a \in AnswerRange(from) /\ ~ (from = 0 \/ (Compliant /\ validator # current))
  <2>1. a \in [version : Versions \cup {None}, start : Nat, total : Nat, etag : BOOLEAN]
    BY <1>t, <1>n, <1>3 DEF AnswerRange
  <2>2. a.version = current /\ a.total \in {Size[current], None} /\ a.start = from
    BY <1>3 DEF AnswerRange
  <2>3. Validator = "etag" /\ TagOn416 => a.etag
    BY <1>3 DEF AnswerRange, Tagged
  <2> QED BY <1>3, <2>1, <2>2, <2>3
<1> QED BY <1>2, <1>3 DEF Answers

LEMMA PowerFailureContent ==
    ASSUME TypeOK, PowerFailure, NEW f \in Files
    PROVE  \E m \in 0..Len(content[f]) :
              /\ content'[f] = SubSeq(content[f], 1, m)
              /\ f \in synced => m = Len(content[f])
<1>1. PICK n \in [Files -> UNION {0..Len(content[g]) : g \in Files}] :
          /\ \A g \in Files : n[g] <= Len(content[g])
          /\ \A g \in synced : n[g] = Len(content[g])
          /\ content' = [g \in Files |-> SubSeq(content[g], 1, n[g])]
  BY DEF PowerFailure
<1>2. \A g \in Files : Len(content[g]) \in Nat
  BY DEF TypeOK
<1>3. n[f] \in Nat
  BY <1>1, <1>2
<1>4. n[f] \in 0..Len(content[f])
  BY <1>1, <1>2, <1>3
<1> QED BY <1>1, <1>4

(* Who writes has a file open. *)
HasFile == \A d \in Downloaders : pc[d] \in {"meta", "copy", "check"} => handle[d] # None

LEMMA NextHasFile == TypeOK /\ HasFile /\ [Next]_vars => HasFile'
<1> SUFFICES ASSUME TypeOK, HasFile, [Next]_vars PROVE HasFile'
  OBVIOUS
<1> USE DEF TypeOK, HasFile, GoTo, Quit, io
<1>1. ASSUME Replace \/ PowerFailure PROVE HasFile'
  BY <1>1 DEF Replace, PowerFailure
<1>2. ASSUME NEW d \in Downloaders, Open(d) PROVE HasFile'
  BY <1>2, FilesAssumption DEF Open, Unused, None
<1>3. ASSUME NEW d \in Downloaders, Begin(d) \/ Ask(d) \/ DropPartial(d) \/ DropMeta(d)
                                   \/ AskAgain(d) \/ Accept(d) \/ WriteMeta(d) \/ BodyEnds(d)
      PROVE  HasFile'
  BY <1>3 DEF Begin, Ask, DropPartial, DropMeta, AskAgain, Accept, WriteMeta, BodyEnds
<1>4. ASSUME NEW d \in Downloaders, Copy(d) PROVE HasFile'
  BY <1>4 DEF Copy
<1>5. ASSUME NEW d \in Downloaders, TooShort(d) \/ TooLong(d) \/ DiscardMeta(d) \/ Rename(d) PROVE HasFile'
  BY <1>5 DEF TooShort, TooLong, DiscardMeta, Rename
<1>6. ASSUME NEW d \in Downloaders, Evict(d) \/ Fails(d) \/ Kill(d) PROVE HasFile'
  BY <1>6 DEF Evict, EvictDest, EvictPartial, EvictMeta, Fails, Kill
<1>7. ASSUME UNCHANGED vars PROVE HasFile'
  BY <1>7 DEF vars
<1> QED BY <1>1, <1>2, <1>3, <1>4, <1>5, <1>6, <1>7 DEF Next, Download

LEMMA NextTypes == TypeOK /\ HasFile /\ [Next]_vars => TypeOK'
<1> SUFFICES ASSUME TypeOK, HasFile, [Next]_vars PROVE TypeOK'
  OBVIOUS
<1> USE DEF TypeOK, GoTo, Quit, None, disk, names, view, io
<1>1. ASSUME Replace PROVE TypeOK'
  BY <1>1 DEF Replace
<1>2. ASSUME PowerFailure PROVE TypeOK'
  <2>1. \A f \in Files : content'[f] \in Seq((Versions \cup {None}) \X Nat)
    <3> SUFFICES ASSUME NEW f \in Files PROVE content'[f] \in Seq((Versions \cup {None}) \X Nat)
      OBVIOUS
    <3>1. PICK m \in 0..Len(content[f]) : content'[f] = SubSeq(content[f], 1, m)
      BY <1>2, PowerFailureContent
    <3>2. content[f] \in Seq((Versions \cup {None}) \X Nat)
      OBVIOUS
    <3> HIDE DEF TypeOK
    <3> QED BY <3>1, <3>2
  <2>2. content' \in [Files -> Seq((Versions \cup {None}) \X Nat)]
    BY <1>2, <2>1 DEF PowerFailure
  <2>3. stops' \in 0..MaxStops
    BY <1>2, StopsAssumption DEF PowerFailure
  <2> QED BY <1>2, <2>2, <2>3 DEF PowerFailure
<1>3. ASSUME NEW d \in Downloaders, Begin(d) PROVE TypeOK'
  <2>1. Trusted \in Nat
    BY DEF Trusted
  <2> QED BY <1>3, <2>1 DEF Begin
<1>4. ASSUME NEW d \in Downloaders, Ask(d) \/ AskAgain(d) PROVE TypeOK'
  <2>1. resp' \in [Downloaders -> [version : Versions \cup {None}, start : Nat, total : Nat, etag : BOOLEAN]]
    <3> HIDE DEF TypeOK
    <3>1. existing[d] \in Nat /\ 0 \in Nat
      BY DEF TypeOK
    <3>2. ASSUME NEW a \in Answers(existing[d], saved[d]) \cup Answers(0, 0)
          PROVE  a \in [version : Versions \cup {None}, start : Nat, total : Nat, etag : BOOLEAN]
      BY <3>1, AnswerTypes
    <3>3. PICK a \in Answers(existing[d], saved[d]) \cup Answers(0, 0) : resp' = [resp EXCEPT ![d] = a]
      BY <1>4 DEF Ask, AskAgain
    <3> QED BY <3>2, <3>3 DEF TypeOK
  <2>2. pc' = [pc EXCEPT ![d] = IF Ask(d) THEN "answered" ELSE "open"]
    BY <1>4 DEF Ask, AskAgain
  <2>3. UNCHANGED <<current, disk, view, io, stops, evictions>>
    BY <1>4 DEF Ask, AskAgain
  <2> QED BY <2>1, <2>2, <2>3
<1>5. ASSUME NEW d \in Downloaders, DropPartial(d) \/ DropMeta(d) \/ Accept(d) PROVE TypeOK'
  BY <1>5 DEF DropPartial, DropMeta, Accept
<1>6. ASSUME NEW d \in Downloaders, Open(d) PROVE TypeOK'
  <2>1. << >> \in Seq((Versions \cup {None}) \X Nat)
    OBVIOUS
  <2>2. PICK f \in Files : /\ partial' = f /\ handle' = [handle EXCEPT ![d] = f]
                           /\ \/ content' = [content EXCEPT ![f] = << >>] /\ synced' = synced \ {f}
                              \/ UNCHANGED <<content, synced>>
    BY <1>6 DEF Open, Unused
  <2>3. content' \in [Files -> Seq((Versions \cup {None}) \X Nat)] /\ synced' \subseteq Files
    BY <2>1, <2>2
  <2>4. handle' \in [Downloaders -> Files \cup {None}] /\ {partial', dest'} \subseteq Files \cup {None}
    BY <1>6, <2>2 DEF Open
  <2>5. offset' \in [Downloaders -> {"own", "end"}] /\ read' \in [Downloaders -> Nat]
    BY <1>6 DEF Open
  <2> QED BY <1>6, <2>3, <2>4, <2>5 DEF Open
<1>7. ASSUME NEW d \in Downloaders, WriteMeta(d) PROVE TypeOK'
  <2>1. Recorded(resp[d]) \in Versions \cup {None}
    BY DEF Recorded
  <2> QED BY <1>7, <2>1 DEF WriteMeta
<1>8. ASSUME NEW d \in Downloaders, Copy(d) PROVE TypeOK'
  <2> DEFINE S == (Versions \cup {None}) \X Nat
             f == handle[d]
             v == resp[d].version
             n == IF offset[d] = "own" THEN read[d] + 1 ELSE Len(content[f]) + 1
  <2>1. content' = [content EXCEPT ![f] = WriteAt(@, n, <<v, read[d] + 1>>)]
    BY <1>8 DEF Copy
  <2>2. f \in Files => WriteAt(content[f], n, <<v, read[d] + 1>>) \in Seq(S)
    <3>1. f \in Files => content[f] \in Seq(S) /\ n \in Nat \ {0}
      OBVIOUS
    <3>2. Hole \in S /\ <<v, read[d] + 1>> \in S
      BY DEF Hole
    <3> QED BY <3>1, <3>2, WriteAtLen
  <2>3. content' \in [Files -> Seq(S)]
    BY <2>1, <2>2
  <2>4. read' \in [Downloaders -> Nat] /\ synced' \subseteq Files
    BY <1>8 DEF Copy
  <2>5. UNCHANGED <<current, names, meta, pc, view, resp, handle, offset, stops, evictions>>
    BY <1>8 DEF Copy
  <2> HIDE DEF S
  <2> QED BY <2>3, <2>4, <2>5 DEF S
<1>9. ASSUME NEW d \in Downloaders, BodyEnds(d) PROVE TypeOK'
  <2>1. handle[d] \in Files
    BY <1>9 DEF BodyEnds, HasFile
  <2> QED BY <1>9, <2>1 DEF BodyEnds
<1>10. ASSUME NEW d \in Downloaders, TooShort(d) \/ TooLong(d) \/ DiscardMeta(d) \/ Rename(d) PROVE TypeOK'
  <2>1. CASE TooShort(d)
    BY <2>1 DEF TooShort
  <2>2. CASE TooLong(d)
    BY <2>2 DEF TooLong
  <2>3. CASE DiscardMeta(d)
    BY <2>3 DEF DiscardMeta
  <2>4. CASE Rename(d)
    BY <2>4 DEF Rename
  <2> QED BY <1>10, <2>1, <2>2, <2>3, <2>4
<1>11. ASSUME NEW d \in Downloaders, Evict(d) PROVE TypeOK'
  <2>1. CASE EvictDest(d)
    BY <2>1, StopsAssumption DEF EvictDest
  <2>2. CASE EvictPartial(d)
    BY <2>2 DEF EvictPartial
  <2>3. CASE EvictMeta(d)
    BY <2>3 DEF EvictMeta
  <2> QED BY <1>11, <2>1, <2>2, <2>3 DEF Evict
<1>12. ASSUME NEW d \in Downloaders, Fails(d) \/ Kill(d) PROVE TypeOK'
  <2>1. meta' \in Versions \cup {None}
    BY <1>12 DEF Fails, Kill, MetaCutShort
  <2>2. CASE Fails(d)
    BY <2>1, <2>2 DEF Fails
  <2>3. CASE Kill(d)
    BY <2>1, <2>3, StopsAssumption DEF Kill
  <2> QED BY <1>12, <2>2, <2>3
<1>13. ASSUME UNCHANGED vars PROVE TypeOK'
  BY <1>13 DEF vars
<1> QED BY <1>1, <1>2, <1>3, <1>4, <1>5, <1>6, <1>7, <1>8, <1>9, <1>10, <1>11, <1>12, <1>13
        DEF Next, Download

(* The types, for any number of processes and any server. *)
THEOREM DownloadTypes == Spec => []TypeOK
<1>1. Init => TypeOK /\ HasFile
  BY InitTypes DEF Init, HasFile
<1>2. TypeOK /\ HasFile /\ [Next]_vars => TypeOK' /\ HasFile'
  BY NextTypes, NextHasFile
<1> QED BY <1>1, <1>2, PTL DEF Spec

-----------------------------------------------------------------------------
(* What .meta says of a partial that nobody writes is true. *)
PartialFits ==
    partial # None /\ meta # None =>
        \E n \in 0..Size[meta] : content[partial] = Bytes(meta, n)

(* The complete file, and what .meta says of it. *)
DestWhole ==
    dest # None =>
        /\ dest # partial /\ dest \in synced
        /\ \E v \in Versions : content[dest] = Whole(v)
        /\ meta # None => content[dest] = Whole(meta)

(* What the process has read of .partial and .meta still holds. *)
Asking(d) ==
    pc[d] \in {"ask", "answered"} => saved[d] = meta /\ existing[d] = Trusted

(* A range that was served is of the version that was asked for, or its tag *)
(* shows that it is not.                                                    *)
Answering(d) ==
    pc[d] = "answered" =>
        \/ resp[d].start = 0
        \/ /\ resp[d].start = existing[d]
           /\ resp[d].version = saved[d] \/ (resp[d].etag /\ saved[d] # None)

Opening(d) ==
    pc[d] = "open" =>
        \/ resp[d].start = 0
        \/ /\ resp[d].start > 0 /\ partial # None /\ meta # None
           /\ resp[d].start = Len(content[partial]) /\ resp[d].version = meta

(* What is written is a prefix of the version that was answered. *)
Writing(d) ==
    pc[d] \in {"meta", "copy", "check"} =>
        /\ partial # None /\ handle[d] = partial
        /\ read[d] \in 0..Size[resp[d].version]
        /\ content[partial] = Bytes(resp[d].version, read[d])

WritingMeta(d) ==
    /\ pc[d] = "meta" => IF offset[d] = "own" THEN read[d] = 0 ELSE meta = resp[d].version
    /\ pc[d] \in {"copy", "check"} => meta \in {None, resp[d].version}

Checking(d) ==
    pc[d] = "check" =>
        partial \in synced /\ (resp[d].total = None => read[d] = Size[resp[d].version])

(* The answer is no older than the question. *)
FreshAnswer(d) ==
    /\ asked[d] <= current
    /\ pc[d] \in {"answered", "open", "meta", "copy", "check"} =>
          /\ resp[d].version \in asked[d]..current /\ resp[d].version \in Versions
          /\ resp[d].total \in {Size[resp[d].version], None}

Cleared(d) ==
    pc[d] \in {"dropMeta", "askAgain", "discard", "evictMeta"} => partial = None

Alone(d) ==
    /\ pc[d] # "idle" => dest = None
    /\ Asking(d) /\ Answering(d) /\ Opening(d) /\ Writing(d) /\ WritingMeta(d)
    /\ Checking(d) /\ FreshAnswer(d) /\ Cleared(d)

Kept == PartialFits /\ DestWhole /\ \A d \in Downloaders : Alone(d)

Spliceless == TypeOK /\ HasFile /\ Kept

-----------------------------------------------------------------------------
(* A process that has nothing under way. *)
LEMMA IdleIsAlone ==
    ASSUME NEW d \in Downloaders, Alone(d), pc'[d] = "idle", asked'[d] = asked[d], current' = current
    PROVE  Alone(d)'
BY DEF Alone, Asking, Answering, Opening, Writing, WritingMeta, Checking, FreshAnswer, Cleared

(* Steps that leave the files and .meta alone. *)
LEMMA FilesUntouched ==
    ASSUME PartialFits, DestWhole, UNCHANGED <<content, names, meta>>, synced \subseteq synced'
    PROVE  PartialFits' /\ DestWhole'
BY DEF PartialFits, DestWhole, names

(* .meta is lost, or stays. *)
LEMMA MetaLost ==
    ASSUME PartialFits, DestWhole, UNCHANGED <<content, synced, names>>, meta' \in {meta, None}
    PROVE  PartialFits' /\ DestWhole'
BY DEF PartialFits, DestWhole, names

(* The partial is deleted. *)
LEMMA PartialDropped ==
    ASSUME PartialFits, DestWhole, UNCHANGED <<content, synced, meta>>, partial' = None, dest' \in {dest, None}
    PROVE  PartialFits' /\ DestWhole'
BY DEF PartialFits, DestWhole

LEMMA KeptByServer == Spliceless /\ Replace => Kept'
<1> SUFFICES ASSUME Spliceless, Replace PROVE Kept'
  OBVIOUS
<1>1. PartialFits' /\ DestWhole'
  BY FilesUntouched DEF Spliceless, Kept, Replace, disk, names
<1>2. ASSUME NEW d \in Downloaders PROVE Alone(d)'
  <2>1. FreshAnswer(d)'
    <3>1. FreshAnswer(d) /\ current \in Nat /\ asked[d] \in Nat
      BY SizeTypes DEF Spliceless, Kept, Alone, TypeOK
    <3>2. current' = current + 1 /\ UNCHANGED <<asked, pc, resp>>
      BY DEF Replace, view
    <3>3. asked[d]..current \subseteq asked[d]..(current + 1)
      BY <3>1
    <3> QED BY <3>1, <3>2, <3>3 DEF FreshAnswer
  <2>2. Alone(d)
    BY DEF Spliceless, Kept
  <2>3. UNCHANGED <<disk, names, pc, view, resp, io>>
    BY DEF Replace, disk
  <2> QED BY <2>1, <2>2, <2>3 DEF Alone, Asking, Trusted, Answering, Opening, Writing, WritingMeta,
             Checking, Cleared, disk, names, view, io
<1> QED BY <1>1, <1>2 DEF Kept

LEMMA KeptByPowerFailure == Spliceless /\ PowerFailure => Kept'
<1> SUFFICES ASSUME Spliceless, PowerFailure PROVE Kept'
  OBVIOUS
<1> USE DEF Spliceless, Kept
<1>1. ASSUME NEW v, NEW n \in Nat, NEW f \in Files, content[f] = Bytes(v, n)
      PROVE  /\ \E m \in 0..n : content'[f] = Bytes(v, m)
             /\ f \in synced => content'[f] = content[f]
  <2>1. PICK m \in 0..Len(content[f]) : /\ content'[f] = SubSeq(content[f], 1, m)
                                        /\ f \in synced => m = Len(content[f])
    BY PowerFailureContent
  <2>2. Len(content[f]) = n
    BY <1>1, BytesLen
  <2>3. content'[f] = Bytes(v, m)
    BY <1>1, <2>1, <2>2, BytesCut
  <2> QED BY <1>1, <2>1, <2>2, <2>3
<1>2. PartialFits'
  <2> SUFFICES ASSUME partial # None, meta # None, meta' = meta
               PROVE  \E n \in 0..Size[meta] : content'[partial] = Bytes(meta, n)
    BY DEF PowerFailure, PartialFits, names
  <2>1. PICK n \in 0..Size[meta] : content[partial] = Bytes(meta, n)
    BY DEF PartialFits
  <2>2. n \in Nat /\ Size[meta] \in Nat /\ partial \in Files
    BY SizeTypes DEF TypeOK
  <2>3. \E m \in 0..n : content'[partial] = Bytes(meta, m)
    BY <1>1, <2>1, <2>2
  <2> QED BY <2>2, <2>3
<1>3. DestWhole'
  <2> SUFFICES ASSUME dest # None PROVE DestWhole'
    BY DEF PowerFailure, DestWhole, names
  <2>1. PICK v \in Versions : content[dest] = Bytes(v, Size[v])
    BY DEF DestWhole, Whole
  <2>2. dest \in Files /\ dest \in synced /\ dest # partial /\ Size[v] \in Nat
    BY SizeTypes DEF TypeOK, DestWhole
  <2>3. content'[dest] = content[dest]
    BY <1>1, <2>1, <2>2
  <2> QED BY <2>2, <2>3 DEF PowerFailure, DestWhole, names
<1>4. ASSUME NEW d \in Downloaders PROVE Alone(d)'
  BY IdleIsAlone DEF PowerFailure, view
<1> QED BY <1>2, <1>3, <1>4

-----------------------------------------------------------------------------
LEMMA KeptByBegin ==
    ASSUME OneDownloader, Spliceless, NEW d \in Downloaders, Begin(d)
    PROVE  Kept'
<1> USE DEF Spliceless, Kept
<1>1. PartialFits' /\ DestWhole'
  BY FilesUntouched DEF Begin, disk
<1>2. UNCHANGED <<disk, content, names, partial, dest, meta, current>>
  BY DEF Begin, disk, names
<1>3. pc'[d] = "ask" /\ saved'[d] = meta /\ existing'[d] = Trusted /\ asked'[d] = current /\ dest = None
  BY DEF Begin, GoTo, TypeOK
<1>4. FreshAnswer(d)'
  BY <1>2, <1>3, SizeTypes DEF FreshAnswer, TypeOK
<1>5. Alone(d)'
  BY <1>2, <1>3, <1>4 DEF Alone, Asking, Trusted, Answering, Opening, Writing, WritingMeta, Checking, Cleared
<1> QED BY <1>1, <1>5 DEF OneDownloader

LEMMA KeptByAsk ==
    ASSUME OneDownloader, ChangeIsSeen, Spliceless, NEW d \in Downloaders, Ask(d)
    PROVE  Kept'
<1> USE DEF Spliceless, Kept
<1>1. PartialFits' /\ DestWhole'
  BY FilesUntouched DEF Ask, disk
<1>2. UNCHANGED <<content, partial, dest, meta, current, saved, existing, asked>>
  BY DEF Ask, disk, names, view
<1>3. PICK a \in Answers(existing[d], saved[d]) : resp'[d] = a
  BY DEF Ask, TypeOK
<1>4. pc[d] = "ask" /\ pc'[d] = "answered"
  BY DEF Ask, GoTo, TypeOK
<1>5. /\ a.version = current /\ a.total \in {Size[current], None} /\ a.start \in {0, existing[d]}
      /\ a.start # 0 => ~ (Compliant /\ saved[d] # current)
      /\ a.start # 0 /\ Validator = "etag" /\ TagOn416 => a.etag
  BY <1>3, AnswerTypes DEF TypeOK
<1>6. existing[d] # 0 => saved[d] # None
  BY <1>4 DEF Alone, Asking, Trusted
<1>7. Answering(d)'
  BY <1>2, <1>3, <1>5, <1>6 DEF Answering, ChangeIsSeen
<1>8. FreshAnswer(d)'
  BY <1>2, <1>3, <1>4, <1>5, SizeTypes DEF FreshAnswer, Alone, TypeOK
<1>9. Asking(d)'
  BY <1>2, <1>4 DEF Asking, Alone, Trusted
<1>10. Alone(d)'
  BY <1>2, <1>4, <1>7, <1>8, <1>9 DEF Alone, Opening, Writing, WritingMeta, Checking, Cleared
<1> QED BY <1>1, <1>10 DEF OneDownloader

LEMMA KeptByAskAgain ==
    ASSUME OneDownloader, Spliceless, NEW d \in Downloaders, AskAgain(d)
    PROVE  Kept'
<1> USE DEF Spliceless, Kept
<1>1. PartialFits' /\ DestWhole'
  BY FilesUntouched DEF AskAgain, disk
<1>2. UNCHANGED <<content, partial, dest, meta, current, saved, existing, asked>>
  BY DEF AskAgain, disk, names, view
<1>3. PICK a \in Answers(0, None) : resp'[d] = a
  BY DEF AskAgain, TypeOK
<1>4. pc[d] = "askAgain" /\ pc'[d] = "open"
  BY DEF AskAgain, GoTo, TypeOK
<1>5. a.version = current /\ a.total \in {Size[current], None} /\ a.start = 0
  BY <1>3, AnswerTypes
<1>6. FreshAnswer(d)'
  BY <1>2, <1>3, <1>4, <1>5, SizeTypes DEF FreshAnswer, Alone, TypeOK
<1>7. Alone(d)'
  BY <1>2, <1>3, <1>4, <1>5, <1>6 DEF Alone, Asking, Answering, Opening, Writing, WritingMeta, Checking, Cleared
<1> QED BY <1>1, <1>7 DEF OneDownloader

LEMMA KeptByAccept ==
    ASSUME OneDownloader, Spliceless, NEW d \in Downloaders, Accept(d)
    PROVE  Kept'
<1> USE DEF Spliceless, Kept
<1>1. PartialFits' /\ DestWhole'
  BY FilesUntouched DEF Accept, disk
<1>2. UNCHANGED <<content, partial, dest, meta, current, saved, existing, asked, resp>>
  BY DEF Accept, disk, names, view
<1>3. pc[d] = "answered" /\ pc'[d] = "open" /\ ~ TagChanged(d)
  BY DEF Accept, GoTo, TypeOK
<1>4. CASE resp[d].start = 0
  BY <1>1, <1>2, <1>3, <1>4 DEF OneDownloader, Alone, Asking, Answering, Opening, Writing, WritingMeta,
     Checking, FreshAnswer, Cleared
<1>5. CASE resp[d].start # 0
  <2>1. resp[d].start > 0
    BY <1>5 DEF TypeOK
  <2>2. resp[d].start = existing[d] /\ resp[d].version = saved[d]
    BY <1>3, <1>5, <2>1 DEF Alone, Answering, TagChanged
  <2>3. saved[d] = meta /\ existing[d] = Trusted
    BY <1>3 DEF Alone, Asking
  <2>4. partial # None /\ meta # None /\ resp[d].start = Len(content[partial]) /\ resp[d].version = meta
    BY <2>1, <2>2, <2>3 DEF Trusted
  <2> QED BY <1>1, <1>2, <1>3, <2>1, <2>4 DEF OneDownloader, Alone, Asking, Answering, Opening, Writing,
          WritingMeta, Checking, FreshAnswer, Cleared
<1> QED BY <1>4, <1>5

LEMMA KeptByDrop ==
    ASSUME OneDownloader, Spliceless, NEW d \in Downloaders, DropPartial(d) \/ DropMeta(d)
    PROVE  Kept'
<1> USE DEF Spliceless, Kept
<1>1. CASE DropPartial(d)
  <2>1. PartialFits' /\ DestWhole'
    BY <1>1, PartialDropped DEF DropPartial
  <2>2. pc'[d] = "dropMeta" /\ pc[d] = "answered" /\ partial' = None
        /\ UNCHANGED <<current, asked, dest>>
    BY <1>1 DEF DropPartial, GoTo, TypeOK, view
  <2> QED BY <2>1, <2>2 DEF OneDownloader, Alone, Asking, Answering, Opening, Writing, WritingMeta,
          Checking, FreshAnswer, Cleared
<1>2. CASE DropMeta(d)
  <2>1. PartialFits' /\ DestWhole'
    BY <1>2, MetaLost DEF DropMeta
  <2>2. pc'[d] = "askAgain" /\ pc[d] = "dropMeta" /\ UNCHANGED <<current, asked, dest, partial>>
    BY <1>2 DEF DropMeta, GoTo, TypeOK, view, names
  <2> QED BY <2>1, <2>2 DEF OneDownloader, Alone, Asking, Answering, Opening, Writing, WritingMeta,
          Checking, FreshAnswer, Cleared
<1> QED BY <1>1, <1>2

-----------------------------------------------------------------------------
LEMMA KeptByOpen ==
    ASSUME OneDownloader, Spliceless, NEW d \in Downloaders, Open(d)
    PROVE  Kept'
<1> USE DEF Spliceless, Kept
<1> DEFINE v == resp[d].version
<1>1. pc[d] = "open" /\ pc'[d] = "meta" /\ dest = None /\ dest' = None
  BY DEF Open, GoTo, TypeOK, Alone
<1>2. UNCHANGED <<meta, current, asked, resp>>
  BY DEF Open, view
<1>3. PICK f \in (IF partial = None THEN Unused ELSE {partial}) :
          /\ partial' = f /\ handle' = [handle EXCEPT ![d] = f]
          /\ IF partial = None \/ resp[d].start = 0
             THEN content' = [content EXCEPT ![f] = << >>]
             ELSE UNCHANGED content
  BY DEF Open
<1>4. f \in Files /\ f # None /\ handle'[d] = f
  BY <1>3, FilesAssumption DEF Unused, TypeOK, None
<1>5. read'[d] = resp[d].start /\ offset'[d] = (IF resp[d].start = 0 THEN "own" ELSE "end")
  BY DEF Open, TypeOK
<1>6. v \in Versions /\ Size[v] \in Nat
  BY <1>1, SizeTypes DEF Alone, FreshAnswer
<1>7. CASE resp[d].start = 0
  <2>1. content'[f] = Bytes(v, 0) /\ \A w : content'[f] = Bytes(w, 0)
    BY <1>3, <1>4, <1>7, BytesNone DEF TypeOK
  <2>2. Writing(d)' /\ WritingMeta(d)'
    BY <1>1, <1>2, <1>3, <1>4, <1>5, <1>6, <1>7, <2>1 DEF Writing, WritingMeta
  <2>3. PartialFits'
    BY <1>2, <1>3, <2>1, SizeTypes DEF PartialFits, TypeOK
  <2> QED BY <1>1, <1>2, <2>2, <2>3 DEF OneDownloader, DestWhole, Alone, Asking, Answering, Opening,
          Checking, FreshAnswer, Cleared
<1>8. CASE resp[d].start # 0
  <2>1. partial # None /\ meta # None /\ resp[d].start = Len(content[partial]) /\ v = meta
    BY <1>1, <1>8 DEF Alone, Opening
  <2>2. f = partial /\ content' = content /\ partial' = partial
    BY <1>3, <1>8, <2>1
  <2>3. PICK n \in 0..Size[v] : content[partial] = Bytes(v, n)
    BY <2>1 DEF PartialFits
  <2>4. n = resp[d].start
    BY <1>6, <2>1, <2>3, BytesLen
  <2>5. Writing(d)' /\ WritingMeta(d)'
    BY <1>1, <1>2, <1>4, <1>5, <1>8, <2>1, <2>2, <2>3, <2>4 DEF Writing, WritingMeta
  <2>6. PartialFits'
    BY <1>2, <2>2 DEF PartialFits
  <2> QED BY <1>1, <1>2, <2>5, <2>6 DEF OneDownloader, DestWhole, Alone, Asking, Answering, Opening,
          Checking, FreshAnswer, Cleared
<1> QED BY <1>7, <1>8

LEMMA KeptByWriteMeta ==
    ASSUME OneDownloader, Spliceless, NEW d \in Downloaders, WriteMeta(d)
    PROVE  Kept'
<1> USE DEF Spliceless, Kept
<1> DEFINE v == resp[d].version
<1>1. pc[d] = "meta" /\ pc'[d] = "copy" /\ dest = None /\ dest' = None /\ v \in Versions
  BY DEF WriteMeta, GoTo, TypeOK, Alone, FreshAnswer, names
<1>2. UNCHANGED <<content, partial, handle, read, current, asked, resp>>
  BY DEF WriteMeta, view, names, io
<1>3. meta' \in {None, v}
  BY <1>1, BytesNone DEF WriteMeta, WritesMeta, Recorded, Alone, WritingMeta, TypeOK
<1>4. Writing(d) /\ FreshAnswer(d)
  BY DEF Alone
<1>5. PartialFits'
  BY <1>1, <1>2, <1>3, <1>4 DEF PartialFits, Writing
<1>6. Writing(d)' /\ WritingMeta(d)' /\ FreshAnswer(d)'
  BY <1>1, <1>2, <1>3, <1>4 DEF Writing, WritingMeta, FreshAnswer
<1> QED BY <1>1, <1>5, <1>6 DEF OneDownloader, DestWhole, Alone, Asking, Answering, Opening, Checking, Cleared

LEMMA KeptByCopy ==
    ASSUME OneDownloader, Spliceless, NEW d \in Downloaders, Copy(d)
    PROVE  Kept'
<1> USE DEF Spliceless, Kept
<1> DEFINE v == resp[d].version
           r == read[d]
<1>1. pc[d] = "copy" /\ pc' = pc /\ dest = None /\ dest' = None /\ v \in Versions /\ Size[v] \in Nat
  BY SizeTypes DEF Copy, TypeOK, Alone, FreshAnswer, names
<1>2. UNCHANGED <<partial, handle, meta, current, asked, resp>> /\ r < Size[v]
  BY DEF Copy, view, names
<1>3. partial # None /\ handle[d] = partial /\ r \in 0..Size[v] /\ content[partial] = Bytes(v, r)
      /\ meta \in {None, v}
  BY <1>1 DEF Alone, Writing, WritingMeta
<1>4. r \in Nat /\ partial \in Files /\ Len(content[partial]) = r
  BY <1>1, <1>3, BytesLen DEF TypeOK
<1>5. content' = [content EXCEPT ![partial] = WriteAt(@, r + 1, <<v, r + 1>>)]
  BY <1>3, <1>4 DEF Copy
<1>6. content'[partial] = Bytes(v, r + 1)
  BY <1>3, <1>4, <1>5, BytesGrow DEF TypeOK
<1>7. read'[d] = r + 1 /\ r + 1 \in 0..Size[v]
  BY <1>1, <1>2, <1>4 DEF Copy, TypeOK
<1>8. PartialFits'
  BY <1>2, <1>3, <1>6, <1>7 DEF PartialFits
<1>9. Writing(d)' /\ WritingMeta(d)' /\ FreshAnswer(d)'
  BY <1>1, <1>2, <1>3, <1>6, <1>7 DEF Alone, Writing, WritingMeta, FreshAnswer
<1> QED BY <1>1, <1>8, <1>9 DEF OneDownloader, DestWhole, Alone, Asking, Answering, Opening, Checking, Cleared

LEMMA KeptByBodyEnds ==
    ASSUME OneDownloader, Spliceless, NEW d \in Downloaders, BodyEnds(d)
    PROVE  Kept'
<1> USE DEF Spliceless, Kept
<1>1. pc[d] = "copy" /\ pc'[d] = "check" /\ synced' = synced \cup {handle[d]}
  BY DEF BodyEnds, GoTo, TypeOK
<1>2. UNCHANGED <<content, names, partial, dest, meta, handle, read, current, asked, resp>>
  BY DEF BodyEnds, view, names, io
<1>3. PartialFits' /\ DestWhole'
  BY <1>1, <1>2, FilesUntouched
<1>4. Writing(d) /\ WritingMeta(d) /\ FreshAnswer(d) /\ dest = None
  BY <1>1 DEF Alone
<1>5. resp[d].version \in Versions /\ Size[resp[d].version] \in Nat
  BY <1>1, <1>4, SizeTypes DEF FreshAnswer
<1>6. resp[d].total = None => read[d] = Size[resp[d].version]
  BY <1>1, <1>4, <1>5 DEF BodyEnds, Writing
<1>7. Checking(d)' /\ Writing(d)' /\ WritingMeta(d)' /\ FreshAnswer(d)'
  BY <1>1, <1>2, <1>4, <1>6 DEF Checking, Writing, WritingMeta, FreshAnswer
<1> QED BY <1>1, <1>2, <1>3, <1>4, <1>7 DEF OneDownloader, Alone, Asking, Answering, Opening, Cleared

(* A file that passes the check is the whole of the version answered. *)
LEMMA CompleteIsWhole ==
    ASSUME Spliceless, NEW d \in Downloaders, pc[d] = "check", Complete(d)
    PROVE  /\ partial # None /\ partial \in synced /\ content[partial] = Whole(resp[d].version)
           /\ resp[d].version \in Versions /\ resp[d].version \in asked[d]..current
           /\ meta \in {None, resp[d].version}
<1> USE DEF Spliceless, Kept
<1> DEFINE v == resp[d].version
<1>1. v \in Versions /\ v \in asked[d]..current /\ Size[v] \in Nat \ {0} /\ resp[d].total \in {Size[v], None}
  BY SizeTypes DEF Alone, FreshAnswer
<1>2. partial # None /\ handle[d] = partial /\ read[d] \in 0..Size[v] /\ content[partial] = Bytes(v, read[d])
  BY DEF Alone, Writing
<1>3. partial \in synced /\ (resp[d].total = None => read[d] = Size[v]) /\ meta \in {None, v}
  BY DEF Alone, Checking, WritingMeta
<1>4. Actual(d) = read[d]
  BY <1>1, <1>2, BytesLen DEF Actual
<1>5. read[d] = Size[v]
  BY <1>1, <1>3, <1>4 DEF Complete
<1> QED BY <1>1, <1>2, <1>3, <1>5 DEF Whole

LEMMA KeptByRename ==
    ASSUME OneDownloader, Spliceless, NEW d \in Downloaders, Rename(d)
    PROVE  Kept'
<1> USE DEF Spliceless, Kept
<1>1. pc[d] = "check" /\ Complete(d) /\ pc'[d] = "idle"
  BY DEF Rename, Quit, GoTo, TypeOK
<1>2. UNCHANGED <<content, synced, meta, current, asked>>
  BY DEF Rename, view
<1>3. partial # None /\ dest' = partial /\ partial' = None
  BY <1>1, CompleteIsWhole DEF Rename
<1>4. DestWhole'
  BY <1>1, <1>2, <1>3, CompleteIsWhole DEF DestWhole
<1>5. PartialFits'
  BY <1>3 DEF PartialFits
<1>6. Alone(d)'
  BY <1>1, <1>2, IdleIsAlone
<1> QED BY <1>4, <1>5, <1>6 DEF OneDownloader

LEMMA KeptByGivingUp ==
    ASSUME OneDownloader, Spliceless, NEW d \in Downloaders,
           TooShort(d) \/ TooLong(d) \/ DiscardMeta(d) \/ Fails(d) \/ Kill(d)
    PROVE  Kept'
<1> USE DEF Spliceless, Kept
<1>1. CASE TooShort(d)
  <2>1. PartialFits' /\ DestWhole'
    BY <1>1, FilesUntouched DEF TooShort, disk
  <2>2. Alone(d)'
    BY <1>1, IdleIsAlone DEF TooShort, Quit, GoTo, TypeOK, view
  <2> QED BY <2>1, <2>2 DEF OneDownloader
<1>2. CASE TooLong(d)
  <2>1. PartialFits' /\ DestWhole'
    BY <1>2, PartialDropped DEF TooLong
  <2>2. pc'[d] = "discard" /\ pc[d] = "check" /\ partial' = None /\ UNCHANGED <<current, asked, dest>>
    BY <1>2 DEF TooLong, GoTo, TypeOK, view
  <2> QED BY <2>1, <2>2 DEF OneDownloader, Alone, Asking, Answering, Opening, Writing, WritingMeta,
          Checking, FreshAnswer, Cleared
<1>3. CASE DiscardMeta(d)
  <2>1. PartialFits' /\ DestWhole'
    BY <1>3, MetaLost DEF DiscardMeta
  <2>2. Alone(d)'
    BY <1>3, IdleIsAlone DEF DiscardMeta, Quit, GoTo, TypeOK, view
  <2> QED BY <2>1, <2>2 DEF OneDownloader
<1>4. CASE Fails(d) \/ Kill(d)
  <2>1. UNCHANGED <<content, synced, names>> /\ meta' \in {meta, None}
    BY <1>4 DEF Fails, Kill, MetaCutShort
  <2>2. PartialFits' /\ DestWhole'
    BY <2>1, MetaLost
  <2>3. Alone(d)'
    BY <1>4, IdleIsAlone DEF Fails, Kill, Quit, GoTo, TypeOK, view
  <2> QED BY <2>2, <2>3 DEF OneDownloader
<1> QED BY <1>1, <1>2, <1>3, <1>4

LEMMA KeptByEvict ==
    ASSUME OneDownloader, Spliceless, NEW d \in Downloaders, Evict(d)
    PROVE  Kept'
<1> USE DEF Spliceless, Kept
<1>1. CASE EvictDest(d)
  <2>1. pc'[d] = "evictPartial" /\ dest' = None
        /\ UNCHANGED <<content, partial, meta, current, asked>>
    BY <1>1 DEF EvictDest, GoTo, TypeOK, view
  <2> QED BY <2>1 DEF OneDownloader, PartialFits, DestWhole, Alone, Asking, Answering, Opening, Writing,
          WritingMeta, Checking, FreshAnswer, Cleared
<1>2. CASE EvictPartial(d)
  <2>1. PartialFits' /\ DestWhole'
    BY <1>2, PartialDropped DEF EvictPartial
  <2>2. pc'[d] = "evictMeta" /\ pc[d] = "evictPartial" /\ partial' = None /\ UNCHANGED <<current, asked, dest>>
    BY <1>2 DEF EvictPartial, GoTo, TypeOK, view
  <2> QED BY <2>1, <2>2 DEF OneDownloader, Alone, Asking, Answering, Opening, Writing, WritingMeta,
          Checking, FreshAnswer, Cleared
<1>3. CASE EvictMeta(d)
  <2>1. PartialFits' /\ DestWhole'
    BY <1>3, MetaLost DEF EvictMeta
  <2>2. Alone(d)'
    BY <1>3, IdleIsAlone DEF EvictMeta, GoTo, TypeOK, view
  <2> QED BY <2>1, <2>2 DEF OneDownloader
<1> QED BY <1>1, <1>2, <1>3 DEF Evict

-----------------------------------------------------------------------------
LEMMA InitSpliceless == Init => Spliceless
<1> SUFFICES ASSUME Init PROVE Spliceless
  OBVIOUS
<1>1. TypeOK
  BY InitTypes
<1>2. ASSUME NEW d \in Downloaders PROVE Alone(d)
  BY DEF Init, Alone, Asking, Answering, Opening, Writing, WritingMeta, Checking, FreshAnswer, Cleared
<1> QED BY <1>1, <1>2 DEF Init, Spliceless, Kept, HasFile, PartialFits, DestWhole

LEMMA NextSpliceless ==
    ASSUME OneDownloader, ChangeIsSeen
    PROVE  Spliceless /\ [Next]_vars => Spliceless'
<1> SUFFICES ASSUME Spliceless, [Next]_vars PROVE Spliceless'
  OBVIOUS
<1>1. TypeOK' /\ HasFile'
  BY NextTypes, NextHasFile DEF Spliceless
<1>2. CASE Replace \/ PowerFailure
  BY <1>1, <1>2, KeptByServer, KeptByPowerFailure DEF Spliceless
<1>3. ASSUME NEW d \in Downloaders, Download(d) PROVE Kept'
  BY <1>3, KeptByBegin, KeptByAsk, KeptByAskAgain, KeptByAccept, KeptByDrop, KeptByOpen, KeptByWriteMeta,
     KeptByCopy, KeptByBodyEnds, KeptByRename, KeptByGivingUp DEF Download
<1>4. ASSUME NEW d \in Downloaders, Evict(d) \/ Fails(d) \/ Kill(d) PROVE Kept'
  BY <1>4, KeptByEvict, KeptByGivingUp
<1>5. ASSUME UNCHANGED vars PROVE Kept'
  <2>1. UNCHANGED <<current, content, synced, partial, dest, meta, pc, saved, existing, resp, handle,
                    offset, read, asked>>
    BY <1>5 DEF vars, disk, names, view, io
  <2> QED BY <2>1 DEF Spliceless, Kept, PartialFits, DestWhole, Alone, Asking, Trusted, Answering, Opening,
          Writing, WritingMeta, Checking, FreshAnswer, Cleared
<1> QED BY <1>1, <1>2, <1>3, <1>4, <1>5 DEF Next, Spliceless

(* One process that downloads, errors, is killed, loses power, evicts and   *)
(* starts again, with a server that replaces the file at any time: the      *)
(* complete file is one version of the dump, whole.                         *)
THEOREM DumpIsOneVersion ==
    ASSUME OneDownloader, ChangeIsSeen
    PROVE  Spec => []DestIsOneVersion
<1>1. Spliceless => DestIsOneVersion
  BY DEF Spliceless, Kept, DestWhole, DestIsOneVersion
<1> QED BY <1>1, InitSpliceless, NextSpliceless, PTL DEF Spec

(* And what .meta says of it is true. *)
THEOREM DumpIsAsRecorded ==
    ASSUME OneDownloader, ChangeIsSeen
    PROVE  Spec => []MetaDescribesDest
<1>1. Spliceless => MetaDescribesDest
  BY DEF Spliceless, Kept, DestWhole, MetaDescribesDest
<1> QED BY <1>1, InitSpliceless, NextSpliceless, PTL DEF Spec

(* And it is no older than what the server had when the download began. *)
THEOREM DumpIsFresh ==
    ASSUME OneDownloader, ChangeIsSeen
    PROVE  Spec => CompletesFresh
<1> DEFINE Fresh == \A d \in Downloaders : Rename(d) /\ dest' # dest =>
                       \E v \in asked[d]..current : content[dest'] = Whole(v)
<1>1. Spliceless /\ [Next]_vars => [Fresh]_vars
  <2> SUFFICES ASSUME Spliceless, NEW d \in Downloaders, Rename(d), dest' # dest
               PROVE  \E v \in asked[d]..current : content[dest'] = Whole(v)
    OBVIOUS
  <2>1. pc[d] = "check" /\ Complete(d) /\ dest' = partial
    BY CompleteIsWhole DEF Rename, names
  <2> QED BY <2>1, CompleteIsWhole
<1> QED BY <1>1, InitSpliceless, NextSpliceless, PTL DEF Spec, CompletesFresh

-----------------------------------------------------------------------------
(* GuidedImport.                                                            *)
(* What a dump's name, a command and a step may be.                         *)
GuideTypeOK ==
    /\ stage \in {"idle", "plan", "check", "ask", "run", "fetch", "drop", "load"}
    /\ archives = [d \in DOMAIN Dumps |-> archives[d]] /\ restored = [d \in DOMAIN Dumps |-> restored[d]]
    /\ meddled \in Nat /\ unit \in Nat
    /\ job.what \in Seq(DOMAIN Dumps) /\ steps \in Seq(Range(steps))
    /\ stage # "idle" => outcome = "none"
    /\ stage # "idle" => unit # 0
    /\ stage \in {"plan", "check", "ask"} => unit = 1

(* The steps planned are of the command's dumps, in its order, each once.   *)
StepsAreOfTheJob ==
    /\ \A k, l \in DOMAIN job.what : job.what[k] = job.what[l] => k = l
    /\ \A k \in DOMAIN steps : k \in DOMAIN job.what /\ steps[k].of = job.what[k]
    /\ stage = "check" /\ job.cmd = "import" => DOMAIN steps = DOMAIN job.what

(* Until it goes ahead, and if it never did, a command changes nothing.     *)
NothingYet ==
    stage \in {"plan", "check", "ask"} \/ outcome \in Harmless =>
        archives = before[1] /\ restored = before[2] /\ Current(machine) = (before[3] = "current")

(* While the steps are run: done, under way, not touched.                   *)
Runs == stage \in {"run", "fetch", "drop", "load"} \/ outcome \in {"failed", "no space", "done"}
RunInOrder ==
    /\ Runs => \A k \in DOMAIN steps : (k < unit => AllThere(steps[k])) /\ (k > unit => Untouched(steps[k]))
    /\ stage = "load" /\ unit \in DOMAIN steps => Replaced(Step) \subseteq DOMAIN restored[Step.of] \cup todo

(* What is planned for an import is what `check` would say it needs.        *)
Plain == job.cmd = "import" /\ job.file = None0 /\ ~job.offline
PlannedAsChecked ==
    Plain /\ stage \in {"plan", "check"} => \A k \in DOMAIN steps : steps[k].needs = NeedsOf(job, job.what[k])

GuideInv ==
    /\ GuideTypeOK /\ StepsAreOfTheJob
    /\ meddled = 0 => NothingYet /\ RunInOrder /\ PlannedAsChecked

-----------------------------------------------------------------------------
LEMMA JobsAre ==
    ASSUME NEW j \in GuidedJobs
    PROVE  /\ j.what \in Seq(DOMAIN Dumps) /\ j.cmd \in {"check", "import", "update"}
           /\ \A k, l \in DOMAIN j.what : j.what[k] = j.what[l] => k = l
           /\ \A w : [j EXCEPT !.what = w].what = w /\ [j EXCEPT !.what = w].cmd = j.cmd
BY GuideAssumption

(* What `update` takes are dumps of those given, each once, with a newer    *)
(* file.                                                                    *)
LEMMA ToUpdateIs ==
    ASSUME NEW what \in Seq(DOMAIN Dumps)
    PROVE  /\ ToUpdate(what) \in Seq(DOMAIN Dumps)
           /\ (\A k, l \in DOMAIN what : what[k] = what[l] => k = l)
                 => \A k, l \in DOMAIN ToUpdate(what) : ToUpdate(what)[k] = ToUpdate(what)[l] => k = l
           /\ \A d : d \in Range(ToUpdate(what)) <=>
                 \E k \in DOMAIN what : /\ d = what[k] /\ Exists0(d) /\ offered[d].up
                                        /\ LocalOf(d) # 0 /\ offered[d].of > LocalOf(d)
<1> DEFINE N == {k \in DOMAIN what : /\ Exists0(what[k]) /\ offered[what[k]].up
                                   /\ LocalOf(what[k]) # 0 /\ offered[what[k]].of > LocalOf(what[k])}
           n == Cardinality(N)
           t == ToUpdate(what)
<1>1. Len(what) \in Nat /\ DOMAIN what = 1..Len(what)
  BY LenProperties
<1>2. N \in SUBSET (1..Len(what))
  BY <1>1
<1>3. \A d : (\E k \in N : d = what[k]) <=>
             \E k \in DOMAIN what : /\ d = what[k] /\ Exists0(d) /\ offered[d].up
                                    /\ LocalOf(d) # 0 /\ offered[d].of > LocalOf(d)
  OBVIOUS
<1>4. t = [k \in 1..n |-> what[Nth(N, k)]]
  BY DEF ToUpdate, Nth
<1> HIDE DEF N
<1>5. N \in SUBSET Nat /\ IsFiniteSet(N)
  <2>1. IsFiniteSet(1..Len(what))
    BY <1>1, FS_Interval
  <2>2. IsFiniteSet(N)
    BY <1>2, <2>1, FS_Subset
  <2> QED
    BY <1>1, <1>2, <2>2
<1>6. /\ n \in Nat
      /\ \A i \in N : Cardinality({l \in N : l < i}) \in 0..(n - 1)
      /\ \A k \in 1..n : /\ Nth(N, k) \in N
                         /\ \A i \in N : Cardinality({j \in N : j < i}) = k - 1 => i = Nth(N, k)
      /\ \A j, k \in 1..n : Nth(N, j) = Nth(N, k) => j = k
  BY <1>5, LeastFirst, NthOnce
<1> HIDE DEF n
<1>7. \A i \in N : \E k \in 1..n : i = Nth(N, k)
  <2> SUFFICES ASSUME NEW i \in N PROVE \E k \in 1..n : i = Nth(N, k)
    OBVIOUS
  <2> DEFINE c == Cardinality({l \in N : l < i})
  <2>1. c \in 0..(n - 1)
    BY <1>6
  <2>2. \A k \in 1..n : c = k - 1 => i = Nth(N, k)
    BY <1>6
  <2> HIDE DEF c
  <2>3. c + 1 \in 1..n /\ c = (c + 1) - 1
    BY <1>6, <2>1
  <2> QED
    BY <2>2, <2>3
<1>8. \A k \in 1..n : what[Nth(N, k)] \in DOMAIN Dumps
  BY <1>1, <1>2, <1>6, ElementOfSeq
<1> HIDE DEF t
<1>9. t \in [1..n -> DOMAIN Dumps]
  BY <1>4, <1>8
<1>10. t \in Seq(DOMAIN Dumps) /\ DOMAIN t = 1..n
  BY <1>6, <1>9, FunctionIsSeq
<1>11. (\A k, l \in DOMAIN what : what[k] = what[l] => k = l) => \A k, l \in DOMAIN t : t[k] = t[l] => k = l
  <2> SUFFICES ASSUME \A k, l \in DOMAIN what : what[k] = what[l] => k = l,
                      NEW k \in 1..n, NEW l \in 1..n, t[k] = t[l]
               PROVE  k = l
    BY <1>10
  <2>1. Nth(N, k) \in DOMAIN what /\ Nth(N, l) \in DOMAIN what
    BY <1>1, <1>2, <1>6
  <2>2. what[Nth(N, k)] = what[Nth(N, l)]
    BY <1>4
  <2>3. Nth(N, k) = Nth(N, l)
    BY <2>1, <2>2
  <2> QED
    BY <1>6, <2>3
<1>12. \A d : d \in Range(t) <=> \E k \in N : d = what[k]
  BY <1>4, <1>6, <1>7, <1>10 DEF Range
<1> QED
  BY <1>3, <1>10, <1>11, <1>12 DEF t

(* A sequence of whatever stays one when something is added.                *)
LEMMA StepAdded ==
    ASSUME NEW s, s \in Seq(Range(s)), NEW e
    PROVE  /\ Append(s, e) \in Seq(Range(Append(s, e)))
           /\ DOMAIN s = 1..Len(s) /\ Len(s) \in Nat /\ DOMAIN Append(s, e) = 1..Len(s) + 1
           /\ \A k \in 1..Len(s) : Append(s, e)[k] = s[k]
           /\ Append(s, e)[Len(s) + 1] = e
<1> DEFINE S == Range(s) \cup {e}
           t == Append(s, e)
           n == Len(s)
<1>1. s \in Seq(S)
  BY SeqMonotonic
<1>2. t \in Seq(S) /\ Len(t) = n + 1 /\ n \in Nat /\ DOMAIN s = 1..n
      /\ (\A k \in 1..n : t[k] = s[k]) /\ t[n + 1] = e
  BY <1>1, AppendProperties, LenProperties
<1> HIDE DEF t
<1>3. DOMAIN t = 1..n + 1
  BY <1>2, LenProperties
<1> HIDE DEF n, S
<1>4. t = [k \in 1..n + 1 |-> t[k]]
  BY <1>2, <1>3
<1>5. t \in [1..n + 1 -> Range(t)]
  BY <1>3, <1>4 DEF Range
<1>6. t \in Seq(Range(t))
  BY <1>2, <1>5, FunctionIsSeq
<1> QED
  BY <1>2, <1>3, <1>6 DEF t, n

(* What `status` calls newer is what `update` takes.                        *)
LEMMA NewerTaken == NewerIsTaken
<1> SUFFICES ASSUME NEW d \in DOMAIN Dumps
             PROVE  (StatusSays(d) = "newer") <=> d \in Range(ToUpdate(<<d>>))
  BY DEF NewerIsTaken
<1> DEFINE one == <<d>>
<1>1. one \in Seq(DOMAIN Dumps) /\ DOMAIN one = {1} /\ one[1] = d
  OBVIOUS
<1>2. (StatusSays(d) = "newer") <=> Exists0(d) /\ offered[d].up /\ LocalOf(d) # 0 /\ offered[d].of > LocalOf(d)
  BY DEF StatusSays
<1> HIDE DEF one
<1>3. d \in Range(ToUpdate(one)) <=>
        \E k \in DOMAIN one : /\ d = one[k] /\ Exists0(d) /\ offered[d].up
                              /\ LocalOf(d) # 0 /\ offered[d].of > LocalOf(d)
  BY <1>1, ToUpdateIs
<1>4. d \in Range(ToUpdate(one)) <=>
        Exists0(d) /\ offered[d].up /\ LocalOf(d) # 0 /\ offered[d].of > LocalOf(d)
  BY <1>1, <1>3
<1> QED
  BY <1>2, <1>4 DEF one

(* A plain import needs of each dump what `check` would say.                *)
LEMMA NeedsAgree ==
    ASSUME NEW d, NEW j, j.cmd = "import", j.file = None0, ~j.offline
    PROVE  PlannedStep(d, j.cycles, j).needs = NeedsOf(j, d) /\ PlannedStep(d, j.cycles, j).of = d
BY DEF PlannedStep, NeedsOf, Estimate, None0

(* What the invariant says is what the commands say.                        *)
LEMMA OrderlySays ==
    ASSUME GuideInv
    PROVE  GuideSaysWhatIsSo
<1> SUFFICES ASSUME meddled = 0 PROVE NothingChanged /\ StepsInOrder /\ SameNeeds /\ NewerIsTaken
  BY DEF GuideSaysWhatIsSo
<1>1. NothingChanged
  BY DEF GuideInv, NothingYet, NothingChanged
<1>2. StepsInOrder
  BY DEF GuideInv, RunInOrder, StepsInOrder, Runs
<1>3. SameNeeds
  <2> SUFFICES ASSUME stage = "check", Plain PROVE TotalNeeds(steps) = NeedsFor(job)
    BY DEF SameNeeds, Plain
  <2>1. DOMAIN steps = DOMAIN job.what
    BY DEF GuideInv, StepsAreOfTheJob, Plain
  <2>2. \A k \in DOMAIN steps : steps[k].needs = NeedsOf(job, job.what[k])
    BY DEF GuideInv, PlannedAsChecked
  <2>3. [k \in DOMAIN steps |-> steps[k].needs] = [k \in DOMAIN job.what |-> NeedsOf(job, job.what[k])]
    BY <2>1, <2>2
  <2> QED
    BY <2>3 DEF TotalNeeds, NeedsFor
<1> QED
  BY <1>1, <1>2, <1>3, NewerTaken

LEMMA FirstGuide ==
    ASSUME GuideInit
    PROVE  GuideInv
<1>1. archives \in [DOMAIN Dumps -> [complete : Nat, partial : Nat, of : Nat]]
  BY GuideAssumption DEF GuideInit
<1>2. /\ job.what = << >> /\ DOMAIN job.what = {} /\ << >> \in Seq(DOMAIN Dumps)
      /\ steps = << >> /\ DOMAIN steps = {} /\ << >> \in Seq(Range(<< >>))
  BY DEF GuideInit, NoJob
<1>3. GuideTypeOK
  BY <1>1, <1>2 DEF GuideTypeOK, GuideInit
<1>4. StepsAreOfTheJob
  BY <1>2 DEF StepsAreOfTheJob, GuideInit
<1>5. NothingYet /\ RunInOrder /\ PlannedAsChecked
  BY DEF NothingYet, RunInOrder, PlannedAsChecked, Runs, Harmless, GuideInit
<1> QED
  BY <1>3, <1>4, <1>5 DEF GuideInv

(* A command begins: nothing is done, and nothing is planned.               *)
LEMMA GiveCommandKeeps ==
    ASSUME GuideInv, GiveCommand
    PROVE  GuideInv'
<1>1. PICK j \in GuidedJobs :
         /\ job' = IF j.cmd = "update" THEN [j EXCEPT !.what = ToUpdate(j.what)] ELSE j
         /\ CASE j.cmd = "import" /\ Misused(j) -> Ends("usage")
              [] j.cmd = "update" /\ ~Connects(machine) -> Ends("no database")
              [] j.cmd = "update" /\ ToUpdate(j.what) = << >> -> Ends("nothing to do")
              [] j.cmd = "check" -> stage' = "check" /\ outcome' = "none"
              [] OTHER -> stage' = "plan" /\ outcome' = "none"
  BY DEF GiveCommand
<1>2. /\ meddled' = 0 /\ steps' = << >> /\ unit' = 1 /\ archives' = archives /\ restored' = restored
      /\ before' = <<archives, restored, machine.namespace>>
      /\ machine' = IF Connects(machine) THEN Connected(machine) ELSE machine
  BY DEF GiveCommand
<1>3. \/ outcome' \in {"usage", "no database", "nothing to do"} /\ stage' = "idle"
      \/ outcome' = "none" /\ stage' = "plan"
      \/ outcome' = "none" /\ stage' = "check" /\ j.cmd = "check"
  BY <1>1 DEF Ends
<1>4. /\ job'.what \in Seq(DOMAIN Dumps) /\ job'.cmd = j.cmd
      /\ \A k, l \in DOMAIN job'.what : job'.what[k] = job'.what[l] => k = l
  <2>1. CASE j.cmd = "update"
    <3> DEFINE T == ToUpdate(j.what)
    <3>0. job' = [j EXCEPT !.what = T]
      BY <1>1, <2>1
    <3> HIDE DEF T
    <3>1. job'.what = T /\ job'.cmd = j.cmd
      BY <3>0, JobsAre
    <3> QED
      BY <3>1, JobsAre, ToUpdateIs DEF T
  <2>2. CASE j.cmd # "update"
    BY <1>1, <2>2, JobsAre
  <2> QED
    BY <2>1, <2>2
<1>5. Current(machine)' = Current(machine)
  BY <1>2 DEF Current, Connected
<1>6. DOMAIN steps' = {} /\ steps' \in Seq(Range(steps'))
  BY <1>2
<1>7. GuideTypeOK'
  <2>1. /\ archives' = [d \in DOMAIN Dumps |-> archives'[d]] /\ restored' = [d \in DOMAIN Dumps |-> restored'[d]]
        /\ meddled' \in Nat /\ unit' \in Nat /\ unit' = 1 /\ unit' # 0
    BY <1>2 DEF GuideInv, GuideTypeOK
  <2> QED
    BY <1>3, <1>4, <1>6, <2>1 DEF GuideTypeOK
<1>8. StepsAreOfTheJob'
  BY <1>3, <1>4, <1>6 DEF StepsAreOfTheJob
<1>9. NothingYet'
  <2>1. before'[1] = archives' /\ before'[2] = restored' /\ before'[3] = machine.namespace
    BY <1>2
  <2> QED
    BY <1>5, <2>1 DEF NothingYet, Current
<1>10. RunInOrder' /\ PlannedAsChecked'
  BY <1>3, <1>6 DEF RunInOrder, PlannedAsChecked, Runs
<1> QED
  BY <1>7, <1>8, <1>9, <1>10 DEF GuideInv

LEMMA PlanOneKeeps ==
    ASSUME GuideInv, PlanOne
    PROVE  GuideInv'
<1> DEFINE n == Len(steps)
           d == job.what[n + 1]
           wanted == IF job.cmd = "update" THEN DOMAIN restored[d] \ {0} ELSE job.cycles
           s == PlannedStep(d, wanted, job)
<1>1. /\ stage = "plan" /\ stage' = stage /\ n < Len(job.what) /\ steps' = Append(steps, s)
      /\ archives' = archives /\ restored' = restored /\ machine' = machine /\ offered' = offered
      /\ job' = job /\ unit' = unit /\ outcome' = outcome /\ before' = before /\ meddled' = meddled
  BY DEF PlanOne, surroundings
<1>2. s.of = d
  BY DEF PlannedStep
<1>3. Plain => s.needs = NeedsOf(job, d)
  BY NeedsAgree DEF Plain
<1>4. steps \in Seq(Range(steps)) /\ job.what \in Seq(DOMAIN Dumps)
  BY DEF GuideInv, GuideTypeOK
<1>5. DOMAIN job.what = 1..Len(job.what) /\ Len(job.what) \in Nat
  BY <1>4, LenProperties
<1> HIDE DEF s
<1>6. /\ steps' \in Seq(Range(steps')) /\ DOMAIN steps = 1..n /\ n \in Nat /\ DOMAIN steps' = 1..n + 1
      /\ (\A k \in 1..n : steps'[k] = steps[k]) /\ steps'[n + 1] = s
  BY <1>1, <1>4, StepAdded
<1>7. n + 1 \in DOMAIN job.what /\ \A k \in 1..n + 1 : k \in 1..n \/ k = n + 1
  BY <1>1, <1>5, <1>6
<1> HIDE DEF n
<1>8. GuideTypeOK'
  BY <1>1, <1>6 DEF GuideInv, GuideTypeOK
<1>9. StepsAreOfTheJob'
  BY <1>1, <1>2, <1>6, <1>7 DEF GuideInv, StepsAreOfTheJob
<1>10. ASSUME meddled = 0
       PROVE  NothingYet' /\ RunInOrder' /\ PlannedAsChecked'
  <2>1. outcome = "none"
    BY <1>1 DEF GuideInv, GuideTypeOK
  <2>2. NothingYet'
    BY <1>1, <1>10 DEF GuideInv, NothingYet, Current
  <2>3. RunInOrder'
    BY <1>1, <2>1 DEF RunInOrder, Runs
  <2>4. PlannedAsChecked'
    <3>1. \A x : NeedsOf(job, x)' = NeedsOf(job, x)
      BY <1>1 DEF NeedsOf
    <3>2. Plain => \A k \in DOMAIN steps : steps[k].needs = NeedsOf(job, job.what[k])
      BY <1>1, <1>10 DEF GuideInv, PlannedAsChecked
    <3>3. Plain => \A k \in DOMAIN steps' : steps'[k].needs = NeedsOf(job, job.what[k])
      BY <1>3, <1>6, <1>7, <3>2
    <3>4. \A k : NeedsOf(job, job.what[k])' = NeedsOf(job, job.what[k])
      BY <1>1 DEF NeedsOf
    <3> QED
      BY <1>1, <3>3, <3>4 DEF PlannedAsChecked, Plain
  <2> QED
    BY <2>2, <2>3, <2>4
<1> QED
  BY <1>1, <1>8, <1>9, <1>10 DEF GuideInv

(* All is planned: the checks, or for `update` the question.                *)
LEMMA PlannedKeeps ==
    ASSUME GuideInv, Planned
    PROVE  GuideInv'
<1>1. /\ stage = "plan" /\ stage' \in {"check", "ask"} /\ Len(steps) = Len(job.what) /\ steps' = steps
      /\ archives' = archives /\ restored' = restored /\ machine' = machine /\ offered' = offered
      /\ job' = job /\ unit' = unit /\ outcome' = outcome /\ before' = before /\ meddled' = meddled
  BY DEF Planned, surroundings
<1>2. DOMAIN steps = DOMAIN job.what
  <2>1. steps \in Seq(Range(steps)) /\ job.what \in Seq(DOMAIN Dumps)
    BY DEF GuideInv, GuideTypeOK
  <2> QED
    BY <1>1, <2>1, LenProperties
<1>3. GuideTypeOK' /\ StepsAreOfTheJob'
  BY <1>1, <1>2 DEF GuideInv, GuideTypeOK, StepsAreOfTheJob
<1>4. ASSUME meddled = 0
      PROVE  NothingYet' /\ RunInOrder' /\ PlannedAsChecked'
  <2>1. outcome = "none"
    BY <1>1 DEF GuideInv, GuideTypeOK
  <2>2. NothingYet'
    BY <1>1, <1>4 DEF GuideInv, NothingYet, Current
  <2>3. RunInOrder'
    BY <1>1, <2>1 DEF RunInOrder, Runs
  <2>4. PlannedAsChecked'
    <3>1. \A k : NeedsOf(job, job.what[k])' = NeedsOf(job, job.what[k])
      BY <1>1 DEF NeedsOf
    <3>2. Plain => \A k \in DOMAIN steps : steps[k].needs = NeedsOf(job, job.what[k])
      BY <1>1, <1>4 DEF GuideInv, PlannedAsChecked
    <3> QED
      BY <1>1, <3>1, <3>2 DEF PlannedAsChecked, Plain
  <2> QED
    BY <2>2, <2>3, <2>4
<1> QED
  BY <1>1, <1>3, <1>4 DEF GuideInv

(* The checks only make the schema.                                         *)
LEMMA RunChecksKeeps ==
    ASSUME GuideInv, RunChecks
    PROVE  GuideInv'
<1>1. /\ stage = "check" /\ steps' = steps /\ archives' = archives /\ restored' = restored
      /\ job' = job /\ unit' = unit /\ before' = before /\ meddled' = meddled
      /\ machine' = IF Connects(machine) THEN Connected(machine) ELSE machine
  BY DEF RunChecks
<1>2. \/ outcome' \in {"refused", "ready", "explained"} /\ stage' = "idle"
      \/ outcome' = outcome /\ stage' = "ask"
  BY DEF RunChecks, Ends
<1>3. outcome = "none"
  BY <1>1 DEF GuideInv, GuideTypeOK
<1>4. Current(machine)' = Current(machine)
  BY <1>1 DEF Current, Connected
<1>5. GuideTypeOK' /\ StepsAreOfTheJob'
  BY <1>1, <1>2, <1>3 DEF GuideInv, GuideTypeOK, StepsAreOfTheJob
<1>6. ASSUME meddled = 0
      PROVE  NothingYet' /\ RunInOrder' /\ PlannedAsChecked'
  <2>1. NothingYet'
    BY <1>1, <1>4, <1>6 DEF GuideInv, NothingYet, Current
  <2> QED
    BY <1>2, <1>3, <2>1 DEF RunInOrder, PlannedAsChecked, Runs
<1> QED
  BY <1>1, <1>5, <1>6 DEF GuideInv

LEMMA SetUpAfterCheckKeeps ==
    ASSUME GuideInv, SetUpAfterCheck
    PROVE  GuideInv'
<1>1. /\ stage = "idle" /\ stage' = stage /\ outcome' = "set up" /\ steps' = steps /\ archives' = archives
      /\ restored' = restored /\ job' = job /\ unit' = unit /\ meddled' = meddled
  BY DEF SetUpAfterCheck
<1>2. GuideTypeOK' /\ StepsAreOfTheJob'
  BY <1>1 DEF GuideInv, GuideTypeOK, StepsAreOfTheJob
<1>3. NothingYet' /\ RunInOrder' /\ PlannedAsChecked'
  BY <1>1 DEF NothingYet, RunInOrder, PlannedAsChecked, Runs, Harmless
<1> QED
  BY <1>2, <1>3 DEF GuideInv

LEMMA DeclinedKeeps ==
    ASSUME GuideInv, Declined
    PROVE  GuideInv'
<1>1. /\ stage = "ask" /\ stage' = "idle" /\ outcome' = "declined" /\ steps' = steps /\ archives' = archives
      /\ restored' = restored /\ machine' = machine /\ job' = job /\ unit' = unit /\ before' = before
      /\ meddled' = meddled
  BY DEF Declined, Ends, surroundings
<1>2. GuideTypeOK' /\ StepsAreOfTheJob'
  BY <1>1 DEF GuideInv, GuideTypeOK, StepsAreOfTheJob
<1>3. RunInOrder' /\ PlannedAsChecked'
  BY <1>1 DEF RunInOrder, PlannedAsChecked, Runs
<1>4. meddled = 0 => NothingYet'
  BY <1>1 DEF GuideInv, NothingYet, Current
<1> QED
  BY <1>1, <1>2, <1>3, <1>4 DEF GuideInv

(* The first step is next, and nothing was changed so far.                  *)
LEMMA GoesAheadKeeps ==
    ASSUME GuideInv, GoesAhead
    PROVE  GuideInv'
<1>1. /\ stage = "ask" /\ steps' = steps /\ archives' = archives /\ restored' = restored
      /\ job' = job /\ unit' = unit /\ before' = before /\ meddled' = meddled
  BY DEF GoesAhead
<1>2. \/ outcome' = "failed" /\ stage' = "idle"
      \/ outcome' = outcome /\ stage' = "run"
      \/ outcome' = "declined" /\ stage' = "idle" /\ machine' = machine
  BY DEF GoesAhead, Ends
<1>3. outcome = "none" /\ unit = 1
  BY <1>1 DEF GuideInv, GuideTypeOK
<1>4. GuideTypeOK' /\ StepsAreOfTheJob'
  BY <1>1, <1>2, <1>3 DEF GuideInv, GuideTypeOK, StepsAreOfTheJob
<1>5. PlannedAsChecked'
  BY <1>2 DEF PlannedAsChecked
<1>6. ASSUME meddled = 0
      PROVE  NothingYet' /\ RunInOrder'
  <2>1. archives = before[1] /\ restored = before[2] /\ Current(machine) = (before[3] = "current")
    BY <1>1, <1>6 DEF GuideInv, NothingYet
  <2>2. NothingYet'
    BY <1>1, <1>2, <1>3, <2>1 DEF NothingYet, Harmless, Current
  <2>3. \A k \in DOMAIN steps : ~(k < 1)
    <3>1. steps \in Seq(Range(steps))
      BY DEF GuideInv, GuideTypeOK
    <3>2. DOMAIN steps = 1..Len(steps) /\ Len(steps) \in Nat
      BY <3>1, LenProperties
    <3> QED
      BY <3>2
  <2>4. RunInOrder'
    BY <1>1, <1>2, <1>3, <2>1, <2>3 DEF RunInOrder, Untouched
  <2> QED
    BY <2>2, <2>4
<1> QED
  BY <1>1, <1>4, <1>5, <1>6 DEF GuideInv

(* The step under way is of a dump, and the others are of other dumps.      *)
LEMMA StepApart ==
    ASSUME GuideInv, NEW label \in {"run", "fetch", "drop", "load"}, Doing(label)
    PROVE  /\ unit \in DOMAIN steps /\ Step.of \in DOMAIN Dumps
           /\ \A k \in DOMAIN steps : /\ k \in Nat /\ steps[k].of \in DOMAIN Dumps
                                      /\ k # unit => steps[k].of # Step.of
           /\ stage = label /\ outcome = "none" /\ unit \in Nat
<1>1. /\ stage = label /\ unit <= Len(steps) /\ unit \in Nat \ {0} /\ outcome = "none"
      /\ steps \in Seq(Range(steps)) /\ job.what \in Seq(DOMAIN Dumps)
  BY DEF GuideInv, GuideTypeOK, Doing
<1>2. DOMAIN steps = 1..Len(steps) /\ Len(steps) \in Nat
  BY <1>1, LenProperties
<1>3. unit \in DOMAIN steps
  BY <1>1, <1>2
<1>4. \A k \in DOMAIN steps : k \in DOMAIN job.what /\ steps[k].of = job.what[k]
  BY DEF GuideInv, StepsAreOfTheJob
<1>5. \A k \in DOMAIN job.what : job.what[k] \in DOMAIN Dumps
  BY <1>1, LenProperties, ElementOfSeq
<1>6. \A k, l \in DOMAIN job.what : job.what[k] = job.what[l] => k = l
  BY DEF GuideInv, StepsAreOfTheJob
<1> QED
  BY <1>1, <1>2, <1>3, <1>4, <1>5, <1>6 DEF Step

(* A step changes nothing of the others' dumps.                             *)
LEMMA OthersStay ==
    ASSUME GuideInv, meddled = 0, NEW label \in {"run", "fetch", "drop", "load"}, Doing(label),
           steps' = steps, before' = before, unit' = unit,
           \A d \in DOMAIN Dumps : d # Step.of => archives'[d] = archives[d] /\ restored'[d] = restored[d]
    PROVE  \A k \in DOMAIN steps' : (k < unit' => AllThere(steps[k])') /\ (k > unit' => Untouched(steps[k])')
<1> SUFFICES ASSUME NEW k \in DOMAIN steps
             PROVE  (k < unit => AllThere(steps[k])') /\ (k > unit => Untouched(steps[k])')
  OBVIOUS
<1>1. /\ k \in Nat /\ steps[k].of \in DOMAIN Dumps /\ (k # unit => steps[k].of # Step.of)
      /\ stage = label /\ unit \in Nat
  BY StepApart
<1>2. (k < unit => AllThere(steps[k])) /\ (k > unit => Untouched(steps[k]))
  BY <1>1 DEF GuideInv, RunInOrder, Runs
<1>3. ASSUME k # unit
      PROVE  archives'[steps[k].of] = archives[steps[k].of] /\ restored'[steps[k].of] = restored[steps[k].of]
  <2> DEFINE d == steps[k].of
  <2>1. d \in DOMAIN Dumps /\ d # Step.of
    BY <1>1, <1>3
  <2> HIDE DEF d
  <2>2. archives'[d] = archives[d] /\ restored'[d] = restored[d]
    BY <2>1
  <2> QED
    BY <2>2 DEF d
<1>4. k < unit => k # unit
  BY <1>1
<1>5. k > unit => k # unit
  BY <1>1
<1>6. k < unit => AllThere(steps[k])'
  BY <1>2, <1>3, <1>4 DEF AllThere, Replaced
<1>7. k > unit => Untouched(steps[k])'
  BY <1>2, <1>3, <1>5 DEF Untouched
<1> QED
  BY <1>6, <1>7

(* `update` deletes the old download of its step's dump.                    *)
LEMMA EvictOldKeeps ==
    ASSUME GuideInv, EvictOld
    PROVE  GuideInv'
<1>1. /\ Doing("run") /\ stage' = "fetch" /\ restored' = restored /\ job' = job /\ steps' = steps
      /\ unit' = unit /\ outcome' = outcome /\ before' = before /\ meddled' = meddled
      /\ archives' = archives \/ archives' = [archives EXCEPT ![Step.of] = NoArchive]
  BY DEF EvictOld
<1>2. stage = "run" /\ outcome = "none" /\ unit \in Nat /\ Step.of \in DOMAIN Dumps
  BY <1>1, StepApart
<1>3. archives = [d \in DOMAIN Dumps |-> archives[d]]
  BY DEF GuideInv, GuideTypeOK
<1>4. archives' = [d \in DOMAIN Dumps |-> archives'[d]]
  BY <1>1, <1>3
<1>5. \A d \in DOMAIN Dumps : d # Step.of => archives'[d] = archives[d] /\ restored'[d] = restored[d]
  BY <1>1, <1>3
<1>6. GuideTypeOK' /\ StepsAreOfTheJob'
  BY <1>1, <1>2, <1>4 DEF GuideInv, GuideTypeOK, StepsAreOfTheJob
<1>7. ASSUME meddled = 0
      PROVE  NothingYet' /\ RunInOrder' /\ PlannedAsChecked'
  <2>1. \A k \in DOMAIN steps' : (k < unit' => AllThere(steps[k])') /\ (k > unit' => Untouched(steps[k])')
    BY <1>1, <1>5, <1>7, OthersStay
  <2> QED
    BY <1>1, <1>2, <2>1 DEF NothingYet, RunInOrder, PlannedAsChecked, Harmless
<1> QED
  BY <1>1, <1>6, <1>7 DEF GuideInv

(* The download of the step's dump, or a failure.                           *)
LEMMA FetchKeeps ==
    ASSUME GuideInv, Fetch
    PROVE  GuideInv'
<1>1. /\ Doing("fetch") /\ restored' = restored /\ job' = job /\ steps' = steps
      /\ unit' = unit /\ before' = before /\ meddled' = meddled
  BY DEF Fetch
<1>2. /\ (stage' = "drop" /\ outcome' = outcome) \/ (stage' = "idle" /\ outcome' \in {"failed", "no space"})
      /\ archives' = archives \/ \E a : archives' = [archives EXCEPT ![Step.of] = a]
  <2>1. /\ (stage' = "drop" /\ outcome' = outcome) \/ (stage' = "idle" /\ outcome' \in {"failed", "no space"})
    BY DEF Fetch, Ends
  <2>2. archives' = archives \/ \E a : archives' = [archives EXCEPT ![Step.of] = a]
    BY DEF Fetch
  <2> QED
    BY <2>1, <2>2
<1>3. stage = "fetch" /\ outcome = "none" /\ unit \in Nat /\ Step.of \in DOMAIN Dumps
  BY <1>1, StepApart
<1>4. archives = [d \in DOMAIN Dumps |-> archives[d]]
  BY DEF GuideInv, GuideTypeOK
<1>5. archives' = [d \in DOMAIN Dumps |-> archives'[d]]
  BY <1>2, <1>4
<1>6. \A d \in DOMAIN Dumps : d # Step.of => archives'[d] = archives[d] /\ restored'[d] = restored[d]
  BY <1>1, <1>2, <1>4
<1>7. GuideTypeOK' /\ StepsAreOfTheJob'
  BY <1>1, <1>2, <1>3, <1>5 DEF GuideInv, GuideTypeOK, StepsAreOfTheJob
<1>8. ASSUME meddled = 0
      PROVE  NothingYet' /\ RunInOrder' /\ PlannedAsChecked'
  <2>1. \A k \in DOMAIN steps' : (k < unit' => AllThere(steps[k])') /\ (k > unit' => Untouched(steps[k])')
    BY <1>1, <1>6, <1>8, OthersStay
  <2> QED
    BY <1>1, <1>2, <1>3, <2>1 DEF NothingYet, RunInOrder, PlannedAsChecked, Harmless
<1> QED
  BY <1>1, <1>7, <1>8 DEF GuideInv

(* The parts to be replaced are gone, and are to do.                        *)
LEMMA DropOldKeeps ==
    ASSUME GuideInv, DropOld
    PROVE  GuideInv'
<1>1. /\ Doing("drop") /\ archives' = archives /\ job' = job /\ steps' = steps
      /\ unit' = unit /\ before' = before /\ meddled' = meddled
  BY DEF DropOld
<1>2. \/ stage' = "idle" /\ outcome' = "failed" /\ restored' = restored
      \/ /\ stage' = "load" /\ outcome' = outcome /\ todo' = Replaced(Step)
         /\ \E a : restored' = [restored EXCEPT ![Step.of] = a]
  BY DEF DropOld, Ends
<1>3. stage = "drop" /\ outcome = "none" /\ unit \in Nat /\ Step.of \in DOMAIN Dumps
  BY <1>1, StepApart
<1>4. restored = [d \in DOMAIN Dumps |-> restored[d]]
  BY DEF GuideInv, GuideTypeOK
<1>5. restored' = [d \in DOMAIN Dumps |-> restored'[d]]
  BY <1>2, <1>4
<1>6. \A d \in DOMAIN Dumps : d # Step.of => archives'[d] = archives[d] /\ restored'[d] = restored[d]
  BY <1>1, <1>2, <1>4
<1>7. GuideTypeOK' /\ StepsAreOfTheJob'
  BY <1>1, <1>2, <1>3, <1>5 DEF GuideInv, GuideTypeOK, StepsAreOfTheJob
<1>8. ASSUME meddled = 0
      PROVE  NothingYet' /\ RunInOrder' /\ PlannedAsChecked'
  <2>1. \A k \in DOMAIN steps' : (k < unit' => AllThere(steps[k])') /\ (k > unit' => Untouched(steps[k])')
    BY <1>1, <1>6, <1>8, OthersStay
  <2>2. stage' = "load" => Replaced(Step)' = todo'
    BY <1>1, <1>2 DEF Replaced, Step
  <2> QED
    BY <1>1, <1>2, <1>3, <2>1, <2>2 DEF NothingYet, RunInOrder, PlannedAsChecked, Harmless
<1> QED
  BY <1>1, <1>7, <1>8 DEF GuideInv

(* A part is loaded and no longer to do.                                    *)
LEMMA LoadPartKeeps ==
    ASSUME GuideInv, LoadPart
    PROVE  GuideInv'
<1>1. /\ Doing("load") /\ archives' = archives /\ job' = job /\ steps' = steps
      /\ unit' = unit /\ before' = before /\ meddled' = meddled
  BY DEF LoadPart
<1>2. \/ stage' = "idle" /\ outcome' = "no space" /\ restored' = restored
      \/ /\ stage' = stage /\ outcome' = outcome
         /\ \E p \in todo : \E s :
              /\ todo' = todo \ {p}
              /\ restored' = [restored EXCEPT ![Step.of] =
                                [q \in DOMAIN restored[Step.of] \cup {0, p} |->
                                   IF q = p THEN s ELSE IF q \in DOMAIN restored[Step.of]
                                   THEN restored[Step.of][q] ELSE 0]]
  BY DEF LoadPart, Ends
<1>3. stage = "load" /\ outcome = "none" /\ unit \in Nat /\ Step.of \in DOMAIN Dumps /\ unit \in DOMAIN steps
  BY <1>1, StepApart
<1>4. restored = [d \in DOMAIN Dumps |-> restored[d]]
  BY DEF GuideInv, GuideTypeOK
<1>5. restored' = [d \in DOMAIN Dumps |-> restored'[d]]
  BY <1>2, <1>4
<1>6. \A d \in DOMAIN Dumps : d # Step.of => archives'[d] = archives[d] /\ restored'[d] = restored[d]
  BY <1>1, <1>2, <1>4
<1>7. GuideTypeOK' /\ StepsAreOfTheJob'
  BY <1>1, <1>2, <1>3, <1>5 DEF GuideInv, GuideTypeOK, StepsAreOfTheJob
<1>8. ASSUME meddled = 0
      PROVE  NothingYet' /\ RunInOrder' /\ PlannedAsChecked'
  <2>1. \A k \in DOMAIN steps' : (k < unit' => AllThere(steps[k])') /\ (k > unit' => Untouched(steps[k])')
    BY <1>1, <1>6, <1>8, OthersStay
  <2>2. stage' = "load" => (Replaced(Step) \subseteq DOMAIN restored[Step.of] \cup todo)'
    <3> SUFFICES ASSUME stage' = "load"
                 PROVE  (Replaced(Step) \subseteq DOMAIN restored[Step.of] \cup todo)'
      OBVIOUS
    <3>1. PICK p \in todo :
            /\ todo' = todo \ {p}
            /\ restored'[Step.of] \in [DOMAIN restored[Step.of] \cup {0, p} -> Range(restored'[Step.of])]
      <4>1. PICK p \in todo : \E s :
              /\ todo' = todo \ {p}
              /\ restored' = [restored EXCEPT ![Step.of] =
                                [q \in DOMAIN restored[Step.of] \cup {0, p} |->
                                   IF q = p THEN s ELSE IF q \in DOMAIN restored[Step.of]
                                   THEN restored[Step.of][q] ELSE 0]]
        BY <1>2
      <4>2. \E s : restored'[Step.of] = [q \in DOMAIN restored[Step.of] \cup {0, p} |->
                                   IF q = p THEN s ELSE IF q \in DOMAIN restored[Step.of]
                                   THEN restored[Step.of][q] ELSE 0]
        BY <1>3, <1>4, <4>1
      <4> QED
        BY <4>1, <4>2 DEF Range
    <3>2. DOMAIN restored'[Step.of] = DOMAIN restored[Step.of] \cup {0, p}
      BY <3>1
    <3>3. Replaced(Step) \subseteq DOMAIN restored[Step.of] \cup todo
      BY <1>3, <1>8 DEF GuideInv, RunInOrder
    <3>4. Step' = Step /\ Replaced(Step)' = Replaced(Step)
      BY <1>1 DEF Step, Replaced
    <3> QED
      BY <3>1, <3>2, <3>3, <3>4
  <2> QED
    BY <1>1, <1>2, <1>3, <2>1, <2>2 DEF NothingYet, RunInOrder, PlannedAsChecked, Harmless
<1> QED
  BY <1>1, <1>7, <1>8 DEF GuideInv

(* The step is done: nothing of it is to do, and the next is next.          *)
LEMMA StepDoneKeeps ==
    ASSUME GuideInv, StepDone
    PROVE  GuideInv'
<1>1. /\ Doing("load") /\ todo = {} /\ archives' = archives /\ restored' = restored /\ job' = job
      /\ steps' = steps /\ unit' = unit + 1 /\ before' = before /\ meddled' = meddled
      /\ (stage' = "idle" /\ outcome' = "done") \/ (stage' = "run" /\ outcome' = outcome)
  <2>1. /\ Doing("load") /\ todo = {} /\ archives' = archives /\ restored' = restored /\ job' = job
        /\ steps' = steps /\ unit' = unit + 1 /\ before' = before /\ meddled' = meddled
    BY DEF StepDone
  <2>2. (stage' = "idle" /\ outcome' = "done") \/ (stage' = "run" /\ outcome' = outcome)
    BY DEF StepDone, Ends
  <2> QED
    BY <2>1, <2>2
<1>2. /\ stage = "load" /\ outcome = "none" /\ unit \in Nat /\ unit \in DOMAIN steps
      /\ \A k \in DOMAIN steps : k \in Nat
  BY <1>1, StepApart
<1>3. unit' \in Nat /\ unit' # 0
  BY <1>1, <1>2
<1>4. GuideTypeOK' /\ StepsAreOfTheJob'
  BY <1>1, <1>2, <1>3 DEF GuideInv, GuideTypeOK, StepsAreOfTheJob
<1>5. ASSUME meddled = 0
      PROVE  NothingYet' /\ RunInOrder' /\ PlannedAsChecked'
  <2>1. \A k \in DOMAIN steps : (k < unit => AllThere(steps[k])) /\ (k > unit => Untouched(steps[k]))
    BY <1>2, <1>5 DEF GuideInv, RunInOrder, Runs
  <2>2. AllThere(steps[unit])
    BY <1>1, <1>2, <1>5 DEF GuideInv, RunInOrder, AllThere, Step
  <2>3. \A k \in DOMAIN steps : (k < unit + 1 => AllThere(steps[k])) /\ (k > unit + 1 => Untouched(steps[k]))
    <3> SUFFICES ASSUME NEW k \in DOMAIN steps
                 PROVE  (k < unit + 1 => AllThere(steps[k])) /\ (k > unit + 1 => Untouched(steps[k]))
      OBVIOUS
    <3>1. k \in Nat /\ unit \in Nat
      BY <1>2
    <3>2. k < unit + 1 => k < unit \/ k = unit
      BY <3>1
    <3>3. k > unit + 1 => k > unit
      BY <3>1
    <3> QED
      BY <2>1, <2>2, <3>2, <3>3
  <2>4. \A k : (AllThere(steps[k])' <=> AllThere(steps[k])) /\ (Untouched(steps[k])' <=> Untouched(steps[k]))
    BY <1>1 DEF AllThere, Untouched, Replaced
  <2> QED
    BY <1>1, <1>2, <2>3, <2>4 DEF NothingYet, RunInOrder, PlannedAsChecked, Harmless
<1> QED
  BY <1>1, <1>4, <1>5 DEF GuideInv

(* Once others have meddled, only the shape is said.                        *)
LEMMA MeddleKeeps ==
    ASSUME GuideInv, Meddle
    PROVE  GuideInv'
<1>1. /\ meddled' = meddled + 1 /\ restored' = restored /\ job' = job /\ stage' = stage /\ steps' = steps
      /\ unit' = unit /\ outcome' = outcome
      /\ archives' = archives \/ \E d, a : archives' = [archives EXCEPT ![d] = a]
  BY DEF Meddle
<1>2. archives = [d \in DOMAIN Dumps |-> archives[d]] /\ meddled \in Nat
  BY DEF GuideInv, GuideTypeOK
<1>3. archives' = [d \in DOMAIN Dumps |-> archives'[d]] /\ meddled' \in Nat /\ meddled' # 0
  BY <1>1, <1>2
<1>4. GuideTypeOK' /\ StepsAreOfTheJob'
  BY <1>1, <1>3 DEF GuideInv, GuideTypeOK, StepsAreOfTheJob
<1> QED
  BY <1>3, <1>4 DEF GuideInv

LEMMA GuideStays ==
    ASSUME GuideInv, UNCHANGED guideVars
    PROVE  GuideInv'
BY DEF guideVars, surroundings, GuideInv, GuideTypeOK, StepsAreOfTheJob, NothingYet, RunInOrder, Runs,
       PlannedAsChecked, Plain, NeedsOf, AllThere, Untouched, Replaced, Step, Current

LEMMA GuideStepKeeps ==
    ASSUME GuideInv, [GuideNext]_guideVars
    PROVE  GuideInv'
BY GiveCommandKeeps, PlanOneKeeps, PlannedKeeps, RunChecksKeeps, SetUpAfterCheckKeeps, DeclinedKeeps,
   GoesAheadKeeps, EvictOldKeeps, FetchKeeps, DropOldKeeps, LoadPartKeeps, StepDoneKeeps, MeddleKeeps,
   GuideStays DEF GuideNext

(* The invariant of the guided commands: a command that has not gone ahead  *)
(* changed nothing, and one that has left the steps before the one under    *)
(* way done and those after it untouched.                                   *)
THEOREM GuideInvariant == GuideSpec => []GuideInv
<1>1. GuideInit => GuideInv
  BY FirstGuide
<1>2. GuideInv /\ [GuideNext]_guideVars => GuideInv'
  BY GuideStepKeeps
<1> QED
  BY <1>1, <1>2, PTL DEF GuideSpec

(* What the guided commands say is so: a refusal, an explanation or a       *)
(* declined question changed nothing; after a failure the later steps are   *)
(* untouched; the checks of `check` are those of `import`; what `status`    *)
(* calls newer `update` takes.                                              *)
THEOREM GuideTellsWhatIsSo == GuideSpec => []GuideSaysWhatIsSo
<1>1. GuideInv => GuideSaysWhatIsSo
  BY OrderlySays
<1> QED
  BY <1>1, GuideInvariant, PTL
=============================================================================
