---------------------------- MODULE DumpDownload ----------------------------
(***************************************************************************)
(* The resumable download of one FEC dump (bulk::dump): the bytes gather   *)
(* in <name>.dump.partial, the validator of the version they belong to is  *)
(* in <name>.dump.meta, and the complete file is renamed to <name>.dump.   *)
(*                                                                         *)
(* The server replaces the file while it is being downloaded, connections  *)
(* break, processes are killed and the power fails. A file is a sequence   *)
(* of cells <<version, position>>; open files outlive their names.         *)
(***************************************************************************)
EXTENDS Naturals, Sequences

CONSTANTS Downloaders,  \* processes
          Files,        \* inodes
          Size,         \* the length of each version the server ever has
          Validator,    \* what the server sends: "etag", "date" or "none"
          Compliant,    \* whether it respects If-Range
          TagOn416,     \* whether a 416 carries the ETag too
          HonorsRange,  \* whether it always serves the range it is asked for
          MaxStops,     \* bound: kills, power failures
          MaxEvictions  \* bound: evictions

Versions == DOMAIN Size
None     == 0           \* no version, no file, no total
Hole     == <<0, 0>>    \* a byte nobody wrote

ASSUME SizeAssumption == Size \in Seq(Nat \ {0}) /\ Size # << >>
ASSUME FilesAssumption == Files \subseteq Nat \ {0}
ASSUME ServerAssumption ==
    /\ Validator \in {"etag", "date", "none"}
    /\ {Compliant, TagOn416, HonorsRange} \subseteq BOOLEAN
ASSUME StopsAssumption == MaxStops \in Nat /\ MaxEvictions \in Nat

Bytes(v, n) == [i \in 1..n |-> <<v, i>>]
Whole(v)    == Bytes(v, Size[v])

VARIABLES
    current,    \* the version the server has
    content,    \* what each file holds
    synced,     \* the files that are wholly on the disk
    partial, dest,  \* the files of these names, or None
    meta,       \* the version <name>.dump.meta names, or None
    pc,         \* what each process does next
    saved,      \* the version it read in .meta: its If-Range
    existing,   \* the length it read of .partial
    resp,       \* the server's answer: version, first byte, declared total
    handle,     \* the file it writes
    offset,     \* where its handle is, or "end" when it appends
    read,       \* bytes of the version the body has delivered or skipped
    asked,      \* the server's version when it began (history)
    stops, evictions

names == <<partial, dest>>
disk  == <<content, synced, names, meta>>
view  == <<saved, existing, asked>>
io    == <<handle, offset, read>>
vars  == <<current, disk, pc, view, resp, io, stops, evictions>>

NoAnswer == [version |-> None, start |-> 0, total |-> None, etag |-> FALSE]

Init ==
    /\ current = 1
    /\ content = [f \in Files |-> << >>] /\ synced = {}
    /\ partial = None /\ dest = None /\ meta = None
    /\ pc = [d \in Downloaders |-> "idle"]
    /\ saved = [d \in Downloaders |-> None]
    /\ existing = [d \in Downloaders |-> 0]
    /\ resp = [d \in Downloaders |-> NoAnswer]
    /\ handle = [d \in Downloaders |-> None]
    /\ offset = [d \in Downloaders |-> "end"]
    /\ read = [d \in Downloaders |-> 0]
    /\ asked = [d \in Downloaders |-> 1]
    /\ stops = 0 /\ evictions = 0

GoTo(d, label) == pc' = [pc EXCEPT ![d] = label]

(* An error ends the call; the file it wrote is closed. *)
Quit(d) == GoTo(d, "idle") /\ handle' = [handle EXCEPT ![d] = None]

Unused == Files \ ({partial, dest} \cup {handle[d] : d \in Downloaders})

(* What an answer says of the version it belongs to. *)
Recorded(a) == IF Validator = "date" \/ a.etag THEN a.version ELSE None

-----------------------------------------------------------------------------
(* The server publishes next week's dump. *)
Replace ==
    /\ current + 1 \in Versions
    /\ current' = current + 1
    /\ UNCHANGED <<disk, pc, view, resp, io, stops, evictions>>

(* Whether an answer carries an ETag. *)
Tagged(sent) == IF Validator = "etag" /\ sent THEN {TRUE} ELSE {FALSE}

(* The whole file, from byte 0. *)
Answer200 ==
    [version : {current}, start : {0}, total : {Size[current], None}, etag : Tagged(TRUE)]

(* The rest of the file, or nothing if the client has it all (416). *)
AnswerRange(from) ==
    IF from < Size[current]
    THEN [version : {current}, start : {from}, total : {Size[current], None},
          etag : Tagged(TRUE)]
    ELSE [version : {current}, start : {from}, total : {Size[current], None},
          etag : Tagged(TagOn416)]

(* What the server may answer; If-Range makes it send a changed file whole. *)
Answers(from, validator) ==
    IF from = 0 \/ (Compliant /\ validator # current) THEN Answer200
    ELSE AnswerRange(from) \cup (IF HonorsRange THEN {} ELSE Answer200)

-----------------------------------------------------------------------------
(* Mutant of Trusted: a partial is never resumed. *)
TrustedNever == 0

(* How much of the partial there is, if a validator says what it is. *)
Trusted == IF partial # None /\ meta # None THEN Len(content[partial]) ELSE 0

(* download_with: nothing to do if the complete file is there. *)
Begin(d) ==
    /\ pc[d] = "idle" /\ dest = None
    /\ saved' = [saved EXCEPT ![d] = meta]
    /\ existing' = [existing EXCEPT ![d] = Trusted]
    /\ asked' = [asked EXCEPT ![d] = current]
    /\ GoTo(d, "ask")
    /\ UNCHANGED <<current, disk, resp, io, stops, evictions>>

Ask(d) ==
    /\ pc[d] = "ask"
    /\ \E a \in Answers(existing[d], saved[d]) : resp' = [resp EXCEPT ![d] = a]
    /\ GoTo(d, "answered")
    /\ UNCHANGED <<current, disk, view, io, stops, evictions>>

(* Mutant of TagChanged: the tag of a 206 is not looked at. *)
TagIgnored(d) == FALSE

(* The server served a range of another version than the partial is of. *)
TagChanged(d) ==
    /\ resp[d].start > 0
    /\ resp[d].etag /\ saved[d] # None /\ resp[d].version # saved[d]

DropPartial(d) ==
    /\ pc[d] = "answered" /\ TagChanged(d)
    /\ partial' = None
    /\ GoTo(d, "dropMeta")
    /\ UNCHANGED <<current, content, synced, dest, meta, view, resp, io, stops, evictions>>

DropMeta(d) ==
    /\ pc[d] = "dropMeta"
    /\ meta' = None
    /\ GoTo(d, "askAgain")
    /\ UNCHANGED <<current, content, synced, names, view, resp, io, stops, evictions>>

AskAgain(d) ==
    /\ pc[d] = "askAgain"
    /\ \E a \in Answers(0, None) : resp' = [resp EXCEPT ![d] = a]
    /\ GoTo(d, "open")
    /\ UNCHANGED <<current, disk, view, io, stops, evictions>>

Accept(d) ==
    /\ pc[d] = "answered" /\ ~ TagChanged(d)
    /\ GoTo(d, "open")
    /\ UNCHANGED <<current, disk, view, resp, io, stops, evictions>>

(* A body from byte 0 empties the partial; one that starts where it ends is *)
(* appended to it (File::create and OpenOptions::append both make it if it  *)
(* is missing).                                                             *)
Open(d) ==
    /\ pc[d] = "open"
    /\ \E f \in (IF partial = None THEN Unused ELSE {partial}) :
          /\ partial' = f
          /\ handle' = [handle EXCEPT ![d] = f]
          /\ IF partial = None \/ resp[d].start = 0
             THEN content' = [content EXCEPT ![f] = << >>] /\ synced' = synced \ {f}
             ELSE UNCHANGED <<content, synced>>
    /\ offset' = [offset EXCEPT ![d] = IF resp[d].start = 0 THEN "own" ELSE "end"]
    /\ read' = [read EXCEPT ![d] = resp[d].start]
    /\ GoTo(d, "meta")
    /\ UNCHANGED <<current, dest, meta, view, resp, stops, evictions>>

(* Mutant of WriteMeta: an existing .meta is kept when the file changed. *)
WriteMetaOnce(d) ==
    /\ pc[d] = "meta"
    /\ meta' = IF meta = None THEN Recorded(resp[d]) ELSE meta
    /\ GoTo(d, "copy")
    /\ UNCHANGED <<current, content, synced, names, view, resp, io, stops, evictions>>

(* .meta is written when the partial starts anew, or when it is missing. *)
WritesMeta(d) == offset[d] = "own" \/ meta = None

WriteMeta(d) ==
    /\ pc[d] = "meta"
    /\ meta' = IF WritesMeta(d) THEN Recorded(resp[d]) ELSE meta
    /\ GoTo(d, "copy")
    /\ UNCHANGED <<current, content, synced, names, view, resp, io, stops, evictions>>

(* One cell written at a position; the file grows to it if need be. *)
WriteAt(data, n, cell) ==
    [i \in 1..(IF n > Len(data) THEN n ELSE Len(data)) |->
        IF i = n THEN cell ELSE IF i <= Len(data) THEN data[i] ELSE Hole]

(* The body of version v delivers its next byte. *)
Copy(d) ==
    LET f == handle[d]
        v == resp[d].version
        n == IF offset[d] = "own" THEN read[d] + 1 ELSE Len(content[f]) + 1
    IN  /\ pc[d] = "copy" /\ read[d] < Size[v]
        /\ content' = [content EXCEPT ![f] = WriteAt(@, n, <<v, read[d] + 1>>)]
        /\ synced' = synced \ {f}
        /\ read' = [read EXCEPT ![d] = @ + 1]
        /\ UNCHANGED <<current, names, meta, pc, view, resp, handle, offset, stops, evictions>>

(* Mutant of BodyEnds: the file is renamed before it is on the disk. *)
BodyEndsUnsynced(d) ==
    /\ pc[d] = "copy"
    /\ read[d] >= Size[resp[d].version] \/ resp[d].total # None
    /\ GoTo(d, "check")
    /\ UNCHANGED <<current, disk, view, resp, io, stops, evictions>>

(* The body ends: at the end of the version, or before it if the total is   *)
(* declared (a chunked body that breaks off is an error). sync_all.         *)
BodyEnds(d) ==
    /\ pc[d] = "copy"
    /\ read[d] >= Size[resp[d].version] \/ resp[d].total # None
    /\ synced' = synced \cup {handle[d]}
    /\ GoTo(d, "check")
    /\ UNCHANGED <<current, content, names, meta, view, resp, io, stops, evictions>>

Actual(d) == Len(content[handle[d]])

Complete(d) == resp[d].total = None \/ Actual(d) = resp[d].total

(* Shorter than declared: Incomplete, and the partial is kept. *)
TooShort(d) ==
    /\ pc[d] = "check" /\ ~ Complete(d) /\ Actual(d) < resp[d].total
    /\ Quit(d)
    /\ UNCHANGED <<current, disk, view, resp, offset, read, stops, evictions>>

(* Longer than declared: nothing in it can be trusted. *)
TooLong(d) ==
    /\ pc[d] = "check" /\ ~ Complete(d) /\ Actual(d) > resp[d].total
    /\ partial' = None
    /\ GoTo(d, "discard")
    /\ UNCHANGED <<current, content, synced, dest, meta, view, resp, io, stops, evictions>>

DiscardMeta(d) ==
    /\ pc[d] = "discard"
    /\ meta' = None
    /\ Quit(d)
    /\ UNCHANGED <<current, content, synced, names, view, resp, offset, read, stops, evictions>>

(* rename(partial, dest), whatever file has the name by now. *)
Rename(d) ==
    /\ pc[d] = "check" /\ Complete(d)
    /\ IF partial = None THEN UNCHANGED names ELSE dest' = partial /\ partial' = None
    /\ Quit(d)
    /\ UNCHANGED <<current, content, synced, meta, view, resp, offset, read, stops, evictions>>

-----------------------------------------------------------------------------
(* evict_cached: the complete file, then the partial, then .meta. *)
EvictDest(d) ==
    /\ pc[d] = "idle" /\ evictions < MaxEvictions
    /\ evictions' = evictions + 1
    /\ dest' = None
    /\ GoTo(d, "evictPartial")
    /\ UNCHANGED <<current, content, synced, partial, meta, view, resp, io, stops>>

EvictPartial(d) ==
    /\ pc[d] = "evictPartial"
    /\ partial' = None
    /\ GoTo(d, "evictMeta")
    /\ UNCHANGED <<current, content, synced, dest, meta, view, resp, io, stops, evictions>>

EvictMeta(d) ==
    /\ pc[d] = "evictMeta"
    /\ meta' = None
    /\ GoTo(d, "idle")
    /\ UNCHANGED <<current, content, synced, names, view, resp, io, stops, evictions>>

(* .meta while it is written: emptied first. *)
MetaCutShort(d) == meta' \in {meta} \cup (IF pc[d] = "meta" /\ WritesMeta(d) THEN {None} ELSE {})

(* No usable answer, a broken connection, a full disk: the call returns an  *)
(* error, and leaves what there is of the partial.                          *)
Fails(d) ==
    /\ pc[d] \in {"ask", "askAgain", "open", "meta", "copy", "check"}
    /\ MetaCutShort(d)
    /\ Quit(d)
    /\ UNCHANGED <<current, content, synced, names, view, resp, offset, read, stops, evictions>>

(* The process is killed; the operating system closes its file. *)
Kill(d) ==
    /\ pc[d] # "idle" /\ stops < MaxStops
    /\ stops' = stops + 1
    /\ MetaCutShort(d)
    /\ Quit(d)
    /\ UNCHANGED <<current, content, synced, names, view, resp, offset, read, evictions>>

(* The power fails: a file that was not synced keeps a prefix of what was   *)
(* written, and .meta, which never is, may be empty. Names change in order. *)
PowerFailure ==
    /\ stops < MaxStops
    /\ stops' = stops + 1
    /\ \E n \in [Files -> UNION {0..Len(content[f]) : f \in Files}] :
          /\ \A f \in Files : n[f] <= Len(content[f])
          /\ \A f \in synced : n[f] = Len(content[f])
          /\ content' = [f \in Files |-> SubSeq(content[f], 1, n[f])]
    /\ synced' = Files
    /\ meta' \in {meta, None}
    /\ pc' = [d \in Downloaders |-> "idle"]
    /\ handle' = [d \in Downloaders |-> None]
    /\ UNCHANGED <<current, names, view, resp, offset, read, evictions>>

Download(d) ==
    \/ Begin(d) \/ Ask(d) \/ DropPartial(d) \/ DropMeta(d) \/ AskAgain(d) \/ Accept(d)
    \/ Open(d) \/ WriteMeta(d) \/ Copy(d) \/ BodyEnds(d)
    \/ TooShort(d) \/ TooLong(d) \/ DiscardMeta(d) \/ Rename(d)

Evict(d) == EvictDest(d) \/ EvictPartial(d) \/ EvictMeta(d)

Next ==
    \/ Replace \/ PowerFailure
    \/ \E d \in Downloaders :
          Download(d) \/ Fails(d) \/ Evict(d) \/ Kill(d)

Spec == Init /\ [][Next]_vars

(* A failed download is started again, and no step fails every time. *)
Fairness ==
    \A d \in Downloaders :
        /\ WF_vars(Begin(d) \/ Accept(d) \/ DropPartial(d) \/ DropMeta(d)
                   \/ TooShort(d) \/ DiscardMeta(d) \/ Evict(d))
        /\ SF_vars(Ask(d)) /\ SF_vars(AskAgain(d)) /\ SF_vars(Open(d)) /\ SF_vars(WriteMeta(d))
        /\ SF_vars(Copy(d)) /\ SF_vars(BodyEnds(d)) /\ SF_vars(Rename(d)) /\ SF_vars(TooLong(d))

FairSpec == Spec /\ Fairness

-----------------------------------------------------------------------------
TypeOK ==
    /\ current \in Versions
    /\ content \in [Files -> Seq((Versions \cup {None}) \X Nat)] /\ synced \subseteq Files
    /\ {partial, dest} \subseteq Files \cup {None} /\ meta \in Versions \cup {None}
    /\ pc \in [Downloaders -> {"idle", "ask", "answered", "dropMeta", "askAgain", "open", "meta",
                               "copy", "check", "discard", "evictPartial", "evictMeta"}]
    /\ saved \in [Downloaders -> Versions \cup {None}] /\ existing \in [Downloaders -> Nat]
    /\ resp \in [Downloaders -> [version : Versions \cup {None}, start : Nat, total : Nat, etag : BOOLEAN]]
    /\ handle \in [Downloaders -> Files \cup {None}]
    /\ offset \in [Downloaders -> {"own", "end"}] /\ read \in [Downloaders -> Nat]
    /\ asked \in [Downloaders -> Versions]
    /\ stops \in 0..MaxStops /\ evictions \in 0..MaxEvictions

(* A file under the final name is one version of the dump, whole: nothing   *)
(* is spliced or cut off, whatever interrupts the download and whatever the *)
(* server does meanwhile ("restarts from zero instead of splicing two weeks *)
(* together", download_resumable).                                          *)
DestIsOneVersion == dest # None => \E v \in Versions : content[dest] = Whole(v)

(* A download never ends with an older dump than the server had when it was *)
(* started: what was resumed was still current.                             *)
CompletesFresh ==
    [][\A d \in Downloaders : Rename(d) /\ dest' # dest =>
          \E v \in asked[d]..current : content[dest'] = Whole(v)]_vars

(* .meta names the version of the complete file, from which `dumps update`  *)
(* decides whether the server has a newer one (is_newer_than).              *)
MetaDescribesDest == dest # None /\ meta # None => content[dest] = Whole(meta)

(* The bytes of a complete file are of one version ("restarts from zero     *)
(* instead of splicing two weeks together").                                *)
NothingSpliced ==
    dest # None => \E v \in Versions :
        \A i \in DOMAIN content[dest] : content[dest][i] # Hole => content[dest][i][1] = v

(* Through any number of cut connections the dump is downloaded in the end: *)
(* each attempt goes on where the last one stopped.                         *)
EventuallyDownloaded == []<>(dest # None)
=============================================================================
