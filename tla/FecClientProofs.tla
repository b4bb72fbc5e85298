-------------------------- MODULE FecClientProofs -----------------------------
(***************************************************************************)
(* What the client of the FEC's services keeps and hands out: invariance   *)
(* proofs for FilingCache, for any processes, documents and number of      *)
(* writes a document takes, and for OpenFecPages, for any number of rows,  *)
(* size of page and order of answers, refusals and additions.              *)
(***************************************************************************)
EXTENDS FilingCache, OpenFecPages, SequenceTheorems, TLAPS

(* Which processes work on a document, and on a document of their own. *)
Busy ==
    \A p \in Procs :
        /\ name[p] # NoName <=> pc[p] \in {"create", "write", "rename", "remove"}
        /\ name[p] # NoName => name[p] \in MayFetch[p]
        /\ handle[p] # "none" => pc[p] \in {"write", "rename", "remove"}
        /\ pc[p] \in {"idle", "clear", "create"} => written[p] = 0

(* The .partial a process is about to rename is its own, and is as far as   *)
(* the process is: whole and synced before the rename.                      *)
OwnPartial ==
    \A p \in Procs :
        /\ handle[p] # "dest"
        /\ pc[p] \in {"write", "rename"} /\ tmp[name[p]].exists =>
              handle[p] = "tmp" /\ tmp[name[p]].data = 1..written[p]
        /\ pc[p] = "rename" /\ tmp[name[p]].exists =>
              tmp[name[p]].data = Document /\ tmp[name[p]].synced = Document

(* What is stored is whole and survives a power failure. *)
Stored ==
    \A n \in Names : dest[n].exists =>
        dest[n].data = Document /\ dest[n].synced = Document

Held == TypeOK /\ Busy /\ OwnPartial /\ Stored

-----------------------------------------------------------------------------
LEMMA InitTypes == Init => TypeOK
<1>1. NoFile \in File /\ 0 \in 0..Pieces
  BY PiecesAssumption DEF File, NoFile
<1>2. Init => dest \in [Names -> File] /\ tmp \in [Names -> File]
  BY <1>1 DEF Init
<1>3. Init => written \in [Procs -> 0..Pieces] /\ cut \subseteq Names
  BY <1>1 DEF Init
<1> QED BY <1>2, <1>3 DEF Init, TypeOK

LEMMA NextTypes == TypeOK /\ Busy /\ [Next]_vars => TypeOK'
<1> SUFFICES ASSUME TypeOK, Busy, [Next]_vars PROVE TypeOK'
  OBVIOUS
<1> USE PiecesAssumption DEF TypeOK
<1>b. ASSUME NEW p \in Procs, pc[p] \in {"write", "rename", "remove"} PROVE name[p] \in Names
  BY <1>b DEF Busy
<1>f. NoFile \in File /\ NewFile \in File
  BY DEF NoFile, NewFile, File
<1>1. ASSUME NEW p \in Procs, NEW n \in Names, Fetch(p, n) \/ Store(p, n)
      PROVE  TypeOK'
  BY <1>1 DEF Fetch, Store, GoTo, files
<1>2. ASSUME NEW p \in Procs, NEW n \in Names, UnlinkFinal(p, n) \/ UnlinkPartial(p, n)
      PROVE  TypeOK'
  <2>1. dest' \in [Names -> File] /\ tmp' \in [Names -> File]
    BY <1>2, <1>f DEF UnlinkFinal, UnlinkPartial
  <2>2. handle' \in [Procs -> {"none", "tmp", "dest", "gone"}]
    BY <1>2 DEF UnlinkFinal, UnlinkPartial, Moved
  <2> QED BY <1>2, <2>1, <2>2 DEF UnlinkFinal, UnlinkPartial
<1>3. ASSUME NEW p \in Procs, Create(p) PROVE TypeOK'
  BY <1>3, <1>f DEF Create, GoTo
<1>4. ASSUME NEW p \in Procs, Write(p) PROVE TypeOK'
  <2>1. written[p] + 1 \in 0..Pieces /\ written[p] + 1 \in Document
    BY <1>4 DEF Write, Document
  <2>2. ASSUME NEW f \in File PROVE Grown(f, written[p] + 1) \in File
    BY <2>1 DEF Grown, File
  <2>3. tmp' \in [Names -> File]
    BY <1>4, <2>2 DEF Write
  <2>4. dest' \in [Names -> File]
    BY <1>4, <2>2 DEF Write
  <2>5. written' \in [Procs -> 0..Pieces]
    BY <1>4, <2>1 DEF Write
  <2> QED BY <1>4, <2>3, <2>4, <2>5 DEF Write
<1>5. ASSUME NEW p \in Procs, Sync(p) PROVE TypeOK'
  <2>1. ASSUME NEW f \in File PROVE Synced(f) \in File
    BY DEF Synced, File
  <2>2. tmp' \in [Names -> File]
    BY <1>5, <2>1 DEF Sync
  <2>3. dest' \in [Names -> File]
    BY <1>5, <2>1 DEF Sync
  <2> QED BY <1>5, <2>2, <2>3 DEF Sync, GoTo
<1>6. ASSUME NEW p \in Procs, Leave(p)
      PROVE  /\ pc' \in [Procs -> {"idle", "create", "write", "rename", "remove", "clear"}]
             /\ name' \in [Procs -> Names \cup {NoName}]
             /\ written' \in [Procs -> 0..Pieces]
  BY <1>6 DEF Leave, GoTo
<1>7. ASSUME NEW p \in Procs, Rename(p) PROVE TypeOK'
  <2>1. dest' \in [Names -> File] /\ tmp' \in [Names -> File]
    <3>1. name[p] \in Names => tmp[name[p]] \in File
      OBVIOUS
    <3> QED BY <1>7, <1>f, <3>1 DEF Rename
  <2>2. handle' \in [Procs -> {"none", "tmp", "dest", "gone"}]
    BY <1>7 DEF Rename
  <2> QED BY <1>6, <1>7, <2>1, <2>2 DEF Rename
<1>8. ASSUME NEW p \in Procs, StepFails(p) \/ Clear(p) \/ ClearEnds(p) PROVE TypeOK'
  BY <1>8 DEF StepFails, Clear, ClearEnds, GoTo, files
<1>9. ASSUME NEW p \in Procs, Remove(p) PROVE TypeOK'
  <2>1. handle' \in [Procs -> {"none", "tmp", "dest", "gone"}]
    BY <1>9 DEF Remove, Moved
  <2>2. tmp' \in [Names -> File]
    BY <1>9, <1>f DEF Remove
  <2> QED BY <1>6, <1>9, <2>1, <2>2 DEF Remove
<1>10. ASSUME NEW p \in Procs, Kill(p) \/ RemoveFails(p) PROVE TypeOK'
  <2>1. /\ Leave(p) /\ UNCHANGED <<dest, tmp>>
        /\ handle' = [handle EXCEPT ![p] = "none"]
        /\ cut' = cut \/ cut' = cut \cup {name[p]}
    BY <1>10 DEF Kill, RemoveFails, files
  <2>2. cut' \subseteq Names
    <3>1. CASE name[p] \in Names
      BY <2>1, <3>1
    <3>2. CASE name[p] \notin Names
      BY <1>b, <1>10, <3>2 DEF Kill, RemoveFails
    <3> QED BY <3>1, <3>2
  <2> QED BY <1>6, <2>1, <2>2
<1>11. ASSUME PowerFailure PROVE TypeOK'
  <2>1. ASSUME NEW f \in File, NEW l \in SUBSET Document PROVE Survivor(f, l) \in File
    BY DEF Survivor, File
  <2>2. dest' \in [Names -> File] /\ tmp' \in [Names -> File]
    BY <1>11, <2>1 DEF PowerFailure
  <2> QED BY <1>11, <2>2 DEF PowerFailure
<1>12. CASE UNCHANGED vars
  BY <1>12 DEF vars, files
<1> QED
  BY <1>1, <1>2, <1>3, <1>4, <1>5, <1>7, <1>8, <1>9, <1>10, <1>11, <1>12 DEF Next

-----------------------------------------------------------------------------
(* With one writer, no two processes work on the same document. *)
LEMMA Alone ==
    ASSUME OneWriter, Busy, NEW p \in Procs, NEW q \in Procs, name[p] # NoName, q # p
    PROVE  name[q] # name[p]
BY DEF OneWriter, Busy

(* A process that leaves its document has nothing open. *)
LEMMA BusyNext == TypeOK /\ Busy /\ [Next]_vars => Busy'
<1> SUFFICES ASSUME TypeOK, Busy, [Next]_vars PROVE Busy'
  OBVIOUS
<1> USE NamesAssumption, MayFetchAssumption DEF Busy
<1>t. /\ pc \in [Procs -> {"idle", "create", "write", "rename", "remove", "clear"}]
      /\ name \in [Procs -> Names \cup {NoName}]
      /\ handle \in [Procs -> {"none", "tmp", "dest", "gone"}]
      /\ written \in [Procs -> 0..Pieces]
  BY DEF TypeOK
<1>1. ASSUME NEW p \in Procs, NEW n \in Names, Fetch(p, n) \/ Store(p, n)
      PROVE  Busy'
  BY <1>t, <1>1 DEF Fetch, Store, GoTo
<1>2. ASSUME NEW p \in Procs, NEW n \in Names, UnlinkFinal(p, n) \/ UnlinkPartial(p, n)
      PROVE  Busy'
  BY <1>t, <1>2 DEF UnlinkFinal, UnlinkPartial, Moved
<1>3. ASSUME NEW p \in Procs, Create(p) \/ Write(p) \/ Sync(p) \/ StepFails(p) PROVE Busy'
  BY <1>t, <1>3 DEF Create, Write, Sync, StepFails, GoTo
<1>4. ASSUME NEW p \in Procs, Clear(p) \/ ClearEnds(p) PROVE Busy'
  BY <1>t, <1>4 DEF Clear, ClearEnds, GoTo
<1>5. ASSUME NEW p \in Procs, Rename(p) PROVE Busy'
  <2>1. ASSUME NEW q \in Procs, handle'[q] # "none" PROVE q # p /\ handle[q] # "none"
    <3>1. q # p
      BY <1>5, <2>1 DEF Rename
    <3>2. CASE name[q] = name[p] /\ handle[q] \in {"tmp", "dest"}
      BY <3>1, <3>2
    <3>3. CASE ~ (name[q] = name[p] /\ handle[q] \in {"tmp", "dest"})
      <4>1. handle'[q] = handle[q]
        BY <1>5, <3>1, <3>3 DEF Rename
      <4> QED BY <2>1, <3>1, <4>1
    <3> QED BY <3>2, <3>3
  <2> QED BY <1>t, <1>5, <2>1 DEF Rename, Leave, GoTo
<1>6. ASSUME NEW p \in Procs, Remove(p) PROVE Busy'
  <2>1. ASSUME NEW q \in Procs, handle'[q] # "none" PROVE q # p /\ handle[q] # "none"
    BY <1>t, <1>6, <2>1 DEF Remove, Moved
  <2> QED BY <1>t, <1>6, <2>1 DEF Remove, Leave, GoTo
<1>7. ASSUME NEW p \in Procs, Kill(p) \/ RemoveFails(p) PROVE Busy'
  BY <1>t, <1>7 DEF Kill, RemoveFails, Leave, GoTo
<1>8. ASSUME PowerFailure PROVE Busy'
  BY <1>8 DEF PowerFailure
<1>9. CASE UNCHANGED vars
  BY <1>9 DEF vars
<1> QED BY <1>1, <1>2, <1>3, <1>4, <1>5, <1>6, <1>7, <1>8, <1>9 DEF Next

LEMMA StoredNext == TypeOK /\ Busy /\ OwnPartial /\ Stored /\ [Next]_vars => Stored'
<1> SUFFICES ASSUME TypeOK, Busy, OwnPartial, Stored, [Next]_vars PROVE Stored'
  OBVIOUS
<1>1. ASSUME UNCHANGED dest PROVE Stored'
  BY <1>1 DEF Stored
<1>2. ASSUME NEW p \in Procs, Write(p) \/ Sync(p) PROVE UNCHANGED dest
  BY <1>2 DEF Write, Sync, OwnPartial
<1>3. ASSUME NEW p \in Procs, Rename(p) PROVE Stored'
  <2>1. tmp[name[p]].data = Document /\ tmp[name[p]].synced = Document
    BY <1>3 DEF Rename, OwnPartial
  <2> QED BY <1>3, <2>1 DEF Rename, Stored, TypeOK
<1>4. ASSUME NEW p \in Procs, NEW n \in Names, UnlinkFinal(p, n) PROVE Stored'
  BY <1>4 DEF UnlinkFinal, Stored, TypeOK, NoFile
<1>5. ASSUME PowerFailure PROVE Stored'
  <2>1. PICK lost \in [Names -> SUBSET Document] : dest' = [n \in Names |-> Survivor(dest[n], lost[n])]
    BY <1>5 DEF PowerFailure
  <2>2. ASSUME NEW n \in Names, dest'[n].exists
        PROVE  dest'[n].data = Document /\ dest'[n].synced = Document
    <3>1. dest'[n] = Survivor(dest[n], lost[n])
      BY <2>1
    <3>2. dest[n].exists
      BY <2>2, <3>1 DEF Survivor
    <3>3. dest[n].data = Document /\ dest[n].synced = Document
      BY <3>2 DEF Stored
    <3> QED BY <3>1, <3>3 DEF Survivor
  <2> QED BY <2>2 DEF Stored
<1>6. ASSUME NEW p \in Procs, NEW n \in Names, Fetch(p, n) \/ Store(p, n) \/ UnlinkPartial(p, n)
      PROVE  UNCHANGED dest
  BY <1>6 DEF Fetch, Store, UnlinkPartial, files
<1>7. ASSUME NEW p \in Procs,
             \/ Create(p) \/ StepFails(p) \/ Remove(p) \/ RemoveFails(p)
             \/ Clear(p) \/ ClearEnds(p) \/ Kill(p)
      PROVE  UNCHANGED dest
  BY <1>7 DEF Create, StepFails, Remove, RemoveFails, Clear, ClearEnds, Kill, files
<1>8. CASE UNCHANGED vars
  BY <1>1, <1>8 DEF vars, files
<1> QED BY <1>1, <1>2, <1>3, <1>4, <1>5, <1>6, <1>7, <1>8 DEF Next

LEMMA OwnPartialNext ==
    ASSUME OneWriter, TypeOK, Busy, Busy', OwnPartial, [Next]_vars PROVE OwnPartial'
<1>t. /\ pc \in [Procs -> {"idle", "create", "write", "rename", "remove", "clear"}]
      /\ name \in [Procs -> Names \cup {NoName}]
      /\ handle \in [Procs -> {"none", "tmp", "dest", "gone"}]
      /\ written \in [Procs -> 0..Pieces]
      /\ tmp \in [Names -> File]
  BY DEF TypeOK
<1>n. ASSUME NEW q \in Procs, pc[q] \in {"create", "write", "rename", "remove"}
      PROVE  name[q] \in Names
  BY <1>t, <1>n DEF Busy
(* What p does leaves another process q and its document alone. *)
<1>o. ASSUME NEW p \in Procs, NEW q \in Procs, q # p,
             pc'[q] = pc[q], name'[q] = name[q], written'[q] = written[q],
             handle'[q] = handle[q],
             pc[q] \in {"write", "rename"} => tmp'[name[q]] = tmp[name[q]]
      PROVE  /\ handle'[q] # "dest"
             /\ pc'[q] \in {"write", "rename"} /\ tmp'[name'[q]].exists =>
                  handle'[q] = "tmp" /\ tmp'[name'[q]].data = 1..written'[q]
             /\ pc'[q] = "rename" /\ tmp'[name'[q]].exists =>
                  tmp'[name'[q]].data = Document /\ tmp'[name'[q]].synced = Document
  BY <1>o DEF OwnPartial
<1>1. ASSUME NEW p \in Procs, NEW n \in Names, Fetch(p, n) \/ Store(p, n) PROVE OwnPartial'
  <2>1. handle'[p] # "dest" /\ pc'[p] = "create"
    BY <1>t, <1>1 DEF Fetch, Store, GoTo, OwnPartial
  <2>2. ASSUME NEW q \in Procs, q # p
        PROVE  /\ pc'[q] = pc[q] /\ name'[q] = name[q] /\ written'[q] = written[q]
               /\ handle'[q] = handle[q] /\ tmp' = tmp
    BY <1>t, <1>1, <2>2 DEF Fetch, Store, GoTo, files
  <2> QED BY <1>o, <2>1, <2>2 DEF OwnPartial
<1>2. ASSUME NEW p \in Procs, Clear(p) \/ ClearEnds(p) \/ StepFails(p) PROVE OwnPartial'
  <2>1. handle'[p] # "dest" /\ pc'[p] \in {"idle", "clear", "remove"}
    BY <1>t, <1>2 DEF Clear, ClearEnds, StepFails, GoTo, OwnPartial
  <2>2. ASSUME NEW q \in Procs, q # p
        PROVE  /\ pc'[q] = pc[q] /\ name'[q] = name[q] /\ written'[q] = written[q]
               /\ handle'[q] = handle[q] /\ tmp' = tmp
    BY <1>t, <1>2, <2>2 DEF Clear, ClearEnds, StepFails, GoTo, files
  <2> QED BY <1>o, <2>1, <2>2 DEF OwnPartial
<1>3. ASSUME NEW p \in Procs, Create(p) PROVE OwnPartial'
  <2>1. /\ handle'[p] = "tmp" /\ pc'[p] = "write" /\ written'[p] = 0
        /\ name'[p] = name[p] /\ tmp'[name[p]].data = {}
    BY <1>t, <1>3, <1>n DEF Create, GoTo, NewFile, Busy
  <2>2. ASSUME NEW q \in Procs, q # p
        PROVE  /\ pc'[q] = pc[q] /\ name'[q] = name[q] /\ written'[q] = written[q]
               /\ handle'[q] = handle[q]
               /\ pc[q] \in {"write", "rename"} => tmp'[name[q]] = tmp[name[q]]
    <3>1. name[p] # NoName
      BY <1>3 DEF Create, Busy
    <3>2. name[q] # name[p]
      BY <2>2, <3>1, Alone
    <3> QED BY <1>t, <1>n, <1>3, <2>2, <3>2 DEF Create, GoTo
  <2>3. tmp'[name'[p]].data = 1..written'[p]
    BY <2>1
  <2> QED BY <1>o, <2>1, <2>2, <2>3 DEF OwnPartial
<1>4. ASSUME NEW p \in Procs, Write(p) PROVE OwnPartial'
  <2>1. /\ pc'[p] = "write" /\ handle'[p] = handle[p] /\ name'[p] = name[p]
        /\ written[p] \in Nat /\ written'[p] = written[p] + 1 /\ name[p] \in Names
    BY <1>t, <1>4, <1>n DEF Write
  <2>2. ASSUME tmp'[name[p]].exists
        PROVE  handle[p] = "tmp" /\ tmp'[name[p]].data = 1..(written[p] + 1)
    <3>1. tmp[name[p]].exists
      BY <1>t, <1>4, <2>1, <2>2 DEF Write, Grown, File
    <3>2. handle[p] = "tmp" /\ tmp[name[p]].data = 1..written[p]
      BY <1>4, <3>1 DEF Write, OwnPartial
    <3>3. tmp'[name[p]].data = (1..written[p]) \cup {written[p] + 1}
      BY <1>t, <1>4, <2>1, <3>2 DEF Write, Grown, File
    <3> QED BY <2>1, <3>2, <3>3
  <2>3. ASSUME NEW q \in Procs, q # p
        PROVE  /\ pc'[q] = pc[q] /\ name'[q] = name[q] /\ written'[q] = written[q]
               /\ handle'[q] = handle[q]
               /\ pc[q] \in {"write", "rename"} => tmp'[name[q]] = tmp[name[q]]
    <3>1. name[p] # NoName
      BY <1>4 DEF Write, Busy
    <3>2. name[q] # name[p]
      BY <2>3, <3>1, Alone
    <3> QED BY <1>t, <1>n, <1>4, <2>3, <3>2 DEF Write
  <2>4. handle'[p] # "dest"
    BY <2>1 DEF OwnPartial
  <2> QED BY <1>o, <2>1, <2>2, <2>3, <2>4 DEF OwnPartial
<1>5. ASSUME NEW p \in Procs, Sync(p) PROVE OwnPartial'
  <2>1. /\ pc'[p] = "rename" /\ handle'[p] = handle[p] /\ name'[p] = name[p]
        /\ written'[p] = written[p] /\ written[p] = Pieces /\ name[p] \in Names
    BY <1>t, <1>5, <1>n DEF Sync, GoTo
  <2>2. ASSUME tmp'[name[p]].exists
        PROVE  /\ handle[p] = "tmp" /\ tmp'[name[p]].data = 1..Pieces
               /\ tmp'[name[p]].synced = 1..Pieces
    <3>1. tmp[name[p]].exists
      BY <1>t, <1>5, <2>1, <2>2 DEF Sync, Synced, File
    <3>2. handle[p] = "tmp" /\ tmp[name[p]].data = 1..written[p]
      BY <1>5, <3>1 DEF Sync, OwnPartial
    <3>3. tmp'[name[p]] = Synced(tmp[name[p]])
      BY <1>t, <1>5, <2>1, <3>2 DEF Sync
    <3>4. tmp[name[p]] \in File
      BY <1>t, <2>1
    <3> QED BY <2>1, <3>2, <3>3, <3>4 DEF Synced, File
  <2>3. ASSUME NEW q \in Procs, q # p
        PROVE  /\ pc'[q] = pc[q] /\ name'[q] = name[q] /\ written'[q] = written[q]
               /\ handle'[q] = handle[q]
               /\ pc[q] \in {"write", "rename"} => tmp'[name[q]] = tmp[name[q]]
    <3>1. name[p] # NoName
      BY <1>5 DEF Sync, Busy
    <3>2. name[q] # name[p]
      BY <2>3, <3>1, Alone
    <3> QED BY <1>t, <1>n, <1>5, <2>3, <3>2 DEF Sync, GoTo
  <2>4. handle'[p] # "dest"
    BY <2>1 DEF OwnPartial
  <2> QED BY <1>o, <2>1, <2>2, <2>3, <2>4 DEF OwnPartial, Document
<1>6. ASSUME NEW p \in Procs, Rename(p) \/ Remove(p) PROVE OwnPartial'
  <2>1. handle'[p] = "none"
    <3>1. Rename(p) => handle'[p] = "none"
      BY DEF Rename
    <3>2. Remove(p) => handle'[p] = "none"
      BY <1>t DEF Remove, Moved
    <3> QED BY <1>6, <3>1, <3>2
  <2>3. pc'[p] = "idle"
    BY <1>t, <1>6 DEF Rename, Remove, Leave, GoTo
  <2>2. ASSUME NEW q \in Procs, q # p
        PROVE  /\ pc'[q] = pc[q] /\ name'[q] = name[q] /\ written'[q] = written[q]
               /\ handle'[q] = handle[q]
               /\ pc[q] \in {"write", "rename"} => tmp'[name[q]] = tmp[name[q]]
    <3>1. name[p] # NoName
      BY <1>6 DEF Rename, Remove, Busy
    <3>2. name[q] # name[p]
      BY <2>2, <3>1, Alone
    <3>3. handle'[q] = handle[q]
      BY <1>t, <1>6, <2>2, <3>2 DEF Rename, Remove, Moved
    <3> QED BY <1>t, <1>n, <1>6, <2>2, <3>2, <3>3 DEF Rename, Remove, Leave, GoTo
  <2> QED BY <1>o, <2>1, <2>2, <2>3 DEF OwnPartial
<1>7. ASSUME NEW p \in Procs, Kill(p) \/ RemoveFails(p) PROVE OwnPartial'
  <2>1. handle'[p] = "none" /\ pc'[p] = "idle"
    BY <1>t, <1>7 DEF Kill, RemoveFails, Leave, GoTo
  <2>2. ASSUME NEW q \in Procs, q # p
        PROVE  /\ pc'[q] = pc[q] /\ name'[q] = name[q] /\ written'[q] = written[q]
               /\ handle'[q] = handle[q] /\ tmp' = tmp
    BY <1>t, <1>7, <2>2 DEF Kill, RemoveFails, Leave, GoTo, files
  <2> QED BY <1>o, <2>1, <2>2 DEF OwnPartial
<1>8. ASSUME NEW p \in Procs, NEW n \in Names, UnlinkFinal(p, n) PROVE OwnPartial'
  <2>1. UNCHANGED <<tmp, pc, name, written>> /\ handle' = Moved(n, "dest", "gone")
    BY <1>8 DEF UnlinkFinal
  <2>2. handle' = handle
    BY <1>t, <2>1 DEF Moved, OwnPartial
  <2> QED BY <2>1, <2>2 DEF OwnPartial
<1>9. ASSUME NEW p \in Procs, NEW n \in Names, UnlinkPartial(p, n) PROVE OwnPartial'
  <2>1. /\ UNCHANGED <<pc, name, written>> /\ handle' = Moved(n, "tmp", "gone")
        /\ tmp' = [tmp EXCEPT ![n] = NoFile]
    BY <1>9 DEF UnlinkPartial
  <2>2. ASSUME NEW q \in Procs PROVE handle'[q] # "dest"
    BY <1>t, <2>1 DEF Moved, OwnPartial
  <2>3. ASSUME NEW q \in Procs, pc[q] \in {"write", "rename"}, tmp'[name[q]].exists
        PROVE  handle'[q] = handle[q] /\ tmp'[name[q]] = tmp[name[q]]
    <3>1. name[q] # n
      BY <1>t, <1>n, <2>1, <2>3 DEF NoFile
    <3> QED BY <1>t, <1>n, <2>1, <2>3, <3>1 DEF Moved
  <2> QED BY <2>1, <2>2, <2>3 DEF OwnPartial
<1>10. ASSUME PowerFailure PROVE OwnPartial'
  BY <1>10 DEF PowerFailure, OwnPartial
<1>11. CASE UNCHANGED vars
  BY <1>11 DEF vars, files, OwnPartial
<1> QED
  BY <1>1, <1>2, <1>3, <1>4, <1>5, <1>6, <1>7, <1>8, <1>9, <1>10, <1>11 DEF Next

LEMMA InitHolds == Init => Busy /\ OwnPartial /\ Stored
BY NamesAssumption DEF Init, Busy, OwnPartial, Stored, NoFile

(* Type correctness, for any processes, documents and document size. *)
THEOREM CacheTypes == Spec => []TypeOK
<1>1. Init => TypeOK /\ Busy
  BY InitTypes, InitHolds
<1>2. TypeOK /\ Busy /\ [Next]_vars => TypeOK' /\ Busy'
  BY NextTypes, BusyNext
<1> QED BY <1>1, <1>2, PTL DEF Spec

(* When each document has one process that fetches it, what is stored under *)
(* its final name is whole, with any number of processes, documents and     *)
(* writes, whatever fails, is cleared or is killed, the machine included.   *)
THEOREM CachedDocumentsAreWhole ==
    ASSUME OneWriter PROVE Spec => []CachedIsWhole
<1>1. Init => Held
  BY InitTypes, InitHolds DEF Held
<1>2. Held /\ [Next]_vars => Held'
  BY NextTypes, BusyNext, OwnPartialNext, StoredNext DEF Held
<1>3. Held => CachedIsWhole
  BY DEF Held, Stored, CachedIsWhole
<1> QED BY <1>1, <1>2, <1>3, PTL DEF Spec

-----------------------------------------------------------------------------
LEMMA LeftoversNext ==
    TypeOK /\ Busy /\ Busy' /\ LeftoversAreOfCutWrites /\ [Next]_vars => LeftoversAreOfCutWrites'
<1> SUFFICES ASSUME TypeOK, Busy, LeftoversAreOfCutWrites, [Next]_vars,
                    NEW n \in Names, tmp'[n].exists
             PROVE  Writing(n)' \/ n \in cut'
  BY DEF LeftoversAreOfCutWrites
<1> DEFINE AtPartial(q) == name[q] = n /\ pc[q] \in {"write", "rename", "remove"}
<1>t. /\ pc \in [Procs -> {"idle", "create", "write", "rename", "remove", "clear"}]
      /\ name \in [Procs -> Names \cup {NoName}]
      /\ tmp \in [Names -> File]
  BY DEF TypeOK
(* A writer of n that the step leaves alone is a writer still. *)
<1>w. ASSUME tmp[n].exists, n \in cut => n \in cut',
             \A q \in Procs : AtPartial(q) =>
                 name'[q] = n /\ pc'[q] \in {"write", "rename", "remove"}
      PROVE  Writing(n)' \/ n \in cut'
  BY <1>w DEF LeftoversAreOfCutWrites, Writing
<1>1. ASSUME NEW p \in Procs, NEW m \in Names, Fetch(p, m) \/ Store(p, m)
      PROVE  Writing(n)' \/ n \in cut'
  BY <1>t, <1>w, <1>1 DEF Fetch, Store, GoTo, files
<1>2. ASSUME NEW p \in Procs, NEW m \in Names, UnlinkFinal(p, m) \/ UnlinkPartial(p, m)
      PROVE  Writing(n)' \/ n \in cut'
  BY <1>t, <1>w, <1>2 DEF UnlinkFinal, UnlinkPartial, NoFile
<1>3. ASSUME NEW p \in Procs, Create(p) PROVE Writing(n)' \/ n \in cut'
  <2>1. CASE name[p] = n
    BY <1>t, <1>3, <2>1 DEF Create, GoTo, Writing
  <2>2. CASE name[p] # n
    BY <1>t, <1>w, <1>3, <2>2 DEF Create, GoTo
  <2> QED BY <2>1, <2>2
<1>4. ASSUME NEW p \in Procs, Write(p) PROVE Writing(n)' \/ n \in cut'
  <2>1. tmp[n].exists
    BY <1>t, <1>4 DEF Write, Grown, File
  <2> QED BY <1>w, <1>4, <2>1 DEF Write
<1>5. ASSUME NEW p \in Procs, Sync(p) PROVE Writing(n)' \/ n \in cut'
  <2>1. tmp[n].exists
    BY <1>t, <1>5 DEF Sync, Synced, File
  <2> QED BY <1>t, <1>w, <1>5, <2>1 DEF Sync, GoTo
(* What renames or removes a .partial leaves none at that name. *)
<1>6. ASSUME NEW p \in Procs, Rename(p) \/ Remove(p) PROVE Writing(n)' \/ n \in cut'
  <2>1. name[p] \in Names
    BY <1>t, <1>6 DEF Rename, Remove, Busy
  <2>2. name[p] # n /\ tmp[n].exists
    BY <1>t, <1>6, <2>1 DEF Rename, Remove, NoFile
  <2>3. n \in cut => n \in cut'
    BY <1>6, <2>2 DEF Rename, Remove
  <2> QED BY <1>t, <1>w, <1>6, <2>2, <2>3 DEF Rename, Remove, Leave, GoTo
<1>7. ASSUME NEW p \in Procs, StepFails(p) \/ Clear(p) \/ ClearEnds(p)
      PROVE  Writing(n)' \/ n \in cut'
  BY <1>t, <1>w, <1>7 DEF StepFails, Clear, ClearEnds, GoTo, files
(* What leaves its .partial behind was at it, and is recorded as cut. *)
<1>8. ASSUME NEW p \in Procs, Kill(p) \/ RemoveFails(p) PROVE Writing(n)' \/ n \in cut'
  <2>1. CASE AtPartial(p)
    BY <1>8, <2>1 DEF Kill, RemoveFails
  <2>2. CASE ~ AtPartial(p)
    <3>1. tmp[n].exists /\ (n \in cut => n \in cut')
      BY <1>8 DEF Kill, RemoveFails, files
    <3>2. ASSUME NEW q \in Procs, AtPartial(q)
          PROVE  name'[q] = n /\ pc'[q] \in {"write", "rename", "remove"}
      BY <1>t, <1>8, <2>2, <3>2 DEF Kill, RemoveFails, Leave, GoTo
    <3> QED BY <1>w, <3>1, <3>2
  <2> QED BY <2>1, <2>2
<1>9. ASSUME PowerFailure PROVE Writing(n)' \/ n \in cut'
  <2>1. tmp[n].exists
    BY <1>t, <1>9 DEF PowerFailure, Survivor
  <2>2. Writing(n) \/ n \in cut
    BY <2>1 DEF LeftoversAreOfCutWrites
  <2>3. cut' = cut \cup {m \in Names : Writing(m)}
    BY <1>9 DEF PowerFailure
  <2> QED BY <2>2, <2>3
<1>10. CASE UNCHANGED vars
  BY <1>w, <1>10 DEF vars, files
<1> QED BY <1>1, <1>2, <1>3, <1>4, <1>5, <1>6, <1>7, <1>8, <1>9, <1>10 DEF Next

(* For any number of writers of one document, a .partial that no process is *)
(* at is of a document whose last write was killed, lost its power or could *)
(* not remove it: what stored a document or cleaned up after itself left    *)
(* none, its own or another's.                                              *)
THEOREM OnlyCutWritesLeavePartials == Spec => []LeftoversAreOfCutWrites
<1> DEFINE Inv == TypeOK /\ Busy /\ LeftoversAreOfCutWrites
<1>1. Init => Inv
  BY InitTypes, InitHolds DEF Init, LeftoversAreOfCutWrites, NoFile
<1>2. Inv /\ [Next]_vars => Inv'
  BY NextTypes, BusyNext, LeftoversNext
<1>3. Inv => LeftoversAreOfCutWrites
  OBVIOUS
<1> HIDE DEF Inv
<1> QED BY <1>1, <1>2, <1>3, PTL DEF Spec

-----------------------------------------------------------------------------
(***************************************************************************)
(* A listing that is paged through while rows are added in front of it     *)
(* misses none of the rows it began with.                                  *)
(***************************************************************************)

Rows(s) == {s[i] : i \in DOMAIN s}

(* How many places of the listing the pages answered so far stand for. *)
Asked == (page - 1) * PerPage

PagesTypeOK ==
    /\ rows \in Seq(Nat) /\ got \in Seq(Nat) /\ buffered \in Seq(Nat)
    /\ atStart \in Nat /\ page \in Nat \ {0} /\ pagesDone \in BOOLEAN
    /\ attempt \in Nat /\ slept \in Nat
    /\ result \in {"running", "end", "error"}

(* The newest row stands first, and rows are only ever added. *)
NewestFirst ==
    /\ atStart <= Len(rows)
    /\ \A i \in 1..Len(rows) : rows[i] = Len(rows) + 1 - i

(* Adding a row moves the others down, never up past the pages asked for:   *)
(* of the first listing what stands in those places has been read.          *)
Reached ==
    /\ \A v \in 1..atStart : v > Len(rows) - Asked => v \in Rows(got) \cup Rows(buffered)
    /\ pagesDone /\ result # "error" => 1..atStart \subseteq Rows(got) \cup Rows(buffered)
    /\ result = "end" => buffered = << >> /\ pagesDone

(* No place is read twice. *)
NoMoreThanAsked ==
    /\ Len(got) + Len(buffered) <= Len(rows)
    /\ Len(got) + Len(buffered) <= Asked

(* Each retry has slept for no longer than the client puts up with. *)
SleptPerAttempt == attempt <= MaxRetries /\ slept <= attempt * MaxWait

PagesInv == PagesTypeOK /\ NewestFirst /\ Reached /\ NoMoreThanAsked /\ SleptPerAttempt

(* The backoff doubles from one second to 64 and stays there. *)
LEMMA BackoffType ==
    ASSUME NEW n \in Nat
    PROVE  Backoff(n) \in Nat
BY DEF Backoff

(* As many pages as openFEC counts cover the rows. *)
LEMMA PagesCover ==
    ASSUME NEW n \in Nat, NEW size \in Nat \ {0}, NEW p \in Nat,
           p >= (n + size - 1) \div size
    PROVE  n <= p * size
<1> DEFINE x == n + size - 1
           q == x \div size
<1>1. x \in Nat /\ q \in Nat
  OBVIOUS
<1>2. x = q * size + (x % size) /\ x % size \in 0..(size - 1)
  BY <1>1
<1>3. q * size <= p * size
  BY <1>1
<1> QED BY <1>1, <1>2, <1>3

-----------------------------------------------------------------------------
(* The page at hand: the next PerPage places of the listing, as far as it   *)
(* goes; where there is no page after it, it goes to the end.               *)
LEMMA PageRows ==
    ASSUME PagesInv
    PROVE  /\ Results(page) \in Seq(Nat)
           /\ Len(Results(page)) <= PerPage
           /\ Results(page) # << >> => Len(Results(page)) + Asked <= Len(rows)
           /\ \A v \in 1..Len(rows) :
                 /\ v <= Len(rows) - Asked
                 /\ v > Len(rows) - Asked - PerPage \/ LastPage(page)
                 => v \in Rows(Results(page))
<1> DEFINE n == Len(rows)
           a == Asked
           count == IF n - a < PerPage THEN (IF n > a THEN n - a ELSE 0) ELSE PerPage
<1>1. n \in Nat /\ a \in Nat /\ PerPage \in Nat \ {0} /\ count \in Nat
  <2>1. page - 1 \in Nat /\ PerPage \in Nat \ {0}
    BY PagesAssumption DEF PagesInv, PagesTypeOK
  <2>2. a \in Nat
    BY <2>1 DEF Asked
  <2>3. n \in Nat
    BY LenProperties DEF PagesInv, PagesTypeOK
  <2> HIDE DEF n, a
  <2> QED BY <2>1, <2>2, <2>3
<1>2. Results(page) = [i \in 1..count |-> rows[a + i]]
  BY DEF Results, Asked
<1>3. \A i \in 1..count : a + i \in 1..n
  <2> HIDE DEF n, a
  <2> QED BY <1>1
<1>4. \A i \in 1..count : rows[a + i] = n + 1 - (a + i) /\ rows[a + i] \in Nat
  <2> HIDE DEF n, a, count
  <2>1. \A j \in 1..n : rows[j] = n + 1 - j
    BY DEF PagesInv, NewestFirst, n
  <2> QED BY <1>1, <1>3, <2>1
<1> HIDE DEF n, a, count
<1>5. Results(page) \in Seq(Nat) /\ Len(Results(page)) = count
  BY <1>1, <1>2, <1>4
<1>6. count <= PerPage /\ (count # 0 => count + a <= n)
  BY <1>1 DEF count
<1>7. LastPage(page) => n <= a + PerPage
  <2>1. CASE Results(page) = << >>
    BY <1>1, <1>5, <2>1 DEF count
  <2>2. CASE ~ HasMore(page)
    <3>1. page >= (n + PerPage - 1) \div PerPage
      BY <1>1, <2>2 DEF HasMore, Pages, n, PagesInv, PagesTypeOK
    <3>2. n <= page * PerPage
      BY <1>1, <3>1, PagesCover DEF PagesInv, PagesTypeOK
    <3>3. page * PerPage = a + PerPage
      BY <1>1 DEF a, Asked, PagesInv, PagesTypeOK
    <3> QED BY <3>2, <3>3
  <2> QED BY <2>1, <2>2 DEF LastPage
<1>8. ASSUME NEW v \in 1..n, v <= n - a, v > n - a - PerPage
      PROVE  v \in Rows(Results(page))
  <2>1. n + 1 - a - v \in 1..count
    BY <1>1, <1>8 DEF count
  <2>2. rows[a + (n + 1 - a - v)] = v
    BY <1>1, <1>4, <2>1
  <2> QED BY <1>2, <2>1, <2>2 DEF Rows
<1>9. LastPage(page) => \A v \in 1..n : v > n - a - PerPage
  BY <1>1, <1>7
<1> QED BY <1>5, <1>6, <1>8, <1>9 DEF n, a

-----------------------------------------------------------------------------
(* Every step keeps the invariant. *)
LEMMA RowsOfAppended ==
    ASSUME NEW s \in Seq(Nat), NEW t \in Seq(Nat), t # << >>
    PROVE  /\ Append(s, t[1]) \in Seq(Nat) /\ Tail(t) \in Seq(Nat)
           /\ Len(Append(s, t[1])) + Len(Tail(t)) = Len(s) + Len(t)
           /\ Rows(s) \cup Rows(t) \subseteq Rows(Append(s, t[1])) \cup Rows(Tail(t))
<1>1. t[1] \in Nat /\ Len(t) \in Nat \ {0} /\ Len(s) \in Nat
  OBVIOUS
<1>2. Len(Append(s, t[1])) = Len(s) + 1 /\ Len(Tail(t)) = Len(t) - 1
  BY <1>1
<1>3. \A i \in 1..Len(s) : Append(s, t[1])[i] = s[i]
  OBVIOUS
<1>4. Append(s, t[1])[Len(s) + 1] = t[1]
  OBVIOUS
<1>5. \A i \in 2..Len(t) : i - 1 \in 1..Len(t) - 1 /\ Tail(t)[i - 1] = t[i]
  BY <1>1
<1>6. Rows(s) \subseteq Rows(Append(s, t[1]))
  BY <1>1, <1>2, <1>3 DEF Rows
<1>7. Rows(t) \subseteq Rows(Append(s, t[1])) \cup Rows(Tail(t))
  <2>1. ASSUME NEW q \in Seq(Nat) PROVE Rows(q) = {q[i] : i \in 1..Len(q)}
    <3>1. DOMAIN q = 1..Len(q)
      OBVIOUS
    <3> QED BY <3>1, Zenon DEF Rows
  <2>2. Append(s, t[1]) \in Seq(Nat) /\ Tail(t) \in Seq(Nat)
    BY <1>1
  <2>3. t[1] \in Rows(Append(s, t[1]))
    <3>1. Len(s) + 1 \in 1..Len(Append(s, t[1]))
      BY <1>1, <1>2
    <3> QED BY <1>4, <2>1, <2>2, <3>1
  <2>4. ASSUME NEW i \in 2..Len(t) PROVE t[i] \in Rows(Tail(t))
    <3>1. i - 1 \in 1..Len(Tail(t)) /\ Tail(t)[i - 1] = t[i]
      BY <1>1, <1>2, <1>5
    <3> QED BY <2>1, <2>2, <3>1
  <2>5. \A i \in 1..Len(t) : i = 1 \/ i \in 2..Len(t)
    BY <1>1
  <2> QED BY <2>1, <2>3, <2>4, <2>5
<1> QED BY <1>1, <1>2, <1>6, <1>7

LEMMA InitPages == PagesInit => PagesInv
<1> SUFFICES ASSUME PagesInit PROVE PagesInv
  OBVIOUS
<1>1. atStart \in Nat /\ rows = [i \in 1..atStart |-> atStart + 1 - i]
  BY PagesAssumption DEF PagesInit
<1>2. rows \in Seq(Nat) /\ Len(rows) = atStart
  BY <1>1
<1>3. Asked = 0 * PerPage
  BY DEF PagesInit, Asked
<1>4. Asked = 0
  BY <1>3, PagesAssumption
<1>5. PagesTypeOK
  <2>1. /\ page = 1 /\ buffered = << >> /\ pagesDone = FALSE
        /\ attempt = 0 /\ slept = 0 /\ got = << >> /\ result = "running"
    BY DEF PagesInit
  <2>2. atStart \in Nat
    BY <1>1
  <2>3. page \in Nat \ {0} /\ attempt \in Nat /\ slept \in Nat
    BY <2>1
  <2>4. pagesDone \in BOOLEAN
    BY <2>1
  <2>5. buffered \in Seq(Nat) /\ got \in Seq(Nat)
    BY <2>1
  <2>6. result \in {"running", "end", "error"}
    BY <2>1
  <2> QED BY <1>2, <2>2, <2>3, <2>4, <2>5, <2>6 DEF PagesTypeOK
<1>6. NewestFirst
  BY <1>1, <1>2 DEF NewestFirst
<1>7. Reached /\ NoMoreThanAsked
  BY <1>1, <1>2, <1>4 DEF PagesInit, Reached, NoMoreThanAsked
<1>8. SleptPerAttempt
  BY RetryAssumption DEF PagesInit, SleptPerAttempt
<1> QED BY <1>5, <1>6, <1>7, <1>8 DEF PagesInv

LEMMA NextPages == PagesInv /\ [PagesNext]_pagesVars => PagesInv'
<1> SUFFICES ASSUME PagesInv, [PagesNext]_pagesVars PROVE PagesInv'
  OBVIOUS
<1> USE DEF PagesInv
<1>1. /\ Len(rows) \in Nat /\ Len(got) \in Nat /\ Len(buffered) \in Nat
      /\ PerPage \in Nat \ {0} /\ Asked \in Nat
  <2>1. page - 1 \in Nat /\ PerPage \in Nat \ {0}
    BY PagesAssumption DEF PagesTypeOK
  <2> QED BY <2>1 DEF Asked, PagesTypeOK
<1>2. CASE AddRow
  <2>1. /\ rows' = <<Len(rows) + 1>> \o rows
        /\ UNCHANGED <<atStart, page, buffered, pagesDone, attempt, slept, got, result>>
    BY <1>2 DEF AddRow
  <2>2. rows' \in Seq(Nat) /\ Len(rows') = Len(rows) + 1
    BY <1>1, <2>1 DEF PagesTypeOK
  <2>3. \A i \in 1..Len(rows') : rows'[i] = Len(rows') + 1 - i
    <3> SUFFICES ASSUME NEW i \in 1..Len(rows') PROVE rows'[i] = Len(rows') + 1 - i
      OBVIOUS
    <3>1. CASE i = 1
      BY <1>1, <2>1, <2>2, <3>1 DEF PagesTypeOK
    <3>2. CASE i # 1
      <4>1. rows'[i] = rows[i - 1] /\ i - 1 \in 1..Len(rows)
        BY <1>1, <2>1, <2>2, <3>2 DEF PagesTypeOK
      <4> QED BY <1>1, <2>2, <4>1 DEF NewestFirst
    <3> QED BY <3>1, <3>2
  <2>4. Asked' = Asked
    BY <2>1 DEF Asked
  <2>5. PagesTypeOK' /\ SleptPerAttempt'
    BY <2>1, <2>2 DEF PagesTypeOK, SleptPerAttempt
  <2>6. NewestFirst' /\ NoMoreThanAsked'
    BY <1>1, <2>1, <2>2, <2>3, <2>4 DEF NewestFirst, NoMoreThanAsked, PagesTypeOK
  <2>7. Reached'
    BY <1>1, <2>1, <2>2, <2>4 DEF Reached, PagesTypeOK
  <2> QED BY <2>5, <2>6, <2>7
<1>3. CASE Answer
  <2> DEFINE more == Results(page)
  <2>1. /\ more \in Seq(Nat) /\ Len(more) <= PerPage
        /\ more # << >> => Len(more) + Asked <= Len(rows)
        /\ \A v \in 1..Len(rows) :
              v <= Len(rows) - Asked /\ (v > Len(rows) - Asked - PerPage \/ LastPage(page))
              => v \in Rows(more)
    BY PageRows
  <2>2. /\ buffered = << >> /\ result = "running" /\ ~ pagesDone
        /\ pagesDone' = LastPage(page) /\ buffered' = more /\ page' = page + 1
        /\ result' = (IF more = << >> THEN "end" ELSE "running")
        /\ attempt' = 0 /\ slept' = 0
        /\ UNCHANGED <<rows, atStart, got>>
    BY <1>3 DEF Answer, Asking
  <2>3. Asked' = Asked + PerPage
    BY <1>1, <2>2 DEF Asked, PagesTypeOK
  <2>4. LastPage(page) \in BOOLEAN /\ (more = << >> => LastPage(page))
    BY DEF LastPage
  <2> HIDE DEF more
  <2>5. PagesTypeOK' /\ NewestFirst'
    BY <2>1, <2>2, <2>4 DEF PagesTypeOK, NewestFirst
  <2>6. SleptPerAttempt'
    BY <2>2, RetryAssumption DEF SleptPerAttempt
  <2>7. Rows(buffered) = {}
    BY <2>2 DEF Rows
  <2>8. Rows(got)' = Rows(got) /\ Rows(buffered)' = Rows(more)
    BY <2>2 DEF Rows
  <2>9. ASSUME NEW v \in 1..atStart, v > Len(rows) - Asked - PerPage \/ LastPage(page)
        PROVE  v \in Rows(got) \cup Rows(more)
    <3>1. v \in 1..Len(rows)
      BY <1>1 DEF NewestFirst, PagesTypeOK
    <3>2. CASE v > Len(rows) - Asked
      BY <2>7, <3>2 DEF Reached
    <3>3. CASE v <= Len(rows) - Asked
      BY <2>1, <2>9, <3>1, <3>3
    <3> QED BY <1>1, <3>1, <3>2, <3>3
  <2>10. Reached'
    BY <1>1, <2>2, <2>3, <2>4, <2>8, <2>9 DEF Reached, PagesTypeOK
  <2>11. NoMoreThanAsked'
    <3>1. Len(got) <= Len(rows) /\ Len(got) <= Asked /\ Len(more) \in Nat
      BY <1>1, <2>1, <2>2 DEF NoMoreThanAsked
    <3>2. more = << >> => Len(more) = 0
      OBVIOUS
    <3> QED BY <1>1, <2>1, <2>2, <2>3, <3>1, <3>2 DEF NoMoreThanAsked
  <2> QED BY <2>5, <2>6, <2>10, <2>11
<1>4. CASE RateLimited
  <2>1. /\ Asking
        /\ UNCHANGED <<rows, atStart, page, buffered, got>>
        /\ \/ \E wait \in Nat : /\ attempt < MaxRetries /\ wait <= MaxWait
                                /\ attempt' = attempt + 1 /\ slept' = slept + wait
                                /\ UNCHANGED <<pagesDone, result>>
           \/ pagesDone' = TRUE /\ result' = "error" /\ UNCHANGED <<attempt, slept>>
    <3>1. \A after \in Waits : (IF after = 0 THEN Backoff(attempt) ELSE after) \in Nat
      BY RetryAssumption, BackoffType DEF PagesTypeOK
    <3> QED BY <1>4, <3>1 DEF RateLimited, Retried
  <2>2. Asked' = Asked
    BY <2>1 DEF Asked
  <2>3. PagesTypeOK' /\ NewestFirst' /\ NoMoreThanAsked'
    <3>1. attempt' \in Nat /\ slept' \in Nat
      BY <2>1 DEF PagesTypeOK
    <3>2. pagesDone' \in BOOLEAN /\ result' \in {"running", "end", "error"}
      BY <2>1 DEF PagesTypeOK
    <3> QED BY <2>1, <2>2, <3>1, <3>2 DEF PagesTypeOK, NewestFirst, NoMoreThanAsked
  <2>4. Reached'
    BY <2>1, <2>2 DEF Reached, Asking, Rows
  <2>5. SleptPerAttempt'
    <3>1. (attempt + 1) * MaxWait = attempt * MaxWait + MaxWait /\ attempt * MaxWait \in Nat
      BY RetryAssumption DEF PagesTypeOK
    <3> QED BY <2>1, <3>1, RetryAssumption DEF SleptPerAttempt, PagesTypeOK
  <2> QED BY <2>3, <2>4, <2>5
<1>5. CASE RequestFails
  <2>1. Asked' = Asked
    BY <1>5 DEF RequestFails, Asked
  <2>2. PagesTypeOK' /\ NewestFirst' /\ NoMoreThanAsked' /\ SleptPerAttempt'
    BY <1>5, <2>1 DEF RequestFails, PagesTypeOK, NewestFirst, NoMoreThanAsked, SleptPerAttempt
  <2>3. Reached'
    BY <1>5, <2>1 DEF RequestFails, Asking, Reached, Rows
  <2> QED BY <2>2, <2>3
<1>6. CASE HandOut
  <2>1. Asked' = Asked /\ UNCHANGED <<rows, atStart, page, pagesDone, attempt, slept>>
    BY <1>6 DEF HandOut, Asked
  <2>2. CASE buffered # << >>
    <3>1. got' = Append(got, buffered[1]) /\ buffered' = Tail(buffered) /\ result' = result
      BY <1>6, <2>2 DEF HandOut
    <3>2. /\ got' \in Seq(Nat) /\ buffered' \in Seq(Nat)
          /\ Len(got') + Len(buffered') = Len(got) + Len(buffered)
          /\ Rows(got) \cup Rows(buffered) \subseteq Rows(got') \cup Rows(buffered')
      BY <2>2, <3>1, RowsOfAppended DEF PagesTypeOK
    <3>3. PagesTypeOK' /\ NewestFirst' /\ NoMoreThanAsked' /\ SleptPerAttempt'
      BY <2>1, <3>1, <3>2 DEF PagesTypeOK, NewestFirst, NoMoreThanAsked, SleptPerAttempt
    <3>4. Reached'
      BY <1>6, <2>1, <3>1, <3>2 DEF HandOut, Reached
    <3> QED BY <3>3, <3>4
  <2>3. CASE buffered = << >>
    <3>1. pagesDone /\ result' = "end" /\ result = "running" /\ UNCHANGED <<got, buffered>>
      BY <1>6, <2>3 DEF HandOut
    <3>2. PagesTypeOK' /\ NewestFirst' /\ NoMoreThanAsked' /\ SleptPerAttempt'
      BY <2>1, <3>1 DEF PagesTypeOK, NewestFirst, NoMoreThanAsked, SleptPerAttempt
    <3>3. Reached'
      BY <2>1, <2>3, <3>1 DEF Reached, Rows
    <3> QED BY <3>2, <3>3
  <2> QED BY <2>2, <2>3
<1>7. CASE UNCHANGED pagesVars
  BY <1>7 DEF pagesVars, PagesTypeOK, NewestFirst, Reached, NoMoreThanAsked, SleptPerAttempt,
              Asked, Rows
<1> QED BY <1>2, <1>3, <1>4, <1>5, <1>6, <1>7 DEF PagesNext

(* A listing read to its end has every row it began with, none more often   *)
(* than rows were added, and each request of it was retried a bounded       *)
(* number of times for a bounded time: for any page size, any retry limits  *)
(* and any additions while it is read.                                      *)
THEOREM ListingsAreRead == PagesSpec => []ListingIsRead
<1>1. PagesInv => ListingIsRead
  <2> SUFFICES ASSUME PagesInv PROVE ListingIsRead
    OBVIOUS
  <2>1. NoRowMissed
    <3> SUFFICES ASSUME result = "end"
                 PROVE  1..atStart \subseteq GotRows /\ Len(got) <= Len(rows)
      BY DEF NoRowMissed
    <3>1. buffered = << >> /\ 1..atStart \subseteq Rows(got) \cup Rows(buffered)
      BY DEF PagesInv, Reached
    <3>2. Len(buffered) = 0 /\ Rows(buffered) = {} /\ Rows(got) = GotRows
      BY <3>1 DEF Rows, GotRows
    <3> QED BY <3>1, <3>2 DEF PagesInv, NoMoreThanAsked, PagesTypeOK
  <2>2. RetriesAreBounded
    <3>1. attempt * MaxWait <= MaxRetries * MaxWait
      BY RetryAssumption DEF PagesInv, PagesTypeOK, SleptPerAttempt
    <3>2. attempt * MaxWait \in Int /\ MaxRetries * MaxWait \in Int /\ slept \in Int
      BY RetryAssumption DEF PagesInv, PagesTypeOK
    <3>3. attempt <= MaxRetries /\ slept <= attempt * MaxWait
      BY DEF PagesInv, SleptPerAttempt
    <3> QED BY <3>1, <3>2, <3>3 DEF RetriesAreBounded
  <2> QED BY <2>1, <2>2 DEF ListingIsRead
<1> QED BY <1>1, InitPages, NextPages, PTL DEF PagesSpec

=============================================================================
