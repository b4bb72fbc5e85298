---------------------------- MODULE FilingCache ----------------------------
(***************************************************************************)
(* The download cache (fec::cache), shared by processes that know nothing  *)
(* of each other: `efile watch`, `efile backfill`, `filings` and           *)
(* `efile cache-clear`, each file operation one step.                      *)
(*                                                                         *)
(* The file system is external to the code (POSIX): an open file stays the *)
(* same file when it is renamed, unlinked or opened by someone else, and   *)
(* opening it with truncation empties it for everyone; rename is atomic;   *)
(* a power failure keeps what was synced and any part of the rest.         *)
(*                                                                         *)
(* A filing never changes once posted, so what a file holds is the set of  *)
(* its document's pieces that are in place.                                *)
(***************************************************************************)
EXTENDS Integers

CONSTANTS Procs,       \* processes
          Names,       \* final names: filings/<id>.fec, efile/YYYYMMDD.zip
          Pieces,      \* writes it takes to store one document
          MayFetch,    \* the names each process fetches
          NoName       \* no name

ASSUME PiecesAssumption == Pieces \in Nat \ {0}
ASSUME NamesAssumption == NoName \notin Names
ASSUME MayFetchAssumption == MayFetch \in [Procs -> SUBSET Names]

VARIABLES
    dest,       \* the files under their final names
    tmp,        \* the files under their .partial names
    pc,         \* what each process does next
    name,       \* the name it works on
    handle,     \* where the file it has open is now
    written,    \* pieces it has written
    cut         \* the names whose last write was stopped before it could clean up (history)

files == <<dest, tmp>>
vars  == <<files, pc, name, handle, written, cut>>

Document == 1..Pieces
File     == [exists : BOOLEAN, data : SUBSET Document, synced : SUBSET Document]
NoFile   == [exists |-> FALSE, data |-> {}, synced |-> {}]
NewFile  == [exists |-> TRUE, data |-> {}, synced |-> {}]

Init ==
    /\ dest = [n \in Names |-> NoFile]
    /\ tmp = [n \in Names |-> NoFile]
    /\ pc = [p \in Procs |-> "idle"]
    /\ name = [p \in Procs |-> NoName]
    /\ handle = [p \in Procs |-> "none"]
    /\ written = [p \in Procs |-> 0]
    /\ cut = {}

-----------------------------------------------------------------------------
(* The files p has open move with the names: from "tmp" to "dest", and to  *)
(* "gone" when nothing names them any more.                                *)
Moved(n, from, to) ==
    [q \in Procs |-> IF name[q] = n /\ handle[q] = from THEN to ELSE handle[q]]

(* Who has been at the .partial of n and has yet to rename or remove it. *)
Writing(n) == \E p \in Procs : name[p] = n /\ pc[p] \in {"write", "rename", "remove"}

GoTo(p, label) == pc' = [pc EXCEPT ![p] = label]

(* Back to idle; the file is closed. *)
Leave(p) ==
    /\ GoTo(p, "idle")
    /\ name' = [name EXCEPT ![p] = NoName]
    /\ written' = [written EXCEPT ![p] = 0]

(* fetch_filing_bytes_with, daily_zip_filings_with: nothing to do when the  *)
(* file is there, otherwise a download, which may fail or answer HTML.      *)
Fetch(p, n) ==
    /\ pc[p] = "idle"
    /\ n \in MayFetch[p]
    /\ ~ dest[n].exists
    /\ name' = [name EXCEPT ![p] = n]
    /\ GoTo(p, "create")
    /\ UNCHANGED <<files, handle, written, cut>>

(* backfill writes what it read from the daily archive without looking.     *)
Store(p, n) ==
    /\ pc[p] = "idle"
    /\ n \in MayFetch[p]
    /\ name' = [name EXCEPT ![p] = n]
    /\ GoTo(p, "create")
    /\ UNCHANGED <<files, handle, written, cut>>

(* File::create: a new file, or the old one emptied. *)
Create(p) ==
    /\ pc[p] = "create"
    /\ tmp' = [tmp EXCEPT ![name[p]] = NewFile]
    /\ handle' = [handle EXCEPT ![p] = "tmp"]
    /\ GoTo(p, "write")
    /\ UNCHANGED <<dest, name, written, cut>>

Grown(file, piece) == [file EXCEPT !.data = @ \cup {piece}]

(* One write of write_all or io::copy, at p's own offset, to the file it    *)
(* has open, wherever that is by now.                                       *)
Write(p) ==
    LET n == name[p] IN
    /\ pc[p] = "write" /\ written[p] < Pieces
    /\ written' = [written EXCEPT ![p] = @ + 1]
    /\ tmp' = IF handle[p] = "tmp" THEN [tmp EXCEPT ![n] = Grown(@, written[p] + 1)] ELSE tmp
    /\ dest' = IF handle[p] = "dest" THEN [dest EXCEPT ![n] = Grown(@, written[p] + 1)] ELSE dest
    /\ UNCHANGED <<pc, name, handle, cut>>

Synced(file) == [file EXCEPT !.synced = file.data]

(* Mutant of Sync: the data is left in the page cache. *)
SyncForgotten(p) ==
    /\ pc[p] = "write" /\ written[p] = Pieces
    /\ GoTo(p, "rename")
    /\ UNCHANGED <<files, name, handle, written, cut>>

(* sync_all. *)
Sync(p) ==
    LET n == name[p] IN
    /\ pc[p] = "write" /\ written[p] = Pieces
    /\ tmp' = IF handle[p] = "tmp" THEN [tmp EXCEPT ![n] = Synced(@)] ELSE tmp
    /\ dest' = IF handle[p] = "dest" THEN [dest EXCEPT ![n] = Synced(@)] ELSE dest
    /\ GoTo(p, "rename")
    /\ UNCHANGED <<name, handle, written, cut>>

(* What is at the .partial name by now replaces the final name. *)
Rename(p) ==
    LET n == name[p] IN
    /\ pc[p] = "rename"
    /\ tmp[n].exists
    /\ dest' = [dest EXCEPT ![n] = tmp[n]]
    /\ tmp' = [tmp EXCEPT ![n] = NoFile]
    /\ handle' = [q \in Procs |->
                    IF q = p THEN "none"
                    ELSE IF name[q] # n \/ handle[q] \notin {"tmp", "dest"} THEN handle[q]
                    ELSE IF handle[q] = "tmp" THEN "dest" ELSE "gone"]
    /\ Leave(p)
    /\ cut' = cut \ {n}

(* Create, write, sync or rename returns an error. *)
StepFails(p) ==
    /\ pc[p] \in {"create", "write", "rename"}
    /\ GoTo(p, "remove")
    /\ UNCHANGED <<files, name, handle, written, cut>>

(* Mutant of Remove: an error leaves the .partial behind. *)
RemoveForgotten(p) ==
    /\ pc[p] = "remove"
    /\ handle' = [handle EXCEPT ![p] = "none"]
    /\ Leave(p)
    /\ UNCHANGED <<files, cut>>

(* The error path removes the .partial, whoever's it is. *)
Remove(p) ==
    /\ pc[p] = "remove"
    /\ tmp' = [tmp EXCEPT ![name[p]] = NoFile]
    /\ handle' = [Moved(name[p], "tmp", "gone") EXCEPT ![p] = "none"]
    /\ Leave(p)
    /\ cut' = cut \ {name[p]}
    /\ UNCHANGED dest

(* The removal itself fails; the error path ignores that it does.          *)
RemoveFails(p) ==
    /\ pc[p] = "remove"
    /\ handle' = [handle EXCEPT ![p] = "none"]
    /\ Leave(p)
    /\ cut' = cut \cup {name[p]}
    /\ UNCHANGED files

-----------------------------------------------------------------------------
(* cache-clear: remove_dir_all unlinks what it finds, one file at a time,   *)
(* and may stop early with an error.                                        *)
Clear(p) ==
    /\ pc[p] = "idle"
    /\ GoTo(p, "clear")
    /\ UNCHANGED <<files, name, handle, written, cut>>

UnlinkFinal(p, n) ==
    /\ pc[p] = "clear"
    /\ dest[n].exists
    /\ dest' = [dest EXCEPT ![n] = NoFile]
    /\ handle' = Moved(n, "dest", "gone")
    /\ UNCHANGED <<tmp, pc, name, written, cut>>

UnlinkPartial(p, n) ==
    /\ pc[p] = "clear"
    /\ tmp[n].exists
    /\ tmp' = [tmp EXCEPT ![n] = NoFile]
    /\ handle' = Moved(n, "tmp", "gone")
    /\ UNCHANGED <<dest, pc, name, written, cut>>

ClearEnds(p) ==
    /\ pc[p] = "clear"
    /\ GoTo(p, "idle")
    /\ UNCHANGED <<files, name, handle, written, cut>>

-----------------------------------------------------------------------------
(* The process is killed: nothing is cleaned up. *)
Kill(p) ==
    /\ pc[p] # "idle"
    /\ handle' = [handle EXCEPT ![p] = "none"]
    /\ Leave(p)
    /\ cut' = IF pc[p] \in {"write", "rename", "remove"} THEN cut \cup {name[p]} ELSE cut
    /\ UNCHANGED files

(* A file after a power failure: what was synced, and any of the rest. *)
Survivor(file, lost) ==
    LET left == file.data \ (lost \ file.synced)
    IN  [exists |-> file.exists, data |-> left, synced |-> left]

PowerFailure ==
    /\ \E lost, lostTmp \in [Names -> SUBSET Document] :
          /\ dest' = [n \in Names |-> Survivor(dest[n], lost[n])]
          /\ tmp' = [n \in Names |-> Survivor(tmp[n], lostTmp[n])]
    /\ pc' = [p \in Procs |-> "idle"]
    /\ name' = [p \in Procs |-> NoName]
    /\ handle' = [p \in Procs |-> "none"]
    /\ written' = [p \in Procs |-> 0]
    /\ cut' = cut \cup {n \in Names : Writing(n)}

Next ==
    \/ \E p \in Procs :
          \/ \E n \in Names : Fetch(p, n) \/ Store(p, n) \/ UnlinkFinal(p, n) \/ UnlinkPartial(p, n)
          \/ Create(p) \/ Write(p) \/ Sync(p) \/ Rename(p) \/ StepFails(p) \/ Remove(p) \/ RemoveFails(p)
          \/ Clear(p) \/ ClearEnds(p) \/ Kill(p)
    \/ PowerFailure

Spec == Init /\ [][Next]_vars

-----------------------------------------------------------------------------
TypeOK ==
    /\ dest \in [Names -> File]
    /\ tmp \in [Names -> File]
    /\ pc \in [Procs -> {"idle", "create", "write", "rename", "remove", "clear"}]
    /\ name \in [Procs -> Names \cup {NoName}]
    /\ handle \in [Procs -> {"none", "tmp", "dest", "gone"}]
    /\ written \in [Procs -> 0..Pieces]
    /\ cut \subseteq Names

(* A document under its final name is whole, whatever was killed and when:  *)
(* "an interrupted download never leaves a truncated file that a later run  *)
(* would trust" (the module comment of fec::cache).                         *)
CachedIsWhole == \A n \in Names : dest[n].exists => dest[n].data = Document

(* A .partial that nobody is at was left by the last write of its document,  *)
(* killed, lost to a power failure or unable to remove it: a write that     *)
(* stored its document, or failed and cleaned up, leaves none behind, not   *)
(* even one that an earlier write had left (write_atomically).              *)
LeftoversAreOfCutWrites == \A n \in Names : tmp[n].exists => Writing(n) \/ n \in cut

(* The workload in which a document is fetched by one process only. *)
OneWriter == \A p, q \in Procs : p # q => MayFetch[p] \cap MayFetch[q] = {}
=============================================================================
