---------------------------- MODULE FilingTools ----------------------------
(***************************************************************************)
(* The filing tools of the server, /tools/*: parse a posted filing or one  *)
(* fetched from the FEC, and validate, reconcile or write a document, the  *)
(* JSON form of a filing that the page edits.                              *)
(*                                                                         *)
(* Fetches share a few slots and run on threads of their own; a request    *)
(* that times out is dropped, the thread it started is not.                *)
(***************************************************************************)
EXTENDS SpecTools

CONSTANTS ToolFiles,  \* files: [bytes, declared, html, json, version, records : Seq([table, cells])]
          WithRules,  \* cover tables that reconcile
          BodyCap, Slots, Chunk,
          Null, NotAString,
          ToolsSessions \* bounds: [fetches, posts, edits]

VARIABLES tools,      \* the bounds of this behaviour
          fetches,    \* requests to fetch: file, phase, status
          downloads,  \* fetch -> bytes its thread has read
          documents,  \* what clients hold: of (a file), read (bytes of it), doc, edited
          lastSent,   \* the last document sent: index, route, answer (history)
          edits

toolsVars == <<tools, fetches, downloads, documents, lastSent, edits>>
-----------------------------------------------------------------------------
(* Documents.                                                               *)

Fields(table, version) ==
    LET fields == InOrder(LayoutAt(table, version)) IN [i \in DOMAIN fields |-> fields[i].name]
FieldsAt(table, version) == FieldNames(LayoutAt(table, version))
TokenField(table, version) == TokenFieldOf(LayoutAt(table, version))

\* A parsed line serialises every field of its layout.
LineJson(r, version) ==
    [table |-> r.table,
     fields |-> [f \in FieldsAt(r.table, version) |->
                    r.cells[CHOOSE i \in DOMAIN r.cells : Fields(r.table, version)[i] = f]]]

Document(file) ==
    [version |-> file.version, header |-> file.version, json |-> file.json,
     lines |-> [i \in DOMAIN file.records |-> LineJson(file.records[i], file.version)]]

Value(l, f) == IF f \notin DOMAIN l.fields \/ l.fields[f] = Null THEN "" ELSE l.fields[f]

\* written_cells: a lower bound on the bytes the document would write to.
WrittenCells(doc) ==
    FoldSeq(LAMBDA l, n : n + IF l.table \in Tables /\ SupportsVersion(l.table, doc.version)
                                            THEN LayoutAt(l.table, doc.version).width ELSE 0, 0, doc.lines)

\* build_line looks at "form_type", whichever field holds the token.
TokenMisfits(l) ==
    LET token == Value(l, "form_type")
    IN  IF token = "" THEN l.table \notin DOMAIN TableOf \/ TableOf[l.table] # l.table
        ELSE token \in DOMAIN TableOf /\ TableOf[token] # l.table

LineRefused(l, version) ==
    \/ l.table \notin Tables
    \/ NotAString \in Range(l.fields)
    \/ TokenMisfits(l)
    \/ ~SupportsVersion(l.table, version)
    \/ DOMAIN l.fields \ FieldsAt(l.table, version) # {}

\* Filing::from_parts: every token dispatches to the table of its record.
TokenOf(l, version) ==
    LET token == Value(l, TokenField(l.table, version)) IN IF token = "" THEN l.table ELSE token
AnyToken(l, version) == TokenOf(l, version) \in DOMAIN TableOf
Dispatches(l, version) ==
    TokenOf(l, version) \in DOMAIN TableOf /\ TableOf[TokenOf(l, version)] = l.table

First(ks) == IF ks = {} THEN 0 ELSE Min(ks)

\* build_filing: 200, or the status and the record that is wrong.
Built(doc) ==
    LET refused == First({k \in DOMAIN doc.lines : LineRefused(doc.lines[k], doc.version)})
        lost    == First({k \in DOMAIN doc.lines : ~Dispatches(doc.lines[k], doc.version)})
    IN  IF doc.version \notin KnownVersions THEN [status |-> 400, at |-> 0]
        ELSE IF WrittenCells(doc) > BodyCap THEN [status |-> 413, at |-> 0]
        ELSE IF doc.header # doc.version THEN [status |-> 400, at |-> 0]
        ELSE IF Value(doc.lines[1], "form_type") \in {"", NotAString} THEN [status |-> 400, at |-> 1]
        ELSE IF refused # 0 THEN [status |-> 400, at |-> refused]
        ELSE IF lost # 0 THEN [status |-> 400, at |-> lost]
        ELSE [status |-> 200, at |-> 0]

\* take_document, then the route.
Reply(doc, route) ==
    LET built == Built(doc)
    IN  IF doc.json > BodyCap THEN [status |-> 413, at |-> 0]
    ELSE IF built.status = 200 /\ route = "reconcile" /\ doc.lines[1].table \notin WithRules
         THEN [status |-> 400, at |-> 0]
    ELSE built
-----------------------------------------------------------------------------
(* Fetching.                                                                *)

Running == {i \in DOMAIN fetches : fetches[i].phase = "running"}

AskFetch ==
    /\ Len(fetches) < tools.fetches
    /\ \E f \in DOMAIN ToolFiles : fetches' = Append(fetches, [file |-> f, phase |-> "waiting", status |-> 0])
    /\ UNCHANGED <<tools, downloads, documents, lastSent, edits>>

TakeSlot(i) ==
    /\ fetches[i].phase = "waiting" /\ Cardinality(Running) < Slots
    /\ fetches' = [fetches EXCEPT ![i].phase = "running"]
    /\ downloads' = (i :> 0) @@ downloads
    /\ UNCHANGED <<tools, documents, lastSent, edits>>

\* The thread of a fetch is done: who still waits gets the answer.
FetchEnds(i, status) ==
    /\ downloads' = Restrict(downloads, DOMAIN downloads \ {i})
    /\ fetches' = IF i \in Running THEN [fetches EXCEPT ![i].phase = "answered", ![i].status = status] ELSE fetches
    /\ documents' = IF i \in Running /\ status = 200
                    THEN Append(documents, [of |-> fetches[i].file, read |-> downloads[i],
                                           doc |-> Document(ToolFiles[fetches[i].file]), edited |-> FALSE])
                    ELSE documents
    /\ UNCHANGED <<tools, lastSent, edits>>

\* read_capped: refused by its Content-Length, or read to one byte past the cap.
NoCap(read, file) == Min({read + Chunk, file.bytes})
WithinCap(read, file) == Min({read + Chunk, file.bytes, BodyCap + 1})

Download(i) ==
    LET file == ToolFiles[fetches[i].file]
        read == downloads[i]
    IN  IF file.declared /\ file.bytes > BodyCap THEN FetchEnds(i, 413)
        ELSE IF read < file.bytes /\ read <= BodyCap
        THEN /\ downloads' = [downloads EXCEPT ![i] = WithinCap(read, file)]
             /\ UNCHANGED <<tools, fetches, documents, lastSent, edits>>
        ELSE IF read > BodyCap THEN FetchEnds(i, 413)
        ELSE FetchEnds(i, IF file.html THEN 502 ELSE IF file.records = << >> THEN 400 ELSE 200)

DownloadFails(i) == FetchEnds(i, 502)

\* The server's timeout drops the request and its slot, not its thread.
TimesOut(i) ==
    /\ fetches[i].phase \in {"waiting", "running"}
    /\ fetches' = [fetches EXCEPT ![i].phase = "answered", ![i].status = 408]
    /\ UNCHANGED <<tools, downloads, documents, lastSent, edits>>

\* POST /tools/parse.
PostFiling ==
    /\ Len(documents) < tools.posts
    /\ \E f \in DOMAIN ToolFiles :
        /\ ToolFiles[f].bytes <= BodyCap /\ ToolFiles[f].records # << >> \* else 413, 400
        /\ documents' = Append(documents, [of |-> f, read |-> ToolFiles[f].bytes,
                                           doc |-> Document(ToolFiles[f]), edited |-> FALSE])
    /\ UNCHANGED <<tools, fetches, downloads, lastSent, edits>>
-----------------------------------------------------------------------------
(* A client changes a document, or sends it.                                *)

NothingSent == [d |-> 0, route |-> "", answer |-> [status |-> 0, at |-> 0]]

Edited(doc) ==
    {[doc EXCEPT !.version = v] : v \in {ToolFiles[f].version : f \in DOMAIN ToolFiles} \cup {NoVersion}}
    \cup UNION {{[doc EXCEPT !.lines[k].table = t] : t \in Tables \cup {"none"}} : k \in DOMAIN doc.lines}
    \cup UNION {{[doc EXCEPT !.lines[k].fields = (w[1] :> w[2]) @@ @] :
                    w \in ({"form_type", "rec_type"} \X (DOMAIN TableOf \cup {"", "??", Null, NotAString}))
                          \cup ({"other"} \X {Null, NotAString})} : k \in DOMAIN doc.lines}

EditDocument(d) ==
    /\ edits < tools.edits /\ edits' = edits + 1
    /\ \E doc \in Edited(documents[d].doc) \ {documents[d].doc} :
        documents' = [documents EXCEPT ![d].doc = doc, ![d].edited = TRUE]
    /\ lastSent' = NothingSent
    /\ UNCHANGED <<tools, fetches, downloads>>

Send(d) ==
    /\ \E route \in {"validate", "reconcile", "write"} :
        lastSent' = [d |-> d, route |-> route, answer |-> Reply(documents[d].doc, route)]
    /\ UNCHANGED <<tools, fetches, downloads, documents, edits>>
-----------------------------------------------------------------------------
ToolsInit ==
    /\ tools \in ToolsSessions
    /\ fetches = << >> /\ downloads = << >> /\ documents = << >> /\ edits = 0
    /\ lastSent = NothingSent

ToolsNext ==
    \/ AskFetch \/ PostFiling
    \/ \E i \in DOMAIN fetches : TakeSlot(i) \/ TimesOut(i)
    \/ \E i \in DOMAIN downloads : Download(i) \/ DownloadFails(i)
    \/ \E d \in DOMAIN documents : EditDocument(d) \/ Send(d)
-----------------------------------------------------------------------------
Sent == documents[lastSent.d]

\* A record that can be laid out in the columns of its table, with its token
\* one of that table: written, it reads back as it is.
HasColumns(l, version) ==
    /\ l.table \in Tables /\ SupportsVersion(l.table, version)
    /\ \A f \in DOMAIN l.fields : f \in FieldsAt(l.table, version) /\ l.fields[f] # NotAString
ReadsBack(l, version) ==
    /\ HasColumns(l, version)
    /\ LET cell == Value(l, TokenField(l.table, version))
           token == IF cell = "" THEN l.table ELSE cell
       IN  token \in DOMAIN TableOf /\ TableOf[token] = l.table
TokenOfNoTable(l, version) ==
    HasColumns(l, version) /\ Value(l, TokenField(l.table, version)) \notin DOMAIN TableOf \cup {""}

CoverNamed(doc) == Value(doc.lines[1], "form_type") \notin {"", NotAString}
Fits(doc) == doc.json <= BodyCap /\ WrittenCells(doc) <= BodyCap
Consistent(doc) == doc.version \in KnownVersions /\ doc.header = doc.version

\* A thread holds one byte more than the cap at most, and what a client was
\* given is of the whole file, within the cap.
ThreadsAreBounded == \A i \in DOMAIN downloads : downloads[i] <= BodyCap + 1
DocumentsAreWhole ==
    \A d \in Range(documents) :
        d.read = ToolFiles[d.of].bytes /\ d.read <= BodyCap /\ ToolFiles[d.of].records # << >>

\* TEXT records of versions 3 to 5, whose token is not in form_type.
OldText(doc) ==
    \E k \in DOMAIN doc.lines :
        LET l == doc.lines[k]
        IN  /\ l.table \in Tables /\ SupportsVersion(l.table, doc.version)
            /\ TokenField(l.table, doc.version) # "form_type" /\ "form_type" \in DOMAIN l.fields

\* A refusal names a record that would not read back, or a cover with no token
\* given, and no earlier one that would not, except that it passes over records
\* whose only fault is a token that no table has (from_parts looks at tokens
\* when build_line has built every record).
NamesAWrongRecord(doc, at) ==
    /\ ~ReadsBack(doc.lines[at], doc.version) \/ (at = 1 /\ ~CoverNamed(doc))
    /\ \A k \in 1..at-1 : ReadsBack(doc.lines[k], doc.version) \/ TokenOfNoTable(doc.lines[k], doc.version)

(* What the tools promise of a filing that is posted or fetched, edited and *)
(* sent back with /tools: no download is read on past the cap, and a client *)
(* has documents only of files that were read to their end; a document that *)
(* fits is accepted exactly when its version and header agree, its cover    *)
(* has a token and every record reads back as it is, so one not edited is;  *)
(* and a refusal that names a record names one that is wrong. Documents     *)
(* with a TEXT record of versions 3 to 5 are left out (SentBackUnchanged).  *)
ToolsKeepTheirWord ==
    /\ ThreadsAreBounded /\ DocumentsAreWhole /\ FormatIsTold
    /\ lastSent.d # 0 =>
        LET doc   == Sent.doc
            a     == lastSent.answer
            right == Consistent(doc) /\ CoverNamed(doc)
                     /\ \A k \in DOMAIN doc.lines : ReadsBack(doc.lines[k], doc.version)
        IN  /\ a.status = 200 => right /\ Fits(doc)
            /\ ~OldText(doc) =>
                /\ lastSent.route # "reconcile" /\ Fits(doc) => (a.status = 200 <=> right)
                /\ lastSent.route # "reconcile" /\ Fits(doc) /\ ~Sent.edited => right
                /\ a.at # 0 => NamesAWrongRecord(doc, a.at)

(* What /tools/parse returned is accepted as it is, if it fits. It does not *)
(* hold of the code: a TEXT record of spec 3.x-5.x has its token in         *)
(* rec_type, and build_line checks its form_type, the form it annotates.    *)
SentBackUnchanged ==
    lastSent.d # 0 /\ ~Sent.edited /\ Sent.doc.json <= BodyCap /\ WrittenCells(Sent.doc) <= BodyCap
    /\ lastSent.route # "reconcile" => lastSent.answer.status = 200

(* At most Slots downloads run at once. It does not hold of the code.       *)
AtMostSlots == Cardinality(DOMAIN downloads) <= Slots
=============================================================================
