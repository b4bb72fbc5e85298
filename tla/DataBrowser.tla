---------------------------- MODULE DataBrowser ----------------------------
(***************************************************************************)
(* The lists of the JSON API and the two readers that page through them:   *)
(* the data pages of the browser UI (data.js, api.js, app.js) and          *)
(* `hardmoney query`.                                                      *)
(*                                                                         *)
(* The page is one thread: what interleaves are the answers to its         *)
(* requests, the dialog that asks for the API key, the user, and the loads *)
(* that change the tables underneath.                                      *)
(***************************************************************************)
EXTENDS Integers, Sequences, SequencesExt, FiniteSets, FiniteSetsExt, Functions

CONSTANTS Stored,      \* route -> the rows its table may hold: [id, who, date, kind]
          Entities,    \* "candidate", "committee" -> those with a page
          PageRows,    \* the rows of a page
          TheKey, NoKey, OtherKey,
          Sessions     \* bounds and beginnings: [key, view, of, query, views, asked, changes, failures]

VARIABLES session,  \* the one under way
          tables,   \* route -> the ids it holds
          viewThere, \* the view independent_expenditures exists
          required, \* the server's api_key, or NoKey
          stored,   \* sessionStorage: the key the page sends
          page,     \* views opened, lists drawn, requests under way
          dialog,   \* the API key dialog
          cli,      \* a reader who follows the hints of `query`
          changes, failures,
          declined, \* a prompt was cancelled or answered with another key (history)
          collided  \* a second prompt opened over the first (history)

browserVars == <<session, tables, viewThere, required, stored, page, dialog, cli, changes, failures, declined,
                 collided>>
-----------------------------------------------------------------------------
(* The server.                                                              *)

ById(a, b)     == a.id < b.id                                        \* candidates
ByCmteId(a, b) == a.id < b.id                                        \* committees
ByFiling(a, b) == a.id > b.id                                        \* filings
Later(a, b)    == a.date # 0 /\ (b.date = 0 \/ a.date > b.date)      \* DESC NULLS LAST
ByDate(a, b)   == Later(a, b) \/ (a.date = b.date /\ a.id > b.id)    \* independent expenditures

BeforeByDate(route, a, b) ==
    CASE route = "ies" -> Later(a, b) [] route = "filings" -> ByFiling(a, b)
      [] route = "committees" -> ByCmteId(a, b) [] OTHER -> ById(a, b)
Before(route, a, b) ==
    CASE route = "ies" -> ByDate(a, b) [] route = "filings" -> ByFiling(a, b)
      [] route = "committees" -> ByCmteId(a, b) [] OTHER -> ById(a, b)

Matching(q) ==
    {r \in Stored[q.route] : /\ r.id \in tables[q.route]
                             /\ q.who # "" => r.who = q.who
                             /\ q.filter # "" => r.kind = q.filter}

\* Every order of the rows that ORDER BY allows.
Orders(route, S) ==
    {s \in SetToSeqs(S) : \A i, j \in DOMAIN s : Before(route, s[i], s[j]) => i < j}

Window(s, offset) == SubSeq(s, offset + 1, Min({offset + PageRows, Len(s)}))

\* require_api_key.
Admitted(key) == required = NoKey \/ key = required

\* What the routes answer: an odd year is no cycle, a missing view is a 503.
Refusal(q) ==
    IF q.filter = "odd" THEN 400
    ELSE IF q.route = "ies" /\ ~viewThere THEN 503
    ELSE IF q.offset < 0 /\ Matching(q) = {} THEN 404 ELSE 0

Answers(q) ==
    IF Refusal(q) # 0 THEN {[status |-> Refusal(q), rows |-> << >>]}
    ELSE IF q.offset < 0 THEN {[status |-> 200, rows |-> << >>]}
    ELSE {[status |-> 200, rows |-> Window(s, q.offset)] : s \in Orders(q.route, Matching(q))}
-----------------------------------------------------------------------------
(* The page. A list asks with state.offset; a card (offset -1) for one who. *)

Waiting == [status |-> 0, rows |-> << >>]

Query(route, who, filter, offset) == [route |-> route, who |-> who, filter |-> filter, offset |-> offset]

\* request: with the key of the moment.
Requested(p, for, n, q, again) ==
    [p EXCEPT !.asked = @ + 1,
              !.requests = @ @@ (p.asked + 1 :> [for |-> for, n |-> n, q |-> q, key |-> stored,
                                   retried |-> again, fresh |-> TRUE, answer |-> Waiting])]

Pending(p, n) == {i \in DOMAIN p.requests : p.requests[i].for = "list" /\ p.requests[i].n = n}

\* load: one request after another may be under way.
LoadList(p, n) ==
    LET l == p.lists[n]
        crossing == Pending(p, n) # {}
    IN  Requested([p EXCEPT !.lists[n].crossed = crossing, !.lists[n].note = "loading"],
              "list", n, Query(l.route, l.who, l.filter, l.offset), FALSE)

NoList == [route |-> "", who |-> "", filter |-> "", offset |-> 0, rows |-> << >>, from |-> 0, at |-> 0,
           note |-> "", prev |-> FALSE, next |-> FALSE, crossed |-> FALSE, pages |-> << >>]

\* pagedList, drawn into a host of the view on display.
PagedList(p, host, route, who) ==
    LET n == Len(p.lists) + 1
    IN  LoadList([p EXCEPT !.lists = Append(@, [NoList EXCEPT !.route = route, !.who = who]),
                       !.views[Len(p.views)].hosts[host] = n], n)

View(kind, of) == [kind |-> kind, of |-> of, card |-> "loading",
                   hosts |-> [h \in IF kind = "search" THEN {"candidates", "committees"} ELSE {"panel"} |-> 0]]

\* renderData: what was on display goes, and whatever it awaits goes on.
Opened(p, kind, of) ==
    LET q == [p EXCEPT !.views = Append(@, View(kind, of))]
    IN  IF kind = "search"
        THEN PagedList(PagedList(q, "candidates", "candidates", ""), "committees", "committees", "")
        ELSE Requested(q, "card", Len(q.views), Query(kind \o "s", of, "", -1), FALSE)

FirstTab == [candidate |-> "ies", committee |-> "filings"]

\* renderCandidate and renderCommittee after their card: the panel they look
\* up is that of the view on display now.
AfterCard(p, v) ==
    IF p.views[Len(p.views)].kind = p.views[v].kind
    THEN PagedList(p, "panel", FirstTab[p.views[v].kind], p.views[v].of)
    ELSE p

NoteOf(status) ==
    CASE status = 401 -> "key" [] status = 404 -> "absent" [] status = 503 -> "not loaded" [] OTHER -> "failed"

Drawn(l, a) ==
    IF a.status # 200 THEN [l EXCEPT !.note = NoteOf(a.status), !.rows = << >>, !.from = 0]
    ELSE [l EXCEPT !.note = "rows", !.rows = a.rows, !.from = IF a.rows = << >> THEN 0 ELSE l.offset + 1,
                   !.prev = l.offset # 0, !.next = Len(a.rows) = PageRows]

\* The pages read of one search and of tables that stay as they are, and the
\* offset the rows on display were asked with (history).
Kept(l, r, a) ==
    IF a.status = 200 /\ r.fresh /\ ~l.crossed
    THEN [l EXCEPT !.at = r.q.offset, !.pages = (l.offset :> a.rows) @@ @] ELSE [l EXCEPT !.at = r.q.offset]

\* A request ends: its list or card is drawn.
Ended(p, i, a) ==
    LET r == p.requests[i]
        q == [p EXCEPT !.requests = Restrict(@, DOMAIN @ \ {i})]
    IN  IF r.for = "list" THEN [q EXCEPT !.lists[r.n] = Kept(Drawn(@, a), r, a)]
        ELSE AfterCard([q EXCEPT !.views[r.n].card = IF a.status = 200 THEN "shown" ELSE NoteOf(a.status)],
                       r.n)
-----------------------------------------------------------------------------
Room == page.asked + 2 <= session.asked

\* A link, or the browser's Back.
Open ==
    /\ Room /\ page.views # << >> /\ Len(page.views) < session.views
    /\ \/ page' = Opened(page, "search", "")
       \/ \E kind \in DOMAIN Entities : \E of \in Entities[kind] : page' = Opened(page, kind, of)
    /\ UNCHANGED <<session, tables, viewThere, required, stored, dialog, cli, changes, failures,
                   declined, collided>>

Answered(i) == page.requests[i].answer # Waiting

Serve(i) ==
    /\ ~Answered(i) /\ i \notin dialog.waiting
    /\ LET r == page.requests[i]
       IN  \/ /\ ~Admitted(r.key)
              /\ page' = [page EXCEPT !.requests[i].answer.status = 401]
              /\ UNCHANGED failures
           \/ /\ Admitted(r.key)
              /\ \E a \in Answers(r.q) : page' = [page EXCEPT !.requests[i].answer = a]
              /\ UNCHANGED failures
           \/ /\ Admitted(r.key) /\ failures < session.failures \* the database, the timeout, the network
              /\ page' = [page EXCEPT !.requests[i].answer.status = 500]
              /\ failures' = failures + 1
    /\ UNCHANGED <<session, tables, viewThere, required, stored, dialog, cli, changes, declined, collided>>

\* promptApiKey: the last to ask is the one whose form handler stays.
Prompted(d, i) == [open |-> TRUE, waiting |-> d.waiting \cup {i}, saver |-> i]

Receive(i) ==
    /\ Answered(i)
    /\ LET r == page.requests[i]
       IN  \/ /\ r.answer.status = 401 /\ ~r.retried
              /\ dialog' = Prompted(dialog, i)
              /\ collided' = (collided \/ dialog.waiting # {})
              /\ page' = [page EXCEPT !.requests[i].answer = Waiting]
           \/ /\ r.answer.status # 401 \/ r.retried
              /\ page' = Ended(page, i, r.answer)
              /\ UNCHANGED <<dialog, collided>>
    /\ UNCHANGED <<session, tables, viewThere, required, stored, cli, changes, failures, declined>>

PromptButton ==
    /\ ~dialog.open /\ required # NoKey /\ page.views # << >> \* it is of use
    /\ dialog' = [open |-> TRUE, waiting |-> {}, saver |-> 0]
    /\ UNCHANGED <<session, tables, viewThere, required, stored, page, cli, changes, failures,
                   declined, collided>>

\* The dialog closes: the saver's request is sent again, the others give up.
Again(p, i, key) ==
    [p EXCEPT !.requests[i].key = key, !.requests[i].retried = TRUE, !.requests[i].answer = Waiting]

GivenUp(p, those) == FoldSet(LAMBDA i, acc : Ended(acc, i, [status |-> 401, rows |-> << >>]), p, those)

SaveKey(key) ==
    /\ dialog.open
    /\ stored' = key
    /\ LET lost == dialog.waiting \ {dialog.saver}
           p == GivenUp(page, lost)
       IN  page' = IF dialog.saver \in dialog.waiting THEN Again(p, dialog.saver, key) ELSE p
    /\ dialog' = [open |-> FALSE, waiting |-> {}, saver |-> 0]
    /\ declined' = (declined \/ key # required)
    /\ UNCHANGED <<session, tables, viewThere, required, cli, changes, failures, collided>>

CancelDialog ==
    /\ dialog.open
    /\ page' = GivenUp(page, dialog.waiting)
    /\ dialog' = [open |-> FALSE, waiting |-> {}, saver |-> 0]
    /\ declined' = TRUE
    /\ UNCHANGED <<session, tables, viewThere, required, stored, cli, changes, failures, collided>>

\* The lists on display; behind the dialog the page is inert.
Shown == {n \in Range(page.views[Len(page.views)].hosts) : n # 0}

OnList(n) == Room /\ ~dialog.open /\ n \in Shown
    /\ UNCHANGED <<session, tables, viewThere, required, stored, dialog, cli, changes, failures,
                   declined, collided>>

Search(n) ==
    /\ OnList(n)
    /\ \E f \in {"", "x", "odd"} \ {page.lists[n].filter} :
        /\ f = "odd" => page.lists[n].route \in {"candidates", "committees"} \* the lists with a cycle
        /\ page' = LoadList([page EXCEPT !.lists[n].filter = f, !.lists[n].offset = 0, !.lists[n].pages = << >>], n)

NextPage(n) ==
    /\ OnList(n) /\ page.lists[n].next
    /\ page' = LoadList([page EXCEPT !.lists[n].offset = @ + PageRows], n)

PrevPage(n) ==
    /\ OnList(n) /\ page.lists[n].prev
    /\ page' = LoadList([page EXCEPT !.lists[n].offset = Max({0, @ - PageRows})], n)

\* Another tab of a committee.
Tab(route) ==
    LET v == page.views[Len(page.views)]
    IN  /\ v.kind = "committee" /\ OnList(v.hosts["panel"])
        /\ page.lists[v.hosts["panel"]].route # route
        /\ page' = PagedList(page, "panel", route, page.lists[v.hosts["panel"]].who)
-----------------------------------------------------------------------------
(* `hardmoney query`: in process (no key is asked), or of a running server. *)

\* to_request, with the offset the hint gave.
CliQuery == Query(cli.route, cli.who, "", cli.offset)

QueryPage ==
    /\ ~cli.done
    /\ \E a \in IF cli.http /\ ~Admitted(cli.key) THEN {[status |-> 401, rows |-> << >>]}
              ELSE Answers(CliQuery) :
        cli' = IF a.status # 200 THEN [cli EXCEPT !.done = TRUE]
               ELSE [cli EXCEPT !.pages = (cli.offset :> a.rows) @@ @,
                                !.offset = IF Len(a.rows) = PageRows THEN @ + PageRows ELSE @,
                                !.done = Len(a.rows) < PageRows]
    /\ UNCHANGED <<session, tables, viewThere, required, stored, page, dialog, changes, failures,
                   declined, collided>>

\* A load adds or drops rows; a restore brings the view.
Change ==
    /\ changes < session.changes /\ changes' = changes + 1
    /\ \/ /\ \E route \in DOMAIN Stored : \E r \in Stored[route] :
                tables' = [tables EXCEPT ![route] = IF r.id \in @ THEN @ \ {r.id} ELSE @ \cup {r.id}]
          /\ UNCHANGED viewThere
       \/ viewThere' = ~viewThere /\ UNCHANGED tables
    /\ page' = [page EXCEPT !.lists = [n \in DOMAIN @ |-> [@[n] EXCEPT !.pages = << >>]],
                            !.requests = [i \in DOMAIN @ |-> [@[i] EXCEPT !.fresh = FALSE]]]
    /\ cli' = [cli EXCEPT !.pages = << >>]
    /\ UNCHANGED <<session, required, stored, dialog, failures, declined, collided>>
-----------------------------------------------------------------------------
NoPage == [views |-> << >>, lists |-> << >>, requests |-> << >>, asked |-> 0]

BrowserInit ==
    /\ session \in Sessions
    /\ tables = [route \in DOMAIN Stored |-> {r.id : r \in Stored[route]}]
    /\ viewThere \in BOOLEAN
    /\ required = session.key /\ stored = NoKey
    /\ page = IF session.query = "" THEN Opened(NoPage, session.view, session.of) ELSE NoPage
    /\ dialog = [open |-> FALSE, waiting |-> {}, saver |-> 0]
    /\ \E http \in BOOLEAN, key \in {TheKey, OtherKey} :
        /\ session.query = "" => ~http /\ key = TheKey
        /\ cli = [http |-> http, key |-> key, route |-> session.query, who |-> session.of, offset |-> 0,
                  pages |-> << >>, done |-> session.query = ""]
    /\ changes = 0 /\ failures = 0 /\ declined = FALSE /\ collided = FALSE

BrowserNext ==
    \/ Open \/ PromptButton \/ CancelDialog \/ QueryPage \/ Change
    \/ \E i \in DOMAIN page.requests : Serve(i) \/ Receive(i)
    \/ \E key \in {TheKey, OtherKey} : SaveKey(key)
    \/ \E n \in DOMAIN page.lists : Search(n) \/ NextPage(n) \/ PrevPage(n)
    \/ page.views # << >> /\ \E route \in {"filings", "ies"} : Tab(route)
-----------------------------------------------------------------------------
(* While the tables stay as they are, a reader who turns the pages of a     *)
(* search one after the other meets every row that matches exactly once:    *)
(* LIMIT and OFFSET are two queries, and only a total order makes their     *)
(* pages fit.                                                               *)
EveryRowOnOnePage(pages, q) ==
    /\ \A o1, o2 \in DOMAIN pages : o1 # o2 => Range(pages[o1]) \cap Range(pages[o2]) = {}
    /\ \A last \in DOMAIN pages :
        Len(pages[last]) < PageRows /\ {o \in 0..last : o % PageRows = 0} \subseteq DOMAIN pages
        => UNION {Range(pages[o]) : o \in DOMAIN pages} = Matching(q)

\* "Rows a-b" are the rows asked for with that offset, of one request at a time.
LabelsAreTrue(l) == l.note = "rows" /\ l.rows # << >> /\ ~l.crossed => l.from = l.at + 1

\* A list says that a key is missing only to who did not give it.
RefusedWithoutKey ==
    \A n \in DOMAIN page.lists : page.lists[n].note = "key" => declined \/ collided

ReadersMissNothing ==
    /\ \A n \in DOMAIN page.lists :
        LET l == page.lists[n]
        IN  EveryRowOnOnePage(l.pages, Query(l.route, l.who, l.filter, 0)) /\ LabelsAreTrue(l)
    /\ cli.pages # << >> => EveryRowOnOnePage(cli.pages, Query(cli.route, cli.who, "", 0))
    /\ RefusedWithoutKey

(* The page of a candidate or committee lists what is his. It does not hold *)
(* of the code: renderCandidate looks its panel up after the await, and so  *)
(* draws into the page opened meanwhile.                                    *)
PagesListTheirOwn ==
    page.views # << >> => \A h \in DOMAIN page.views[Len(page.views)].hosts :
        LET v == page.views[Len(page.views)]
        IN  v.kind # "search" /\ v.hosts[h] # 0 => page.lists[v.hosts[h]].who = v.of
=============================================================================
