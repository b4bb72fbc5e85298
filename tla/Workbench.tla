----------------------------- MODULE Workbench -----------------------------
(***************************************************************************)
(* The filing workbench of the page (workbench.js, records-table.js): one  *)
(* filing open at a time, its fields edited on the cards and in a table of *)
(* records that draws only a window of its rows, and a check by the server *)
(* some time after the last edit.                                          *)
(*                                                                         *)
(* The page is one thread. What interleaves are its timers, the answers to *)
(* its requests and the user. A line stands for its one field; Cover is    *)
(* line 2, edited on its card, and the others are rows of one table.       *)
(***************************************************************************)
EXTENDS Integers, Sequences, SequencesExt, FiniteSets

CONSTANTS Filings,      \* [version, books, parsed : LineNos -> Texts]
          LineNos, Texts, \* the lines of a filing, what a field can hold
          Needle,       \* the text the filter looks for
          MaxOpened,    \* bound: filings opened in all
          MaxEdits      \* bound: edits and reverts in all

CoverLine == 2

\* Lines are counted, and there is a cover; a filing says something on each.
ASSUME LinesAssumption == /\ LineNos \subseteq Nat /\ IsFiniteSet(LineNos) /\ CoverLine \in LineNos
                          /\ \A f \in Filings : f.parsed \in [LineNos -> Texts]

BodyLines == LineNos \ {CoverLine}

VARIABLES
    docs,      \* the filings opened: of, fields, and what the checks said of them
    current,   \* state.doc: the one open, or 0
    edits,     \* state.edits: line -> before, after, and the filing of the row
    made,      \* edits and reverts so far
    timer,     \* state.recheckTimer runs
    check,     \* the recheck under way
    loading,   \* filings asked for and not answered
    opening,   \* showTable calls that await their layout: the filings whose rows they hold
    grid,      \* the records table
    crossed,   \* the last check failed, or was of another filing (history)
    strayed    \* the table was given the rows of another filing (history)

benchVars == <<docs, current, edits, made, timer, check, loading, opening, grid, crossed, strayed>>

NoCheck  == [phase |-> "none", of |-> 0, sent |-> << >>, to |-> 0]
NoEditor == [doc |-> 0, line |-> 0, before |-> ""]
NoGrid   == [rows |-> 0, filter |-> FALSE, view |-> << >>, dom |-> << >>,
             editing |-> NoEditor, pending |-> FALSE]

Editing == grid.editing # NoEditor

BenchInit ==
    /\ docs = << >> /\ current = 0 /\ edits = << >> /\ made = 0
    /\ timer = FALSE /\ check = NoCheck
    /\ loading = {} /\ opening = << >> /\ grid = NoGrid
    /\ crossed = FALSE /\ strayed = FALSE
-----------------------------------------------------------------------------
(* The records table.                                                       *)

\* The rows of a set of lines, in the filing's order.
LinesInOrder(S) ==
    [k \in 1..Cardinality(S) |-> CHOOSE l \in S : Cardinality({m \in S : m < l}) = k - 1]

\* applyView: the rows the filter leaves; the order they are sorted in is left out.
ViewOf(g) == LinesInOrder({l \in BodyLines : g.filter => docs[g.rows].fields[l] = Needle})

\* renderWindow(true): an open editor keeps what it stands in.
Drawn(g) == IF g.editing # NoEditor THEN [g EXCEPT !.pending = TRUE] ELSE [g EXCEPT !.dom = g.view]

Applied(g) == Drawn([g EXCEPT !.view = ViewOf(g)])

\* setRows, on the table as it is; the filter stays.
WithRows(g, d) == Applied([g EXCEPT !.rows = d])

\* The filter is applied a moment after the last key.
Filter ==
    /\ grid.rows # 0
    /\ \E f \in BOOLEAN \ {grid.filter} : grid' = Applied([grid EXCEPT !.filter = f])
    /\ UNCHANGED <<made, docs, current, edits, timer, check, loading, opening, crossed, strayed>>

\* A click on a drawn row opens an editor on the row the view has there.
BeginEdit ==
    /\ current # 0 /\ grid.rows # 0 /\ ~Editing
    /\ \E i \in DOMAIN grid.dom :
        /\ i \in DOMAIN grid.view
        /\ LET l == grid.view[i]
           IN  grid' = [grid EXCEPT !.editing = [doc |-> grid.rows, line |-> l,
                                                 before |-> docs[grid.rows].fields[l]]]
    /\ UNCHANGED <<made, docs, current, edits, timer, check, loading, opening, crossed, strayed>>
-----------------------------------------------------------------------------
(* Edits.                                                                   *)

\* An edit of a field edited before keeps what the filing said at first.
Original(l, before) == IF l \in DOMAIN edits THEN edits[l].before ELSE before

\* onEdit, and commit on a card: the row is written, then recordEdit.
Edit(d, l, before, after) ==
    LET original == Original(l, before)
    IN  /\ docs' = [docs EXCEPT ![d].fields[l] = after]
        /\ edits' = IF after = original THEN [k \in DOMAIN edits \ {l} |-> edits[k]]
                    ELSE [k \in DOMAIN edits \cup {l} |->
                             IF k = l THEN [before |-> original, after |-> after, row |-> d]
                             ELSE edits[k]]
        /\ timer' = TRUE

Another == made < MaxEdits /\ made' = made + 1


EditCard ==
    /\ current # 0 /\ ~Editing
    /\ LET before == docs[current].fields[CoverLine]
       IN  \E after \in Texts \ {before} : Edit(current, CoverLine, before, after)
    /\ Another
    /\ UNCHANGED <<current, check, loading, opening, grid, crossed, strayed>>

\* finish: what was put off while the editor was open is drawn now.
ClosedOnly(g) == [g EXCEPT !.editing = NoEditor, !.pending = FALSE]
Closed(g) == IF g.pending THEN [g EXCEPT !.editing = NoEditor, !.pending = FALSE, !.dom = g.view]
             ELSE [g EXCEPT !.editing = NoEditor]

CommitEdit ==
    /\ Editing
    /\ LET e == grid.editing
       IN  \E after \in Texts \ {e.before} : Edit(e.doc, e.line, e.before, after)
    /\ Another
    /\ grid' = Closed(grid)
    /\ UNCHANGED <<current, check, loading, opening, crossed, strayed>>

CancelEdit ==
    /\ Editing
    /\ grid' = Closed(grid)
    /\ UNCHANGED <<made, docs, current, edits, timer, check, loading, opening, crossed, strayed>>

\* What the row of an edit taken back said before it.
Restored(d, some) ==
    [l \in LineNos |-> IF l \in some /\ edits[l].row = d THEN edits[l].before ELSE docs[d].fields[l]]

\* revertEdit of one, revertAll of them all: each in the row that was edited.
Revert ==
    /\ current # 0 /\ ~Editing
    /\ \E some \in ({{l} : l \in DOMAIN edits} \cup {DOMAIN edits}) \ {{}} :
        /\ docs' = [d \in DOMAIN docs |-> [docs[d] EXCEPT !.fields = Restored(d, some)]]
        /\ edits' = [l \in DOMAIN edits \ some |-> edits[l]]
    /\ Another
    /\ timer' = TRUE
    /\ grid' = Drawn(grid)
    /\ UNCHANGED <<current, check, loading, opening, crossed, strayed>>
-----------------------------------------------------------------------------
(* Opening and closing.                                                     *)

Ask ==
    /\ current = 0 /\ Len(docs) + Cardinality(loading) < MaxOpened
    /\ \E f \in Filings \ loading : loading' = loading \cup {f}
    /\ UNCHANGED <<made, docs, current, edits, timer, check, opening, grid, crossed, strayed>>

\* accept, renderRecords and the first half of showTable.
AcceptFiling ==
    \E f \in loading :
        LET d == Len(docs) + 1
            lines == LinesInOrder(BodyLines)
        IN  /\ loading' = loading \ {f}
            /\ docs' = Append(docs, [of |-> f, fields |-> f.parsed,
                                     validation |-> f.parsed, reconciliation |-> f.parsed])
            /\ current' = d /\ edits' = << >>
            /\ grid' = [NoGrid EXCEPT !.rows = d, !.view = lines, !.dom = lines]
            /\ opening' = Append(opening, d)
            /\ crossed' = (check # NoCheck) /\ strayed' = FALSE
            /\ UNCHANGED <<made, timer, check>>

AskFails ==
    /\ \E f \in loading : loading' = loading \ {f}
    /\ UNCHANGED <<made, docs, current, edits, timer, check, opening, grid, crossed, strayed>>

\* The second half of showTable. Layouts are asked for once per version.
LayoutArrives ==
    /\ \E i \in DOMAIN opening :
        LET d == opening[i]
        IN  /\ \A j \in 1..(i - 1) : docs[opening[j]].of.version # docs[d].of.version
            /\ opening' = RemoveAt(opening, i)
            /\ IF grid.rows # 0
               THEN grid' = WithRows(grid, d) /\ strayed' = (strayed \/ d # current)
               ELSE UNCHANGED <<grid, strayed>>
    /\ UNCHANGED <<made, docs, current, edits, timer, check, loading, crossed>>

\* reset. The timer and the check go on.
CloseFiling ==
    /\ current # 0 /\ ~Editing
    /\ current' = 0 /\ edits' = << >> /\ grid' = NoGrid
    /\ UNCHANGED <<made, docs, timer, check, loading, opening, crossed, strayed>>
-----------------------------------------------------------------------------
(* The check.                                                               *)

\* recheck, up to its first await; put off while another runs or nothing is open.
Recheck ==
    /\ timer
    /\ check = NoCheck /\ current # 0
    /\ timer' = FALSE
    /\ check' = [phase |-> "validate", of |-> current, sent |-> docs[current].fields, to |-> 0]
    /\ UNCHANGED <<made, docs, current, edits, loading, opening, grid, crossed, strayed>>

RecheckLater ==
    /\ timer /\ (check # NoCheck \/ current = 0)
    /\ timer' = TRUE
    /\ UNCHANGED <<made, docs, current, edits, check, loading, opening, grid, crossed, strayed>>
RecheckEnds ==
    /\ check' = NoCheck
    /\ crossed' = (check.of # current)
    /\ grid' = IF grid.rows # 0 THEN Drawn(grid) ELSE grid

\* The answer goes into the filing open by now. The second request holds
\* the fields as they are by now: toDocument took references to them.
ValidateAnswers ==
    /\ check.phase = "validate" /\ current # 0
    /\ docs' = [docs EXCEPT ![current].validation = check.sent]
    /\ IF docs[current].of.books
       THEN /\ check' = [check EXCEPT !.phase = "reconcile", !.sent = docs[check.of].fields,
                                      !.to = current]
            /\ UNCHANGED <<grid, crossed>>
       ELSE RecheckEnds
    /\ UNCHANGED <<made, current, edits, timer, loading, opening, strayed>>

\* This answer goes into the filing that was open when it was asked for.
ReconcileAnswers ==
    /\ check.phase = "reconcile"
    /\ docs' = [docs EXCEPT ![check.to].reconciliation = check.sent]
    /\ RecheckEnds
    /\ UNCHANGED <<made, current, edits, timer, loading, opening, strayed>>

\* A request that fails, or no filing left for the answer to go into.
CheckFails ==
    /\ check # NoCheck
    /\ check' = NoCheck /\ crossed' = TRUE
    /\ UNCHANGED <<made, docs, current, edits, timer, loading, opening, grid, strayed>>

BenchNext ==
    \/ Ask \/ AcceptFiling \/ AskFails \/ LayoutArrives \/ CloseFiling
    \/ Filter \/ BeginEdit \/ CommitEdit \/ CancelEdit \/ EditCard \/ Revert
    \/ Recheck \/ RecheckLater \/ ValidateAnswers \/ ReconcileAnswers \/ CheckFails

BenchSpec == BenchInit /\ [][BenchNext]_benchVars
-----------------------------------------------------------------------------
(* Once nothing is pending, what the page says of the open filing is said  *)
(* of its fields as they are, whatever was edited while a check ran. Left  *)
(* out: a check that failed, or during which another filing was opened.    *)
SettledFindings ==
    current # 0 /\ ~timer /\ check = NoCheck /\ ~crossed =>
        LET d == docs[current]
        IN  d.validation = d.fields /\ (d.of.books => d.reconciliation = d.fields)

(* The Edits tab is the difference between the open filing and the file it *)
(* was parsed from: what is listed is what differs, from what it was to    *)
(* what it is, so that reverting everything gives the filing back. Left    *)
(* out: a table that was given another filing's rows.                      *)
EditsAreTheDifference ==
    current # 0 /\ ~strayed =>
        LET d == docs[current]
        IN  /\ DOMAIN edits = {l \in LineNos : d.fields[l] # d.of.parsed[l]}
            /\ \A l \in DOMAIN edits :
                  edits[l] = [before |-> d.of.parsed[l], after |-> d.fields[l], row |-> current]

(* A drawn row is the row that a click on it edits: when no editor is      *)
(* open, the rows drawn are the view, though filters, layouts and checks   *)
(* ended while one was.                                                    *)
DrawnIsTheView == ~Editing => grid.dom = grid.view

(* The page and the open filing agree, whatever came late. *)
PageIsOfTheFiling == SettledFindings /\ EditsAreTheDifference /\ DrawnIsTheView
=============================================================================
