--------------------------- MODULE WorkbenchProofs ---------------------------
(***************************************************************************)
(* Filings in the hands of who reviews them: the page never shows of the    *)
(* open filing what is said of another, however timers, answers, layouts   *)
(* and the user's hands come in between (Workbench); and the two samples    *)
(* that measure the review can be compared, for any letters, reports,      *)
(* pages and faults (ReviewEval).                                          *)
(***************************************************************************)
EXTENDS Workbench, ReviewEval, OrderLemmas

Fields   == [LineNos -> Texts]
Document == [of : Filings, fields : Fields, validation : Fields, reconciliation : Fields]

(* The last filing opened is the open one, and a check goes on with the one *)
(* it was begun for; its second answer goes to that one or a later one.    *)
CheckTypeOK ==
    \/ check = NoCheck
    \/ /\ check \in [phase : {"validate", "reconcile"}, of : 1..Len(docs), sent : Fields, to : 0..Len(docs)]
       /\ check.phase = "reconcile" => check.of <= check.to

Grids(n) ==
    [rows : 0..n, filter : BOOLEAN, view : Seq(BodyLines), dom : Seq(BodyLines),
     editing : [doc : 1..n, line : BodyLines, before : Texts] \cup {NoEditor}, pending : BOOLEAN]

GridTypeOK ==
    /\ grid \in Grids(Len(docs))
    /\ grid.rows # 0 => current # 0

BenchTypeOK ==
    /\ docs \in Seq(Document) /\ current \in {0, Len(docs)}
    /\ DOMAIN edits \subseteq LineNos
    /\ edits \in [DOMAIN edits -> [before : Texts, after : Texts, row : 1..Len(docs)]]
    /\ timer \in BOOLEAN /\ crossed \in BOOLEAN /\ strayed \in BOOLEAN
    /\ loading \subseteq Filings /\ opening \in Seq(1..Len(docs))
    /\ CheckTypeOK /\ GridTypeOK

(* An editor is open on a row of the table, with what stands there.        *)
EditorHoldsItsRow ==
    Editing => LET e == grid.editing
               IN  /\ grid.rows # 0
                   /\ e.before = docs[e.doc].fields[e.line]

(* Unless it was given another filing's, the table has the open filing's rows. *)
TableIsOfTheOpen ==
    ~strayed => /\ grid.rows # 0 => grid.rows = current
                /\ Editing => grid.editing.doc = current

(* What is put off is put off for an editor.                               *)
PutOffIsDrawn == ~grid.pending => grid.dom = grid.view

(* A check that will be the last one carries the fields as they are: an    *)
(* edit since it was begun has started the timer again.                    *)
CheckCarriesTheFields ==
    current # 0 /\ check # NoCheck /\ check.of = current /\ ~timer =>
        /\ check.sent = docs[current].fields
        /\ check.phase = "reconcile" => docs[current].validation = docs[current].fields

BenchInv ==
    /\ BenchTypeOK /\ EditorHoldsItsRow /\ TableIsOfTheOpen /\ PutOffIsDrawn
    /\ CheckCarriesTheFields /\ PageIsOfTheFiling
-----------------------------------------------------------------------------
(* The lines of a set, least first: every one of them, and none twice.     *)
LEMMA LinesInOrderAre ==
    ASSUME NEW S \in SUBSET LineNos
    PROVE  /\ LinesInOrder(S) \in [1..Cardinality(S) -> S] /\ Cardinality(S) \in Nat
           /\ \A i, j \in 1..Cardinality(S) : i < j => LinesInOrder(S)[i] < LinesInOrder(S)[j]
           /\ \A l \in S : \E i \in 1..Cardinality(S) : LinesInOrder(S)[i] = l
<1> DEFINE R == {p \in S \X S : p[1] < p[2]}
           Under(l) == Cardinality({m \in S : m < l})
           n == Cardinality(S)
<1>1. IsFiniteSet(S) /\ S \subseteq Nat
  BY LinesAssumption, FS_Subset
<1>2. Orders(R, S)
  BY <1>1 DEF Orders
<1>3. ASSUME NEW l \in S
      PROVE  Rank(R, S, l) = Under(l)
  <2>1. {m \in S : <<m, l>> \in R} = {m \in S : m < l}
    OBVIOUS
  <2> QED
    BY <2>1 DEF Rank
<1>4. /\ \A l \in S : Under(l) \in 0..(n - 1)
      /\ \A l, m \in S : l < m => Under(l) < Under(m)
      /\ \A k \in 1..n : \E l \in S : Under(l) = k - 1
  <2>1. \A l, m \in S : l < m => <<l, m>> \in R
    OBVIOUS
  <2> HIDE DEF Under, R, n
  <2>2. IsFiniteSet(S) /\ Orders(R, S)
    BY <1>1, <1>2
  <2>3. /\ \A l \in S : Rank(R, S, l) \in 0..(Cardinality(S) - 1)
        /\ \A l, m \in S : <<l, m>> \in R => Rank(R, S, l) < Rank(R, S, m)
        /\ \A k \in 1..Cardinality(S) : \E l \in S : Rank(R, S, l) = k - 1
    BY <2>2, RanksAreAll
  <2> QED
    BY <1>3, <2>1, <2>3 DEF n
<1>5. n \in Nat
  BY <1>1, FS_CardinalityType
<1>6. LinesInOrder(S) = [k \in 1..n |-> CHOOSE l \in S : Under(l) = k - 1]
  BY DEF LinesInOrder
<1> HIDE DEF Under, n
<1>7. ASSUME NEW k \in 1..n
      PROVE  LinesInOrder(S)[k] \in S /\ Under(LinesInOrder(S)[k]) = k - 1
  BY <1>4, <1>6
<1>8. LinesInOrder(S) \in [1..n -> S]
  <2>1. DOMAIN LinesInOrder(S) = 1..n /\ LinesInOrder(S) = [k \in 1..n |-> LinesInOrder(S)[k]]
    BY <1>6
  <2> QED
    BY <1>7, <2>1
<1>9. ASSUME NEW i \in 1..n, NEW j \in 1..n, i < j
      PROVE  LinesInOrder(S)[i] < LinesInOrder(S)[j]
  <2> DEFINE a == LinesInOrder(S)[i]
             b == LinesInOrder(S)[j]
  <2>1. a \in S /\ b \in S /\ Under(a) = i - 1 /\ Under(b) = j - 1 /\ a \in Nat /\ b \in Nat
    BY <1>1, <1>7
  <2> HIDE DEF a, b
  <2>2. a # b /\ ~(b < a)
    BY <1>4, <1>5, <1>9, <2>1
  <2>3. a < b
    BY <2>1, <2>2
  <2> QED
    BY <2>3 DEF a, b
<1>10. ASSUME NEW l \in S
       PROVE  \E i \in 1..n : LinesInOrder(S)[i] = l
  <2> DEFINE k == Under(l) + 1
             m == LinesInOrder(S)[k]
  <2>1. k \in 1..n
    BY <1>4, <1>5
  <2>2. m \in S /\ Under(m) = Under(l) /\ m \in Nat /\ l \in Nat /\ Under(l) \in Int
    <3>1. m \in S /\ Under(m) = k - 1
      BY <1>7, <2>1
    <3>2. Under(l) \in Int
      BY <1>4, <1>5
    <3> HIDE DEF m
    <3> QED
      BY <1>1, <3>1, <3>2
  <2>3. ~(m < l) /\ ~(l < m)
    <3> HIDE DEF m
    <3> QED
      BY <1>4, <2>2
  <2>4. m = l
    <3> HIDE DEF m
    <3> QED
      BY <2>2, <2>3
  <2> QED
    BY <2>1, <2>4
<1> QED
  BY <1>5, <1>8, <1>9, <1>10 DEF n

LEMMA InOrderType ==
    ASSUME NEW S \in SUBSET LineNos
    PROVE  LinesInOrder(S) \in Seq(S)
BY LinesInOrderAre

LEMMA ViewType ==
    ASSUME NEW g
    PROVE  ViewOf(g) \in Seq(BodyLines)
<1> DEFINE S == {l \in BodyLines : g.filter => docs[g.rows].fields[l] = Needle}
<1>1. S \subseteq BodyLines /\ S \subseteq LineNos
  BY DEF BodyLines
<1>2. LinesInOrder(S) \in Seq(S)
  BY <1>1, InOrderType
<1>3. LinesInOrder(S) \in Seq(BodyLines)
  BY <1>1, <1>2, SeqMonotonic
<1> QED
  BY <1>3 DEF ViewOf

(* Drawing changes what is drawn, and what is put off, and nothing else.   *)
LEMMA DrawnKeeps ==
    ASSUME NEW n \in Nat, NEW g \in Grids(n)
    PROVE  /\ Drawn(g) \in Grids(n)
           /\ Drawn(g).rows = g.rows /\ Drawn(g).editing = g.editing
           /\ g.editing # NoEditor => Drawn(g).pending
           /\ g.editing = NoEditor => Drawn(g).dom = Drawn(g).view /\ Drawn(g).pending = g.pending
BY DEF Grids, Drawn

LEMMA AppliedKeeps ==
    ASSUME NEW n \in Nat, NEW g \in Grids(n)
    PROVE  /\ Applied(g) \in Grids(n)
           /\ Applied(g).rows = g.rows /\ Applied(g).editing = g.editing
           /\ g.editing # NoEditor => Applied(g).pending
           /\ g.editing = NoEditor => Applied(g).dom = Applied(g).view /\ Applied(g).pending = g.pending
<1> DEFINE h == [g EXCEPT !.view = ViewOf(g)]
<1>1. h \in Grids(n) /\ h.rows = g.rows /\ h.editing = g.editing /\ h.pending = g.pending
  BY ViewType DEF Grids
<1> HIDE DEF h
<1>2. Applied(g) = Drawn(h)
  BY DEF Applied, h
<1> QED
  BY <1>1, <1>2, DrawnKeeps

LEMMA ClosedKeeps ==
    ASSUME NEW n \in Nat, NEW g \in Grids(n), ~g.pending => g.dom = g.view
    PROVE  /\ Closed(g) \in Grids(n)
           /\ Closed(g).rows = g.rows /\ Closed(g).editing = NoEditor
           /\ Closed(g).dom = Closed(g).view
BY DEF Grids, Closed, NoEditor

LEMMA NewGrid ==
    ASSUME NEW n \in Nat, NEW v \in Seq(BodyLines)
    PROVE  [rows |-> n, filter |-> FALSE, view |-> v, dom |-> v, editing |-> NoEditor,
            pending |-> FALSE] \in Grids(n)
BY DEF Grids

LEMMA RowsGiven ==
    ASSUME NEW n \in Nat, NEW g \in Grids(n), NEW d \in 1..n
    PROVE  [g EXCEPT !.rows = d] \in Grids(n)
BY DEF Grids

LEMMA OpeningShrinks ==
    ASSUME NEW S, NEW s \in Seq(S), NEW i \in DOMAIN s
    PROVE  RemoveAt(s, i) \in Seq(S)
<1>1. i \in 1..Len(s) /\ Len(s) \in Nat
  OBVIOUS
<1>2. SubSeq(s, 1, i - 1) \in Seq(S) /\ SubSeq(s, i + 1, Len(s)) \in Seq(S)
  BY <1>1
<1> QED
  BY <1>2 DEF RemoveAt

LEMMA BenchInitInv == BenchInit => BenchInv
<1> SUFFICES ASSUME BenchInit PROVE BenchInv
  OBVIOUS
<1>1. docs = << >> /\ Len(docs) = 0 /\ DOMAIN edits = {}
  BY DEF BenchInit
<1>2. grid \in Grids(0)
  BY DEF BenchInit, Grids, NoGrid
<1>3. BenchTypeOK
  <2>1. docs \in Seq(Document) /\ opening \in Seq(1..Len(docs)) /\ current \in {0, Len(docs)}
    BY <1>1, EmptySeq DEF BenchInit
  <2>2. edits \in [{} -> [before : Texts, after : Texts, row : 1..Len(docs)]]
    BY <1>1 DEF BenchInit
  <2> QED
    BY <1>1, <1>2, <2>1, <2>2 DEF BenchInit, BenchTypeOK, CheckTypeOK, GridTypeOK, NoGrid
<1> QED
  BY <1>1, <1>3 DEF BenchInit, BenchInv, EditorHoldsItsRow, TableIsOfTheOpen, PutOffIsDrawn,
        CheckCarriesTheFields, PageIsOfTheFiling, SettledFindings, EditsAreTheDifference,
        DrawnIsTheView, Editing, NoGrid

-----------------------------------------------------------------------------
(* The types, action by action.                                            *)
LEMMA EditType ==
    ASSUME BenchTypeOK, NEW d \in 1..Len(docs), NEW l \in LineNos, NEW before \in Texts,
           NEW after \in Texts, Edit(d, l, before, after)
    PROVE  /\ docs' \in Seq(Document) /\ Len(docs') = Len(docs)
           /\ DOMAIN edits' \subseteq LineNos
           /\ edits' \in [DOMAIN edits' -> [before : Texts, after : Texts, row : 1..Len(docs)]]
           /\ timer'
<1>1. docs \in Seq(Document) /\ docs[d] \in Document
  BY DEF BenchTypeOK
<1>2. [docs[d] EXCEPT !.fields = [docs[d].fields EXCEPT ![l] = after]] \in Document
  BY <1>1 DEF Document, Fields
<1>3. docs' = [docs EXCEPT ![d] = [docs[d] EXCEPT !.fields = [docs[d].fields EXCEPT ![l] = after]]]
  BY <1>1 DEF Edit
<1>4. docs' \in Seq(Document) /\ Len(docs') = Len(docs)
  BY <1>1, <1>2, <1>3
<1>5. Original(l, before) \in Texts
  BY DEF BenchTypeOK, Original
<1>6. /\ DOMAIN edits' \subseteq LineNos
      /\ edits' \in [DOMAIN edits' -> [before : Texts, after : Texts, row : 1..Len(docs)]]
  <2>1. CASE after = Original(l, before)
    <3>1. edits' = [k \in DOMAIN edits \ {l} |-> edits[k]]
      BY <2>1 DEF Edit
    <3> QED
      BY <3>1 DEF BenchTypeOK
  <2>2. CASE after # Original(l, before)
    <3>1. edits' = [k \in DOMAIN edits \cup {l} |->
                       IF k = l THEN [before |-> Original(l, before), after |-> after, row |-> d]
                       ELSE edits[k]]
      BY <2>2 DEF Edit
    <3> QED
      BY <1>5, <3>1 DEF BenchTypeOK
  <2> QED
    BY <2>1, <2>2
<1> QED
  BY <1>4, <1>6 DEF Edit

LEMMA BenchTypeStep ==
    ASSUME BenchTypeOK, EditorHoldsItsRow, PutOffIsDrawn, [BenchNext]_benchVars
    PROVE  BenchTypeOK'
<1>n. Len(docs) \in Nat /\ docs \in Seq(Document) /\ current \in {0, Len(docs)}
  BY DEF BenchTypeOK
<1>d. \A d \in 1..Len(docs) : docs[d] \in Document /\ docs[d].fields \in Fields
  <2>1. \A d \in 1..Len(docs) : docs[d] \in Document
    BY <1>n
  <2> QED
    BY <2>1 DEF Document
<1>e. /\ DOMAIN edits \subseteq LineNos
      /\ edits \in [DOMAIN edits -> [before : Texts, after : Texts, row : 1..Len(docs)]]
  BY DEF BenchTypeOK
<1>g. grid \in Grids(Len(docs)) /\ (grid.rows # 0 => current # 0)
  BY DEF GridTypeOK, BenchTypeOK
<1>1. CASE Ask \/ AskFails
  <2>1. UNCHANGED <<docs, current, edits, timer, check, opening, grid, crossed, strayed>>
        /\ loading' \subseteq Filings
    BY <1>1 DEF Ask, AskFails, BenchTypeOK
  <2> QED
    BY <2>1 DEF CheckTypeOK, GridTypeOK, BenchTypeOK
<1>2. CASE AcceptFiling
  <2> PICK f \in loading :
        /\ docs' = Append(docs, [of |-> f, fields |-> f.parsed,
                                 validation |-> f.parsed, reconciliation |-> f.parsed])
        /\ loading' = loading \ {f} /\ current' = Len(docs) + 1 /\ edits' = << >>
        /\ grid' = [NoGrid EXCEPT !.rows = Len(docs) + 1, !.view = LinesInOrder(BodyLines),
                                  !.dom = LinesInOrder(BodyLines)]
        /\ opening' = Append(opening, Len(docs) + 1)
        /\ crossed' = (check # NoCheck) /\ strayed' = FALSE /\ UNCHANGED <<timer, check>>
    BY <1>2 DEF AcceptFiling
  <2>1. [of |-> f, fields |-> f.parsed, validation |-> f.parsed, reconciliation |-> f.parsed] \in Document
    BY LinesAssumption DEF Document, Fields, BenchTypeOK
  <2>2. docs' \in Seq(Document) /\ Len(docs') = Len(docs) + 1
    BY <2>1 DEF BenchTypeOK
  <2>3. opening' \in Seq(1..Len(docs'))
    <3>1. opening \in Seq(1..Len(docs'))
      BY <1>n, <2>2, SeqMonotonic, 1..Len(docs) \subseteq 1..Len(docs') DEF BenchTypeOK
    <3> QED
      BY <1>n, <2>2, <3>1
  <2>4. CheckTypeOK'
    BY <1>n, <2>2 DEF CheckTypeOK, BenchTypeOK
  <2>5. GridTypeOK'
    <3>1. LinesInOrder(BodyLines) \in Seq(BodyLines)
      BY InOrderType DEF BodyLines
    <3>2. grid' = [rows |-> Len(docs'), filter |-> FALSE, view |-> LinesInOrder(BodyLines),
                   dom |-> LinesInOrder(BodyLines), editing |-> NoEditor, pending |-> FALSE]
      BY <2>2 DEF NoGrid
    <3>3. grid' \in Grids(Len(docs'))
      <4>1. Len(docs') \in Nat
        BY <1>n, <2>2
      <4> QED
        BY <3>1, <3>2, <4>1, NewGrid
    <3> QED
      BY <1>n, <2>2, <3>3 DEF GridTypeOK
  <2>6. edits' \in [{} -> [before : Texts, after : Texts, row : 1..Len(docs')]]
    OBVIOUS
  <2> QED
    BY <1>n, <2>2, <2>3, <2>4, <2>5, <2>6 DEF BenchTypeOK
<1>3. CASE LayoutArrives
  <2> PICK i \in DOMAIN opening :
        /\ opening' = RemoveAt(opening, i)
        /\ IF grid.rows # 0
           THEN grid' = WithRows(grid, opening[i]) /\ strayed' = (strayed \/ opening[i] # current)
           ELSE UNCHANGED <<grid, strayed>>
    BY <1>3 DEF LayoutArrives
  <2>1. UNCHANGED <<docs, current, edits, timer, check, loading, crossed>>
    BY <1>3 DEF LayoutArrives
  <2>2. opening' \in Seq(1..Len(docs)) /\ opening[i] \in 1..Len(docs)
    BY OpeningShrinks DEF BenchTypeOK
  <2>3. GridTypeOK'
    <3>1. CASE grid.rows # 0
      <4>1. [grid EXCEPT !.rows = opening[i]] \in Grids(Len(docs))
        BY <1>n, <1>g, <2>2, RowsGiven
      <4>2. grid' \in Grids(Len(docs))
        BY <1>n, <3>1, <4>1, AppliedKeeps DEF WithRows
      <4> QED
        BY <1>g, <2>1, <3>1, <4>2 DEF GridTypeOK
    <3>2. CASE grid.rows = 0
      BY <1>g, <2>1, <3>2 DEF GridTypeOK
    <3> QED
      BY <3>1, <3>2
  <2>4. strayed' \in BOOLEAN
    BY DEF BenchTypeOK
  <2> QED
    BY <2>1, <2>2, <2>3, <2>4 DEF CheckTypeOK, BenchTypeOK
<1>4. CASE CloseFiling
  <2>1. grid' \in Grids(Len(docs))
    <3>1. << >> \in Seq(BodyLines)
      BY EmptySeq
    <3> QED
      BY <1>4, <1>n, <3>1 DEF CloseFiling, Grids, NoGrid
  <2>2. grid'.rows = 0
    BY <1>4 DEF CloseFiling, NoGrid
  <2>3. edits' \in [{} -> [before : Texts, after : Texts, row : 1..Len(docs)]] /\ DOMAIN edits' = {}
    BY <1>4 DEF CloseFiling
  <2> QED
    BY <1>4, <2>1, <2>2, <2>3 DEF CloseFiling, CheckTypeOK, GridTypeOK, BenchTypeOK
<1>5. CASE Filter \/ BeginEdit \/ CancelEdit
  <2>1. UNCHANGED <<docs, current, edits, timer, check, loading, opening, crossed, strayed>>
    BY <1>5 DEF Filter, BeginEdit, CancelEdit
  <2>2. grid' \in Grids(Len(docs)) /\ grid'.rows = grid.rows
    <3>1. CASE Filter
      <4> PICK f \in BOOLEAN : grid' = Applied([grid EXCEPT !.filter = f])
        BY <3>1 DEF Filter
      <4>1. [grid EXCEPT !.filter = f] \in Grids(Len(docs)) /\ [grid EXCEPT !.filter = f].rows = grid.rows
        BY <1>g DEF Grids
      <4> QED
        BY <1>n, <4>1, AppliedKeeps
    <3>2. CASE BeginEdit
      <4> PICK i \in DOMAIN grid.view :
            grid' = [grid EXCEPT !.editing = [doc |-> grid.rows, line |-> grid.view[i],
                                              before |-> docs[grid.rows].fields[grid.view[i]]]]
        BY <3>2 DEF BeginEdit
      <4>1. grid.rows \in 1..Len(docs)
        BY <1>n, <1>g, <3>2 DEF BeginEdit, Grids
      <4>2. grid.view[i] \in BodyLines
        BY <1>g DEF Grids
      <4>3. docs[grid.rows].fields[grid.view[i]] \in Texts
        BY <1>d, <4>1, <4>2 DEF Fields, BodyLines
      <4> QED
        BY <1>g, <4>1, <4>2, <4>3 DEF Grids
    <3>3. CASE CancelEdit
      BY <1>n, <1>g, <3>3, ClosedKeeps DEF CancelEdit, PutOffIsDrawn
    <3> QED
      BY <1>5, <3>1, <3>2, <3>3
  <2> QED
    BY <1>g, <2>1, <2>2 DEF CheckTypeOK, GridTypeOK, BenchTypeOK
<1>6. CASE CommitEdit
  <2> DEFINE e == grid.editing
  <2>1. e \in [doc : 1..Len(docs), line : BodyLines, before : Texts]
    BY <1>6, <1>g DEF CommitEdit, Editing, Grids
  <2>2. PICK after \in Texts : Edit(e.doc, e.line, e.before, after)
    BY <1>6 DEF CommitEdit
  <2>3. /\ docs' \in Seq(Document) /\ Len(docs') = Len(docs)
        /\ DOMAIN edits' \subseteq LineNos
        /\ edits' \in [DOMAIN edits' -> [before : Texts, after : Texts, row : 1..Len(docs)]]
        /\ timer' = TRUE
    <3>1. e.doc \in 1..Len(docs) /\ e.line \in LineNos /\ e.before \in Texts
      BY <2>1 DEF BodyLines
    <3> HIDE DEF e
    <3> QED
      BY <2>2, <3>1, EditType DEF Edit
  <2>4. grid' \in Grids(Len(docs)) /\ grid'.rows = grid.rows
    BY <1>n, <1>g, <1>6, ClosedKeeps DEF CommitEdit, PutOffIsDrawn
  <2> QED
    BY <1>6, <1>g, <2>3, <2>4 DEF CommitEdit, CheckTypeOK, GridTypeOK, BenchTypeOK
<1>7. CASE EditCard
  <2>1. current \in 1..Len(docs) /\ CoverLine \in LineNos
    BY <1>7, <1>n, LinesAssumption DEF EditCard
  <2>2. docs[current].fields[CoverLine] \in Texts
    BY <1>d, <2>1 DEF Fields
  <2>3. PICK after \in Texts : Edit(current, CoverLine, docs[current].fields[CoverLine], after)
    BY <1>7 DEF EditCard
  <2>4. /\ docs' \in Seq(Document) /\ Len(docs') = Len(docs)
        /\ DOMAIN edits' \subseteq LineNos
        /\ edits' \in [DOMAIN edits' -> [before : Texts, after : Texts, row : 1..Len(docs)]]
        /\ timer' = TRUE
    BY <2>1, <2>2, <2>3, EditType DEF Edit
  <2> QED
    BY <1>7, <1>g, <2>4 DEF EditCard, CheckTypeOK, GridTypeOK, BenchTypeOK
<1>8. CASE Revert
  <2>1. PICK some \in SUBSET DOMAIN edits :
        /\ docs' = [d \in DOMAIN docs |-> [docs[d] EXCEPT !.fields = Restored(d, some)]]
        /\ edits' = [l \in DOMAIN edits \ some |-> edits[l]]
    BY <1>8 DEF Revert
  <2>2. ASSUME NEW d \in 1..Len(docs)
        PROVE  docs'[d] \in Document
    <3>1. docs[d] \in Document
      BY DEF BenchTypeOK
    <3>2. Restored(d, some) \in Fields
      BY <1>d, <1>e DEF Fields, Restored
    <3>3. docs'[d] = [docs[d] EXCEPT !.fields = Restored(d, some)]
      BY <1>n, <2>1
    <3> QED
      BY <3>1, <3>2, <3>3 DEF Document
  <2>3. docs' \in Seq(Document) /\ Len(docs') = Len(docs)
    <3>1. DOMAIN docs = 1..Len(docs)
      BY <1>n
    <3>2. docs' = [d \in 1..Len(docs) |-> docs'[d]]
      BY <2>1, <3>1
    <3>3. docs' \in [1..Len(docs) -> Document]
      BY <2>2, <3>2
    <3> QED
      BY <1>n, <3>3
  <2>4. /\ DOMAIN edits' \subseteq LineNos
        /\ edits' \in [DOMAIN edits' -> [before : Texts, after : Texts, row : 1..Len(docs)]]
    BY <2>1 DEF BenchTypeOK
  <2>5. grid' \in Grids(Len(docs)) /\ grid'.rows = grid.rows
    BY <1>n, <1>g, <1>8, DrawnKeeps DEF Revert
  <2> QED
    BY <1>8, <1>g, <2>3, <2>4, <2>5 DEF Revert, CheckTypeOK, GridTypeOK, BenchTypeOK
<1>9. CASE Recheck \/ RecheckLater
  <2>1. UNCHANGED <<docs, current, edits, loading, opening, grid, crossed, strayed>> /\ timer' \in BOOLEAN
    BY <1>9 DEF Recheck, RecheckLater
  <2>2. CheckTypeOK'
    <3>1. CASE Recheck
      <4>1. current \in 1..Len(docs)
        BY <3>1, <1>n DEF Recheck
      <4>2. docs[current].fields \in Fields
        BY <1>d, <4>1
      <4> QED
        BY <1>n, <2>1, <3>1, <4>1, <4>2 DEF Recheck, CheckTypeOK
    <3>2. CASE RecheckLater
      BY <2>1, <3>2 DEF RecheckLater, CheckTypeOK, BenchTypeOK
    <3> QED
      BY <1>9, <3>1, <3>2
  <2> QED
    BY <2>1, <2>2 DEF GridTypeOK, BenchTypeOK
<1>10. CASE ValidateAnswers \/ ReconcileAnswers
  <2>1. check \in [phase : {"validate", "reconcile"}, of : 1..Len(docs), sent : Fields, to : 0..Len(docs)]
        /\ (check.phase = "reconcile" => check.of <= check.to)
    BY <1>10 DEF ValidateAnswers, ReconcileAnswers, CheckTypeOK, NoCheck, BenchTypeOK
  <2>2. UNCHANGED <<current, edits, timer, loading, opening, strayed>>
    BY <1>10 DEF ValidateAnswers, ReconcileAnswers
  <2>3. docs' \in Seq(Document) /\ Len(docs') = Len(docs)
    <3>1. CASE ValidateAnswers
      <4>1. current \in 1..Len(docs) /\ docs' = [docs EXCEPT ![current].validation = check.sent]
        BY <1>n, <3>1 DEF ValidateAnswers
      <4>2. [docs[current] EXCEPT !.validation = check.sent] \in Document
        BY <1>d, <2>1, <4>1 DEF Document
      <4> QED
        BY <4>1, <4>2 DEF BenchTypeOK
    <3>2. CASE ReconcileAnswers
      <4>1. check.to \in 1..Len(docs) /\ docs' = [docs EXCEPT ![check.to].reconciliation = check.sent]
        BY <1>n, <2>1, <3>2 DEF ReconcileAnswers
      <4>2. [docs[check.to] EXCEPT !.reconciliation = check.sent] \in Document
        BY <1>d, <2>1, <4>1 DEF Document
      <4> QED
        BY <4>1, <4>2 DEF BenchTypeOK
    <3> QED
      BY <1>10, <3>1, <3>2
  <2>4. CheckTypeOK' /\ GridTypeOK' /\ crossed' \in BOOLEAN
    <3>1. CASE RecheckEnds
      <4>1. grid' \in Grids(Len(docs)) /\ grid'.rows = grid.rows
        BY <1>n, <1>g, <3>1, DrawnKeeps DEF RecheckEnds
      <4> QED
        BY <1>g, <2>2, <2>3, <3>1, <4>1 DEF RecheckEnds, CheckTypeOK, GridTypeOK
    <3>2. CASE ~RecheckEnds
      <4>1. /\ ValidateAnswers /\ UNCHANGED <<grid, crossed>>
            /\ check' = [check EXCEPT !.phase = "reconcile", !.sent = docs[check.of].fields, !.to = current]
        BY <1>10, <3>2 DEF ValidateAnswers, ReconcileAnswers
      <4>2. current = Len(docs) /\ docs[check.of].fields \in Fields
        BY <1>n, <1>d, <2>1, <4>1 DEF ValidateAnswers
      <4>3. CheckTypeOK'
        <5>1. /\ check'.phase = "reconcile" /\ check'.of = check.of /\ check'.to = Len(docs)
              /\ check' \in [phase : {"validate", "reconcile"}, of : 1..Len(docs), sent : Fields,
                             to : 0..Len(docs)]
          <6>1. check' = [phase |-> "reconcile", of |-> check.of, sent |-> docs[check.of].fields, to |-> current]
            BY <2>1, <4>1
          <6> QED
            BY <1>n, <2>1, <4>2, <6>1
        <5> QED
          BY <1>n, <2>1, <2>3, <5>1 DEF CheckTypeOK
      <4> QED
        BY <1>g, <2>2, <2>3, <4>1, <4>3 DEF GridTypeOK, BenchTypeOK
    <3> QED
      BY <3>1, <3>2
  <2> QED
    BY <2>2, <2>3, <2>4 DEF BenchTypeOK
<1>11. CASE CheckFails
  BY <1>11 DEF CheckFails, CheckTypeOK, GridTypeOK, BenchTypeOK
<1>12. CASE UNCHANGED benchVars
  BY <1>12 DEF benchVars, CheckTypeOK, GridTypeOK, BenchTypeOK
<1> QED
  BY <1>1, <1>2, <1>3, <1>4, <1>5, <1>6, <1>7, <1>8, <1>9, <1>10, <1>11, <1>12 DEF BenchNext
-----------------------------------------------------------------------------
(* What a step does to the table, from where the editor is.                 *)
LEMMA GridSteps ==
    ASSUME BenchTypeOK, PutOffIsDrawn, [BenchNext]_benchVars
    PROVE  \/ UNCHANGED grid
           \/ AcceptFiling /\ grid'.editing = NoEditor /\ ~grid'.pending /\ grid'.dom = grid'.view
              /\ grid'.rows = current'
           \/ CloseFiling /\ grid' = NoGrid
           \/ /\ BeginEdit /\ grid'.rows = grid.rows /\ grid'.dom = grid.dom /\ grid'.view = grid.view
              /\ grid'.pending = grid.pending
              /\ grid'.editing.doc = grid.rows
              /\ grid'.editing.before = docs[grid.rows].fields[grid'.editing.line]
           \/ /\ CommitEdit \/ CancelEdit
              /\ grid'.rows = grid.rows /\ grid'.editing = NoEditor /\ grid'.dom = grid'.view
           \/ /\ LayoutArrives /\ grid.rows # 0 /\ grid'.editing = grid.editing
              /\ \E i \in DOMAIN opening : grid'.rows = opening[i] /\ strayed' = (strayed \/ opening[i] # current)
              /\ Editing => grid'.pending
              /\ ~Editing => grid'.dom = grid'.view /\ grid'.pending = grid.pending
           \/ /\ Filter \/ Revert \/ ValidateAnswers \/ ReconcileAnswers
              /\ grid'.rows = grid.rows /\ grid'.editing = grid.editing
              /\ Editing => grid'.pending
              /\ ~Editing => grid'.dom = grid'.view /\ grid'.pending = grid.pending
<1>n. Len(docs) \in Nat /\ grid \in Grids(Len(docs))
  BY DEF BenchTypeOK, GridTypeOK
<1>1. CASE Ask \/ AskFails \/ EditCard \/ Recheck \/ RecheckLater \/ CheckFails \/ UNCHANGED benchVars
  BY <1>1 DEF Ask, AskFails, EditCard, Recheck, RecheckLater, CheckFails, benchVars
<1>2. CASE AcceptFiling
  BY <1>2 DEF AcceptFiling, NoGrid
<1>3. CASE CloseFiling
  BY <1>3 DEF CloseFiling
<1>4. CASE BeginEdit
  <2>1. PICK i \in DOMAIN grid.view :
            grid' = [grid EXCEPT !.editing = [doc |-> grid.rows, line |-> grid.view[i],
                                              before |-> docs[grid.rows].fields[grid.view[i]]]]
    BY <1>4 DEF BeginEdit
  <2> QED
    BY <1>4, <1>n, <2>1 DEF Grids
<1>5. CASE CommitEdit \/ CancelEdit
  <2>1. grid' = Closed(grid)
    BY <1>5 DEF CommitEdit, CancelEdit
  <2> QED
    BY <1>5, <1>n, <2>1, ClosedKeeps DEF PutOffIsDrawn
<1>6. CASE LayoutArrives
  <2> PICK i \in DOMAIN opening :
        IF grid.rows # 0
        THEN grid' = WithRows(grid, opening[i]) /\ strayed' = (strayed \/ opening[i] # current)
        ELSE UNCHANGED <<grid, strayed>>
    BY <1>6 DEF LayoutArrives
  <2>1. CASE grid.rows # 0
    <3> DEFINE h == [grid EXCEPT !.rows = opening[i]]
    <3>1. opening[i] \in 1..Len(docs)
      BY DEF BenchTypeOK
    <3>2. h \in Grids(Len(docs)) /\ h.rows = opening[i] /\ h.editing = grid.editing /\ h.pending = grid.pending
      BY <1>n, <3>1, RowsGiven DEF Grids
    <3>3. grid' = Applied(h)
      BY <2>1 DEF WithRows
    <3> HIDE DEF h
    <3> QED
      BY <1>6, <1>n, <2>1, <3>2, <3>3, AppliedKeeps DEF Editing
  <2> QED
    BY <2>1
<1>7. CASE Filter
  <2> PICK f \in BOOLEAN : grid' = Applied([grid EXCEPT !.filter = f])
    BY <1>7 DEF Filter
  <2> DEFINE h == [grid EXCEPT !.filter = f]
  <2>1. h \in Grids(Len(docs)) /\ h.rows = grid.rows /\ h.editing = grid.editing /\ h.pending = grid.pending
    BY <1>n DEF Grids
  <2>2. grid' = Applied(h)
    OBVIOUS
  <2> HIDE DEF h
  <2> QED
    BY <1>7, <1>n, <2>1, <2>2, AppliedKeeps DEF Editing
<1>8. CASE Revert
  BY <1>8, <1>n, DrawnKeeps DEF Revert, Editing
<1>9. CASE ValidateAnswers \/ ReconcileAnswers
  <2>1. grid' = grid \/ grid' = Drawn(grid)
    BY <1>9 DEF ValidateAnswers, ReconcileAnswers, RecheckEnds
  <2> QED
    BY <1>9, <1>n, <2>1, DrawnKeeps DEF Editing
<1> QED
  BY <1>1, <1>2, <1>3, <1>4, <1>5, <1>6, <1>7, <1>8, <1>9 DEF BenchNext

LEMMA DrawnStep ==
    ASSUME BenchTypeOK, PutOffIsDrawn, DrawnIsTheView, [BenchNext]_benchVars
    PROVE  PutOffIsDrawn' /\ DrawnIsTheView'
<1>1. CASE UNCHANGED grid
  BY <1>1 DEF PutOffIsDrawn, DrawnIsTheView, Editing
<1>2. CASE CloseFiling /\ grid' = NoGrid
  BY <1>2 DEF PutOffIsDrawn, DrawnIsTheView, NoGrid
<1>3. CASE ~UNCHANGED grid /\ ~(CloseFiling /\ grid' = NoGrid)
  <2>1. BeginEdit => ~Editing
    BY DEF BeginEdit
  <2>2. CASE BeginEdit /\ grid'.dom = grid.dom /\ grid'.view = grid.view
    BY <2>1, <2>2 DEF PutOffIsDrawn, DrawnIsTheView
  <2> QED
    BY <1>3, <2>2, GridSteps DEF PutOffIsDrawn, DrawnIsTheView, Editing
<1> QED
  BY <1>1, <1>2, <1>3

(* What becomes of the fields and of the open filing.                       *)
LEMMA FieldsSteps ==
    ASSUME BenchTypeOK, [BenchNext]_benchVars
    PROVE  \/ /\ UNCHANGED current /\ Len(docs') = Len(docs)
              /\ \A d \in 1..Len(docs) : /\ docs'[d].fields = docs[d].fields /\ docs'[d].of = docs[d].of
                                         /\ docs'[d] \in Document
              /\ UNCHANGED edits
           \/ AcceptFiling
           \/ CloseFiling
           \/ (CommitEdit \/ EditCard \/ Revert) /\ UNCHANGED current /\ timer'
<1>n. Len(docs) \in Nat /\ docs \in Seq(Document) /\ current \in {0, Len(docs)}
  BY DEF BenchTypeOK
<1>d. \A d \in 1..Len(docs) : docs[d] \in Document
  BY <1>n
<1>1. CASE UNCHANGED <<docs, current, edits>>
  BY <1>1, <1>d
<1>2. CASE Ask \/ AskFails \/ Recheck \/ RecheckLater \/ CheckFails \/ UNCHANGED benchVars
           \/ LayoutArrives \/ Filter \/ BeginEdit \/ CancelEdit
  BY <1>1, <1>2 DEF Ask, AskFails, Recheck, RecheckLater, CheckFails, benchVars, LayoutArrives,
        Filter, BeginEdit, CancelEdit
<1>3. CASE CommitEdit \/ EditCard \/ Revert
  <2>1. timer'
    BY <1>3 DEF CommitEdit, EditCard, Revert, Edit
  <2>2. UNCHANGED current
    BY <1>3 DEF CommitEdit, EditCard, Revert
  <2> QED
    BY <1>3, <2>1, <2>2
<1>4. CASE ValidateAnswers \/ ReconcileAnswers
  <2>1. check \in [phase : {"validate", "reconcile"}, of : 1..Len(docs), sent : Fields, to : 0..Len(docs)]
        /\ (check.phase = "reconcile" => check.of <= check.to)
    BY <1>4 DEF ValidateAnswers, ReconcileAnswers, BenchTypeOK, CheckTypeOK, NoCheck
  <2>2. UNCHANGED <<current, edits>>
    BY <1>4 DEF ValidateAnswers, ReconcileAnswers
  <2>3. \E d \in 1..Len(docs) : \/ docs' = [docs EXCEPT ![d].validation = check.sent]
                               \/ docs' = [docs EXCEPT ![d].reconciliation = check.sent]
    BY <1>4, <1>n, <2>1 DEF ValidateAnswers, ReconcileAnswers
  <2>4. Len(docs') = Len(docs)
    BY <1>n, <2>3
  <2>5. ASSUME NEW d \in 1..Len(docs)
        PROVE  docs'[d].fields = docs[d].fields /\ docs'[d].of = docs[d].of /\ docs'[d] \in Document
    <3>1. docs[d] \in Document /\ check.sent \in Fields
      BY <1>d, <2>1
    <3>2. \/ docs'[d] = docs[d]
          \/ docs'[d] = [docs[d] EXCEPT !.validation = check.sent]
          \/ docs'[d] = [docs[d] EXCEPT !.reconciliation = check.sent]
      BY <1>n, <2>3
    <3> QED
      BY <3>1, <3>2 DEF Document
  <2> QED
    BY <2>2, <2>4, <2>5
<1> QED
  BY <1>2, <1>3, <1>4 DEF BenchNext

LEMMA EditorStep ==
    ASSUME BenchTypeOK, PutOffIsDrawn, EditorHoldsItsRow, [BenchNext]_benchVars
    PROVE  EditorHoldsItsRow'
<1>n. Len(docs) \in Nat /\ grid \in Grids(Len(docs)) /\ current \in {0, Len(docs)}
  BY DEF BenchTypeOK, GridTypeOK
<1>1. CASE ~Editing'
  BY <1>1 DEF EditorHoldsItsRow
<1>2. CASE AcceptFiling \/ CloseFiling
  <2>1. AcceptFiling => ~Editing'
    BY DEF AcceptFiling, Editing, NoGrid
  <2>2. CloseFiling => ~Editing'
    BY DEF CloseFiling, Editing, NoGrid
  <2> QED
    BY <1>1, <1>2, <2>1, <2>2
<1>3. CASE CommitEdit \/ EditCard \/ Revert
  <2>1. ~Editing'
    BY <1>3, <1>n, ClosedKeeps, DrawnKeeps DEF CommitEdit, EditCard, Revert, Editing, PutOffIsDrawn
  <2> QED
    BY <1>1, <2>1
<1>4. CASE /\ Editing' /\ ~AcceptFiling /\ ~CloseFiling
           /\ \A d \in 1..Len(docs) : docs'[d].fields = docs[d].fields
  <2>1. \/ grid'.editing = grid.editing /\ Editing /\ (grid'.rows = 0 => grid.rows = 0)
        \/ /\ grid'.editing.doc = grid.rows /\ grid.rows \in 1..Len(docs) /\ grid'.rows = grid.rows
           /\ grid'.editing.before = docs[grid.rows].fields[grid'.editing.line]
    <3>1. \A i \in DOMAIN opening : opening[i] \in 1..Len(docs)
      BY DEF BenchTypeOK
    <3>2. BeginEdit => grid.rows \in 1..Len(docs)
      BY <1>n DEF BeginEdit, Grids
    <3> QED
      BY <1>4, <1>n, <3>1, <3>2, GridSteps DEF Editing
  <2>2. Editing => grid.editing.doc \in 1..Len(docs)
    BY <1>n DEF Editing, Grids
  <2> QED
    BY <1>4, <1>n, <2>1, <2>2 DEF EditorHoldsItsRow
<1> QED
  BY <1>1, <1>2, <1>3, <1>4, FieldsSteps

LEMMA TableStep ==
    ASSUME BenchTypeOK, PutOffIsDrawn, TableIsOfTheOpen, [BenchNext]_benchVars
    PROVE  TableIsOfTheOpen'
<1>1. CASE UNCHANGED <<grid, current, strayed>>
  BY <1>1 DEF TableIsOfTheOpen, Editing
<1>2. CASE AcceptFiling
  BY <1>2 DEF AcceptFiling, TableIsOfTheOpen, Editing, NoGrid
<1>3. CASE CloseFiling
  BY <1>3 DEF CloseFiling, TableIsOfTheOpen, Editing, NoGrid
<1>4. CASE ~UNCHANGED <<grid, current, strayed>> /\ ~AcceptFiling /\ ~CloseFiling
  <2>1. UNCHANGED current
    BY <1>4, FieldsSteps
  <2>2. ~LayoutArrives => UNCHANGED strayed
    BY <1>4 DEF BenchNext, Ask, AskFails, Filter, BeginEdit, CommitEdit, CancelEdit, EditCard, Revert,
          Recheck, RecheckLater, ValidateAnswers, ReconcileAnswers, CheckFails, benchVars
  <2>3. ~strayed' => ~strayed
    <3>1. LayoutArrives => strayed' = strayed \/ \E i \in DOMAIN opening : strayed' = (strayed \/ opening[i] # current)
      BY DEF LayoutArrives
    <3> QED
      BY <2>2, <3>1
  <2>4. BeginEdit => grid.rows # 0
    BY DEF BeginEdit
  <2> QED
    BY <1>4, <2>1, <2>2, <2>3, <2>4, GridSteps DEF TableIsOfTheOpen, Editing
<1> QED
  BY <1>1, <1>2, <1>3, <1>4

-----------------------------------------------------------------------------
(* A check under way, and what the last one said.                          *)
LEMMA CheckStep ==
    ASSUME BenchTypeOK, CheckCarriesTheFields, [BenchNext]_benchVars
    PROVE  CheckCarriesTheFields'
<1>n. /\ Len(docs) \in Nat /\ docs \in Seq(Document) /\ current \in {0, Len(docs)}
      /\ check = NoCheck \/ /\ check.of \in 1..Len(docs) /\ check.to \in 0..Len(docs)
                            /\ check.phase \in {"validate", "reconcile"} /\ check.sent \in Fields
                            /\ check.phase = "reconcile" => check.of <= check.to
  BY DEF BenchTypeOK, CheckTypeOK
<1>d. \A d \in 1..Len(docs) : docs[d] \in Document
  BY <1>n
<1>1. CASE UNCHANGED <<docs, current, check>> /\ (timer => timer')
  BY <1>1 DEF CheckCarriesTheFields
<1>2. CASE Ask \/ AskFails \/ RecheckLater \/ UNCHANGED benchVars
           \/ LayoutArrives \/ Filter \/ BeginEdit \/ CancelEdit
  BY <1>1, <1>2 DEF Ask, AskFails, RecheckLater, benchVars, LayoutArrives,
        Filter, BeginEdit, CancelEdit
<1>3. CASE CommitEdit \/ EditCard \/ Revert
  BY <1>3 DEF CommitEdit, EditCard, Revert, Edit, CheckCarriesTheFields
<1>4. CASE AcceptFiling
  <2>1. current' = Len(docs) + 1 /\ check' = check
    BY <1>4 DEF AcceptFiling
  <2>2. check' # NoCheck => check'.of # current'
    BY <1>n, <2>1
  <2> QED
    BY <2>2 DEF CheckCarriesTheFields
<1>5. CASE CloseFiling \/ CheckFails
  BY <1>5 DEF CloseFiling, CheckFails, CheckCarriesTheFields
<1>6. CASE Recheck
  BY <1>6 DEF Recheck, CheckCarriesTheFields
<1>7. CASE RecheckEnds
  BY <1>7 DEF RecheckEnds, CheckCarriesTheFields
<1>8. CASE ValidateAnswers /\ ~RecheckEnds
  <2>1. /\ current' = current /\ timer' = timer /\ check.phase = "validate" /\ current # 0
        /\ check # NoCheck
        /\ docs' = [docs EXCEPT ![current].validation = check.sent]
        /\ check' = [check EXCEPT !.phase = "reconcile", !.sent = docs[check.of].fields, !.to = current]
    BY <1>8 DEF ValidateAnswers, NoCheck
  <2>2. CASE check.of = current /\ ~timer
    <3>1. check.sent = docs[current].fields
      BY <2>1, <2>2 DEF CheckCarriesTheFields
    <3>2. current \in 1..Len(docs) /\ docs[current] \in Document
      BY <1>n, <1>d, <2>1
    <3>3. docs'[current].fields = docs[current].fields /\ docs'[current].validation = check.sent
      BY <1>n, <2>1, <3>2 DEF Document
    <3>4. check'.sent = docs[current].fields
      BY <1>n, <2>1, <2>2 DEF BenchTypeOK, CheckTypeOK
    <3> QED
      BY <2>1, <3>1, <3>3, <3>4 DEF CheckCarriesTheFields
  <2>3. CASE ~(check.of = current /\ ~timer)
    <3>1. check'.of = check.of
      BY <2>1
    <3> QED
      BY <2>1, <2>3, <3>1 DEF CheckCarriesTheFields
  <2> QED
    BY <2>2, <2>3
<1> QED
  BY <1>2, <1>3, <1>4, <1>5, <1>6, <1>7, <1>8 DEF BenchNext, ReconcileAnswers

LEMMA SettledStep ==
    ASSUME BenchTypeOK, CheckCarriesTheFields, SettledFindings, [BenchNext]_benchVars
    PROVE  SettledFindings'
<1>n. /\ Len(docs) \in Nat /\ docs \in Seq(Document) /\ current \in {0, Len(docs)}
      /\ check = NoCheck \/ /\ check.of \in 1..Len(docs) /\ check.to \in 0..Len(docs)
                            /\ check.phase \in {"validate", "reconcile"} /\ check.sent \in Fields
                            /\ check.phase = "reconcile" => check.of <= check.to
  BY DEF BenchTypeOK, CheckTypeOK
<1>d. \A d \in 1..Len(docs) : docs[d] \in Document
  BY <1>n
<1>1. CASE UNCHANGED <<docs, current, check, crossed>> /\ (timer => timer')
  BY <1>1 DEF SettledFindings
<1>2. CASE Ask \/ AskFails \/ RecheckLater \/ UNCHANGED benchVars
           \/ LayoutArrives \/ Filter \/ BeginEdit \/ CancelEdit
  BY <1>1, <1>2 DEF Ask, AskFails, RecheckLater, benchVars, LayoutArrives,
        Filter, BeginEdit, CancelEdit
<1>3. CASE CommitEdit \/ EditCard \/ Revert
  BY <1>3 DEF CommitEdit, EditCard, Revert, Edit, SettledFindings
<1>4. CASE AcceptFiling
  <2>1. PICK f \in loading :
        docs' = Append(docs, [of |-> f, fields |-> f.parsed,
                              validation |-> f.parsed, reconciliation |-> f.parsed])
    BY <1>4 DEF AcceptFiling
  <2>2. current' = Len(docs) + 1
    BY <1>4 DEF AcceptFiling
  <2>3. docs'[current'] = [of |-> f, fields |-> f.parsed,
                           validation |-> f.parsed, reconciliation |-> f.parsed]
    BY <1>n, <2>1, <2>2
  <2> QED
    BY <2>3 DEF SettledFindings
<1>5. CASE CloseFiling \/ CheckFails
  BY <1>5 DEF CloseFiling, CheckFails, SettledFindings
<1>6. CASE Recheck
  BY <1>6, <1>n DEF Recheck, SettledFindings, NoCheck
<1>7. CASE ValidateAnswers \/ ReconcileAnswers
  <2>1. /\ current' = current /\ timer' = timer /\ check # NoCheck
    BY <1>7 DEF ValidateAnswers, ReconcileAnswers, NoCheck
  <2>2. CASE RecheckEnds /\ check.of = current /\ ~timer
    <3>1. check.sent = docs[current].fields /\ current \in 1..Len(docs) /\ docs[current] \in Document
      BY <1>n, <1>d, <2>1, <2>2 DEF CheckCarriesTheFields
    <3>2. CASE ValidateAnswers
      <4>1. docs' = [docs EXCEPT ![current].validation = check.sent] /\ check.phase = "validate"
        BY <3>2 DEF ValidateAnswers
      <4>2. ~docs[current].of.books
        BY <2>2, <3>2, <1>n, <2>1 DEF ValidateAnswers, RecheckEnds, NoCheck
      <4>3. /\ docs'[current].validation = check.sent /\ docs'[current].fields = docs[current].fields
            /\ docs'[current].of = docs[current].of
        BY <1>n, <3>1, <4>1 DEF Document
      <4> QED
        BY <2>1, <3>1, <4>2, <4>3 DEF SettledFindings
    <3>3. CASE ReconcileAnswers
      <4>1. docs' = [docs EXCEPT ![check.to].reconciliation = check.sent] /\ check.phase = "reconcile"
        BY <3>3 DEF ReconcileAnswers
      <4>2. check.to = current
        BY <1>n, <2>1, <2>2, <3>1, <4>1
      <4>3. docs[current].validation = docs[current].fields
        BY <2>1, <2>2, <3>1, <4>1, <1>n DEF CheckCarriesTheFields
      <4>4. /\ docs'[current].validation = docs[current].validation
            /\ docs'[current].fields = docs[current].fields
            /\ docs'[current].reconciliation = check.sent
        BY <1>n, <3>1, <4>1, <4>2 DEF Document
      <4> QED
        BY <2>1, <3>1, <4>3, <4>4 DEF SettledFindings
    <3> QED
      BY <1>7, <3>2, <3>3
  <2>3. CASE RecheckEnds /\ ~(check.of = current /\ ~timer)
    BY <2>1, <2>3 DEF RecheckEnds, SettledFindings
  <2>4. CASE ~RecheckEnds
    <3>1. check' = [check EXCEPT !.phase = "reconcile", !.sent = docs[check.of].fields, !.to = current]
      BY <1>7, <2>4 DEF ValidateAnswers, ReconcileAnswers
    <3>2. check' # NoCheck
      BY <1>n, <2>1, <3>1 DEF NoCheck
    <3> QED
      BY <3>2 DEF SettledFindings
  <2> QED
    BY <2>2, <2>3, <2>4
<1> QED
  BY <1>2, <1>3, <1>4, <1>5, <1>6, <1>7 DEF BenchNext

-----------------------------------------------------------------------------
(* An edit of a field of the open filing leaves listed what differs, and no *)
(* more: a field given back what it was parsed as is off the list.         *)
IsTheDifference(d, table) ==
    /\ DOMAIN table = {l \in LineNos : d.fields[l] # d.of.parsed[l]}
    /\ \A l \in DOMAIN table :
          table[l] = [before |-> d.of.parsed[l], after |-> d.fields[l], row |-> current]

LEMMA EditKeepsTheDifference ==
    ASSUME BenchTypeOK, current # 0, IsTheDifference(docs[current], edits),
           NEW l \in LineNos, NEW after \in Texts, after # docs[current].fields[l],
           Edit(current, l, docs[current].fields[l], after), current' = current
    PROVE  IsTheDifference(docs[current], edits)'
<1> DEFINE d == docs[current]
           e == docs'[current]
           parsed == d.of.parsed
<1>1. current \in 1..Len(docs) /\ docs \in Seq(Document) /\ Len(docs) \in Nat
  BY DEF BenchTypeOK
<1>2. d \in Document
  BY <1>1
<1>3. d.fields \in [LineNos -> Texts]
  BY <1>2 DEF Document, Fields
<1>4. e = [d EXCEPT !.fields = [d.fields EXCEPT ![l] = after]]
  <2>1. docs' = [docs EXCEPT ![current] =
                    [docs[current] EXCEPT !.fields = [docs[current].fields EXCEPT ![l] = after]]]
    BY <1>1 DEF Edit
  <2> QED
    BY <1>1, <2>1
<1>5. e.of = d.of /\ e.fields = [d.fields EXCEPT ![l] = after]
  BY <1>2, <1>4 DEF Document
<1>6. Original(l, d.fields[l]) = parsed[l]
  BY DEF Original, IsTheDifference
<1> HIDE DEF d, e, parsed
<1>7. \A k \in LineNos : e.fields[k] = IF k = l THEN after ELSE d.fields[k]
  BY <1>3, <1>5
<1>8. e.of.parsed = parsed
  BY <1>5 DEF parsed
<1>9. /\ DOMAIN edits = {k \in LineNos : d.fields[k] # parsed[k]}
      /\ \A k \in DOMAIN edits : edits[k] = [before |-> parsed[k], after |-> d.fields[k], row |-> current]
  BY DEF IsTheDifference, d, parsed
<1>10. CASE after = parsed[l]
  <2>1. edits' = [k \in DOMAIN edits \ {l} |-> edits[k]]
    BY <1>6, <1>10 DEF Edit, d
  <2>2. DOMAIN edits' = {k \in LineNos : e.fields[k] # parsed[k]}
    BY <1>7, <1>9, <1>10, <2>1
  <2>3. \A k \in DOMAIN edits' : edits'[k] = [before |-> parsed[k], after |-> e.fields[k], row |-> current]
    BY <1>7, <1>9, <2>1
  <2> QED
    BY <1>8, <2>2, <2>3 DEF IsTheDifference, e
<1>11. CASE after # parsed[l]
  <2>1. edits' = [k \in DOMAIN edits \cup {l} |->
                     IF k = l THEN [before |-> parsed[l], after |-> after, row |-> current] ELSE edits[k]]
    BY <1>6, <1>11 DEF Edit, d
  <2>2. DOMAIN edits' = {k \in LineNos : e.fields[k] # parsed[k]}
    BY <1>7, <1>9, <1>11, <2>1
  <2>3. \A k \in DOMAIN edits' : edits'[k] = [before |-> parsed[k], after |-> e.fields[k], row |-> current]
    BY <1>7, <1>9, <2>1
  <2> QED
    BY <1>8, <2>2, <2>3 DEF IsTheDifference, e
<1> QED
  BY <1>10, <1>11

LEMMA RevertKeepsTheDifference ==
    ASSUME BenchTypeOK, current # 0, IsTheDifference(docs[current], edits), Revert
    PROVE  IsTheDifference(docs[current], edits)'
<1> PICK some \in SUBSET DOMAIN edits :
        /\ docs' = [d \in DOMAIN docs |-> [docs[d] EXCEPT !.fields = Restored(d, some)]]
        /\ edits' = [l \in DOMAIN edits \ some |-> edits[l]]
  BY DEF Revert
<1> DEFINE d == docs[current]
           e == docs'[current]
           parsed == d.of.parsed
<1>1. current \in 1..Len(docs) /\ docs \in Seq(Document) /\ current' = current /\ Len(docs) \in Nat
  BY DEF BenchTypeOK, Revert
<1>2. d \in Document
  BY <1>1
<1>3. e = [d EXCEPT !.fields = Restored(current, some)]
  <2>1. current \in DOMAIN docs
    BY <1>1
  <2> QED
    BY <2>1
<1>4. e.of = d.of /\ e.fields = Restored(current, some)
  BY <1>2, <1>3 DEF Document
<1>5. /\ DOMAIN edits = {k \in LineNos : d.fields[k] # parsed[k]}
      /\ \A k \in DOMAIN edits : edits[k] = [before |-> parsed[k], after |-> d.fields[k], row |-> current]
  BY DEF IsTheDifference
<1>6. ASSUME NEW k \in LineNos
      PROVE  e.fields[k] = IF k \in some THEN parsed[k] ELSE d.fields[k]
  <2>1. Restored(current, some)[k] = IF k \in some /\ edits[k].row = current THEN edits[k].before ELSE d.fields[k]
    BY DEF Restored
  <2>2. k \in some => edits[k].row = current /\ edits[k].before = parsed[k]
    <3> HIDE DEF d, parsed
    <3> QED
      BY <1>5
  <2> QED
    BY <1>4, <2>1, <2>2
<1> HIDE DEF e, d, parsed
<1>7. DOMAIN edits' = {k \in LineNos : e.fields[k] # parsed[k]}
  BY <1>5, <1>6
<1>8. \A k \in DOMAIN edits' : edits'[k] = [before |-> parsed[k], after |-> e.fields[k], row |-> current]
  BY <1>5, <1>6
<1>9. e.of.parsed = parsed
  BY <1>4 DEF parsed
<1> QED
  BY <1>1, <1>7, <1>8, <1>9 DEF IsTheDifference, e

LEMMA StrayedStays ==
    ASSUME [BenchNext]_benchVars, ~AcceptFiling, ~strayed'
    PROVE  ~strayed
<1>1. LayoutArrives => strayed' = strayed \/ \E i \in DOMAIN opening : strayed' = (strayed \/ opening[i] # current)
  BY DEF LayoutArrives
<1>2. ~LayoutArrives => UNCHANGED strayed
  BY DEF BenchNext, Ask, AskFails, Filter, BeginEdit, CommitEdit, CancelEdit, EditCard, Revert, CloseFiling,
        Recheck, RecheckLater, ValidateAnswers, ReconcileAnswers, CheckFails, benchVars
<1> QED
  BY <1>1, <1>2

LEMMA EditsStep ==
    ASSUME BenchTypeOK, EditorHoldsItsRow, TableIsOfTheOpen, EditsAreTheDifference, [BenchNext]_benchVars
    PROVE  EditsAreTheDifference'
<1>n. Len(docs) \in Nat /\ docs \in Seq(Document) /\ current \in {0, Len(docs)}
  BY DEF BenchTypeOK
<1>e. EditsAreTheDifference <=> (current # 0 /\ ~strayed => IsTheDifference(docs[current], edits))
  BY DEF EditsAreTheDifference, IsTheDifference
<1>f. EditsAreTheDifference' <=> (current' # 0 /\ ~strayed' => IsTheDifference(docs[current], edits)')
  BY DEF EditsAreTheDifference, IsTheDifference
<1>1. CASE AcceptFiling
  <2>1. PICK f \in loading :
        /\ docs' = Append(docs, [of |-> f, fields |-> f.parsed,
                                 validation |-> f.parsed, reconciliation |-> f.parsed])
        /\ edits' = << >> /\ current' = Len(docs) + 1
    BY <1>1 DEF AcceptFiling
  <2>2. docs'[current'] = [of |-> f, fields |-> f.parsed,
                           validation |-> f.parsed, reconciliation |-> f.parsed]
    BY <1>n, <2>1
  <2>3. DOMAIN edits' = {}
    BY <2>1
  <2> QED
    BY <2>2, <2>3 DEF EditsAreTheDifference
<1>2. CASE CloseFiling
  BY <1>2 DEF CloseFiling, EditsAreTheDifference
<1>3. CASE ~AcceptFiling /\ UNCHANGED <<current, edits>>
           /\ \A d \in 1..Len(docs) : docs'[d].fields = docs[d].fields /\ docs'[d].of = docs[d].of
  <2>1. ~strayed' => ~strayed
    BY <1>3, StrayedStays
  <2> QED
    BY <1>n, <1>3, <2>1 DEF EditsAreTheDifference
<1>4. CASE ~AcceptFiling /\ UNCHANGED current /\ (CommitEdit \/ EditCard \/ Revert)
  <2> SUFFICES ASSUME current # 0, ~strayed'
               PROVE  IsTheDifference(docs[current], edits)'
    BY <1>4, <1>f
  <2>1. IsTheDifference(docs[current], edits) /\ ~strayed
    BY <1>4, <1>e, StrayedStays
  <2>2. CASE CommitEdit
    <3> DEFINE l == grid.editing.line
    <3>1. Editing /\ grid.editing.doc = current /\ grid.editing.before = docs[current].fields[l]
      BY <2>1, <2>2 DEF CommitEdit, TableIsOfTheOpen, EditorHoldsItsRow
    <3>2. l \in LineNos
      BY <3>1 DEF BenchTypeOK, GridTypeOK, Grids, BodyLines, Editing
    <3>3. PICK after \in Texts \ {docs[current].fields[l]} :
              Edit(current, l, docs[current].fields[l], after)
      BY <2>2, <3>1 DEF CommitEdit
    <3> HIDE DEF l
    <3> QED
      BY <1>4, <2>1, <3>2, <3>3, EditKeepsTheDifference
  <2>3. CASE EditCard
    <3>1. PICK after \in Texts \ {docs[current].fields[CoverLine]} :
              Edit(current, CoverLine, docs[current].fields[CoverLine], after)
      BY <2>3 DEF EditCard
    <3>2. CoverLine \in LineNos
      BY LinesAssumption
    <3> QED
      BY <1>4, <2>1, <3>1, <3>2, EditKeepsTheDifference
  <2>4. CASE Revert
    BY <2>1, <2>4, RevertKeepsTheDifference
  <2> QED
    BY <1>4, <2>2, <2>3, <2>4
<1>5. CASE CommitEdit \/ EditCard \/ Revert
  <2>1. UNCHANGED current
    BY <1>5 DEF CommitEdit, EditCard, Revert
  <2> QED
    BY <1>1, <1>4, <1>5, <2>1
<1> QED
  BY <1>1, <1>2, <1>3, <1>5, FieldsSteps

LEMMA BenchStep == BenchInv /\ [BenchNext]_benchVars => BenchInv'
BY BenchTypeStep, EditorStep, TableStep, DrawnStep, CheckStep, SettledStep, EditsStep
   DEF BenchInv, PageIsOfTheFiling

(* What is open, its edits, its checks and the tables drawn agree with each *)
(* other at every step: what the property below needs to be inductive.     *)
THEOREM BenchInvariant == BenchSpec => []BenchInv
<1>1. BenchInit => BenchInv
  BY BenchInitInv
<1>2. BenchInv /\ [BenchNext]_benchVars => BenchInv'
  BY BenchStep
<1> QED
  BY <1>1, <1>2, PTL DEF BenchSpec

(* Once nothing is pending, what the page says is said of the open filing's *)
(* fields as they are; the edits it lists are how these differ from the    *)
(* file; a drawn row is the one a click on it edits.                       *)
THEOREM ThePageIsOfTheFiling == BenchSpec => []PageIsOfTheFiling
<1>1. BenchInv => PageIsOfTheFiling
  BY DEF BenchInv
<1> QED
  BY <1>1, BenchInvariant, PTL
-----------------------------------------------------------------------------
(* The samples of `review --eval`.                                          *)
(* What a row of the evaluation may be.                                     *)
ReportFields == [id : {Reports[i].id : i \in DOMAIN Reports} \cup {Reports[i].first : i \in DOMAIN Reports},
                 committee : {Reports[i].committee : i \in DOMAIN Reports},
                 form : {Reports[i].form : i \in DOMAIN Reports},
                 kind : {Reports[i].kind : i \in DOMAIN Reports},
                 period : {Reports[i].period : i \in DOMAIN Reports},
                 rfai : BOOLEAN, count : Nat, asOf : Nat, outcome : Outcomes]
ReportKinds == {Reports[i].form : i \in DOMAIN Reports} \X {Reports[i].kind : i \in DOMAIN Reports}

(* The type of each variable.                                               *)
EvalTypeOK ==
    /\ phase \in {"letters", "targets", "clean", "done", "failed"}
    /\ mailed \in 0..Len(Letters) /\ requests \in Nat
    /\ letters \in Seq(Range(Letters)) /\ evalRows \in Seq(ReportFields)
    /\ pagesRead = [page |-> pagesRead.page, at |-> pagesRead.at, of |-> pagesRead.of]
    /\ pagesRead.at \in Nat \ {0}

(* The letters to look up ask about a report, each of another committee.   *)
LettersAreApart ==
    /\ \A k \in DOMAIN letters : \E i \in 1..mailed : letters[k] = Letters[i] /\ Letters[i].asks
    /\ \A j, k \in DOMAIN letters : letters[j].committee = letters[k].committee => j = k

(* Every committee in a row was seen, and while letters are looked up, it   *)
(* is that of a letter looked up before.                                   *)
CommitteesAreSeen ==
    /\ phase \in {"letters", "targets"} => seenCommittees = {letters[k].committee : k \in DOMAIN letters}
    /\ \A k \in DOMAIN evalRows : evalRows[k].committee \in seenCommittees
    /\ phase = "letters" => evalRows = << >>
    /\ phase = "targets" =>
          \A k \in DOMAIN evalRows :
              /\ evalRows[k].rfai
              /\ \E j \in DOMAIN letters : j < Looked /\ evalRows[k].committee = letters[j].committee

(* Of no kind are there more clean reports than named ones.                 *)
KindsAreMatched == \A kind \in ReportKinds : GotOf(evalRows, kind) <= WantedOf(evalRows, kind)

(* A committee has one row, and what a row says of the letters is true.     *)
RowsAreSettled ==
    /\ requests <= MaxRequests
    /\ \A j, k \in DOMAIN evalRows : evalRows[j].committee = evalRows[k].committee => j = k
    /\ \A k \in DOMAIN evalRows : evalRows[k].rfai <=> NamedIn(evalRows[k], evalRows[k].asOf)

(* What every state of an evaluation keeps.                                  *)
EvalInv == EvalTypeOK /\ LettersAreApart /\ CommitteesAreSeen /\ KindsAreMatched /\ RowsAreSettled
-----------------------------------------------------------------------------
(* Reports and letters are sequences.                                       *)
LEMMA ReportsAre ==
    /\ Reports \in Seq(Range(Reports)) /\ Len(Reports) \in Nat /\ DOMAIN Reports = 1..Len(Reports)
    /\ Letters \in Seq(Range(Letters)) /\ Len(Letters) \in Nat /\ DOMAIN Letters = 1..Len(Letters)
BY EvalAssumption, LenProperties

(* A sequence turned round has the same elements.                           *)
LEMMA ReversedIs ==
    ASSUME NEW S, NEW s \in Seq(S)
    PROVE  /\ Reverse(s) \in Seq(S) /\ Len(Reverse(s)) = Len(s) /\ DOMAIN Reverse(s) = 1..Len(s)
           /\ \A i \in 1..Len(s) : Len(s) - i + 1 \in 1..Len(s) /\ Reverse(s)[i] = s[Len(s) - i + 1]
<1> DEFINE n == Len(s)
<1>1. n \in Nat /\ DOMAIN s = 1..n
  BY LenProperties
<1>2. Reverse(s) = [i \in 1..n |-> s[n - i + 1]]
  BY DEF Reverse
<1> HIDE DEF n
<1>3. \A i \in 1..n : n - i + 1 \in 1..n
  BY <1>1
<1>4. \A i \in 1..n : s[n - i + 1] \in S
  BY <1>1, <1>3, ElementOfSeq DEF n
<1>5. Reverse(s) \in [1..n -> S]
  BY <1>2, <1>4
<1>6. Reverse(s) \in Seq(S) /\ Len(Reverse(s)) = n
  BY <1>1, <1>5, FunctionIsSeq
<1> QED
  BY <1>2, <1>3, <1>6 DEF n

(* The elements picked are those of the places, each place once.            *)
LEMMA PickedAre ==
    ASSUME NEW S, NEW s \in Seq(S), NEW P \in SUBSET DOMAIN s
    PROVE  /\ Picked(s, P) \in Seq(S) /\ DOMAIN Picked(s, P) = 1..Len(Picked(s, P))
           /\ \A k \in DOMAIN Picked(s, P) : Nth(P, k) \in P /\ Picked(s, P)[k] = s[Nth(P, k)]
           /\ \A j, k \in DOMAIN Picked(s, P) : Nth(P, j) = Nth(P, k) => j = k
<1>1. Len(s) \in Nat /\ DOMAIN s = 1..Len(s)
  BY LenProperties
<1>2. P \in SUBSET Nat /\ IsFiniteSet(P)
  <2>1. IsFiniteSet(1..Len(s))
    BY <1>1, FS_Interval
  <2>2. IsFiniteSet(P)
    BY <1>1, <2>1, FS_Subset
  <2> QED
    BY <1>1, <2>2
<1> DEFINE n == Cardinality(P)
<1>3. n \in Nat /\ \A k \in 1..n : Nth(P, k) \in P
  BY <1>2, LeastFirst
<1>4. Picked(s, P) = [k \in 1..n |-> s[Nth(P, k)]]
  BY DEF Picked, Nth
<1> HIDE DEF n
<1>5. \A k \in 1..n : s[Nth(P, k)] \in S
  BY <1>1, <1>3, ElementOfSeq
<1>6. Picked(s, P) \in [1..n -> S]
  BY <1>4, <1>5
<1>7. Picked(s, P) \in Seq(S) /\ Len(Picked(s, P)) = n
  BY <1>3, <1>6, FunctionIsSeq
<1>8. \A j, k \in 1..n : Nth(P, j) = Nth(P, k) => j = k
  BY <1>2, NthOnce DEF n
<1> QED
  BY <1>3, <1>4, <1>7, <1>8

(* The letters there are, newest first.                                    *)
LEMMA ListedAre ==
    ASSUME EvalTypeOK
    PROVE  /\ Listed \in Seq(Range(Letters)) /\ DOMAIN Listed = 1..mailed
           /\ \A i \in 1..mailed : \E k \in 1..mailed : Listed[i] = Letters[k]
<1> DEFINE m == SubSeq(Letters, 1, mailed)
<1>1. mailed \in 0..Len(Letters) /\ Letters \in Seq(Range(Letters)) /\ Len(Letters) \in Nat
  BY ReportsAre DEF EvalTypeOK
<1>2. m \in Seq(Range(Letters)) /\ Len(m) = mailed /\ \A i \in 1..mailed : m[i] = Letters[i]
  BY <1>1
<1> HIDE DEF m
<1>3. /\ Reverse(m) \in Seq(Range(Letters)) /\ DOMAIN Reverse(m) = 1..mailed
      /\ \A i \in 1..mailed : mailed - i + 1 \in 1..mailed /\ Reverse(m)[i] = m[mailed - i + 1]
  BY <1>2, ReversedIs
<1> QED
  BY <1>2, <1>3 DEF Listed, m

(* A page of letters adds some that ask, none of a committee that is there. *)
LEMMA LettersAdded ==
    ASSUME EvalTypeOK, LettersAreApart, ReadLetters
    PROVE  letters' \in Seq(Range(Letters)) /\ LettersAreApart'
<1> DEFINE P == Usable(OnPage(Listed, pagesRead.page), letters, SampleSize)
           new == Picked(Listed, P)
           n == Len(letters)
           m == Len(new)
<1>1. /\ Listed \in Seq(Range(Letters)) /\ DOMAIN Listed = 1..mailed
      /\ \A i \in 1..mailed : \E k \in 1..mailed : Listed[i] = Letters[k]
  BY ListedAre
<1>2. P \in SUBSET DOMAIN Listed
  BY DEF Usable, OnPage
<1>3. \A i \in P : /\ Listed[i].asks
                   /\ \A k \in DOMAIN letters : letters[k].committee # Listed[i].committee
  BY DEF Usable
<1>4. \A i, j \in P : Listed[i].committee = Listed[j].committee => i = j
  <2> SUFFICES ASSUME NEW i \in P, NEW j \in P, Listed[i].committee = Listed[j].committee PROVE i = j
    OBVIOUS
  <2>1. i <= j /\ j <= i
    BY DEF Usable
  <2>2. i \in 1..mailed /\ j \in 1..mailed /\ mailed \in Nat
    BY <1>1, <1>2 DEF EvalTypeOK
  <2> QED
    BY <2>1, <2>2
<1> HIDE DEF P
<1>5. /\ new \in Seq(Range(Letters)) /\ DOMAIN new = 1..m
      /\ \A k \in 1..m : Nth(P, k) \in P /\ new[k] = Listed[Nth(P, k)]
      /\ \A j, k \in 1..m : Nth(P, j) = Nth(P, k) => j = k
  <2>1. /\ new \in Seq(Range(Letters)) /\ DOMAIN new = 1..Len(new)
        /\ \A k \in DOMAIN new : Nth(P, k) \in P /\ new[k] = Listed[Nth(P, k)]
        /\ \A j, k \in DOMAIN new : Nth(P, j) = Nth(P, k) => j = k
    <3> HIDE DEF Listed
    <3> QED
      BY <1>1, <1>2, PickedAre
  <2> HIDE DEF new
  <2> QED
    BY <2>1
<1>6. letters' = letters \o new /\ mailed' = mailed
  BY DEF ReadLetters, P
<1> HIDE DEF new
<1>7. letters \in Seq(Range(Letters)) /\ n \in Nat /\ DOMAIN letters = 1..n /\ m \in Nat
  BY <1>5, LenProperties DEF EvalTypeOK
<1>8. /\ letters' \in Seq(Range(Letters)) /\ Len(letters') = n + m
      /\ \A i \in 1..n + m : letters'[i] = IF i <= n THEN letters[i] ELSE new[i - n]
  BY <1>5, <1>6, <1>7, ConcatProperties
<1>9. DOMAIN letters' = 1..n + m
  BY <1>8, LenProperties
<1> HIDE DEF n, m
<1>10. ASSUME NEW k \in 1..n + m
       PROVE  \/ k \in 1..n /\ letters'[k] = letters[k]
              \/ k - n \in 1..m /\ letters'[k] = new[k - n] /\ Nth(P, k - n) \in P
                 /\ letters'[k] = Listed[Nth(P, k - n)]
  BY <1>5, <1>7, <1>8
<1>11. \A k \in DOMAIN letters' : \E i \in 1..mailed' : letters'[k] = Letters[i] /\ Letters[i].asks
  <2> SUFFICES ASSUME NEW k \in 1..n + m
               PROVE  \E i \in 1..mailed : letters'[k] = Letters[i] /\ Letters[i].asks
    BY <1>6, <1>9
  <2>1. CASE k \in 1..n /\ letters'[k] = letters[k]
    BY <1>7, <2>1 DEF LettersAreApart
  <2>2. CASE Nth(P, k - n) \in P /\ letters'[k] = Listed[Nth(P, k - n)]
    <3> DEFINE p == Nth(P, k - n)
    <3> HIDE DEF p
    <3>1. p \in 1..mailed /\ letters'[k] = Listed[p] /\ Listed[p].asks
      BY <1>1, <1>2, <1>3, <2>2 DEF p
    <3> QED
      BY <1>1, <3>1
  <2> QED
    BY <1>10, <2>1, <2>2
<1>12. ASSUME NEW j \in 1..n + m, NEW k \in 1..n + m, letters'[j].committee = letters'[k].committee
       PROVE  j = k
  <2>1. CASE j \in 1..n /\ letters'[j] = letters[j]
    <3>1. CASE k \in 1..n /\ letters'[k] = letters[k]
      BY <1>7, <1>12, <2>1, <3>1 DEF LettersAreApart
    <3>2. CASE Nth(P, k - n) \in P /\ letters'[k] = Listed[Nth(P, k - n)]
      BY <1>3, <1>7, <1>12, <2>1, <3>2
    <3> QED
      BY <1>10, <3>1, <3>2
  <2>2. CASE j - n \in 1..m /\ Nth(P, j - n) \in P /\ letters'[j] = Listed[Nth(P, j - n)]
    <3>1. CASE k \in 1..n /\ letters'[k] = letters[k]
      BY <1>3, <1>7, <1>12, <2>2, <3>1
    <3>2. CASE k - n \in 1..m /\ Nth(P, k - n) \in P /\ letters'[k] = Listed[Nth(P, k - n)]
      <4>1. Nth(P, j - n) = Nth(P, k - n)
        BY <1>4, <1>12, <2>2, <3>2
      <4>2. j - n = k - n
        BY <1>5, <2>2, <3>2, <4>1
      <4> QED
        BY <1>7, <4>2
    <3> QED
      BY <1>10, <3>1, <3>2
  <2> QED
    BY <1>10, <2>1, <2>2
<1> QED
  BY <1>8, <1>9, <1>11, <1>12 DEF LettersAreApart

(* The counts of a kind when a row of it, or of another, is added.          *)
LEMMA CountsWhenAdded ==
    ASSUME NEW rows, NEW S, rows \in Seq(S), NEW r \in S, NEW kind
    PROVE  LET more == Append(rows, r)
               its  == <<r.form, r.kind>> = kind
           IN  /\ GotOf(rows, kind) \in Nat /\ WantedOf(rows, kind) \in Nat
               /\ GotOf(more, kind) = GotOf(rows, kind) + IF ~r.rfai /\ its THEN 1 ELSE 0
               /\ WantedOf(more, kind) = WantedOf(rows, kind) + IF r.rfai /\ its THEN 1 ELSE 0
<1> DEFINE n == Len(rows)
           more == Append(rows, r)
           its == <<r.form, r.kind>> = kind
           G == {k \in DOMAIN rows : ~rows[k].rfai /\ <<rows[k].form, rows[k].kind>> = kind}
           W == {k \in DOMAIN rows : rows[k].rfai /\ <<rows[k].form, rows[k].kind>> = kind}
           MG == {k \in DOMAIN more : ~more[k].rfai /\ <<more[k].form, more[k].kind>> = kind}
           MW == {k \in DOMAIN more : more[k].rfai /\ <<more[k].form, more[k].kind>> = kind}
<1>1. n \in Nat /\ DOMAIN rows = 1..n /\ n + 1 \notin 1..n
  BY LenProperties
<1>2. DOMAIN more = 1..n + 1 /\ more[n + 1] = r /\ \A k \in 1..n : more[k] = rows[k]
  BY AppendProperties
<1>3. IsFiniteSet(1..n) /\ G \in SUBSET (1..n) /\ W \in SUBSET (1..n)
  <2>1. IsFiniteSet(1..n)
    BY <1>1, FS_Interval
  <2> QED
    BY <1>1, <2>1
<1>4. IsFiniteSet(G) /\ IsFiniteSet(W) /\ n + 1 \notin G /\ n + 1 \notin W
  BY <1>1, <1>3, FS_Subset
<1> HIDE DEF n, more
<1>5. MG = IF ~r.rfai /\ its THEN G \cup {n + 1} ELSE G
  <2>1. \A k \in 1..n + 1 : k \in 1..n \/ k = n + 1
    BY <1>1
  <2>2. \A k \in 1..n : k \in 1..n + 1
    BY <1>1
  <2> QED
    BY <1>1, <1>2, <2>1, <2>2
<1>6. MW = IF r.rfai /\ its THEN W \cup {n + 1} ELSE W
  <2>1. \A k \in 1..n + 1 : k \in 1..n \/ k = n + 1
    BY <1>1
  <2>2. \A k \in 1..n : k \in 1..n + 1
    BY <1>1
  <2> QED
    BY <1>1, <1>2, <2>1, <2>2
<1>7. /\ GotOf(rows, kind) = Cardinality(G) /\ WantedOf(rows, kind) = Cardinality(W)
      /\ GotOf(more, kind) = Cardinality(MG) /\ WantedOf(more, kind) = Cardinality(MW)
  BY DEF GotOf, WantedOf
<1> HIDE DEF G, W, MG, MW
<1>8. /\ Cardinality(G) \in Nat /\ Cardinality(W) \in Nat
      /\ Cardinality(G \cup {n + 1}) = Cardinality(G) + 1
      /\ Cardinality(W \cup {n + 1}) = Cardinality(W) + 1
  BY <1>4, FS_CardinalityType, FS_AddElement
<1> HIDE DEF its
<1>9. /\ Cardinality(MG) = Cardinality(G) + IF ~r.rfai /\ its THEN 1 ELSE 0
      /\ Cardinality(MW) = Cardinality(W) + IF r.rfai /\ its THEN 1 ELSE 0
  BY <1>5, <1>6, <1>8
<1> QED
  BY <1>7, <1>8, <1>9 DEF more, its

(* A finite set of numbers that is not empty has a least and a greatest.    *)
LEMMA EndsOfSet ==
    ASSUME NEW S \in SUBSET Nat, IsFiniteSet(S), S # {}
    PROVE  /\ \E i \in S : \A j \in S : i <= j
           /\ \E i \in S : \A j \in S : j <= i
<1> DEFINE n == Cardinality(S)
           Under(i) == {j \in S : j < i}
           m == Nth(S, n)
           l == Nth(S, 1)
<1>1. /\ n \in Nat
      /\ \A i \in S : Cardinality(Under(i)) \in 0..(n - 1)
      /\ \A i, j \in S : i < j => Cardinality(Under(i)) < Cardinality(Under(j))
      /\ \A k \in 1..n : Nth(S, k) \in S /\ Cardinality(Under(Nth(S, k))) = k - 1
  BY LeastFirst
<1>2. n # 0
  BY FS_EmptySet
<1> HIDE DEF n, Under
<1>3. l \in S /\ Cardinality(Under(l)) = 0 /\ m \in S /\ Cardinality(Under(m)) = n - 1
  BY <1>1, <1>2
<1> HIDE DEF m, l
<1>4. \A j \in S : l <= j
  <2> SUFFICES ASSUME NEW j \in S, ~(l <= j) PROVE FALSE
    OBVIOUS
  <2>1. j < l
    BY <1>3
  <2>2. Cardinality(Under(j)) < 0 /\ Cardinality(Under(j)) \in 0..(n - 1)
    BY <1>1, <1>3, <2>1
  <2> QED
    BY <2>2
<1>5. \A j \in S : j <= m
  <2> SUFFICES ASSUME NEW j \in S, ~(j <= m) PROVE FALSE
    OBVIOUS
  <2>1. m < j
    BY <1>3
  <2>2. n - 1 < Cardinality(Under(j)) /\ Cardinality(Under(j)) \in 0..(n - 1)
    BY <1>1, <1>3, <2>1
  <2> QED
    BY <1>1, <2>2
<1> QED
  BY <1>3, <1>4, <1>5

(* The report looked for is one of the same committee and period.          *)
LEMMA TargetIs ==
    ASSUME NEW l, NEW i \in Target(l)
    PROVE  i \in DOMAIN Reports /\ Reports[i].committee = l.committee /\ Reports[i].period = l.period
<1> DEFINE same == {j \in DOMAIN Reports :
                      /\ Reports[j].committee = l.committee /\ Reports[j].form = l.form
                      /\ ~Reports[j].paper /\ Reports[j].period = l.period}
           before == {j \in same : Reports[j].day <= l.day}
<1>1. same \in SUBSET (1..Len(Reports))
  BY ReportsAre
<1>2. Target(l) = IF same = {} THEN {}
                  ELSE IF before # {} THEN {CHOOSE j \in before : \A k \in before : k <= j}
                  ELSE {CHOOSE j \in same : \A k \in same : j <= k}
  BY DEF Target
<1>3. ASSUME NEW s \in SUBSET same, s # {}
      PROVE  /\ \E j \in s : \A k \in s : k <= j
             /\ \E j \in s : \A k \in s : j <= k
  <2> HIDE DEF same
  <2>1. s \in SUBSET Nat /\ IsFiniteSet(s)
    <3>1. IsFiniteSet(1..Len(Reports))
      BY ReportsAre, FS_Interval
    <3>2. IsFiniteSet(same)
      BY <1>1, <3>1, FS_Subset
    <3>3. IsFiniteSet(s)
      BY <3>2, FS_Subset
    <3>4. s \in SUBSET Nat
      BY <1>1, ReportsAre
    <3> QED
      BY <3>3, <3>4
  <2> QED
    BY <1>3, <2>1, EndsOfSet
<1>4. before \in SUBSET same
  OBVIOUS
<1>5. i \in same
  <2> HIDE DEF same, before
  <2>1. same # {}
    BY <1>2
  <2>2. CASE before # {}
    <3>1. i = CHOOSE j \in before : \A k \in before : k <= j
      BY <1>2, <2>1, <2>2
    <3>2. \E j \in before : \A k \in before : k <= j
      BY <1>3, <1>4, <2>2
    <3> QED
      BY <1>4, <3>1, <3>2
  <2>3. CASE before = {}
    <3>1. i = CHOOSE j \in same : \A k \in same : j <= k
      BY <1>2, <2>1, <2>3
    <3>2. \E j \in same : \A k \in same : j <= k
      BY <1>3, <2>1
    <3> QED
      BY <3>1, <3>2
  <2> QED
    BY <2>2, <2>3
<1> QED
  BY <1>5

(* The record looked at is a report of the kind being matched.              *)
LEMMA CandidateIs ==
    ASSUME Place \in OnPage(Listing, pagesRead.page)
    PROVE  \E i \in DOMAIN Reports :
              Candidate = Reports[i] /\ <<Reports[i].form, Reports[i].kind>> = Kind
<1> DEFINE newest == Reverse(Reports)
           P == {i \in DOMAIN newest :
                   /\ <<newest[i].form, newest[i].kind>> = Kind
                   /\ \A x \in Range(Reports) : x.first = newest[i].first => x.day <= newest[i].day}
           n == Nth(P, Place)
<1>1. Reports \in Seq(Range(Reports)) /\ DOMAIN Reports = 1..Len(Reports)
  BY ReportsAre
<1>2. /\ newest \in Seq(Range(Reports)) /\ DOMAIN newest = 1..Len(Reports)
      /\ \A i \in 1..Len(Reports) : Len(Reports) - i + 1 \in 1..Len(Reports)
                                   /\ newest[i] = Reports[Len(Reports) - i + 1]
  BY <1>1, ReversedIs
<1>3. Listing = Picked(newest, P) /\ Place \in DOMAIN Listing
  BY DEF Listing, LatestOfKind, OnPage
<1>4. P \in SUBSET DOMAIN newest /\ \A i \in P : <<newest[i].form, newest[i].kind>> = Kind
  OBVIOUS
<1> HIDE DEF newest, P
<1>5. n \in P /\ Listing[Place] = newest[n]
  BY <1>2, <1>3, <1>4, PickedAre
<1> HIDE DEF n
<1>6. Candidate = newest[n] /\ n \in 1..Len(Reports)
  BY <1>2, <1>4, <1>5 DEF Candidate
<1> QED
  BY <1>1, <1>2, <1>4, <1>5, <1>6

(* The rows of a report are of its committee, its kind and its period.      *)
LEMMA RowIs ==
    ASSUME EvalTypeOK, NEW i \in DOMAIN Reports, NEW id \in {Reports[i].id, Reports[i].first},
           NEW rfai \in BOOLEAN, NEW count \in Nat, NEW o \in Outcomes
    PROVE  LET row == RowOf(Reports[i], id, rfai, count, o)
           IN  /\ row \in ReportFields
               /\ row.committee = Reports[i].committee /\ row.period = Reports[i].period
               /\ <<row.form, row.kind>> = <<Reports[i].form, Reports[i].kind>>
               /\ row.rfai = rfai /\ row.asOf = mailed
<1>1. mailed \in Nat
  BY ReportsAre DEF EvalTypeOK
<1> QED
  BY <1>1 DEF RowOf, ReportFields

(* The two cuts agree on any rows.                                          *)
LEMMA CutsDoAgree ==
    ASSUME evalRows \in Seq(ReportFields)
    PROVE  CutsAgree
<1> DEFINE A == Scored(evalRows)
           C == CommitteeClean(evalRows)
           Of(among, firing, fired, rfai) ==
               {k \in among : (evalRows[k].outcome \in firing) = fired /\ evalRows[k].rfai = rfai}
           all == Confusion(evalRows, A, AnyObservation)
           none == Confusion(evalRows, C, AnyObservation)
           strict == Confusion(evalRows, A, StrictObservation)
<1>1. /\ all.tp = Cardinality(Of(A, AnyObservation, TRUE, TRUE))
      /\ all.fp = Cardinality(Of(A, AnyObservation, TRUE, FALSE))
      /\ all.fn = Cardinality(Of(A, AnyObservation, FALSE, TRUE))
  BY DEF Confusion
<1>2. /\ none.tp = Cardinality(Of(C, AnyObservation, TRUE, TRUE))
      /\ none.fp = Cardinality(Of(C, AnyObservation, TRUE, FALSE))
      /\ none.fn = Cardinality(Of(C, AnyObservation, FALSE, TRUE))
  BY DEF Confusion
<1>3. strict.tp = Cardinality(Of(A, StrictObservation, TRUE, TRUE))
  BY DEF Confusion
<1>4. A \in SUBSET DOMAIN evalRows /\ IsFiniteSet(A)
  <2>1. DOMAIN evalRows = 1..Len(evalRows) /\ Len(evalRows) \in Nat
    BY LenProperties
  <2>2. IsFiniteSet(DOMAIN evalRows)
    BY <2>1, FS_Interval
  <2>3. A \in SUBSET DOMAIN evalRows
    BY DEF Scored
  <2> QED
    BY <2>2, <2>3, FS_Subset
<1>5. C = {k \in A : evalRows[k].rfai \/ evalRows[k].count = 0}
  BY DEF CommitteeClean
<1> HIDE DEF A, C, all, none, strict
<1>6. Of(A, AnyObservation, TRUE, TRUE) = Of(C, AnyObservation, TRUE, TRUE)
  BY <1>5
<1>7. Of(A, AnyObservation, FALSE, TRUE) = Of(C, AnyObservation, FALSE, TRUE)
  BY <1>5
<1>8. Of(C, AnyObservation, TRUE, FALSE) \in SUBSET Of(A, AnyObservation, TRUE, FALSE)
  BY <1>5
<1>9. Of(A, StrictObservation, TRUE, TRUE) \in SUBSET Of(A, AnyObservation, TRUE, TRUE)
  BY DEF StrictObservation, AnyObservation, Outcomes
<1>10. \A T \in SUBSET A : IsFiniteSet(T)
  BY <1>4, FS_Subset
<1>11. IsFiniteSet(Of(A, AnyObservation, TRUE, FALSE)) /\ IsFiniteSet(Of(A, AnyObservation, TRUE, TRUE))
  BY <1>10
<1> HIDE DEF Of
<1>12. /\ Cardinality(Of(C, AnyObservation, TRUE, FALSE)) <= Cardinality(Of(A, AnyObservation, TRUE, FALSE))
       /\ Cardinality(Of(A, StrictObservation, TRUE, TRUE)) <= Cardinality(Of(A, AnyObservation, TRUE, TRUE))
  BY <1>8, <1>9, <1>11, FS_Subset
<1> QED
  BY <1>1, <1>2, <1>3, <1>6, <1>7, <1>12 DEF CutsAgree, all, none, strict, A, C

(* What the invariant says of the rows is all there is to compare.          *)
LEMMA SettledCompare ==
    ASSUME EvalInv
    PROVE  SamplesAreComparable
<1>1. evalRows \in Seq(ReportFields) /\ \A k \in DOMAIN evalRows : evalRows[k] \in ReportFields
  <2>1. evalRows \in Seq(ReportFields)
    BY DEF EvalInv, EvalTypeOK
  <2> QED
    BY <2>1, ElementOfSeq, LenProperties
<1>2. KindsOf(evalRows) \in SUBSET ReportKinds
  <2>1. \A k \in DOMAIN evalRows : /\ evalRows[k].form \in {Reports[i].form : i \in DOMAIN Reports}
                                  /\ evalRows[k].kind \in {Reports[i].kind : i \in DOMAIN Reports}
    BY <1>1 DEF ReportFields
  <2>2. \A k \in DOMAIN evalRows : <<evalRows[k].form, evalRows[k].kind>> \in ReportKinds
    BY <2>1 DEF ReportKinds
  <2> QED
    BY <2>2 DEF KindsOf
<1>3. CutsAgree
  BY <1>1, CutsDoAgree
<1> QED
  BY <1>2, <1>3 DEF SamplesAreComparable, EvalInv, KindsAreMatched, RowsAreSettled

(* A row of a committee that has none keeps what holds of the rows, if what  *)
(* it says is true, and its kind is still wanted when no letter names it.    *)
LEMMA RowAdded ==
    ASSUME EvalInv, NEW r \in ReportFields, evalRows' = Append(evalRows, r),
           \A k \in DOMAIN evalRows : evalRows[k].committee # r.committee,
           r.rfai <=> NamedIn(r, r.asOf),
           r.rfai \/ GotOf(evalRows, <<r.form, r.kind>>) < WantedOf(evalRows, <<r.form, r.kind>>),
           requests' <= MaxRequests
    PROVE  /\ evalRows' \in Seq(ReportFields) /\ RowsAreSettled' /\ KindsAreMatched'
           /\ \A k \in DOMAIN evalRows' :
                 evalRows'[k] = r \/ (k \in DOMAIN evalRows /\ evalRows'[k] = evalRows[k])
<1> DEFINE n == Len(evalRows)
<1>1. evalRows \in Seq(ReportFields) /\ n \in Nat /\ DOMAIN evalRows = 1..n
  BY LenProperties DEF EvalInv, EvalTypeOK
<1>2. /\ evalRows' \in Seq(ReportFields) /\ DOMAIN evalRows' = 1..n + 1
      /\ evalRows'[n + 1] = r /\ \A k \in 1..n : evalRows'[k] = evalRows[k]
  BY <1>1, AppendProperties
<1> HIDE DEF n
<1>3. \A k \in 1..n + 1 : k \in 1..n \/ k = n + 1
  BY <1>1
<1>4. RowsAreSettled'
  <2>1. \A j, k \in DOMAIN evalRows' : evalRows'[j].committee = evalRows'[k].committee => j = k
    <3> SUFFICES ASSUME NEW j \in 1..n + 1, NEW k \in 1..n + 1,
                        evalRows'[j].committee = evalRows'[k].committee
                 PROVE  j = k
      BY <1>2
    <3>1. CASE j \in 1..n /\ k \in 1..n
      BY <1>1, <1>2, <3>1 DEF EvalInv, RowsAreSettled
    <3>2. CASE j = n + 1 \/ k = n + 1
      BY <1>1, <1>2, <1>3, <3>2
    <3> QED
      BY <1>3, <3>1, <3>2
  <2>2. \A k \in DOMAIN evalRows' : evalRows'[k].rfai <=> NamedIn(evalRows'[k], evalRows'[k].asOf)
    BY <1>1, <1>2, <1>3 DEF EvalInv, RowsAreSettled
  <2> QED
    BY <2>1, <2>2 DEF RowsAreSettled, NamedIn
<1>5. KindsAreMatched'
  <2> SUFFICES ASSUME NEW kind \in ReportKinds
               PROVE  (GotOf(evalRows, kind) <= WantedOf(evalRows, kind))'
    BY DEF KindsAreMatched
  <2>1. GotOf(evalRows, kind)' = GotOf(evalRows', kind) /\ WantedOf(evalRows, kind)' = WantedOf(evalRows', kind)
    BY DEF GotOf, WantedOf
  <2>2. /\ GotOf(evalRows, kind) \in Nat /\ WantedOf(evalRows, kind) \in Nat
        /\ GotOf(evalRows', kind)
              = GotOf(evalRows, kind) + IF ~r.rfai /\ <<r.form, r.kind>> = kind THEN 1 ELSE 0
        /\ WantedOf(evalRows', kind)
              = WantedOf(evalRows, kind) + IF r.rfai /\ <<r.form, r.kind>> = kind THEN 1 ELSE 0
    BY <1>1, CountsWhenAdded
  <2>3. GotOf(evalRows, kind) <= WantedOf(evalRows, kind)
    BY DEF EvalInv, KindsAreMatched
  <2>4. GotOf(evalRows', kind) <= WantedOf(evalRows', kind)
    BY <2>2, <2>3
  <2> QED
    BY <2>1, <2>4
<1> QED
  BY <1>1, <1>2, <1>3, <1>4, <1>5

(* A step that touches no row, and neither budget nor letters, keeps most.   *)
LEMMA RowsKept ==
    ASSUME EvalInv, evalRows' = evalRows, requests' <= MaxRequests
    PROVE  RowsAreSettled' /\ KindsAreMatched'
<1>1. KindsAreMatched'
  BY DEF EvalInv, KindsAreMatched, GotOf, WantedOf
<1>2. RowsAreSettled'
  BY DEF EvalInv, RowsAreSettled, NamedIn
<1> QED
  BY <1>1, <1>2

(* No step asks once the budget is used up.                                 *)
LEMMA BudgetKept ==
    ASSUME EvalInv, EvalNext
    PROVE  requests' \in Nat /\ requests' <= MaxRequests
<1>1. requests \in Nat /\ requests <= MaxRequests /\ MaxRequests \in Nat
  BY EvalAssumption DEF EvalInv, EvalTypeOK, RowsAreSettled
<1>2. \/ requests' = requests
      \/ Budgeted /\ Asked
      \/ requests' = IF Budgeted THEN requests + 1 ELSE requests
  BY DEF EvalNext, ReadLetters, ToTargets, FindTarget, ToClean, ReadClean, NextKind, SkipRecord,
         PageDone, AskLetters, Measured, AsksInVain, LetterSent, Rescore
<1> QED
  BY <1>1, <1>2 DEF Budgeted, Asked

(* Each action keeps the invariant, and it holds at the beginning.          *)
LEMMA FirstEval ==
    ASSUME EvalInit
    PROVE  EvalInv
<1>1. /\ evalRows = << >> /\ letters = << >> /\ DOMAIN evalRows = {} /\ DOMAIN letters = {}
      /\ requests = 0 /\ phase = "letters" /\ seenCommittees = {}
  BY DEF EvalInit
<1>2. mailed \in 0..Len(Letters)
  BY ReportsAre, EvalAssumption DEF EvalInit
<1>3. EvalTypeOK
  BY <1>1, <1>2 DEF EvalTypeOK, EvalInit, FirstPage
<1>4. LettersAreApart /\ CommitteesAreSeen
  BY <1>1 DEF LettersAreApart, CommitteesAreSeen
<1>5. KindsAreMatched
  <2>1. \A kind : GotOf(evalRows, kind) = 0 /\ WantedOf(evalRows, kind) = 0
    BY <1>1, FS_EmptySet DEF GotOf, WantedOf
  <2> QED
    BY <2>1 DEF KindsAreMatched
<1>6. RowsAreSettled
  BY <1>1, EvalAssumption DEF RowsAreSettled
<1> QED
  BY <1>3, <1>4, <1>5, <1>6 DEF EvalInv

(* A page of letters is read before there is a row.                         *)
LEMMA ReadLettersKeeps ==
    ASSUME EvalInv, ReadLetters, EvalNext
    PROVE  EvalInv'
<1>1. /\ phase = "letters" /\ phase' = phase /\ mailed' = mailed /\ evalRows' = evalRows
      /\ seenCommittees' = {letters'[k].committee : k \in DOMAIN letters'}
      /\ pagesRead' = [page |-> pagesRead.page + Stride, at |-> 1, of |-> PagesOf(Listed)]
  BY DEF ReadLetters
<1>2. evalRows = << >> /\ DOMAIN evalRows = {}
  BY <1>1 DEF EvalInv, CommitteesAreSeen
<1>3. letters' \in Seq(Range(Letters)) /\ LettersAreApart'
  BY LettersAdded DEF EvalInv
<1>4. requests' \in Nat /\ requests' <= MaxRequests
  BY BudgetKept
<1>5. EvalTypeOK'
  <2>1. /\ pagesRead' = [page |-> pagesRead'.page, at |-> pagesRead'.at, of |-> pagesRead'.of]
        /\ pagesRead'.at = 1
    BY <1>1
  <2> QED
    BY <1>1, <1>3, <1>4, <2>1 DEF EvalInv, EvalTypeOK
<1>6. CommitteesAreSeen'
  BY <1>1, <1>2 DEF CommitteesAreSeen
<1>7. RowsAreSettled' /\ KindsAreMatched'
  BY <1>1, <1>4, RowsKept
<1> QED
  BY <1>3, <1>5, <1>6, <1>7 DEF EvalInv

(* A letter is of a committee no row has, so its report is no second one.   *)
LEMMA FindTargetKeeps ==
    ASSUME EvalInv, FindTarget, EvalNext
    PROVE  EvalInv'
<1>1. /\ phase = "targets" /\ phase' = phase /\ mailed' = mailed /\ letters' = letters
      /\ seenCommittees' = seenCommittees /\ Looked <= Len(letters)
      /\ pagesRead' = [pagesRead EXCEPT !.at = @ + 1]
  BY DEF FindTarget
<1>2. /\ pagesRead' = [page |-> pagesRead.page, at |-> pagesRead.at + 1, of |-> pagesRead.of]
      /\ Looked \in Nat \ {0} /\ Looked' = Looked + 1
      /\ pagesRead' = [page |-> pagesRead'.page, at |-> pagesRead'.at, of |-> pagesRead'.of]
  BY <1>1 DEF EvalInv, EvalTypeOK, Looked
<1>3. requests' \in Nat /\ requests' <= MaxRequests
  BY BudgetKept
<1>4. LettersAreApart'
  BY <1>1 DEF EvalInv, LettersAreApart
<1>5. Looked \in DOMAIN letters /\ DOMAIN letters = 1..Len(letters) /\ Len(letters) \in Nat
  <2>1. DOMAIN letters = 1..Len(letters) /\ Len(letters) \in Nat
    BY LenProperties DEF EvalInv, EvalTypeOK
  <2> QED
    BY <1>1, <1>2, <2>1
<1>6. \A k \in DOMAIN evalRows : /\ evalRows[k].rfai
                               /\ \E j \in DOMAIN letters : j < Looked /\ evalRows[k].committee = letters[j].committee
  BY <1>1 DEF EvalInv, CommitteesAreSeen
<1>7. /\ seenCommittees = {letters[k].committee : k \in DOMAIN letters}
      /\ \A k \in DOMAIN evalRows : evalRows[k].committee \in seenCommittees
  BY <1>1 DEF EvalInv, CommitteesAreSeen
<1>8. ASSUME evalRows' \in Seq(ReportFields)
      PROVE  EvalTypeOK'
  BY <1>1, <1>2, <1>3, <1>8 DEF EvalInv, EvalTypeOK, Looked
<1>9. CASE evalRows' = evalRows
  <2>1. RowsAreSettled' /\ KindsAreMatched'
    BY <1>3, <1>9, RowsKept
  <2>2. CommitteesAreSeen'
    <3>1. \A j \in DOMAIN letters : j < Looked => j < Looked'
      BY <1>2, <1>5
    <3> QED
      BY <1>1, <1>6, <1>7, <1>9, <3>1 DEF CommitteesAreSeen
  <2>3. EvalTypeOK'
    BY <1>8, <1>9 DEF EvalInv, EvalTypeOK
  <2> QED
    BY <1>4, <2>1, <2>2, <2>3 DEF EvalInv
<1>10. ASSUME NEW i \in Target(letters[Looked]), NEW o \in Outcomes,
              evalRows' = Append(evalRows, RowOf(Reports[i], Reports[i].id, TRUE, 0, o))
       PROVE  EvalInv'
  <2> DEFINE r == RowOf(Reports[i], Reports[i].id, TRUE, 0, o)
             l == letters[Looked]
  <2>1. i \in DOMAIN Reports /\ Reports[i].committee = l.committee /\ Reports[i].period = l.period
    BY TargetIs
  <2>2. /\ r \in ReportFields /\ r.committee = l.committee /\ r.period = l.period
        /\ r.rfai = TRUE /\ r.asOf = mailed
    <3>1. /\ EvalTypeOK /\ Reports[i].id \in {Reports[i].id, Reports[i].first}
          /\ TRUE \in BOOLEAN /\ 0 \in Nat
      BY DEF EvalInv
    <3>2. /\ r \in ReportFields /\ r.committee = Reports[i].committee /\ r.period = Reports[i].period
          /\ r.rfai = TRUE /\ r.asOf = mailed
      BY <2>1, <3>1, RowIs, Zenon
    <3> HIDE DEF r
    <3> QED
      BY <2>1, <3>2
  <2> HIDE DEF r
  <2>3. \E k \in 1..mailed : l = Letters[k] /\ Letters[k].asks
    BY <1>5 DEF EvalInv, LettersAreApart
  <2>4. NamedIn(r, r.asOf)
    BY <2>2, <2>3 DEF NamedIn
  <2>5. \A k \in DOMAIN evalRows : evalRows[k].committee # r.committee
    <3> SUFFICES ASSUME NEW k \in DOMAIN evalRows, evalRows[k].committee = l.committee PROVE FALSE
      BY <2>2
    <3>1. PICK j \in DOMAIN letters : j < Looked /\ letters[j].committee = l.committee
      BY <1>6
    <3>2. j = Looked
      BY <1>5, <3>1 DEF EvalInv, LettersAreApart
    <3> QED
      BY <1>2, <3>1, <3>2
  <2>6. /\ evalRows' \in Seq(ReportFields) /\ RowsAreSettled' /\ KindsAreMatched'
        /\ \A k \in DOMAIN evalRows' :
              evalRows'[k] = r \/ (k \in DOMAIN evalRows /\ evalRows'[k] = evalRows[k])
    <3>1. r.rfai
      BY <2>2
    <3>2. evalRows' = Append(evalRows, r)
      BY <1>10 DEF r
    <3> QED
      BY <1>3, <2>2, <2>4, <2>5, <3>1, <3>2, RowAdded
  <2>7. CommitteesAreSeen'
    <3>1. r.committee \in seenCommittees
      BY <1>5, <1>7, <2>2
    <3>2. \A k \in DOMAIN evalRows' :
             /\ evalRows'[k].rfai /\ evalRows'[k].committee \in seenCommittees
             /\ \E j \in DOMAIN letters : j < Looked' /\ evalRows'[k].committee = letters[j].committee
      <4> SUFFICES ASSUME NEW k \in DOMAIN evalRows'
                   PROVE  /\ evalRows'[k].rfai /\ evalRows'[k].committee \in seenCommittees
                          /\ \E j \in DOMAIN letters : j < Looked' /\ evalRows'[k].committee = letters[j].committee
        OBVIOUS
      <4>1. CASE evalRows'[k] = r
        BY <1>2, <1>5, <2>2, <3>1, <4>1
      <4>2. CASE k \in DOMAIN evalRows /\ evalRows'[k] = evalRows[k]
        <5>1. \A j \in DOMAIN letters : j < Looked => j < Looked'
          BY <1>2, <1>5
        <5> QED
          BY <1>6, <1>7, <4>2, <5>1
      <4> QED
        BY <2>6, <4>1, <4>2
    <3> QED
      BY <1>1, <1>7, <3>2 DEF CommitteesAreSeen
  <2> QED
    BY <1>4, <1>8, <2>6, <2>7 DEF EvalInv
<1> QED
  BY <1>9, <1>10 DEF FindTarget

(* A candidate is of a committee not seen, and its kind is wanted.          *)
LEMMA AskLettersKeeps ==
    ASSUME EvalInv, AskLetters, EvalNext
    PROVE  EvalInv'
<1>1. /\ phase = "clean" /\ phase' = phase /\ mailed' = mailed /\ letters' = letters
      /\ seenCommittees' = seenCommittees \cup {Candidate.committee}
      /\ Candidate.committee \notin seenCommittees
      /\ Place \in OnPage(Listing, pagesRead.page)
      /\ ~(GotOf(evalRows, Kind) >= WantedOf(evalRows, Kind))
      /\ pagesRead' = [pagesRead EXCEPT !.at = @ + 1]
  BY DEF AskLetters, NotEligible, HasCandidate, KindDone, AtNext
<1>2. /\ pagesRead' = [page |-> pagesRead'.page, at |-> pagesRead'.at, of |-> pagesRead'.of]
      /\ pagesRead'.at \in Nat \ {0}
  <2>1. pagesRead' = [page |-> pagesRead.page, at |-> pagesRead.at + 1, of |-> pagesRead.of]
    BY <1>1 DEF EvalInv, EvalTypeOK
  <2> QED
    BY <2>1 DEF EvalInv, EvalTypeOK
<1>3. requests' \in Nat /\ requests' <= MaxRequests
  BY BudgetKept
<1>4. LettersAreApart'
  BY <1>1 DEF EvalInv, LettersAreApart
<1>5. \A k \in DOMAIN evalRows : evalRows[k].committee \in seenCommittees
  BY DEF EvalInv, CommitteesAreSeen
<1>6. ASSUME evalRows' \in Seq(ReportFields)
      PROVE  EvalTypeOK'
  BY <1>1, <1>2, <1>3, <1>6 DEF EvalInv, EvalTypeOK
<1>7. ASSUME \A k \in DOMAIN evalRows' : evalRows'[k].committee \in seenCommittees'
      PROVE  CommitteesAreSeen'
  BY <1>1, <1>7 DEF CommitteesAreSeen
<1>8. CASE evalRows' = evalRows
  <2>1. RowsAreSettled' /\ KindsAreMatched'
    BY <1>3, <1>8, RowsKept
  <2>2. EvalTypeOK'
    BY <1>6, <1>8 DEF EvalInv, EvalTypeOK
  <2>3. CommitteesAreSeen'
    BY <1>1, <1>5, <1>7, <1>8
  <2> QED
    BY <1>4, <2>1, <2>2, <2>3 DEF EvalInv
<1>9. ASSUME NEW o \in Outcomes, Candidate.period \notin PeriodsNamed(Candidate.committee, mailed),
             evalRows' = Append(evalRows, RowOf(Candidate, Candidate.first, FALSE,
                                   Cardinality(LettersTo(Candidate.committee, mailed)), o))
      PROVE  EvalInv'
  <2> DEFINE count == Cardinality(LettersTo(Candidate.committee, mailed))
  <2>1. PICK i \in DOMAIN Reports : Candidate = Reports[i] /\ <<Reports[i].form, Reports[i].kind>> = Kind
    BY <1>1, CandidateIs
  <2>2. count \in Nat
    <3>1. IsFiniteSet(1..mailed)
      <4>1. mailed \in Int
        BY ReportsAre DEF EvalInv, EvalTypeOK
      <4> QED
        BY <4>1, FS_Interval
    <3>2. LettersTo(Candidate.committee, mailed) \in SUBSET (1..mailed)
      BY DEF LettersTo
    <3> QED
      BY <3>1, <3>2, FS_Subset, FS_CardinalityType
  <2> HIDE DEF count
  <2> DEFINE r == RowOf(Reports[i], Reports[i].first, FALSE, count, o)
  <2>3. /\ r \in ReportFields /\ r.committee = Reports[i].committee /\ r.period = Reports[i].period
        /\ <<r.form, r.kind>> = Kind /\ r.rfai = FALSE /\ r.asOf = mailed
    <3>1. /\ EvalTypeOK /\ Reports[i].first \in {Reports[i].id, Reports[i].first}
          /\ FALSE \in BOOLEAN /\ i \in DOMAIN Reports
      BY <2>1 DEF EvalInv
    <3>2. /\ r \in ReportFields /\ r.committee = Reports[i].committee /\ r.period = Reports[i].period
          /\ r.rfai = FALSE /\ r.asOf = mailed
      BY <2>2, <3>1, RowIs, Zenon
    <3>3. <<r.form, r.kind>> = <<Reports[i].form, Reports[i].kind>>
      BY DEF RowOf
    <3> HIDE DEF r
    <3> QED
      BY <2>1, <3>2, <3>3
  <2>4. evalRows' = Append(evalRows, r)
    BY <1>9, <2>1 DEF count
  <2> HIDE DEF r
  <2>5. ~NamedIn(r, r.asOf)
    BY <1>9, <2>1, <2>3 DEF NamedIn, PeriodsNamed, Asking, LettersTo
  <2>6. \A k \in DOMAIN evalRows : evalRows[k].committee # r.committee
    BY <1>1, <1>5, <2>1, <2>3
  <2>7. GotOf(evalRows, Kind) < WantedOf(evalRows, Kind)
    <3>1. GotOf(evalRows, Kind) \in Nat /\ WantedOf(evalRows, Kind) \in Nat
      BY <2>3, CountsWhenAdded DEF EvalInv, EvalTypeOK
    <3> QED
      BY <1>1, <3>1
  <2>8. /\ evalRows' \in Seq(ReportFields) /\ RowsAreSettled' /\ KindsAreMatched'
        /\ \A k \in DOMAIN evalRows' :
              evalRows'[k] = r \/ (k \in DOMAIN evalRows /\ evalRows'[k] = evalRows[k])
    <3>1. r.rfai <=> NamedIn(r, r.asOf)
      BY <2>3, <2>5
    <3>2. GotOf(evalRows, <<r.form, r.kind>>) < WantedOf(evalRows, <<r.form, r.kind>>)
      BY <2>3, <2>7
    <3> QED
      BY <1>3, <2>3, <2>4, <2>6, <3>1, <3>2, RowAdded
  <2>9. \A k \in DOMAIN evalRows' : evalRows'[k].committee \in seenCommittees'
    BY <1>1, <1>5, <2>1, <2>3, <2>8
  <2> QED
    BY <1>4, <1>6, <1>7, <2>8, <2>9 DEF EvalInv
<1> QED
  BY <1>8, <1>9 DEF AskLetters

(* The other steps look no report up.                                       *)
LEMMA OthersKeep ==
    ASSUME EvalInv, EvalNext,
           \/ ToTargets \/ ToClean \/ ReadClean \/ NextKind \/ SkipRecord
           \/ PageDone \/ Measured \/ AsksInVain \/ LetterSent
    PROVE  EvalInv'
<1>1. /\ evalRows' = evalRows /\ letters' = letters /\ seenCommittees' = seenCommittees
      /\ mailed' = mailed \/ (mailed < Len(Letters) /\ mailed' = mailed + 1)
  BY DEF ToTargets, ToClean, ReadClean, NextKind, SkipRecord, PageDone, Measured, AsksInVain, LetterSent
<1>2. requests' \in Nat /\ requests' <= MaxRequests
  BY BudgetKept
<1>3. /\ pagesRead' = [page |-> pagesRead'.page, at |-> pagesRead'.at, of |-> pagesRead'.of]
      /\ pagesRead'.at \in Nat \ {0}
  <2>1. \/ pagesRead' = pagesRead
        \/ pagesRead' = FirstPage
        \/ pagesRead' = [page |-> pagesRead.page, at |-> 2, of |-> PagesOf(Listing)]
        \/ pagesRead' = [pagesRead EXCEPT !.at = @ + 1]
        \/ pagesRead' = [page |-> pagesRead.page + Stride, at |-> 1, of |-> pagesRead.of]
    BY DEF ToTargets, ToClean, ReadClean, NextKind, SkipRecord, PageDone, Measured, AsksInVain, LetterSent,
           Fresh, AtNext
  <2>2. /\ pagesRead = [page |-> pagesRead.page, at |-> pagesRead.at, of |-> pagesRead.of]
        /\ pagesRead.at \in Nat \ {0}
    BY DEF EvalInv, EvalTypeOK
  <2>3. CASE pagesRead' = [pagesRead EXCEPT !.at = @ + 1]
    <3>1. pagesRead' = [page |-> pagesRead.page, at |-> pagesRead.at + 1, of |-> pagesRead.of]
      BY <2>2, <2>3
    <3> QED
      BY <2>2, <3>1
  <2>4. CASE pagesRead' = FirstPage
    BY <2>4 DEF FirstPage
  <2>5. CASE \/ pagesRead' = [page |-> pagesRead.page, at |-> 2, of |-> PagesOf(Listing)]
             \/ pagesRead' = [page |-> pagesRead.page + Stride, at |-> 1, of |-> pagesRead.of]
    BY <2>5
  <2> QED
    BY <2>1, <2>2, <2>3, <2>4, <2>5
<1>4. /\ phase' \in {"letters", "targets", "clean", "done", "failed"}
      /\ phase' = "letters" => phase = "letters"
      /\ phase' = "targets" => phase = "letters" \/ (phase = "targets" /\ pagesRead' = pagesRead)
  BY DEF EvalInv, EvalTypeOK, ToTargets, ToClean, ReadClean, NextKind, SkipRecord, PageDone, Measured,
         AsksInVain, LookupFails, LetterSent
<1>5. EvalTypeOK'
  <2>1. mailed' \in 0..Len(Letters)
    BY <1>1, ReportsAre DEF EvalInv, EvalTypeOK
  <2> QED
    BY <1>1, <1>2, <1>3, <1>4, <2>1 DEF EvalInv, EvalTypeOK
<1>6. LettersAreApart'
  <2>1. \A i \in 1..mailed : i \in 1..mailed'
    BY <1>1, ReportsAre DEF EvalInv, EvalTypeOK
  <2> QED
    BY <1>1, <2>1 DEF EvalInv, LettersAreApart
<1>7. CommitteesAreSeen'
  <2>1. phase \in {"letters", "targets"} => seenCommittees = {letters[k].committee : k \in DOMAIN letters}
    BY DEF EvalInv, CommitteesAreSeen
  <2>2. phase' \in {"letters", "targets"} => phase \in {"letters", "targets"}
    BY <1>4
  <2>3. phase = "letters" => evalRows = << >> /\ DOMAIN evalRows = {}
    BY DEF EvalInv, CommitteesAreSeen
  <2>4. CASE phase = "letters"
    BY <1>1, <2>1, <2>2, <2>3, <2>4 DEF CommitteesAreSeen
  <2>5. CASE phase # "letters"
    <3>1. phase' # "letters" /\ (phase' = "targets" => phase = "targets" /\ pagesRead' = pagesRead)
      BY <1>4, <2>5
    <3> QED
      BY <1>1, <2>1, <2>2, <3>1 DEF EvalInv, CommitteesAreSeen, Looked
  <2> QED
    BY <2>4, <2>5
<1>8. RowsAreSettled' /\ KindsAreMatched'
  BY <1>1, <1>2, RowsKept
<1> QED
  BY <1>5, <1>6, <1>7, <1>8 DEF EvalInv

(* --rescore changes outcomes only.                                         *)
LEMMA RescoreKeeps ==
    ASSUME EvalInv, Rescore, EvalNext
    PROVE  EvalInv'
<1>1. PICK q \in DOMAIN evalRows, o \in Outcomes : evalRows' = [evalRows EXCEPT ![q].outcome = o]
  BY DEF Rescore
<1>2. /\ phase = "done" /\ phase' = phase /\ mailed' = mailed /\ requests' = requests /\ letters' = letters
      /\ seenCommittees' = seenCommittees /\ pagesRead' = pagesRead
  BY DEF Rescore
<1>3. evalRows \in Seq(ReportFields) /\ DOMAIN evalRows = 1..Len(evalRows)
  BY LenProperties DEF EvalInv, EvalTypeOK
<1>4. evalRows[q] \in ReportFields
  BY <1>3, ElementOfSeq
<1> DEFINE new == [evalRows[q] EXCEPT !.outcome = o]
<1>5. evalRows' = [evalRows EXCEPT ![q] = new]
  BY <1>1
<1>6. /\ new \in ReportFields /\ new.committee = evalRows[q].committee /\ new.rfai = evalRows[q].rfai
      /\ new.form = evalRows[q].form /\ new.kind = evalRows[q].kind /\ new.period = evalRows[q].period
      /\ new.asOf = evalRows[q].asOf
  BY <1>4 DEF ReportFields
<1> HIDE DEF new
<1>7. evalRows' \in Seq(ReportFields) /\ DOMAIN evalRows' = DOMAIN evalRows
  BY <1>3, <1>5, <1>6, ExceptSeq
<1>8. \A k \in DOMAIN evalRows :
         /\ evalRows'[k].committee = evalRows[k].committee /\ evalRows'[k].rfai = evalRows[k].rfai
         /\ evalRows'[k].form = evalRows[k].form /\ evalRows'[k].kind = evalRows[k].kind
         /\ evalRows'[k].period = evalRows[k].period /\ evalRows'[k].asOf = evalRows[k].asOf
  BY <1>5, <1>6
<1>9. EvalTypeOK'
  BY <1>2, <1>7 DEF EvalInv, EvalTypeOK
<1>10. LettersAreApart'
  BY <1>2 DEF EvalInv, LettersAreApart
<1>11. CommitteesAreSeen'
  BY <1>2, <1>7, <1>8 DEF EvalInv, CommitteesAreSeen
<1>12. KindsAreMatched'
  <2>1. \A kind : GotOf(evalRows', kind) = GotOf(evalRows, kind) /\ WantedOf(evalRows', kind) = WantedOf(evalRows, kind)
    <3> SUFFICES ASSUME NEW kind
                 PROVE  GotOf(evalRows', kind) = GotOf(evalRows, kind) /\ WantedOf(evalRows', kind) = WantedOf(evalRows, kind)
      OBVIOUS
    <3>1. {k \in DOMAIN evalRows' : ~evalRows'[k].rfai /\ <<evalRows'[k].form, evalRows'[k].kind>> = kind}
            = {k \in DOMAIN evalRows : ~evalRows[k].rfai /\ <<evalRows[k].form, evalRows[k].kind>> = kind}
      BY <1>7, <1>8
    <3>2. {k \in DOMAIN evalRows' : evalRows'[k].rfai /\ <<evalRows'[k].form, evalRows'[k].kind>> = kind}
            = {k \in DOMAIN evalRows : evalRows[k].rfai /\ <<evalRows[k].form, evalRows[k].kind>> = kind}
      BY <1>7, <1>8
    <3> QED
      BY <3>1, <3>2 DEF GotOf, WantedOf
  <2> SUFFICES ASSUME NEW kind \in ReportKinds
               PROVE  (GotOf(evalRows, kind) <= WantedOf(evalRows, kind))'
    BY DEF KindsAreMatched
  <2>2. GotOf(evalRows, kind)' = GotOf(evalRows', kind) /\ WantedOf(evalRows, kind)' = WantedOf(evalRows', kind)
    BY DEF GotOf, WantedOf
  <2>3. GotOf(evalRows, kind) <= WantedOf(evalRows, kind)
    BY DEF EvalInv, KindsAreMatched
  <2> QED
    BY <2>1, <2>2, <2>3
<1>13. RowsAreSettled'
  BY <1>2, <1>7, <1>8 DEF EvalInv, RowsAreSettled, NamedIn
<1> QED
  BY <1>9, <1>10, <1>11, <1>12, <1>13 DEF EvalInv

(* Every state of an evaluation keeps the invariant.                        *)
THEOREM EvalInvariant == EvalSpec => []EvalInv
<1>1. EvalInit => EvalInv
  BY FirstEval
<1>2. EvalInv /\ [EvalNext]_evalVars => EvalInv'
  <2> SUFFICES ASSUME EvalInv, [EvalNext]_evalVars PROVE EvalInv'
    OBVIOUS
  <2>1. CASE ReadLetters
    BY <2>1, ReadLettersKeeps DEF EvalNext
  <2>2. CASE FindTarget
    BY <2>2, FindTargetKeeps DEF EvalNext
  <2>3. CASE AskLetters
    BY <2>3, AskLettersKeeps DEF EvalNext
  <2>4. CASE Rescore
    BY <2>4, RescoreKeeps DEF EvalNext
  <2>5. CASE \/ ToTargets \/ ToClean \/ ReadClean \/ NextKind \/ SkipRecord
             \/ PageDone \/ Measured \/ AsksInVain \/ LetterSent
    BY <2>5, OthersKeep DEF EvalNext
  <2>6. CASE UNCHANGED evalVars
    <3>1. RowsAreSettled' /\ KindsAreMatched'
      BY <2>6, RowsKept DEF EvalInv, RowsAreSettled, evalVars
    <3> QED
      BY <2>6, <3>1 DEF EvalInv, EvalTypeOK, LettersAreApart, CommitteesAreSeen, Looked, evalVars
  <2> QED
    BY <2>1, <2>2, <2>3, <2>4, <2>5, <2>6 DEF EvalNext
<1> QED
  BY <1>1, <1>2, PTL DEF EvalSpec

(* The named and the clean reports of `review --eval` can be compared,      *)
(* however letters arrive and requests fail while they are sampled.         *)
THEOREM EvalCompares == EvalSpec => []SamplesAreComparable
<1>1. EvalInv => SamplesAreComparable
  BY SettledCompare
<1> QED
  BY <1>1, EvalInvariant, PTL
=============================================================================
