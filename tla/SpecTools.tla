----------------------------- MODULE SpecTools -----------------------------
(***************************************************************************)
(* The FEC's format as data: the column layouts of every table at every    *)
(* version, and `hardmoney spec`, the commands that list, export and       *)
(* compare them.                                                           *)
(*                                                                         *)
(* A vendor reads the columns of some tables once and then follows the     *)
(* differences from version to version; the commands answer from the same  *)
(* layouts, and what one of them says is what every other would.           *)
(***************************************************************************)
EXTENDS Integers, Sequences, SequencesExt, FiniteSets, FiniteSetsExt, Functions, TLC

CONSTANTS Catalog,    \* table -> its layouts in bundled order: [versions, width, fields : Seq([name, column])]
          SpecRows,   \* table -> the bundled version's rows: name -> [amount, length, required, codes, rest]
          TableOf,    \* form-type token -> table: the dispatch
          Bundled,    \* the text of the version the rows describe
          AskedNames, \* what is typed for a table
          AskedTexts, \* what is typed for a version: [paper, parts : Seq(Seq(digit))]
          NoVersion

VARIABLES knows,      \* the vendor's picture: at (a version), columns (table -> its fields)
          printed        \* the last command and what it printed (history)

specVars == <<knows, printed>>
-----------------------------------------------------------------------------
(* Versions.  Electronic ones come before the paper conversions.            *)

Electronic(major, minor) == [paper |-> FALSE, major |-> major, minor |-> minor]
Older(v, w) ==
    \/ ~v.paper /\ w.paper
    \/ v.paper = w.paper /\ v.major < w.major
    \/ v.paper = w.paper /\ v.major = w.major /\ v.minor < w.minor

Number(digits) == FoldLeft(LAMBDA n, d : 10 * n + d, 0, digits)
Digits(n) == IF n < 10 THEN <<n>> ELSE IF n < 100 THEN <<n \div 10, n % 10>> ELSE <<n \div 100, (n \div 10) % 10, n % 10>>

\* The first digit of the second part is the minor version; parts after it are
\* a build number. 3.00 is 3.0.
VersionOf(text) ==
    IF \E i \in DOMAIN text.parts : text.parts[i] = << >> \/ ~(Range(text.parts[i]) \subseteq 0..9) THEN NoVersion
    ELSE IF text.parts = << >> \/ Number(text.parts[1]) > 255 THEN NoVersion
    ELSE [paper |-> text.paper, major |-> Number(text.parts[1]),
          minor |-> IF Len(text.parts) = 1 THEN 0 ELSE text.parts[2][1]]

TextOf(v) == [paper |-> v.paper, parts |-> <<Digits(v.major), <<v.minor>>>>]
-----------------------------------------------------------------------------
(* Layouts.                                                                 *)

Tables == DOMAIN Catalog
Supports(layout, v) == v \in Range(layout.versions)
CoveringLayouts(t, v) == {i \in DOMAIN Catalog[t] : Supports(Catalog[t][i], v)}
SupportsVersion(t, v) == CoveringLayouts(t, v) # {}
LayoutAt(t, v) == Catalog[t][Min(CoveringLayouts(t, v))]

FieldNames(layout) == {layout.fields[i].name : i \in DOMAIN layout.fields}
FieldAt(layout, name) == CHOOSE f \in Range(layout.fields) : f.name = name
TokenFieldOf(layout) == (CHOOSE f \in Range(layout.fields) : f.column = 0).name

ByColumn(fields) == SortSeq(fields, LAMBDA f, g : f.column < g.column)
InOrder(layout) == ByColumn(layout.fields)
DisplayColumn(column) == column + 1

TableVersions(t) == UNION {Range(Catalog[t][i].versions) : i \in DOMAIN Catalog[t]}
KnownVersions == UNION {TableVersions(t) : t \in Tables}
BundledVersion == VersionOf(Bundled)
OldestVersion(versions) == CHOOSE v \in versions : \A w \in versions : ~Older(w, v)
NewestVersion(versions) == CHOOSE v \in versions : \A w \in versions : ~Older(v, w)
-----------------------------------------------------------------------------
(* Answers: what a command prints, or why it refuses and what it offers.    *)

Refuses(why, offers) == [refused |-> why, offers |-> offers, out |-> << >>]
Printed(out) == [refused |-> "", offers |-> {}, out |-> out]

\* A name that is no table; a form-type token is not guessed at.
UnknownTable(name) == Refuses("table", IF name \in DOMAIN TableOf THEN {TableOf[name]} ELSE {})
NoLayoutFor(t) == Refuses("layout", TableVersions(t))
UnknownVersion == Refuses("version", KnownVersions)

\* The bundled version's row of a field, if it has one.
SpecRowOf(t, name) == IF name \in DOMAIN SpecRows[t] THEN <<SpecRows[t][name]>> ELSE << >>
FieldRow(t, f) == [column |-> DisplayColumn(f.column), name |-> f.name, spec |-> SpecRowOf(t, f.name)]
FieldRows(t, layout) == [i \in DOMAIN InOrder(layout) |-> FieldRow(t, InOrder(layout)[i])]

TableRow(t) ==
    LET electronic == {v \in TableVersions(t) : ~v.paper}
    IN  [buckets |-> Len(Catalog[t]), specRows |-> Cardinality(DOMAIN SpecRows[t]),
         paper |-> Cardinality(TableVersions(t) \ electronic),
         oldest |-> IF electronic = {} THEN NoVersion ELSE OldestVersion(electronic),
         newest |-> IF Cardinality(electronic) < 2 THEN NoVersion ELSE NewestVersion(electronic)]

SelectedLayouts(t, v) == SelectSeq(Catalog[t], LAMBDA l : v = NoVersion \/ Supports(l, v))
SelectedTables(t, v) == IF t # "" THEN {t} ELSE IF v = NoVersion THEN Tables ELSE {u \in Tables : SupportsVersion(u, v)}

ExportedTable(t, v) == [layouts |-> SelectedLayouts(t, v), specs |-> SpecRows[t]]

\* The rows of one layout: its versions oldest first, then field by field.
CsvRows(t, v) ==
    LET OfLayout(l) == [i \in DOMAIN FieldRows(t, l) |->
                           [table |-> t, versions |-> SortSeq(l.versions, Older), width |-> l.width,
                            row |-> FieldRows(t, l)[i], rules |-> FieldRows(t, l)[i].spec # << >>]]
    IN  FlattenSeq([i \in DOMAIN SelectedLayouts(t, v) |-> OfLayout(SelectedLayouts(t, v)[i])])

\* A schema bounds an amount's digits, and takes codes and formats only at the
\* version they describe; a blank is never refused.
PropertyOf(t, f, current) ==
    LET spec == SpecRowOf(t, f.name)[1]
    IN  IF SpecRowOf(t, f.name) = << >>
        THEN [column |-> DisplayColumn(f.column), name |-> f.name, maxLength |-> 0, codes |-> {}]
        ELSE [column |-> DisplayColumn(f.column), name |-> f.name,
              maxLength |-> IF spec.amount THEN spec.length + 2 ELSE spec.length,
              codes |-> IF current /\ spec.codes # {} THEN spec.codes \cup {""} ELSE {}]
LayoutSchema(t, v) ==
    LET fields == InOrder(LayoutAt(t, v))
    IN  [properties |-> [i \in DOMAIN fields |-> PropertyOf(t, fields[i], v = BundledVersion)],
         required |-> {n \in FieldNames(LayoutAt(t, v)) \cap DOMAIN SpecRows[t] : SpecRows[t][n].required = "error"}]
SchemaBundle(v) == [t \in SelectedTables("", v) |-> LayoutSchema(t, v)]
-----------------------------------------------------------------------------
(* Differences.                                                             *)

DiffLayouts(a, b) ==
    LET added   == SelectSeq(b.fields, LAMBDA f : f.name \notin FieldNames(a))
        removed == SelectSeq(a.fields, LAMBDA f : f.name \notin FieldNames(b))
        moved   == SelectSeq(b.fields, LAMBDA f : f.name \in FieldNames(a) /\ FieldAt(a, f.name).column # f.column)
        Tell(change, fs) == [i \in DOMAIN fs |->
                                [change |-> change, name |-> ByColumn(fs)[i].name,
                                 column |-> DisplayColumn(ByColumn(fs)[i].column)]]
    IN  Tell("added", added) \o Tell("removed", removed) \o Tell("moved", moved)

DiffVersions(ts, from, to) ==
    LET both == {t \in ts : SupportsVersion(t, from) /\ SupportsVersion(t, to)}
        Changes(t) == DiffLayouts(LayoutAt(t, from), LayoutAt(t, to))
        changed == {t \in both : Changes(t) # << >>}
    IN  [gained |-> {t \in ts : ~SupportsVersion(t, from) /\ SupportsVersion(t, to)},
         lost |-> {t \in ts : SupportsVersion(t, from) /\ ~SupportsVersion(t, to)},
         changed |-> [t \in changed |-> Changes(t)], unchanged |-> both \ changed]
-----------------------------------------------------------------------------
(* The commands.                                                            *)

Ask(cmd, t, from, to) == [cmd |-> cmd, table |-> t, from |-> from, to |-> to]

TablesAnswer == Printed([t \in Tables |-> TableRow(t)])

FieldsAnswer(t, v) ==
    IF t \notin Tables THEN UnknownTable(t)
    ELSE IF SupportsVersion(t, v) THEN Printed(FieldRows(t, LayoutAt(t, v))) ELSE NoLayoutFor(t)

\* v is NoVersion where none was given.
ExportAnswer(format, t, v) ==
    IF t \notin Tables \cup {""} THEN UnknownTable(t)
    ELSE IF format = "json-schema"
    THEN LET at == IF v = NoVersion THEN BundledVersion ELSE v
         IN  IF at \notin KnownVersions THEN UnknownVersion
             ELSE IF t = "" THEN Printed(SchemaBundle(at))
             ELSE IF SupportsVersion(t, at) THEN Printed(t :> LayoutSchema(t, at)) ELSE NoLayoutFor(t)
    ELSE IF t # "" /\ v # NoVersion /\ ~SupportsVersion(t, v) THEN NoLayoutFor(t)
    ELSE IF t = "" /\ v # NoVersion /\ v \notin KnownVersions THEN UnknownVersion
    ELSE Printed([u \in SelectedTables(t, v) |-> IF format = "csv" THEN CsvRows(u, v) ELSE ExportedTable(u, v)])

DiffAnswer(from, to, t) ==
    IF t \notin Tables \cup {""} THEN UnknownTable(t)
    ELSE IF from \notin KnownVersions \/ to \notin KnownVersions THEN UnknownVersion
    ELSE IF t # "" /\ ~SupportsVersion(t, from) /\ ~SupportsVersion(t, to) THEN NoLayoutFor(t)
    ELSE Printed(DiffVersions(IF t = "" THEN Tables ELSE {t}, from, to))
-----------------------------------------------------------------------------
(* The vendor asks, then takes what was printed.                            *)

NotAsked == [ask |-> Ask("", "", NoVersion, NoVersion), answer |-> Printed(<< >>)]
Show(ask, answer) ==
    /\ printed' = [ask |-> ask, answer |-> answer]
    /\ UNCHANGED knows

AskTables == Show(Ask("tables", "", NoVersion, NoVersion), TablesAnswer)

\* Without a version the command answers for the bundled one.
AskFields(t, text) ==
    LET v == IF text = NoVersion THEN BundledVersion ELSE VersionOf(text)
    IN  v # NoVersion /\ Show(Ask("fields", t, v, v), FieldsAnswer(t, v)) \* else clap refuses the argument

AskExport(format, t, text) ==
    LET v == IF text = NoVersion THEN NoVersion ELSE VersionOf(text)
    IN  /\ text # NoVersion => v # NoVersion
        /\ Show(Ask(format, t, v, v), ExportAnswer(format, t, v))

AskDiff(from, to, t) ==
    LET v == VersionOf(from)
        w == VersionOf(to)
    IN  v # NoVersion /\ w # NoVersion /\ Show(Ask("diff", t, v, w), DiffAnswer(v, w, t))

ColumnsIn(rows) == {[name |-> rows[i].name, column |-> rows[i].column] : i \in DOMAIN rows}

\* A change by name: an added or moved field is at its new column.
Follow(columns, changes) ==
    LET kept == {i \in DOMAIN changes : changes[i].change # "removed"}
    IN  {f \in columns : \A i \in DOMAIN changes : changes[i].name # f.name}
        \cup {[name |-> changes[i].name, column |-> changes[i].column] : i \in kept}

FollowDiff(diff, v) ==
    [at |-> v, columns |->
        [t \in DOMAIN knows.columns \cap (DOMAIN diff.changed \cup diff.unchanged) |->
            IF t \in diff.unchanged THEN knows.columns[t] ELSE Follow(knows.columns[t], diff.changed[t])]]

Learn(v, columns) == [at |-> v, columns |-> IF v = knows.at THEN columns @@ knows.columns ELSE columns]

TakeAnswer ==
    LET ask == printed.ask
        out == printed.answer.out
        Rows(t) == [i \in DOMAIN out[t] |-> out[t][i].row]
    IN  /\ printed # NotAsked
        /\ printed' = NotAsked
        /\ knows' = IF printed.answer.refused # "" \/ ask.to = NoVersion THEN knows
                    ELSE CASE ask.cmd = "fields"      -> Learn(ask.to, ask.table :> ColumnsIn(out))
                           [] ask.cmd = "csv"         -> Learn(ask.to, [t \in DOMAIN out |-> ColumnsIn(Rows(t))])
                           [] ask.cmd = "json-schema" -> Learn(ask.to, [t \in DOMAIN out |-> ColumnsIn(out[t].properties)])
                           [] ask.cmd = "diff" /\ ask.from = knows.at -> FollowDiff(out, ask.to)
                           [] OTHER -> knows
-----------------------------------------------------------------------------
SpecInit == knows = [at |-> NoVersion, columns |-> << >>] /\ printed = NotAsked

AskOne ==
    \/ AskTables
    \/ \E t \in AskedNames, text \in AskedTexts \cup {NoVersion} : AskFields(t, text)
    \/ \E format \in {"json", "json-schema", "csv"}, t \in AskedNames \cup {""}, text \in AskedTexts \cup {NoVersion} :
        AskExport(format, t, text)
    \/ \E from, to \in AskedTexts, t \in AskedNames \cup {""} : AskDiff(from, to, t)

SpecNext == (printed = NotAsked /\ AskOne) \/ TakeAnswer
-----------------------------------------------------------------------------
(* Whatever a vendor read and whichever differences it followed, its        *)
(* columns are those a record of that version is read by.                   *)
PictureIsRight ==
    \A t \in DOMAIN knows.columns :
        /\ SupportsVersion(t, knows.at)
        /\ knows.columns[t] = {[name |-> f.name, column |-> DisplayColumn(f.column)] : f \in Range(LayoutAt(t, knows.at).fields)}

(* What a refusal offers is accepted when it is asked for, as it is         *)
(* written; the versions a table is listed with have its fields.            *)
OffersStand ==
    LET a == printed.answer
        Answers(t, v) == VersionOf(TextOf(v)) = v /\ FieldsAnswer(t, v).refused = ""
    IN  /\ a.refused = "layout" => a.offers # {} /\ \A v \in a.offers : Answers(printed.ask.table, v)
        /\ a.refused = "version" => \A v \in a.offers : \E t \in Tables : Answers(t, v)
        /\ printed.ask.cmd = "tables" => \A t \in Tables : \A v \in {a.out[t].oldest, a.out[t].newest} \ {NoVersion} : Answers(t, v)

(* A comparison tells of each table that has a layout at either version     *)
(* once, and the comparison the other way tells the reverse.                *)
DiffsMirror ==
    printed.ask.cmd = "diff" /\ printed.answer.refused = "" =>
        LET d == printed.answer.out
            back == DiffVersions(IF printed.ask.table = "" THEN Tables ELSE {printed.ask.table}, printed.ask.to, printed.ask.from)
            Names(changes, change) == {changes[i].name : i \in {j \in DOMAIN changes : changes[j].change = change}}
        IN  /\ Cardinality(d.gained) + Cardinality(d.lost) + Cardinality(d.unchanged) + Cardinality(DOMAIN d.changed)
                 = Cardinality({t \in IF printed.ask.table = "" THEN Tables ELSE {printed.ask.table} :
                                   SupportsVersion(t, printed.ask.from) \/ SupportsVersion(t, printed.ask.to)})
            /\ back.gained = d.lost /\ back.unchanged = d.unchanged /\ DOMAIN back.changed = DOMAIN d.changed
            /\ \A t \in DOMAIN d.changed : /\ Names(d.changed[t], "added") = Names(back.changed[t], "removed")
                                           /\ Names(d.changed[t], "moved") = Names(back.changed[t], "moved")

FormatIsTold == PictureIsRight /\ OffersStand /\ DiffsMirror
=============================================================================
