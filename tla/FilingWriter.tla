---------------------------- MODULE FilingWriter ----------------------------
(***************************************************************************)
(* Filing::to_fec (parser::writer), the inverse of parsing: cells, quotes, *)
(* text blocks and the encoding, as the parser (parser::filing) takes them *)
(* apart.  A file is a sequence of lines, a line a sequence of symbols; a  *)
(* form-type token, a marker or a multi-byte character is one symbol.      *)
(* Records have two columns, the second `text` where the table has one;    *)
(* what is done with unparseable lines is FilingParse's.                   *)
(***************************************************************************)
EXTENDS Integers, Sequences, SequencesExt

CONSTANTS Wires,        \* files as they are filed
          SetValues,    \* values an editor sets
          MaxSets       \* bound

VARIABLES filing,       \* the Filing, or NotParsed
          sets          \* how many fields were set

writerVars == <<filing, sets>>

NotParsed  == << >>
Blanks     == {" ", "CR", "LF"}
CoverTokens == {<<"F99">>, <<"F3X">>}
BodyTokens  == {<<"TEXT">>, <<"SA">>}
WithText    == {<<"F99">>, <<"TEXT">>}
-----------------------------------------------------------------------------
(* Bytes. "E9" alone is no UTF-8; "BOM" and "C3A9" are bytes of either      *)
(* encoding, with the characters they are in each; the rest is ASCII.       *)
InUtf8 == [c \in {"BOM", "C3A9", "u(ï»¿)", "u(Ã©)"} |->
    IF c = "BOM" THEN "feff" ELSE IF c = "C3A9" THEN "é" ELSE IF c = "u(ï»¿)" THEN "ï»¿" ELSE "Ã©"]
In1252 == [c \in {"BOM", "C3A9", "E9"} |->
    IF c = "BOM" THEN "ï»¿" ELSE IF c = "C3A9" THEN "Ã©" ELSE "é"]

Through(f, lines) ==
    [n \in DOMAIN lines |->
        [i \in DOMAIN lines[n] |-> IF lines[n][i] \in DOMAIN f THEN f[lines[n][i]] ELSE lines[n][i]]]
Symbols(lines) == UNION {Range(lines[n]) : n \in DOMAIN lines}

\* A byte-order mark in front, then UTF-8 if that is what it is.
Decode(bytes) ==
    LET rest == IF bytes # << >> /\ bytes[1] # << >> /\ bytes[1][1] = "BOM"
                THEN <<Tail(bytes[1])>> \o Tail(bytes) ELSE bytes
    IN  Through(IF "E9" \in Symbols(rest) THEN In1252 ELSE InUtf8, rest)

Bytes(f, c) == CHOOSE b \in DOMAIN f : f[b] = c
Encoded(f, text) == Through([c \in Range(f) |-> Bytes(f, c)], text)

\* Windows-1252, unless it cannot or would be taken for UTF-8.
Encode(text) ==
    LET utf8  == Encoded(InUtf8, text)
        latin == Encoded(In1252, text)
        misread == "E9" \notin Symbols(latin) /\ Through(InUtf8, latin) # text
    IN  IF "feff" \in Symbols(text) \/ misread THEN utf8 ELSE latin
-----------------------------------------------------------------------------
(* Reading. *)
Trim(s) ==
    LET keep == {i \in DOMAIN s : s[i] \notin Blanks}
    IN  IF keep = {} THEN << >> ELSE SubSeq(s, Min(keep), Max(keep))

Wrapped(s) == Len(s) >= 2 /\ Head(s) = "Q" /\ Last(s) = "Q"

\* normalize_field.
NormalizeField(s) ==
    LET t == Trim(s) IN IF Wrapped(t) THEN Trim(SubSeq(t, 2, Len(t) - 1)) ELSE t

WithoutCr(s) == SubSeq(s, 1, Max({0} \cup {i \in DOMAIN s : s[i] # "CR"}))

Split(s, at) ==
    FoldLeft(LAMBDA cells, c : IF c = at THEN Append(cells, << >>)
                               ELSE [cells EXCEPT ![Len(cells)] = Append(@, c)],
             << << >> >>, s)

\* One character of a comma-delimited line, as the csv crate takes it.
CsvChar(acc, c) ==
    LET Put(at) == [cells |-> [acc.cells EXCEPT ![Len(acc.cells)] = Append(@, c)], at |-> at]
    IN  IF acc.at = "quoted" THEN IF c = "Q" THEN [acc EXCEPT !.at = "closing"] ELSE Put("quoted")
        ELSE IF acc.at = "closing" /\ c = "Q" THEN Put("quoted")
        ELSE IF c = "," THEN [cells |-> Append(acc.cells, << >>), at |-> "start"]
        ELSE IF acc.at = "start" /\ c = "Q" THEN [acc EXCEPT !.at = "quoted"]
        ELSE Put("field")

SplitCsv(s) == FoldLeft(CsvChar, [cells |-> << << >> >>, at |-> "start"], s).cells

Cells(fs, line) == IF fs THEN Split(WithoutCr(line), "FS") ELSE SplitCsv(WithoutCr(line))

FromCells(cells) ==
    [token |-> NormalizeField(cells[1]),
     value |-> IF Len(cells) = 1 THEN << >> ELSE NormalizeField(cells[2])]

Joined(lines) ==
    IF lines = << >> THEN << >> ELSE FoldLeft(LAMBDA t, l : t \o <<"LF">> \o l, Head(lines), Tail(lines))

\* attach_free_text: the block is set like any other value.
SetText(r, block) ==
    IF r.token \in WithText THEN [r EXCEPT !.value = NormalizeField(Joined(block))] ELSE r

BlockEnds(acc) ==
    [acc EXCEPT !.open = FALSE, !.block = << >>,
                !.cover = IF acc.lines = << >> THEN SetText(@, acc.block) ELSE @,
                !.lines = IF @ = << >> THEN @ ELSE [@ EXCEPT ![Len(@)] = SetText(@, acc.block)]]

\* One line of the body.
TakeLine(fs, acc, line) ==
    LET marker == Trim(line)
        r == FromCells(Cells(fs, line))
    IN  IF acc.open
        THEN IF marker = <<"[ENDTEXT]">> THEN BlockEnds(acc)
             ELSE [acc EXCEPT !.block = Append(@, WithoutCr(line))]
        ELSE IF marker = << >> \/ r.token = << >> THEN acc
        ELSE IF fs /\ marker = <<"[BEGINTEXT]">> THEN [acc EXCEPT !.open = TRUE]
        ELSE [acc EXCEPT !.lines = Append(@, r), !.ok = @ /\ r.token \in BodyTokens]

Versions == {<<"5.3">>, <<"8.5">>}

\* Filing::parse_bytes; a file that does not parse is NotParsed.
ParseBytes(bytes) ==
    LET text   == Decode(bytes)
        fs     == "FS" \in Range(text[1])
        header == FromCells(Cells(fs, text[1]))
        cover  == FromCells(Cells(fs, text[2]))
        end    == FoldLeft(LAMBDA acc, l : TakeLine(fs, acc, l),
                           [cover |-> cover, lines |-> << >>, open |-> FALSE, block |-> << >>, ok |-> TRUE],
                           SubSeq(text, 3, Len(text)))
    IN  IF text[1][1] = "/*" \/ header.value \notin Versions \/ cover.token \notin CoverTokens
           \/ ~end.ok \/ end.open
        THEN NotParsed
        ELSE [header |-> header, cover |-> end.cover, lines |-> end.lines]
-----------------------------------------------------------------------------
(* Writing. *)
UsesFs(f) == f.header.value = <<"8.5">>

\* The parser takes one pair of quotes off, so a value that has one gets one more.
Bare(s) == s
WireCell(s) == IF Wrapped(s) THEN <<"Q">> \o s \o <<"Q">> ELSE s

Sanitised(s, forbidden) == [i \in DOMAIN s |-> IF s[i] \in forbidden THEN " " ELSE s[i]]

CsvCell(s, force) ==
    LET cell == WireCell(s)
        doubled == FlattenSeq([i \in DOMAIN cell |-> IF cell[i] = "Q" THEN <<"Q", "Q">>
                                                     ELSE Sanitised(<<cell[i]>>, {"LF"})])
    IN  IF force \/ Range(cell) \cap {",", "Q", "CR", "LF", "FS"} # {}
        THEN <<"Q">> \o doubled \o <<"Q">> ELSE cell

WriteCells(fs, a, b, force) ==
    IF fs THEN Sanitised(WireCell(a), {"FS", "LF"}) \o <<"FS">> \o Sanitised(WireCell(b), {"FS", "LF"})
               \o <<"CR">>
    ELSE CsvCell(a, force) \o <<",">> \o CsvCell(b, FALSE) \o <<"CR">>

\* A Form 99's text goes into a block, and what a column cannot carry.
Hoisted(fs, r) ==
    /\ fs /\ r.token \in WithText /\ r.value # << >>
    /\ r.token = <<"F99">> \/ Range(r.value) \cap {"LF", "FS"} # {}

WriteRecordWithText(fs, r) ==
    IF ~Hoisted(fs, r) THEN <<WriteCells(fs, r.token, r.value, FALSE)>>
    ELSE LET text == Split(r.value, "LF")
         IN  <<WriteCells(fs, r.token, << >>, FALSE), <<"[BEGINTEXT]", "CR">>>>
             \o [n \in DOMAIN text |-> Append(WithoutCr(text[n]), "CR")]
             \o <<<<"[ENDTEXT]", "CR">>>>

HidesMarker(s) == s # << >> /\ s[1] \in {"/*", "feff"}

Render(f, force) ==
    LET fs == UsesFs(f)
    IN  <<WriteCells(fs, f.header.token, f.header.value, force \/ HidesMarker(f.header.token))>>
        \o WriteRecordWithText(fs, f.cover) \o FlattenSeq([n \in DOMAIN f.lines |-> WriteRecordWithText(fs, f.lines[n])])

\* A byte-order mark that only the encoding puts in front is hidden in quotes.
ToFec(f) ==
    LET bytes == Encode(Render(f, FALSE))
    IN  IF bytes[1][1] = "BOM" /\ ~UsesFs(f) THEN Encode(Render(f, TRUE)) ELSE bytes
-----------------------------------------------------------------------------
WriterInit == filing = NotParsed /\ sets = 0

OpenWire ==
    /\ filing = NotParsed
    /\ \E w \in Wires : ParseBytes(w) # NotParsed /\ filing' = ParseBytes(w)
    /\ UNCHANGED sets

\* ParsedLine::set, of the cover or a line.
SetValue ==
    /\ filing # NotParsed /\ sets < MaxSets
    /\ \E v \in SetValues :
        \/ filing' = [filing EXCEPT !.cover.value = NormalizeField(v)]
        \/ \E n \in DOMAIN filing.lines :
               filing' = [filing EXCEPT !.lines[n].value = NormalizeField(v)]
    /\ sets' = sets + 1

WriterNext == OpenWire \/ SetValue

WriterSpec == WriterInit /\ [][WriterNext]_writerVars
-----------------------------------------------------------------------------
RecordsOfFiling(f) == <<f.cover>> \o f.lines

\* What a block cannot carry: its own end, or a pair of quotes around it all.
CarriedByBlock(r) ==
    /\ ~Wrapped(r.value)
    /\ LET text == Split(r.value, "LF") IN \A n \in DOMAIN text : Trim(text[n]) # <<"[ENDTEXT]">>

\* What comes back of a value: the lines of a block lose CRs at their ends; in
\* a column what cannot be filed is a space, which at an end is trimmed.
Kept(f, r) ==
    LET text  == Split(r.value, "LF")
        filed == Sanitised(r.value, IF UsesFs(f) THEN {"FS", "LF"} ELSE {"LF"})
    IN  [r EXCEPT !.value =
            IF Hoisted(UsesFs(f), r) THEN Joined([n \in DOMAIN text |-> WithoutCr(text[n])])
            ELSE IF Wrapped(r.value) THEN filed ELSE NormalizeField(filed)]

(* A file that was read and not edited parses, when written, to exactly the *)
(* filing that was written: the same header, the same records in order and  *)
(* every value, in either format and either encoding                        *)
(* ("parse(to_fec(parse(f))) yields the same header, cover line, and body   *)
(* lines", writer.rs). Once values were set, the same records come back,    *)
(* with every value that a file can carry: a line feed or delimiter in a    *)
(* column is a space, one at an end nothing, and a CR at the end of a       *)
(* block's line is lost; no other value is disturbed. Left out are texts    *)
(* that a block cannot carry, and files whose delimiter is not that of      *)
(* their version.                                                           *)
WrittenReadsTheSame ==
    filing # NotParsed /\ (\A r \in Range(RecordsOfFiling(filing)) :
                              Hoisted(UsesFs(filing), r) => CarriedByBlock(r))
    => LET again == ParseBytes(ToFec(filing))
       IN  /\ sets = 0 => again = filing
           /\ again = [filing EXCEPT !.cover = Kept(filing, @),
                                     !.lines = [n \in DOMAIN @ |-> Kept(filing, @[n])]]
=============================================================================
