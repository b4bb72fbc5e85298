---------------------------- MODULE FilingParse ----------------------------
(***************************************************************************)
(* The in-memory parser (parser::filing): the header and cover line, the   *)
(* body lines in order, [BEGINTEXT] blocks spliced into the record they    *)
(* follow, and the lines that are skipped or end the parse.                *)
(*                                                                         *)
(* A line is what the parser can tell of it: "28" marks a line with the    *)
(* ASCII-28 delimiter where that decides how the file is read.             *)
(***************************************************************************)
EXTENDS Integers, Sequences, SequencesExt

Records == {"plain", "text"}        \* dispatched; its layout has a text field or not
Lines   == Records \cup {"hdr28", "hdr", "bad28", "bad", "old", "blank", "empty", "begin",
                         "end", "unknown", "nolayout"}

Policies == {"fail", "skip"}
OptionSets == [unknown : Policies, missing : Policies]

NoError == << >>
NoText  == 0       \* else the number of the [BEGINTEXT] line
Broken(error, n) == <<error, n>>

(* Header::from_fields: a 3.x to 8.x version, whatever the first token is. *)
HeaderOf(kind) == IF kind \in {"hdr28", "hdr"} THEN NoError ELSE Broken("version", 0)

(* The cover line: a token, a table for it, a layout for the version. *)
CoverOf(kind, n) ==
    CASE kind \in {"blank", "empty"} -> Broken("missing", 0)
      [] kind \in Records            -> NoError
      [] kind = "nolayout"           -> Broken("nolayout", n)
      [] OTHER                       -> Broken("unknown", n)

Delimited(file) == file # << >> /\ file[1] \in {"hdr28", "bad28"}

(* The lines parse_new_delimited and parse_old_delimited read at all. *)
Read(file) ==
    IF Delimited(file) THEN [n \in DOMAIN file |-> n]
    ELSE SelectSeq([n \in DOMAIN file |-> n], LAMBDA n : file[n] # "blank")

Parsed == [err |-> NoError, cover |-> 0, coverText |-> NoText, lines |-> << >>,
           skipped |-> << >>, first |-> NoError, open |-> NoText]

(* parse_with up to the body. *)
Preamble(file) ==
    LET at == Read(file) IN
    IF file # << >> /\ file[1] = "old" THEN [Parsed EXCEPT !.err = Broken("deprecated", 0)]
    ELSE IF Len(at) < 2 THEN [Parsed EXCEPT !.err = Broken("missing", 0)]
    ELSE LET header == HeaderOf(file[at[1]])
             cover  == CoverOf(file[at[2]], at[2])
         IN  [Parsed EXCEPT !.err = IF header # NoError THEN header ELSE cover, !.cover = at[2]]

(* A record without a text field drops the block. *)
Spliced(kind, old, block) == IF kind = "text" THEN block ELSE old

(* attach_free_text. *)
AttachFreeText(file, acc, block) ==
    IF acc.lines = << >>
    THEN [acc EXCEPT !.coverText = Spliced(file[acc.cover], @, block), !.open = NoText]
    ELSE [acc EXCEPT !.lines[Len(acc.lines)].text =
                         Spliced(file[acc.lines[Len(acc.lines)].no], @, block),
                     !.open = NoText]

(* skip_or_fail. *)
SkipOrFail(policy, acc, reason, n) ==
    IF policy = "fail" THEN [acc EXCEPT !.err = Broken(reason, n)]
    ELSE [acc EXCEPT !.skipped = Append(@, Broken(reason, n)),
                     !.first = IF @ = NoError THEN Broken(reason, n) ELSE @]

(* push_body_line. *)
PushBodyLine(options, acc, kind, n) ==
    CASE kind = "empty"    -> acc
      [] kind \in Records  -> [acc EXCEPT !.lines = Append(@, [no |-> n, text |-> NoText])]
      [] kind = "nolayout" -> SkipOrFail(options.missing, acc, "nolayout", n)
      [] OTHER             -> SkipOrFail(options.unknown, acc, "unknown", n)

(* One line of the loop; pre-6.0 filings have no text blocks. *)
BodyLine(file, options, acc, n) ==
    CASE acc.err # NoError -> acc
      [] acc.open # NoText ->
           IF file[n] = "end" THEN AttachFreeText(file, acc, acc.open) ELSE acc
      [] file[n] = "blank" -> acc
      [] file[n] = "begin" /\ Delimited(file) -> [acc EXCEPT !.open = n]
      [] OTHER             -> PushBodyLine(options, acc, file[n], n)

(* Filing::parse_with, as it stands when it returns. *)
ParseWith(file, options) ==
    LET acc == FoldLeft(LAMBDA a, n : BodyLine(file, options, a, n), Preamble(file),
                        SubSeq(Read(file), 3, Len(Read(file))))
    IN  IF acc.err = NoError /\ acc.open # NoText
        THEN [acc EXCEPT !.err = Broken("unterminated", acc.open)] ELSE acc

(* Lenient::into_strict. *)
IntoStrict(parsed) ==
    IF parsed.err # NoError THEN parsed.err
    ELSE IF parsed.skipped # << >> THEN parsed.first ELSE NoError
=============================================================================
