---------------------------- MODULE FilingStream ----------------------------
(***************************************************************************)
(* The streaming reader (parser::stream::FilingReader): the header, cover  *)
(* line and the cover's text blocks read by the constructor, then one      *)
(* record a call, each held back until the next line shows that no text    *)
(* block follows it.  What it gives is compared with the in-memory parser. *)
(***************************************************************************)
EXTENDS FilingParse

CONSTANTS Readings,     \* what is read, and how
          MaxCalls      \* bound: calls of next() after the end

(* The filing, the options, the tables of filter_tables, and the line whose *)
(* read fails (0: none does).                                               *)
ASSUME ReadingsAssumption ==
    \A r \in Readings :
        /\ r.file \in Seq(Lines) /\ r.options \in OptionSets
        /\ r.filter \subseteq Records /\ r.ioAt \in 0..Len(r.file)
ASSUME CallsAssumption == MaxCalls \in Nat

VARIABLES
    file, options, filter, ioAt,
    lineNo,      \* physical lines read
    held,        \* the first body line, pushed back; 0: none
    at,          \* "new", "hold", "body" or "broken" (the constructor failed)
    cover,       \* the cover's line and text
    lookahead, deferred, done,
    skipped, first,
    yielded,     \* what next() has returned
    calls,       \* calls after the end
    parsed       \* what the in-memory parser makes of the file

streamVars == <<file, options, filter, ioAt, lineNo, held, at, cover, lookahead, deferred,
                done, skipped, first, yielded, calls, parsed>>
source     == <<file, options, filter, ioAt, parsed>>

Cover     == [is |-> "cover"]
Discarded == [is |-> "discarded"]
Holding(record) == [is |-> "record", record |-> record]

StreamInit ==
    /\ \E r \in Readings :
         file = r.file /\ options = r.options /\ filter = r.filter /\ ioAt = r.ioAt
    /\ parsed = ParseWith(file, options)
    /\ lineNo = 0 /\ held = 0 /\ at = "new"
    /\ cover = [no |-> 0, text |-> NoText]
    /\ lookahead = Cover /\ deferred = NoError /\ done = FALSE
    /\ skipped = << >> /\ first = NoError
    /\ yielded = << >> /\ calls = 0

-----------------------------------------------------------------------------
(* next_line from line n on: the line, 0 at the end, -1 if the read fails. *)
Line(n) == IF n = ioAt THEN -1 ELSE IF n > Len(file) THEN 0 ELSE n

(* next_non_blank_line. *)
NonBlank(n) ==
    LET some == {m \in n..Len(file) : file[m] # "blank" \/ m = ioAt}
    IN  IF some = {} THEN 0 ELSE Line(CHOOSE m \in some : \A k \in some : m <= k)

(* read_text_block after its [BEGINTEXT]: its end, 0 or -1. *)
BlockEnd(n) ==
    LET some == {m \in n + 1..Len(file) : file[m] = "end" \/ m = ioAt}
    IN  IF some = {} THEN 0 ELSE Line(CHOOSE m \in some : \A k \in some : m <= k)

ReadError(n, missing) == IF n = -1 THEN Broken("io", ioAt) ELSE missing

(* The header and cover line of with_options. *)
OpenError(h, c) ==
    IF h <= 0 THEN ReadError(h, Broken("missing", 0))
    ELSE IF file[1] = "old" THEN Broken("deprecated", 0)
    ELSE IF c <= 0 THEN ReadError(c, Broken("missing", 0))
    ELSE IF HeaderOf(file[h]) # NoError THEN HeaderOf(file[h])
    ELSE CoverOf(file[c], c)

New ==
    LET first1 == Line(1)
        h == IF first1 <= 0 \/ Delimited(file) THEN first1 ELSE NonBlank(1)
        c == IF h <= 0 THEN h ELSE IF Delimited(file) THEN Line(h + 1) ELSE NonBlank(h + 1)
        err == OpenError(h, c)
    IN  /\ at = "new"
        /\ IF err # NoError
           THEN at' = "broken" /\ first' = err /\ UNCHANGED <<lineNo, cover>>
           ELSE /\ at' = IF Delimited(file) THEN "hold" ELSE "body"
                /\ lineNo' = c /\ cover' = [cover EXCEPT !.no = c]
                /\ UNCHANGED first
        /\ UNCHANGED <<source, held, lookahead, deferred, done, skipped, yielded, calls>>

Break(err) == at' = "broken" /\ first' = err

(* hold_first_body_line, one line or text block of it. *)
HoldFirst ==
    LET n == Line(lineNo + 1)
        e == BlockEnd(n)
    IN  /\ at = "hold"
        /\ IF n = -1 THEN Break(Broken("io", ioAt)) /\ UNCHANGED <<lineNo, held, cover, done>>
           ELSE IF n = 0
           THEN at' = "body" /\ done' = TRUE /\ UNCHANGED <<lineNo, held, cover, first>>
           ELSE IF file[n] = "blank" THEN lineNo' = n /\ UNCHANGED <<at, held, cover, done, first>>
           ELSE IF file[n] # "begin"
           THEN at' = "body" /\ lineNo' = n /\ held' = n /\ UNCHANGED <<cover, done, first>>
           ELSE IF e <= 0
           THEN /\ Break(ReadError(e, Broken("unterminated", n)))
                /\ UNCHANGED <<lineNo, held, cover, done>>
           ELSE /\ lineNo' = e
                /\ cover' = [cover EXCEPT !.text = Spliced(file[cover.no], @, n)]
                /\ UNCHANGED <<at, held, done, first>>
        /\ UNCHANGED <<source, lookahead, deferred, skipped, yielded, calls>>

-----------------------------------------------------------------------------
Yield(item) == yielded' = Append(yielded, item)
Record(r)   == [is |-> "record", record |-> r]
Error(err)  == [is |-> "error", error |-> err]
Nothing     == [is |-> "none"]

(* Mutant of Fail: the error is returned, what was held back is lost. *)
FailNow(err) ==
    /\ done' = TRUE /\ lookahead' = Discarded
    /\ Yield(Error(err)) /\ UNCHANGED deferred

(* Body::fail. *)
Fail(err) ==
    /\ done' = TRUE /\ lookahead' = Discarded
    /\ IF lookahead.is = "record"
       THEN deferred' = err /\ Yield(lookahead)
       ELSE Yield(Error(err)) /\ UNCHANGED deferred

(* Body::finish. *)
Finish ==
    /\ done' = TRUE /\ lookahead' = Discarded
    /\ Yield(IF lookahead.is = "record" THEN lookahead ELSE Nothing)
    /\ UNCHANGED deferred

(* Body::advance: what was held is returned, the new record is held. *)
Advance(n) ==
    /\ lookahead' = IF file[n] \in filter THEN Holding([no |-> n, text |-> NoText]) ELSE Discarded
    /\ IF lookahead.is = "record" THEN Yield(lookahead) ELSE UNCHANGED yielded
    /\ UNCHANGED <<deferred, done>>

(* Body::skip_or_fail. *)
StreamSkipOrFail(policy, reason, n) ==
    IF policy = "fail" THEN Fail(Broken(reason, n)) /\ UNCHANGED <<skipped, first>>
    ELSE /\ skipped' = Append(skipped, Broken(reason, n))
         /\ first' = IF first = NoError THEN Broken(reason, n) ELSE first
         /\ UNCHANGED <<lookahead, deferred, done, yielded>>

(* Body::accept. *)
Accept(n) ==
    \/ file[n] = "empty" /\ UNCHANGED <<lookahead, deferred, done, skipped, first, yielded>>
    \/ file[n] \in Records /\ Advance(n) /\ UNCHANGED <<skipped, first>>
    \/ file[n] = "nolayout" /\ StreamSkipOrFail(options.missing, "nolayout", n)
    \/ /\ file[n] \notin Records \cup {"empty", "nolayout"}
       /\ StreamSkipOrFail(options.unknown, "unknown", n)

(* Body::attach_text. *)
AttachText(block) ==
    IF lookahead.is = "record"
    THEN lookahead' = Holding([lookahead.record EXCEPT
                                 !.text = Spliced(file[lookahead.record.no], @, block)])
         /\ UNCHANGED cover
    ELSE /\ cover' = IF lookahead = Cover
                     THEN [cover EXCEPT !.text = Spliced(file[cover.no], @, block)] ELSE cover
         /\ UNCHANGED lookahead

(* A loop iteration of next_delimited. *)
NextDelimited ==
    LET n == IF held # 0 THEN held ELSE Line(lineNo + 1)
        e == BlockEnd(n)
        took == lineNo' = (IF n > lineNo THEN n ELSE lineNo) /\ held' = 0
        same == UNCHANGED <<skipped, first>>
    IN  /\ at = "body" /\ Delimited(file) /\ ~done
        /\ \/ n = 0 /\ Finish /\ same /\ UNCHANGED <<lineNo, held, cover>>
           \/ n = -1 /\ Fail(Broken("io", ioAt)) /\ same /\ UNCHANGED <<lineNo, held, cover>>
           \/ n > 0 /\ file[n] = "blank" /\ took /\ same
              /\ UNCHANGED <<cover, lookahead, deferred, done, yielded>>
           \/ /\ n > 0 /\ file[n] = "begin" /\ held' = 0
              /\ IF e <= 0
                 THEN /\ Fail(ReadError(e, Broken("unterminated", n)))
                      /\ lineNo' = n /\ UNCHANGED cover
                 ELSE /\ AttachText(n)
                      /\ lineNo' = e /\ UNCHANGED <<deferred, done, yielded>>
              /\ same
           \/ n > 0 /\ file[n] \notin {"blank", "begin"} /\ took /\ Accept(n) /\ UNCHANGED cover
        /\ UNCHANGED <<source, at, calls>>

(* A loop iteration of next_csv. *)
NextCsv ==
    LET n == NonBlank(lineNo + 1)
        same == UNCHANGED <<lineNo, skipped, first>>
    IN  /\ at = "body" /\ ~Delimited(file) /\ ~done
        /\ \/ n = 0 /\ Finish /\ same
           \/ n = -1 /\ Fail(Broken("io", ioAt)) /\ same
           \/ n > 0 /\ lineNo' = n /\ Accept(n)
        /\ UNCHANGED <<source, at, cover, held, calls>>

(* next() once the reader is done: the deferred error, then nothing. *)
NextDone ==
    /\ at = "body" /\ done /\ calls < MaxCalls
    /\ calls' = calls + 1
    /\ Yield(IF deferred # NoError THEN Error(deferred) ELSE Nothing)
    /\ deferred' = NoError
    /\ UNCHANGED <<source, lineNo, held, at, cover, lookahead, done, skipped, first>>

StreamNext == New \/ HoldFirst \/ NextDelimited \/ NextCsv \/ NextDone

StreamSpec == StreamInit /\ [][StreamNext]_streamVars

-----------------------------------------------------------------------------
Given(is)   == SelectSeq(yielded, LAMBDA y : y.is = is)
Wanted      == SelectSeq(parsed.lines, LAMBDA l : file[l.no] \in filter)

(* The records of the calls so far are the next ones of those the in-memory *)
(* parser gives, each with its text block, whatever comes after. Only the  *)
(* record that a failing read sets free may lack its block.                *)
RecordsAreParsed ==
    \A i \in DOMAIN yielded : yielded[i].is = "record" =>
        /\ i <= Len(Wanted)
        /\ \/ yielded[i].record = Wanted[i]
           \/ yielded[i].record.no = Wanted[i].no /\ done /\ ioAt # 0 /\ i = Len(Given("record"))

ReadToTheEnd == at = "broken" \/ (done /\ calls >= 2)

(* Every record a call has returned is final, and a reader that has been   *)
(* read to its end has given every record, the same error and skipped      *)
(* lines, and the same cover, as parsing in memory; then it gives nothing, *)
(* for ever.                                                               *)
StreamIsParse ==
    /\ RecordsAreParsed
    /\ ReadToTheEnd /\ ioAt = 0 =>
        /\ at = "broken" => first = parsed.err
        /\ at = "body" =>
              /\ Len(Given("record")) = Len(Wanted)
              /\ cover.text = parsed.coverText /\ cover.no = parsed.cover
              /\ skipped = parsed.skipped /\ first = parsed.first
              /\ IF parsed.err = NoError THEN Given("error") = << >>
                 ELSE Given("error") = <<Error(parsed.err)>>
              /\ yielded[Len(yielded)] = Nothing
=============================================================================
