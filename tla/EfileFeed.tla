------------------------------ MODULE EfileFeed ------------------------------
(***************************************************************************)
(* The e-filing feed (fec::efile): the RSS document the FEC serves, and    *)
(* the tolerant extractor that reads filings out of it.  A document is a   *)
(* sequence of symbols: a tag, an "&", the rest of an entity, a digit or a *)
(* word.  The whole of it may come, or only the beginning.                 *)
(***************************************************************************)
EXTENDS Integers, Sequences, SequencesExt

CONSTANTS
    FeedEntries,  \* filings the feed may list, and how it writes each
    Digits,
    NotGiven,
    MaxListed     \* bound: entries of the document

VARIABLES
    listed,       \* the entries of the document, newest first
    served        \* how many symbols of it arrive

feedVars == <<listed, served>>

Entity == [amp |-> "&", quot |-> "'"]
References == {"amp;", "quot;"}
Referred(s) == IF s = "amp;" THEN Entity.amp ELSE Entity.quot
Escape(s) == FlattenSeq([i \in DOMAIN s |->
                IF s[i] = "&" THEN <<"&", "amp;">> ELSE IF s[i] = "'" THEN <<"&", "quot;">> ELSE <<s[i]>>])

Tagged(tag, text) == <<"<" \o tag \o ">">> \o text \o <<"</" \o tag \o ">">>
CData(text)       == <<"<![CDATA[">> \o text \o <<"]]>">>
-----------------------------------------------------------------------------
(* What the FEC writes of a filing; any part of it may be missing. *)
Prose(e) == <<"The">> \o e.name \o <<"successfully filed", "their", e.form, "and no more">>
Trailer(e) ==
    <<"CommitteeId:", e.committee, "|", "FilingId:">> \o e.id
        \o <<"|", "FormType:", e.form, "|", "ReportType:", "***">>
Link(e) == <<"docquery/", "posted/">> \o e.id \o <<".fec">>
ItemOf(e) ==
    Tagged("item",
        Tagged("title", LET name == <<"New filing by">> \o e.name
                        IN  IF e.cdata THEN CData(Escape(name)) ELSE Escape(Escape(name)))
        \o (IF "link" \in e.has THEN Tagged("link", Link(e)) ELSE Tagged("link", << >>))
        \o Tagged("description", Escape(Prose(e)) \o (IF "trailer" \in e.has THEN Trailer(e) ELSE << >>))
        \o (IF "pubDate" \in e.has THEN Tagged("pubDate", <<e.at>>) ELSE << >>)
        \o Tagged("dc:date", <<e.at>>))
Document == <<"<rss>">> \o Tagged("title", <<"FEC">>) \o FlattenSeq([i \in DOMAIN listed |-> ItemOf(listed[i])])
                \o <<"</rss>">>
-----------------------------------------------------------------------------
(* Where a symbol comes first; past the end when it does not. *)
Place(s, symbol) ==
    IF Contains(s, symbol) THEN SelectInSeq(s, LAMBDA x : x = symbol) ELSE Len(s) + 1
From(s, i) == SubSeq(s, i, Len(s))

DecodeEntities(s) ==
    LET Decoded[i \in 1..Len(s) + 1] ==
            IF i > Len(s) THEN << >>
            ELSE IF s[i] = "&" /\ i < Len(s) /\ s[i + 1] \in References
                 THEN <<Referred(s[i + 1])>> \o Decoded[i + 2]
            ELSE <<s[i]>> \o Decoded[i + 1]
    IN  Decoded[1]

(* CDATA is taken as it is, to its end or to the end of the text. *)
XmlUnescape(s) ==
    LET Plain[i \in 1..Len(s) + 1] ==
            LET start == Place(From(s, i), "<![CDATA[") + i - 1
                end   == Place(From(s, start + 1), "]]>") + start
            IN  IF start > Len(s) THEN DecodeEntities(From(s, i))
                ELSE DecodeEntities(SubSeq(s, i, start - 1)) \o SubSeq(s, start + 1, end - 1)
                     \o (IF end >= Len(s) THEN << >> ELSE Plain[end + 1])
    IN  Plain[1]

(* The text of the first such element, to the end when it is not closed. *)
ElementText(s, tag) ==
    LET start == Place(s, "<" \o tag \o ">")
        body  == From(s, start + 1)
    IN  IF start > Len(s) THEN << >> ELSE XmlUnescape(SubSeq(body, 1, Place(body, "</" \o tag \o ">") - 1))

SplitAt(s, symbol) ==
    LET Parts[i \in 1..Len(s) + 1] ==
            LET end == Place(From(s, i), symbol) + i - 1
            IN  <<SubSeq(s, i, end - 1)>> \o (IF end > Len(s) THEN << >> ELSE Parts[end + 1])
    IN  Parts[1]

(* trailer_fields: what follows this key, nothing when the key is not there. *)
TrailerField(description, key) ==
    LET keyed == IF Contains(description, "CommitteeId:") THEN "CommitteeId:" ELSE "FilingId:"
        parts == SplitAt(From(description, Place(description, keyed)), "|")
        found == SelectSeq(parts, LAMBDA p : p # << >> /\ p[1] = key)
    IN  IF ~Contains(description, keyed) \/ found = << >> THEN << >>
        ELSE SelectSeq(Tail(found[Len(found)]), LAMBDA x : x # "***")

Number(s) == IF s # << >> /\ Range(s) \subseteq Digits THEN s ELSE NotGiven

(* Mutant of FilingIdOf: the trailer alone is asked. *)
IdOfTrailer(description, link) == Number(TrailerField(description, "FilingId:"))

FilingIdOf(description, link) ==
    LET inTrailer == Number(TrailerField(description, "FilingId:"))
        lastPart  == FoldLeft(LAMBDA part, x : IF x \in {"docquery/", "posted/"} THEN << >> ELSE Append(part, x),
                              << >>, link)
    IN  IF inTrailer # NotGiven THEN inTrailer
        ELSE Number(IF lastPart # << >> /\ Last(lastPart) = ".fec" THEN Front(lastPart) ELSE lastPart)

FormTypeOf(description, forms) ==
    LET inTrailer == TrailerField(description, "FormType:")
        after     == From(description, Place(description, "their") + 1)
    IN  IF inTrailer # << >> THEN inTrailer[1]
        ELSE IF after # << >> /\ after[1] \in forms THEN after[1] ELSE NotGiven

FormTypes == {e.form : e \in FeedEntries}

(* What the elements of an entry say, once its number is found. *)
ItemFrom(id, text) ==
    <<[id |-> id, form |-> FormTypeOf(text.description, FormTypes),
       committee |-> TrailerField(text.description, "CommitteeId:"),
       name |-> DecodeEntities(IF text.title # << >> /\ text.title[1] = "New filing by"
                               THEN Tail(text.title) ELSE text.title),
       at |-> IF text.dates = << >> THEN NotGiven ELSE text.dates[1],
       url |-> <<"store/", "posted/">> \o
                 (IF text.link = << >> THEN id \o <<".fec">>
                  ELSE SelectSeq(text.link, LAMBDA x : x \notin {"docquery/", "posted/"}))]>>
Numbered(id, text) == IF id = NotGiven THEN << >> ELSE ItemFrom(id, text)
Identified(text)   == Numbered(FilingIdOf(text.description, text.link), text)
ParseItem(s) ==
    Identified([link |-> ElementText(s, "link"), description |-> ElementText(s, "description"),
                title |-> ElementText(s, "title"),
                dates |-> ElementText(s, "pubDate") \o ElementText(s, "dc:date")])

(* parse_feed_with; what is no feed at all is an error. *)
ParseFeed(s) ==
    LET Items[i \in 1..Len(s) + 1] ==
            LET start == Place(From(s, i), "<item>") + i - 1
                end   == Place(From(s, start + 1), "</item>") + start
            IN  IF start > Len(s) THEN << >>
                ELSE ParseItem(SubSeq(s, start + 1, end - 1))
                     \o (IF end >= Len(s) THEN << >> ELSE Items[end + 1])
    IN  IF Contains(s, "<rss>") THEN Items[1] ELSE <<"not a feed">>

FeedInit == listed = << >> /\ served = Len(Document)

(* The FEC puts a filing at the top of the feed. *)
List(e) ==
    /\ Len(listed) < MaxListed
    /\ listed' = <<e>> \o listed
    /\ served' = Len(Document')

(* The answer ends early, where no length was announced. *)
CutOff ==
    /\ served = Len(Document)
    /\ \E n \in 1..served - 1 : served' = n
    /\ UNCHANGED listed

FeedNext == (\E e \in FeedEntries : List(e)) \/ CutOff

-----------------------------------------------------------------------------
(* The filings with a number somewhere are read as they were listed, in    *)
(* order, each with what was written of it and nothing of its neighbours;  *)
(* of a document cut off, all that came before the entry it was cut in.    *)
IsReadable(e) == e.has \cap {"link", "trailer"} # {}
Written(e) ==
    [id |-> e.id, form |-> e.form, committee |-> IF "trailer" \in e.has THEN <<e.committee>> ELSE << >>,
     name |-> e.name, at |-> e.at, url |-> <<"store/", "posted/">> \o e.id \o <<".fec">>]

(* The prose names the form only if the committee's name has no "their". *)
Misnamed(e) == "trailer" \notin e.has /\ Contains(e.name, "their")
Same(item, w, e) == item = w \/ (Misnamed(e) /\ [item EXCEPT !.form = w.form] = w)

ReadAs(items, readable, atMost) ==
    /\ Len(readable) <= Len(items) /\ Len(items) <= atMost
    /\ \A i \in DOMAIN readable : Same(items[i], Written(readable[i]), readable[i])

AsListed(arrived, whole) ==
    LET readable == SelectSeq(SubSeq(listed, 1, whole), IsReadable)
    IN  ReadAs(ParseFeed(arrived), readable, Len(readable) + (IF whole < Len(listed) THEN 1 ELSE 0))

FeedReadsBack ==
    served > 0 =>
        LET arrived == SubSeq(Document, 1, served)
        IN  AsListed(arrived, Len(SelectSeq(arrived, LAMBDA x : x = "</item>")))
=============================================================================
