----------------------------- MODULE EfileWatch -----------------------------
(***************************************************************************)
(* `hardmoney efile watch` (cli::efile::watch): processes that follow the  *)
(* e-filing feed, and the list of seen ids they keep in efile-seen.txt     *)
(* (fec::cache).  What an action does to a filing (save, validate, ingest, *)
(* run a program) is one step that succeeds or fails.                      *)
(*                                                                         *)
(* The feed is external to the code: items appear, and leave after a week. *)
(***************************************************************************)
EXTENDS Integers

CONSTANTS Watchers,     \* processes
          Ids,          \* filing ids, in the order the FEC assigns them
          Modes,        \* how a watcher may be started
          Filters,      \* the ids a --form-type or --committee may select
          MaxStarts,    \* bound: processes started
          MaxStops      \* bound: processes interrupted, lists cleared

ASSUME IdsAssumption == Ids \subseteq Nat \ {0}
ASSUME ModesAssumption == Modes \subseteq {"watch", "once", "mark"}
ASSUME FiltersAssumption == Filters \subseteq SUBSET Ids
ASSUME BoundsAssumption == MaxStarts \in Nat /\ MaxStops \in Nat

VARIABLES
    feed,       \* the items of the RSS feed
    expired,    \* items that have left it
    lines,      \* the ids on the finished lines of efile-seen.txt
    tail,       \* its last line without a newline: None, Part or a whole id
    pc,         \* what each watcher does next
    mode,       \* --once, --mark-seen or neither
    wanted,     \* the ids its filters select
    seen,       \* its `seen`: read once, when it starts
    new,        \* the unseen items of its last poll
    todo,       \* those it has still to act on
    starts, stops,
    acted,      \* the ids each watcher has acted on, over all its runs (history)
    passed      \* ids recorded without being acted on (history)

world == <<feed, expired>>
list  == <<lines, tail>>
own   == <<mode, wanted, seen, new, todo>>
past  == <<acted, passed>>
vars  == <<world, list, pc, own, starts, stops, past>>

None == 0       \* the file ends in a newline
Part == -1      \* some digits of an id (as a number, no id of this feed)

Init ==
    /\ feed = {} /\ expired = {}
    /\ lines = {} /\ tail = None
    /\ pc = [w \in Watchers |-> "off"]
    /\ mode = [w \in Watchers |-> "watch"]
    /\ wanted = [w \in Watchers |-> {}]
    /\ seen = [w \in Watchers |-> {}]
    /\ new = [w \in Watchers |-> {}]
    /\ todo = [w \in Watchers |-> {}]
    /\ starts = 0 /\ stops = 0
    /\ acted = [w \in Watchers |-> {}] /\ passed = {}

Oldest(S) == CHOOSE i \in S : \A j \in S : i <= j

(* read_seen. *)
Listed == lines \cup ({tail} \cap Ids)

GoTo(w, label) == pc' = [pc EXCEPT ![w] = label]

-----------------------------------------------------------------------------
Publish(i) ==
    /\ i \in Ids \ (feed \cup expired)
    /\ feed' = feed \cup {i}
    /\ UNCHANGED <<expired, list, pc, own, starts, stops, past>>

Expire(i) ==
    /\ i \in feed
    /\ feed' = feed \ {i}
    /\ expired' = expired \cup {i}
    /\ UNCHANGED <<list, pc, own, starts, stops, past>>

-----------------------------------------------------------------------------
(* The seen list is read before the loop. *)
Start(w, m, filter) ==
    /\ pc[w] = "off"
    /\ starts < MaxStarts
    /\ starts' = starts + 1
    /\ mode' = [mode EXCEPT ![w] = m]
    /\ wanted' = [wanted EXCEPT ![w] = filter]
    /\ seen' = [seen EXCEPT ![w] = Listed]
    /\ GoTo(w, "poll")
    /\ UNCHANGED <<world, list, new, todo, stops, past>>

(* Mutant of PollFails: a failed poll ends every watch. *)
PollFailsForGood(w) ==
    /\ pc[w] = "poll"
    /\ GoTo(w, "off")
    /\ UNCHANGED <<world, list, own, starts, stops, past>>

(* A failed poll: a watch sleeps and polls again, the others return it. *)
PollFails(w) ==
    /\ pc[w] = "poll"
    /\ GoTo(w, IF mode[w] = "watch" THEN "sleep" ELSE "off")
    /\ UNCHANGED <<world, list, own, starts, stops, past>>

(* Mutant of Poll: the ids are recorded before they are acted on. *)
PollAndRecord(w) ==
    /\ pc[w] = "poll"
    /\ new' = [new EXCEPT ![w] = feed \ seen[w]]
    /\ todo' = [todo EXCEPT ![w] = (feed \ seen[w]) \cap wanted[w]]
    /\ lines' = lines \cup (feed \ seen[w])
    /\ GoTo(w, "act")
    /\ UNCHANGED <<world, tail, mode, wanted, seen, starts, stops, past>>

(* The items not seen before; the filters choose which of them to act on    *)
(* (--mark-seen acts on none).                                              *)
Poll(w) ==
    LET fresh == feed \ seen[w] IN
    /\ pc[w] = "poll"
    /\ new' = [new EXCEPT ![w] = fresh]
    /\ todo' = [todo EXCEPT ![w] = IF mode[w] = "mark" THEN {} ELSE fresh \cap wanted[w]]
    /\ GoTo(w, "act")
    /\ UNCHANGED <<world, list, mode, wanted, seen, starts, stops, past>>

(* fetch_and_apply on the oldest item; if it fails that is only counted.    *)
Act(w) ==
    /\ pc[w] = "act" /\ todo[w] # {}
    /\ todo' = [todo EXCEPT ![w] = @ \ {Oldest(@)}]
    /\ acted' = [acted EXCEPT ![w] = @ \cup {Oldest(todo[w])}]
    /\ UNCHANGED <<world, list, pc, mode, wanted, seen, new, starts, stops, passed>>

(* append_seen. The first id joins an unfinished line, and what is on that *)
(* line then is neither.                                                    *)
AppendSeen(ids) ==
    IF tail = None \/ ids = {}
    THEN lines' = lines \cup ids /\ tail' = tail
    ELSE \E first \in ids : lines' = lines \cup (ids \ {first}) /\ tail' = None

(* append_seen cut short: the first id may have joined the unfinished line, *)
(* and some of the rest are written, the last perhaps without its newline.  *)
AppendCutShort(ids) ==
    \/ UNCHANGED list
    \/ tail # None /\ ids # {} /\ tail' = Part /\ lines' = lines
    \/ \E rest \in (IF tail = None THEN {ids} ELSE {ids \ {i} : i \in ids}) :
          \E some \in SUBSET rest : \E open \in {None, Part} \cup some :
              lines' = lines \cup (some \ {open}) /\ tail' = open

(* The new items that are recorded without being acted on. *)
PassedOver(w) == IF mode[w] = "mark" THEN new[w] ELSE new[w] \ wanted[w]

(* Mutant of Remembered: the ids go to the file and not to `seen`. *)
RememberedInFileOnly(w) == seen[w]

(* What the watcher knows when it goes round its loop again. *)
Remembered(w) == seen[w] \cup new[w]

(* Every new id is recorded, those the filters left out too; --once and     *)
(* --mark-seen end here.                                                    *)
Record(w) ==
    /\ pc[w] = "act" /\ todo[w] = {}
    /\ AppendSeen(new[w])
    /\ passed' = passed \cup PassedOver(w)
    /\ seen' = [seen EXCEPT ![w] = Remembered(w)]
    /\ new' = [new EXCEPT ![w] = {}]
    /\ GoTo(w, IF mode[w] = "watch" THEN "sleep" ELSE "off")
    /\ UNCHANGED <<world, mode, wanted, todo, starts, stops, acted>>

Wake(w) ==
    /\ pc[w] = "sleep"
    /\ GoTo(w, "poll")
    /\ UNCHANGED <<world, list, own, starts, stops, past>>

(* The watcher is interrupted or killed, or an error ends it: printing a    *)
(* JSON line, or appending to the list.                                     *)
Stop(w) ==
    /\ pc[w] # "off"
    /\ stops < MaxStops
    /\ stops' = stops + 1
    /\ \/ UNCHANGED list
       \/ pc[w] = "act" /\ todo[w] = {} /\ AppendCutShort(new[w])
    /\ passed' = passed \cup (Listed' \cap PassedOver(w))
    /\ new' = [new EXCEPT ![w] = {}]
    /\ todo' = [todo EXCEPT ![w] = {}]
    /\ GoTo(w, "off")
    /\ UNCHANGED <<world, mode, wanted, seen, starts, acted>>

(* efile cache-clear --seen. *)
ClearSeen ==
    /\ stops < MaxStops
    /\ stops' = stops + 1
    /\ lines' = {} /\ tail' = None
    /\ UNCHANGED <<world, pc, own, starts, past>>

Next ==
    \/ \E i \in Ids : Publish(i) \/ Expire(i)
    \/ \E w \in Watchers :
          \/ \E m \in Modes, f \in Filters : Start(w, m, f)
          \/ Poll(w) \/ PollFails(w) \/ Act(w) \/ Record(w) \/ Wake(w) \/ Stop(w)
    \/ ClearSeen

Spec == Init /\ [][Next]_vars

(* A watcher that was not interrupted keeps running, and a poll that is     *)
(* tried again and again succeeds in the end.                               *)
Fairness ==
    \A w \in Watchers :
        /\ WF_vars(Act(w) \/ Record(w) \/ Wake(w))
        /\ SF_vars(Poll(w))

FairSpec == Spec /\ Fairness

-----------------------------------------------------------------------------
TypeOK ==
    /\ feed \subseteq Ids /\ expired \subseteq Ids
    /\ lines \subseteq Ids /\ tail \in Ids \cup {None, Part}
    /\ pc \in [Watchers -> {"off", "poll", "act", "sleep"}]
    /\ mode \in [Watchers -> {"watch", "once", "mark"}]
    /\ {wanted, seen, new, todo} \subseteq [Watchers -> SUBSET Ids]
    /\ starts \in 0..MaxStarts /\ stops \in 0..MaxStops
    /\ acted \in [Watchers -> SUBSET Ids] /\ passed \subseteq Ids

(* The ids some watcher has acted on, filtered out or marked. *)
DealtWith == passed \cup UNION {acted[w] : w \in Watchers}

(* An id is in the seen list only if it was dealt with: whatever stops a    *)
(* watcher, an unseen filing is never lost ("every new id is recorded",     *)
(* after the loop, in watch).                                               *)
SeenWasDealtWith == Listed \subseteq DealtWith

(* Until a watcher is interrupted or the list cleared, none acts on a       *)
(* filing twice, over its polls and over its runs, whatever other watchers  *)
(* record meanwhile (`seen` and append_seen in watch).                      *)
ActsOnce == [][\A w \in Watchers : stops = 0 /\ Act(w) => Oldest(todo[w]) \notin acted[w]]_vars

(* While a watch is running, every item that stays in the feed is dealt     *)
(* with, through polls that fail ("failures do not stop a long-running      *)
(* watch"), unless something interrupts a watcher or clears the list; then  *)
(* the same holds of the watch that is started again.                       *)
EveryItemDealtWith ==
    \A i \in Ids, n \in 0..MaxStops :
        (\E w \in Watchers : i \in feed /\ stops = n /\ mode[w] = "watch" /\ pc[w] # "off")
            ~> (i \in DealtWith \cup expired \/ stops # n)
=============================================================================
