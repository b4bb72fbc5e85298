------------------------ MODULE FilingCommandsProofs ------------------------
(***************************************************************************)
(* The commands that go over filings: invariance proofs for EfileWatch,    *)
(* for any watchers, feeds, modes and filters; for FilingRuns, for any     *)
(* listing, archives, faults, kills and clearings of the cache; and for    *)
(* Exports, for any filings and exports of them, failed or killed anywhere.*)
(***************************************************************************)
EXTENDS EfileWatch, FilingRuns, Exports, OrderLemmas, WellFoundedInduction

LEMMA OldestIn == ASSUME NEW S \in SUBSET Ids, S # {} PROVE Oldest(S) \in S
<1> DEFINE R == {ss \in Nat \X Nat : ss[1] < ss[2]}
<1>1. IsWellFoundedOn(R, Nat)
  BY NatLessThanWellFounded DEF OpToRel
<1>2. PICK i \in S : \A j \in S : ~ (<<j, i>> \in R)
  <2>1. S \subseteq Nat
    BY IdsAssumption
  <2> HIDE DEF R
  <2> QED BY <1>1, <2>1, WFMin
<1>3. \A j \in S : i <= j
  <2>1. \A j, k \in Nat : j < k => <<j, k>> \in R
    OBVIOUS
  <2>2. \A j \in S : j \in Nat
    BY IdsAssumption
  <2>3. \A j \in S : ~ (j < i)
    <3> HIDE DEF R
    <3> QED BY <1>2, <2>1, <2>2
  <2> QED BY <2>2, <2>3
<1> QED BY <1>3 DEF Oldest

-----------------------------------------------------------------------------
LEMMA InitTypes == Init => TypeOK
BY BoundsAssumption DEF Init, TypeOK

LEMMA AppendTypes ==
    ASSUME TypeOK, NEW ids \in SUBSET Ids, AppendSeen(ids) \/ AppendCutShort(ids)
    PROVE  lines' \subseteq Ids /\ tail' \in Ids \cup {None, Part}
<1>1. ASSUME AppendSeen(ids) PROVE lines' \subseteq Ids /\ tail' \in Ids \cup {None, Part}
  BY <1>1 DEF AppendSeen, TypeOK
<1>2. ASSUME AppendCutShort(ids) PROVE lines' \subseteq Ids /\ tail' \in Ids \cup {None, Part}
  BY <1>2 DEF AppendCutShort, TypeOK, list
<1> QED BY <1>1, <1>2

(* What each action needs of the types: the watcher's sets hold ids. *)
LEMMA NextTypes == TypeOK /\ [Next]_vars => TypeOK'
<1> SUFFICES ASSUME TypeOK, [Next]_vars PROVE TypeOK'
  OBVIOUS
<1> USE BoundsAssumption
<1>1. ASSUME NEW i \in Ids, Publish(i) \/ Expire(i) PROVE TypeOK'
  BY <1>1 DEF TypeOK, Publish, Expire, list, own, past
<1>2. ASSUME NEW w \in Watchers, NEW m \in Modes, NEW f \in Filters, Start(w, m, f)
      PROVE  TypeOK'
  <2>1. Listed \subseteq Ids /\ f \subseteq Ids /\ m \in {"watch", "once", "mark"}
    BY ModesAssumption, FiltersAssumption DEF TypeOK, Listed
  <2> QED BY <1>2, <2>1 DEF TypeOK, Start, GoTo, world, list, past
<1>3. ASSUME NEW w \in Watchers, Poll(w) PROVE TypeOK'
  BY <1>3 DEF TypeOK, Poll, GoTo, world, list, past
<1>4. ASSUME NEW w \in Watchers, PollFails(w) \/ Wake(w) PROVE TypeOK'
  BY <1>4 DEF TypeOK, PollFails, Wake, GoTo, world, list, own, past
<1>5. ASSUME NEW w \in Watchers, Act(w) PROVE TypeOK'
  <2>1. Oldest(todo[w]) \in Ids
    BY <1>5, OldestIn DEF Act, TypeOK
  <2> QED BY <1>5, <2>1 DEF TypeOK, Act, world, list
<1>6. ASSUME NEW w \in Watchers, Record(w) PROVE TypeOK'
  <2>1. new[w] \subseteq Ids /\ PassedOver(w) \subseteq Ids /\ Remembered(w) \subseteq Ids
    BY DEF TypeOK, PassedOver, Remembered
  <2>2. lines' \subseteq Ids /\ tail' \in Ids \cup {None, Part}
    BY <1>6, <2>1, AppendTypes DEF Record
  <2> QED BY <1>6, <2>1, <2>2 DEF TypeOK, Record, GoTo, world
<1>7. ASSUME NEW w \in Watchers, Stop(w) PROVE TypeOK'
  <2>1. new[w] \subseteq Ids /\ PassedOver(w) \subseteq Ids
    BY DEF TypeOK, PassedOver
  <2>2. lines' \subseteq Ids /\ tail' \in Ids \cup {None, Part}
    BY <1>7, <2>1, AppendTypes DEF Stop, TypeOK, list
  <2> QED BY <1>7, <2>1, <2>2 DEF TypeOK, Stop, GoTo, world
<1>8. ASSUME ClearSeen PROVE TypeOK'
  BY <1>8 DEF TypeOK, ClearSeen, world, own, past
<1>9. ASSUME UNCHANGED vars PROVE TypeOK'
  BY <1>9 DEF TypeOK, vars, world, list, own, past
<1> QED BY <1>1, <1>2, <1>3, <1>4, <1>5, <1>6, <1>7, <1>8, <1>9 DEF Next

(* The types, through every interruption. *)
THEOREM WatchTypes == Spec => []TypeOK
BY InitTypes, NextTypes, PTL DEF Spec

-----------------------------------------------------------------------------
(* Every new item is still to be acted on, acted on, or passed over. *)
NewIsAccountedFor ==
    \A w \in Watchers : pc[w] = "act" => new[w] \subseteq todo[w] \cup acted[w] \cup PassedOver(w)

Kept == TypeOK /\ SeenWasDealtWith /\ NewIsAccountedFor

(* An append lists only ids that were listed or that it was given. *)
LEMMA AppendLists ==
    ASSUME TypeOK, NEW ids \in SUBSET Ids, AppendSeen(ids) \/ AppendCutShort(ids)
    PROVE  Listed' \subseteq Listed \cup ids
<1> USE IdsAssumption DEF Listed, None, Part, TypeOK
<1>1. ASSUME AppendSeen(ids) PROVE Listed' \subseteq Listed \cup ids
  BY <1>1 DEF AppendSeen
<1>2. ASSUME AppendCutShort(ids) PROVE Listed' \subseteq Listed \cup ids
  <2>1. CASE UNCHANGED list
    BY <2>1 DEF list
  <2>2. CASE lines' = lines /\ tail' = Part
    BY <2>2
  <2>3. ASSUME NEW some \in SUBSET ids, NEW open \in {None, Part} \cup some,
               lines' = lines \cup (some \ {open}), tail' = open
        PROVE  Listed' \subseteq Listed \cup ids
    BY <2>3
  <2> QED BY <1>2, <2>1, <2>2, <2>3 DEF AppendCutShort
<1> QED BY <1>1, <1>2

LEMMA ActedOnIsDealtWith ==
    ASSUME NEW w \in Watchers, acted' = acted, NEW S, passed' = passed \cup S
    PROVE  DealtWith \cup acted[w] \cup S \subseteq DealtWith'
<1>1. acted[w] \subseteq UNION {acted[v] : v \in Watchers}
  OBVIOUS
<1> QED BY <1>1, Zenon DEF DealtWith

LEMMA NextKept == Kept /\ [Next]_vars => SeenWasDealtWith' /\ NewIsAccountedFor'
<1> SUFFICES ASSUME Kept, [Next]_vars PROVE SeenWasDealtWith' /\ NewIsAccountedFor'
  OBVIOUS
<1> USE DEF Kept, TypeOK, SeenWasDealtWith, DealtWith, NewIsAccountedFor, Listed, PassedOver
<1>1. ASSUME NEW i \in Ids, Publish(i) \/ Expire(i) PROVE SeenWasDealtWith' /\ NewIsAccountedFor'
  BY <1>1 DEF Publish, Expire, list, own, past
<1>2. ASSUME NEW w \in Watchers, NEW m \in Modes, NEW f \in Filters, Start(w, m, f)
      PROVE  SeenWasDealtWith' /\ NewIsAccountedFor'
  BY <1>2 DEF Start, GoTo, list, past
<1>3. ASSUME NEW w \in Watchers, Poll(w) PROVE SeenWasDealtWith' /\ NewIsAccountedFor'
  <2>1. SeenWasDealtWith'
    BY <1>3 DEF Poll, list, past
  <2>2. new'[w] \subseteq todo'[w] \cup acted'[w] \cup PassedOver(w)'
    BY <1>3 DEF Poll, past
  <2>3. \A v \in Watchers \ {w} :
            pc'[v] = "act" => new'[v] \subseteq todo'[v] \cup acted'[v] \cup PassedOver(v)'
    BY <1>3 DEF Poll, GoTo, past
  <2> QED BY <2>1, <2>2, <2>3
<1>4. ASSUME NEW w \in Watchers, PollFails(w) \/ Wake(w) PROVE SeenWasDealtWith' /\ NewIsAccountedFor'
  BY <1>4 DEF PollFails, Wake, GoTo, list, own, past
<1>5. ASSUME NEW w \in Watchers, Act(w) PROVE SeenWasDealtWith' /\ NewIsAccountedFor'
  <2>1. \A v \in Watchers : acted[v] \subseteq acted'[v]
    BY <1>5 DEF Act
  <2>2. SeenWasDealtWith'
    BY <1>5, <2>1 DEF Act, list
  <2>3. NewIsAccountedFor'
    BY <1>5 DEF Act
  <2> QED BY <2>2, <2>3
<1>6. ASSUME NEW w \in Watchers, Record(w) PROVE SeenWasDealtWith' /\ NewIsAccountedFor'
  <2>1. new[w] \subseteq acted[w] \cup PassedOver(w)
    BY <1>6 DEF Record
  <2>2. Listed' \subseteq Listed \cup new[w]
    BY <1>6, AppendLists DEF Record
  <2>3. SeenWasDealtWith'
    <3>1. DealtWith \cup acted[w] \cup PassedOver(w) \subseteq DealtWith'
      <4>1. acted' = acted /\ passed' = passed \cup PassedOver(w)
        BY <1>6 DEF Record
      <4> HIDE DEF DealtWith, Listed, PassedOver
      <4> QED BY <4>1, ActedOnIsDealtWith, Zenon
    <3> QED BY <2>1, <2>2, <3>1
  <2>4. NewIsAccountedFor'
    BY <1>6 DEF Record, GoTo
  <2> QED BY <2>3, <2>4
<1>7. ASSUME NEW w \in Watchers, Stop(w) PROVE SeenWasDealtWith' /\ NewIsAccountedFor'
  <2>1. NewIsAccountedFor'
    BY <1>7 DEF Stop, GoTo
  <2>2. CASE UNCHANGED list
    <3>1. Listed' = Listed /\ acted' = acted /\ passed \subseteq passed'
      BY <1>7, <2>2 DEF Stop, list
    <3> QED BY <2>1, <3>1
  <2>3. CASE pc[w] = "act" /\ todo[w] = {} /\ AppendCutShort(new[w])
    <3>1. Listed' \subseteq Listed \cup new[w]
      BY <2>3, AppendLists
    <3>2. new[w] \subseteq acted[w] \cup PassedOver(w)
      BY <2>3
    <3>3. DealtWith \cup acted[w] \cup (Listed' \cap PassedOver(w)) \subseteq DealtWith'
      <4>1. acted' = acted /\ passed' = passed \cup (Listed' \cap PassedOver(w))
        BY <1>7 DEF Stop
      <4> HIDE DEF DealtWith, Listed, PassedOver
      <4> QED BY <4>1, ActedOnIsDealtWith, Zenon
    <3>4. Listed' \subseteq DealtWith'
      <4>1. Listed \subseteq DealtWith
        OBVIOUS
      <4> HIDE DEF DealtWith, Listed, PassedOver
      <4> QED BY <3>1, <3>2, <3>3, <4>1
    <3> QED BY <2>1, <3>4
  <2> QED BY <1>7, <2>1, <2>2, <2>3 DEF Stop
<1>8. ASSUME ClearSeen PROVE SeenWasDealtWith' /\ NewIsAccountedFor'
  BY <1>8, IdsAssumption DEF ClearSeen, own, past, None
<1>9. ASSUME UNCHANGED vars PROVE SeenWasDealtWith' /\ NewIsAccountedFor'
  BY <1>9 DEF vars, list, own, past
<1> QED BY <1>1, <1>2, <1>3, <1>4, <1>5, <1>6, <1>7, <1>8, <1>9 DEF Next

(* Whatever is in the seen list was acted on or deliberately passed over:   *)
(* any number of watchers, started, interrupted and cleared at any step.    *)
THEOREM NoUnseenFilingIsLost == Spec => []SeenWasDealtWith
<1>1. Init => Kept
  BY InitTypes, IdsAssumption DEF Init, Kept, SeenWasDealtWith, NewIsAccountedFor, Listed, None
<1>2. Kept /\ [Next]_vars => Kept'
  BY NextTypes, NextKept DEF Kept
<1>3. Kept => SeenWasDealtWith
  BY DEF Kept
<1> QED BY <1>1, <1>2, <1>3, PTL DEF Spec

-----------------------------------------------------------------------------
(* While nothing is interrupted or cleared, a watcher that is off finds     *)
(* what it acted on in the list, and one that runs knows it: what it acted  *)
(* on is in its `seen`, or among the new items it has still to record.      *)
Knows(w) ==
    /\ todo[w] \subseteq new[w] /\ todo[w] \cap acted[w] = {}
    /\ pc[w] = "off" => acted[w] \subseteq lines
    /\ pc[w] # "off" => seen[w] \subseteq lines /\ acted[w] \subseteq seen[w] \cup new[w]
    /\ pc[w] # "act" => new[w] = {}

KnowsTheList == stops = 0 => tail = None /\ \A w \in Watchers : Knows(w)

Steady == TypeOK /\ KnowsTheList

LEMMA NextSteady == Steady /\ [Next]_vars => KnowsTheList'
<1> SUFFICES ASSUME Steady, [Next]_vars, stops' = 0
             PROVE  tail' = None /\ \A w \in Watchers : Knows(w)'
  BY DEF KnowsTheList
<1> USE DEF Steady, TypeOK, Knows
<1>0. stops = 0 /\ tail = None /\ \A w \in Watchers : Knows(w)
  <2>1. stops = 0
    BY BoundsAssumption DEF Next, vars, Publish, Expire, Start, Poll, PollFails, Act, Record, Wake, Stop, ClearSeen
  <2> QED BY <2>1 DEF KnowsTheList
<1> DEFINE Goal == tail' = None /\ \A w \in Watchers : Knows(w)'
<1>1. ASSUME NEW i \in Ids, Publish(i) \/ Expire(i) PROVE Goal
  BY <1>0, <1>1 DEF Publish, Expire, list, own, past
<1>2. ASSUME NEW w \in Watchers, NEW m \in Modes, NEW f \in Filters, Start(w, m, f) PROVE Goal
  <2>1. Listed = lines
    BY <1>0, IdsAssumption DEF Listed, None
  <2> QED BY <1>0, <1>2, <2>1 DEF Start, GoTo, list, past
<1>3. ASSUME NEW w \in Watchers, Poll(w) PROVE Goal
  <2>1. UNCHANGED <<lines, tail, acted, seen>>
    BY <1>3 DEF Poll, list, past
  <2>2. Knows(w)'
    <3>1. acted[w] \subseteq seen[w] /\ seen[w] \subseteq lines
      BY <1>0, <1>3 DEF Poll
    <3>2. pc'[w] = "act" /\ new'[w] = feed \ seen[w] /\ todo'[w] \subseteq new'[w]
      BY <1>3 DEF Poll, GoTo
    <3> QED BY <2>1, <3>1, <3>2
  <2>3. \A v \in Watchers \ {w} : Knows(v)'
    BY <1>0, <1>3, <2>1 DEF Poll, GoTo
  <2> QED BY <1>0, <2>1, <2>2, <2>3
<1>4. ASSUME NEW w \in Watchers, PollFails(w) \/ Wake(w) PROVE Goal
  BY <1>0, <1>4 DEF PollFails, Wake, GoTo, list, own, past
<1>5. ASSUME NEW w \in Watchers, Act(w) PROVE Goal
  <2>1. Oldest(todo[w]) \in todo[w]
    BY <1>5, OldestIn DEF Act
  <2>2. Knows(w)'
    BY <1>0, <1>5, <2>1 DEF Act, list
  <2>3. \A v \in Watchers \ {w} : Knows(v)'
    BY <1>0, <1>5 DEF Act, list
  <2> QED BY <1>0, <1>5, <2>2, <2>3 DEF Act, list
<1>6. ASSUME NEW w \in Watchers, Record(w) PROVE Goal
  <2>1. lines' = lines \cup new[w] /\ tail' = None
    BY <1>0, <1>6 DEF Record, AppendSeen
  <2>2. Knows(w)'
    BY <1>0, <1>6, <2>1 DEF Record, Remembered, GoTo
  <2>3. \A v \in Watchers \ {w} : Knows(v)'
    BY <1>0, <1>6, <2>1 DEF Record, GoTo
  <2> QED BY <2>1, <2>2, <2>3
<1>7. ASSUME NEW w \in Watchers, Stop(w) PROVE FALSE
  BY <1>0, <1>7 DEF Stop
<1>8. ASSUME ClearSeen PROVE FALSE
  BY <1>0, <1>8 DEF ClearSeen
<1>9. ASSUME UNCHANGED vars PROVE Goal
  BY <1>0, <1>9 DEF vars, list, own, past
<1> QED BY <1>1, <1>2, <1>3, <1>4, <1>5, <1>6, <1>7, <1>8, <1>9 DEF Next

(* Until something is interrupted or cleared, no watcher acts on a filing   *)
(* twice, over its polls and over one run after another: any number of them.*)
THEOREM UndisturbedActOnce == Spec => ActsOnce
<1>1. Init => Steady
  BY InitTypes DEF Init, Steady, KnowsTheList, Knows
<1>2. Steady /\ [Next]_vars => Steady'
  BY NextTypes, NextSteady DEF Steady
<1>3. Steady /\ [Next]_vars =>
          [\A w \in Watchers : stops = 0 /\ Act(w) => Oldest(todo[w]) \notin acted[w]]_vars
  <2> SUFFICES ASSUME Steady, NEW w \in Watchers, stops = 0, Act(w) PROVE Oldest(todo[w]) \notin acted[w]
    OBVIOUS
  <2>1. Oldest(todo[w]) \in todo[w]
    BY OldestIn DEF Act, Steady, TypeOK
  <2> QED BY <2>1 DEF Act, Steady, KnowsTheList, Knows
<1> QED BY <1>1, <1>2, <1>3, PTL DEF Spec, ActsOnce

-----------------------------------------------------------------------------
(***************************************************************************)
(* A run over filings accounts for each of them.                           *)
(***************************************************************************)

ListEntries == [id : DOMAIN Known \cup {0}, hint : {"store", "other"}]
Archived    == [id : DOMAIN Known \cup {0}, file : BOOLEAN]
Entries  == ListEntries \cup Archived
Steps    == {"out", "check", "ingest"}
Reports  == {Loaded(id) : id \in DOMAIN Known}
Rows     == [id : DOMAIN Known, error : BOOLEAN, summed : SUBSET DOMAIN Known, gaps : BOOLEAN]

ListPhases  == {"list", "each", "fetch"}
DayPhases   == {"day", "entries"}
ChainPhases == {"chain", "chainFetch", "load"}
Phases      == {"idle", "apply"} \cup ListPhases \cup DayPhases \cup ChainPhases
Places      == [phase : Phases, day : Nat, todo : Seq(Entries), left : Seq(Steps),
                wrong : BOOLEAN, via : {"", "store", "other"}]

(* What the command reads now, a filing after the other.                   *)
Source  == IF run.cmd = "filings" THEN Taken(run) ELSE Archive[at.day]
Reading == at.phase \notin {"idle", "list", "day"}

AtTypeOK ==
    /\ at \in Places
    /\ at.phase # "idle" => run \in RunJobs
    /\ at.phase \in ListPhases => run.cmd = "filings"
    /\ at.phase \in DayPhases => run.cmd = "backfill"
    /\ at.phase \in ChainPhases => run.cmd = "filings" /\ run.chain
    /\ at.phase # "idle" /\ run.cmd = "backfill" => at.day \in run.from..run.to
    /\ Reading /\ run.cmd = "backfill" => at.day \in DOMAIN Archive
    /\ Reading => EndOf(at.todo, Source)
    /\ at.phase \in {"fetch", "apply", "chainFetch", "load"} => at.todo # << >> /\ ThisFiling.id \in DOMAIN Known
    /\ at.phase = "apply" => ThisFiling.id \in Wanted(run.from..run.to)

RunTypeOK ==
    /\ run \in RunJobs \cup {NoRun}
    /\ tally \in [failures : Nat, days : Nat]
    /\ chained \in [loaded : Seq(Reports), rows : Seq(Rows)]
    /\ at.phase # "idle" => ended = "none"
    /\ \A d \in DOMAIN zips : zips[d] = "good" => d \in DOMAIN Archive
    /\ UNION {j.from..j.to : j \in RunJobs} \subseteq DOMAIN zips
    /\ AtTypeOK
-----------------------------------------------------------------------------
(* The filings this run is done with.                                      *)
Gone(all, unread) == {all[i] : i \in 1..Len(all) - Len(unread)}
ListingBehind ==
    {r.id : r \in IF at.phase \in ChainPhases THEN Range(Taken(run)) ELSE Gone(Taken(run), at.todo)} \ {0}
ArchivesBehind ==
    LET whole == InArchives((run.from..at.day - 1) \ lost)
        part  == {e.id : e \in {x \in Gone(Archive[at.day], at.todo) : IsFiling(x)}}
    IN  {id \in whole \cup IF Reading THEN part ELSE {} : IsOf(id, run.filter)}
Behind ==
    IF run.cmd = "backfill" THEN ArchivesBehind ELSE IF Reading THEN ListingBehind ELSE {}

StepDone(a, id) ==
    CASE a = "out" -> id \in saved
      [] a = "check" -> Known[id].parses => id \in checked
      [] a = "ingest" -> Known[id].parses => id \in ingested

(* What this run is done with was done, or it is known that it could not be; *)
(* of the filing at hand the steps that are not left were.                 *)
NothingLeftUndone ==
    /\ at.phase # "idle" => \A id \in Behind \ faulty : Treated(id)
    /\ at.phase = "apply" /\ ThisFiling.id \notin faulty =>
          \A a \in run.acts : a \in Range(at.left) \/ StepDone(a, ThisFiling.id)

(* A run without a failure so far met nothing that went wrong.              *)
FailuresAreCounted ==
    at.phase # "idle" =>
        /\ tally.failures = 0 => faulty = {} \/ (at.phase = "apply" /\ at.wrong)
        /\ tally.failures = 0 => Unparsed(Behind) = {}
        /\ at.phase = "apply" /\ ~at.wrong /\ ~Known[ThisFiling.id].parses =>
              run.acts \cap {"check", "ingest"} \subseteq Range(at.left)
        /\ tally.days = 0 => lost = {}
        /\ run.cmd = "backfill" => run.from..at.day - 1 \subseteq DOMAIN Archive \cup lost

(* The rows of a chain stand on their own, and there is a row or a report   *)
(* for each place of the listing that has a filing.                        *)
FilingsTo(n) == {i \in 1..n : Taken(run)[i].id # 0}
IdsOf(s)     == {s[i].id : i \in DOMAIN s}
EachHasItsPlace ==
    /\ ChainCountsDaysOnce
    /\ at.phase \in ChainPhases =>
          LET n == Len(Taken(run)) - Len(at.todo)
          IN  /\ IdsOf(chained.rows) \cup IdsOf(chained.loaded) = {Taken(run)[i].id : i \in FilingsTo(n)}
              /\ Len(chained.rows) + Len(chained.loaded) = Cardinality(FilingsTo(n))
    /\ at.phase \notin ChainPhases /\ at.phase # "idle" => chained = NoneChained

RunInv ==
    /\ RunTypeOK /\ NothingLeftUndone /\ FailuresAreCounted /\ NothingElseTouched
    /\ EachHasItsPlace /\ SuccessIsWhole /\ FailureIsOfItsOwn /\ EveryReportHasARow
-----------------------------------------------------------------------------
LEMMA ListingIs ==
    ASSUME NEW j \in RunJobs
    PROVE  Taken(j) \in Seq(ListEntries)
<1>1. FecLists \in Seq(ListEntries) /\ j.limit \in Nat \cup {-1}
  BY FilingsAssumption, RunJobsAssumption DEF ListEntries
<1> DEFINE n == IF j.limit = 0 THEN 1 ELSE j.limit
<1>2. CASE j.limit = NoLimit \/ n > Len(FecLists)
  BY <1>1, <1>2 DEF Taken
<1>3. CASE ~(j.limit = NoLimit \/ n > Len(FecLists))
  <2>1. n \in 1..Len(FecLists)
    BY <1>1, <1>3 DEF NoLimit
  <2>2. Taken(j) = SubSeq(FecLists, 1, n)
    BY <1>3 DEF Taken
  <2> HIDE DEF n
  <2> QED
    BY <1>1, <2>1, <2>2, SubSeqProperties
<1> QED
  BY <1>2, <1>3

LEMMA ArchiveIs ==
    ASSUME NEW d \in DOMAIN Archive
    PROVE  Archive[d] \in Seq(Archived)
BY FilingsAssumption DEF Archived

(* What is being read, and the filing at hand.                             *)
LEMMA SourceIs ==
    ASSUME AtTypeOK, Reading
    PROVE  /\ run.cmd \in {"filings", "backfill"}
           /\ run.cmd = "filings" => Source \in Seq(ListEntries)
           /\ run.cmd = "backfill" => Source \in Seq(Archived)
           /\ Source \in Seq(Entries)
<1>1. run \in RunJobs /\ run.cmd \in {"filings", "backfill"}
  BY RunJobsAssumption DEF AtTypeOK, Reading
<1>2. run.cmd = "filings" => Source \in Seq(ListEntries)
  BY <1>1, ListingIs DEF Source
<1>3. run.cmd = "backfill" => Source \in Seq(Archived)
  BY <1>1, ArchiveIs DEF AtTypeOK, Source
<1>4. Seq(ListEntries) \subseteq Seq(Entries) /\ Seq(Archived) \subseteq Seq(Entries)
  BY SeqMonotonic, ListEntries \subseteq Entries, Archived \subseteq Entries DEF Entries
<1> QED
  BY <1>1, <1>2, <1>3, <1>4

LEMMA ThisFilingIs ==
    ASSUME AtTypeOK, Reading, at.todo # << >>
    PROVE  /\ Tail(at.todo) \in Seq(Entries) /\ EndOf(Tail(at.todo), Source)
           /\ Len(Tail(at.todo)) = Len(at.todo) - 1
           /\ Len(Source) - Len(at.todo) + 1 \in 1..Len(Source)
           /\ ThisFiling = Source[Len(Source) - Len(at.todo) + 1]
           /\ run.cmd = "filings" => ThisFiling \in ListEntries
           /\ run.cmd = "backfill" => ThisFiling \in Archived
           /\ ThisFiling.id \in DOMAIN Known \cup {0}
<1>1. at.todo \in Seq(Entries) /\ EndOf(at.todo, Source)
  BY DEF AtTypeOK, Places, Reading
<1>2. Source \in Seq(Entries)
  BY SourceIs
<1>3. /\ Tail(at.todo) \in Seq(Entries) /\ EndOf(Tail(at.todo), Source)
      /\ Len(Tail(at.todo)) = Len(at.todo) - 1
      /\ Len(Source) - Len(at.todo) + 1 \in 1..Len(Source)
      /\ ThisFiling = Source[Len(Source) - Len(at.todo) + 1]
  <2> DEFINE all == Source
             s   == at.todo
  <2>1. s \in Seq(Entries) /\ all \in Seq(Entries) /\ s # << >> /\ EndOf(s, all)
    BY <1>1, <1>2
  <2> HIDE DEF all, s
  <2>2. /\ EndOf(Tail(s), all) /\ Tail(s) \in Seq(Entries) /\ Len(Tail(s)) = Len(s) - 1
        /\ Len(all) - Len(s) + 1 \in 1..Len(all) /\ Head(s) = all[Len(all) - Len(s) + 1]
    BY <2>1, EndOfTail
  <2> QED
    BY <2>2 DEF all, s, ThisFiling
<1>4. /\ run.cmd = "filings" => ThisFiling \in ListEntries
      /\ run.cmd = "backfill" => ThisFiling \in Archived
  <2> DEFINE i == Len(Source) - Len(at.todo) + 1
  <2>1. i \in 1..Len(Source) /\ ThisFiling = Source[i]
    BY <1>3
  <2> HIDE DEF i
  <2>2. /\ run.cmd = "filings" => Source \in Seq(ListEntries)
        /\ run.cmd = "backfill" => Source \in Seq(Archived)
    BY SourceIs
  <2> QED
    BY <2>1, <2>2, ElementOfSeq
<1>5. ThisFiling.id \in DOMAIN Known \cup {0}
  BY <1>4, SourceIs DEF ListEntries, Archived
<1> QED
  BY <1>3, <1>4, <1>5

LEMMA StepsAre ==
    ASSUME NEW j \in RunJobs
    PROVE  StepsOf(j) \in Seq(Steps) /\ Range(StepsOf(j)) = j.acts
<1> DEFINE Step(a) == IF a \in j.acts THEN <<a>> ELSE << >>
<1>1. j.acts \subseteq Steps
  BY RunJobsAssumption DEF Steps
<1>2. ASSUME NEW a \in Steps
      PROVE  Step(a) \in Seq(Steps) /\ Range(Step(a)) = {a} \cap j.acts
  BY DEF Range
<1>3. ASSUME NEW s \in Seq(Steps), NEW t \in Seq(Steps)
      PROVE  s \o t \in Seq(Steps) /\ Range(s \o t) = Range(s) \cup Range(t)
  <2>1. s \o t \in Seq(Steps) /\ Len(s \o t) = Len(s) + Len(t)
        /\ \A i \in 1..(Len(s) + Len(t)) : (s \o t)[i] = IF i <= Len(s) THEN s[i] ELSE t[i - Len(s)]
    BY ConcatProperties
  <2>2. Range(s) = {s[i] : i \in 1..Len(s)} /\ Range(t) = {t[i] : i \in 1..Len(t)}
        /\ Range(s \o t) = {(s \o t)[i] : i \in 1..(Len(s) + Len(t))}
    <3>1. DOMAIN s = 1..Len(s) /\ DOMAIN t = 1..Len(t) /\ DOMAIN (s \o t) = 1..(Len(s) + Len(t))
      BY <2>1, LenProperties
    <3> QED
      BY <3>1 DEF Range
  <2>3. ASSUME NEW i \in 1..Len(s)
        PROVE  i \in 1..(Len(s) + Len(t)) /\ (s \o t)[i] = s[i]
    BY <2>1
  <2>4. ASSUME NEW i \in 1..Len(t)
        PROVE  Len(s) + i \in 1..(Len(s) + Len(t)) /\ (s \o t)[Len(s) + i] = t[i]
    BY <2>1
  <2>5. ASSUME NEW i \in 1..(Len(s) + Len(t))
        PROVE  (s \o t)[i] \in {s[k] : k \in 1..Len(s)} \cup {t[k] : k \in 1..Len(t)}
    BY <2>1
  <2>6. Range(s) \cup Range(t) \subseteq Range(s \o t)
    BY <2>2, <2>3, <2>4
  <2>7. Range(s \o t) \subseteq Range(s) \cup Range(t)
    BY <2>2, <2>5
  <2> QED
    BY <2>1, <2>6, <2>7
<1>4. StepsOf(j) = Step("out") \o Step("check") \o Step("ingest")
  BY DEF StepsOf
<1> HIDE DEF Step
<1>5. /\ Step("out") \in Seq(Steps) /\ Range(Step("out")) = {"out"} \cap j.acts
      /\ Step("check") \in Seq(Steps) /\ Range(Step("check")) = {"check"} \cap j.acts
      /\ Step("ingest") \in Seq(Steps) /\ Range(Step("ingest")) = {"ingest"} \cap j.acts
  BY <1>2 DEF Steps
<1> DEFINE both == Step("out") \o Step("check")
<1>6. both \in Seq(Steps) /\ Range(both) = ({"out"} \cap j.acts) \cup ({"check"} \cap j.acts)
  BY <1>3, <1>5
<1>7. StepsOf(j) \in Seq(Steps)
      /\ Range(StepsOf(j)) = ({"out"} \cap j.acts) \cup ({"check"} \cap j.acts) \cup ({"ingest"} \cap j.acts)
  <2>1. StepsOf(j) = both \o Step("ingest")
    BY <1>4
  <2> HIDE DEF both
  <2>2. both \o Step("ingest") \in Seq(Steps)
        /\ Range(both \o Step("ingest")) = Range(both) \cup Range(Step("ingest"))
    BY <1>3, <1>5, <1>6
  <2> QED
    BY <1>5, <1>6, <2>1, <2>2
<1> QED
  BY <1>1, <1>7 DEF Steps
-----------------------------------------------------------------------------
(* What the filter on the archives lets through is what a run is about.     *)
LEMMA FilterIs ==
    ASSUME NEW id, NEW filters
    PROVE  FormMatches(id, filters) <=> IsOf(id, filters)
BY DEF FormMatches, IsOf

LEMMA ThisIsWanted ==
    ASSUME AtTypeOK, Reading, at.todo # << >>, ThisFiling.id # 0,
           run.cmd = "backfill" => IsFiling(ThisFiling) /\ IsOf(ThisFiling.id, run.filter)
    PROVE  ThisFiling.id \in Wanted(run.from..run.to)
<1> DEFINE i == Len(Source) - Len(at.todo) + 1
<1>1. i \in 1..Len(Source) /\ ThisFiling = Source[i]
  BY ThisFilingIs
<1> HIDE DEF i
<1>2. CASE run.cmd = "filings"
  <2>1. Source = Taken(run) /\ Taken(run) \in Seq(ListEntries)
    BY <1>2, SourceIs DEF Source
  <2>2. i \in DOMAIN Taken(run) /\ ThisFiling = Taken(run)[i]
    BY <1>1, <2>1
  <2>3. ThisFiling \in Range(Taken(run))
    BY <2>2 DEF Range
  <2> QED
    BY <1>2, <2>3 DEF Wanted
<1>3. CASE run.cmd # "filings"
  <2>1. run.cmd = "backfill" /\ Source = Archive[at.day]
    BY <1>3, SourceIs DEF Source
  <2>2. at.day \in DOMAIN Archive /\ at.day \in run.from..run.to
    BY <2>1 DEF AtTypeOK, Reading
  <2>3. ThisFiling \in Range(Archive[at.day])
    <3>1. Archive[at.day] \in Seq(Archived)
      BY <2>2, ArchiveIs
    <3>2. i \in DOMAIN Archive[at.day] /\ ThisFiling = Archive[at.day][i]
      BY <1>1, <2>1, <3>1
    <3> QED
      BY <3>2 DEF Range
  <2>4. ThisFiling.id \in InArchives(run.from..run.to)
    BY <2>1, <2>2, <2>3 DEF InArchives
  <2> QED
    BY <1>3, <2>1, <2>4 DEF Wanted
<1> QED
  BY <1>2, <1>3

(* Where a command may go from a place: on with the same filing, past it,   *)
(* or nowhere.                                                             *)
LEMMA StaysAt ==
    ASSUME AtTypeOK, run' = run, at' = at
    PROVE  AtTypeOK'
BY DEF AtTypeOK, Source, Reading, ThisFiling, Wanted

LEMMA GoesNowhere ==
    ASSUME at' = Nowhere
    PROVE  AtTypeOK' /\ at'.phase = "idle"
<1>1. Nowhere \in Places
  <2>1. << >> \in Seq(Entries) /\ << >> \in Seq(Steps)
    OBVIOUS
  <2> QED
    BY <2>1 DEF Nowhere, Places, Phases
<1>2. Nowhere.phase = "idle"
  BY DEF Nowhere
<1>3. at' \in Places /\ at'.phase = "idle"
  BY <1>1, <1>2
<1> QED
  BY <1>3 DEF AtTypeOK, ListPhases, DayPhases, ChainPhases, Reading

LEMMA GoesOn ==
    ASSUME AtTypeOK, run' = run, at' \in Places, Reading, at.todo # << >>,
           at'.day = at.day, at'.todo = at.todo, ThisFiling.id # 0,
           \/ at'.phase = "fetch" /\ run.cmd = "filings"
           \/ at'.phase \in {"chainFetch", "load"} /\ run.cmd = "filings" /\ run.chain
           \/ /\ at'.phase = "apply"
              /\ run.cmd = "backfill" => IsFiling(ThisFiling) /\ IsOf(ThisFiling.id, run.filter)
    PROVE  AtTypeOK'
<1>1. Source' = Source /\ ThisFiling' = ThisFiling
  BY DEF Source, ThisFiling
<1>2. Wanted(run.from..run.to)' = Wanted(run.from..run.to)
  BY DEF Wanted
<1>3. ThisFiling.id \in DOMAIN Known
  BY ThisFilingIs
<1>4. at'.phase = "apply" => ThisFiling.id \in Wanted(run.from..run.to)
  BY ThisIsWanted
<1>5. run \in RunJobs /\ run.cmd \in {"filings", "backfill"}
  BY SourceIs DEF AtTypeOK, Reading
<1> QED
  BY <1>1, <1>2, <1>3, <1>4, <1>5 DEF AtTypeOK, Reading, ListPhases, DayPhases, ChainPhases

LEMMA GoesPast ==
    ASSUME AtTypeOK, run' = run, at' \in Places, Reading, at.todo # << >>,
           at'.day = at.day, at'.todo = Tail(at.todo),
           \/ at'.phase = "each" /\ run.cmd = "filings"
           \/ at'.phase = "entries" /\ run.cmd = "backfill"
           \/ at'.phase = "chain" /\ run.cmd = "filings" /\ run.chain
    PROVE  AtTypeOK'
<1>1. Source' = Source /\ EndOf(Tail(at.todo), Source)
  BY ThisFilingIs DEF Source
<1>2. run \in RunJobs /\ run.cmd \in {"filings", "backfill"}
  BY SourceIs DEF AtTypeOK, Reading
<1> QED
  BY <1>1, <1>2 DEF AtTypeOK, Reading, ListPhases, DayPhases, ChainPhases

(* A command begins on a listing or an archive.                            *)
LEMMA Begins ==
    ASSUME run' = run, run \in RunJobs, at' \in Places,
           \/ at'.phase \in {"each", "chain"} /\ run.cmd = "filings" /\ at'.todo = Taken(run)
              /\ (at'.phase = "chain" => run.chain)
           \/ /\ at'.phase = "entries" /\ run.cmd = "backfill" /\ at'.todo = Archive[at'.day]
              /\ at'.day \in run.from..run.to /\ at'.day \in DOMAIN Archive
           \/ at'.phase = "day" /\ run.cmd = "backfill" /\ at'.day \in run.from..run.to
    PROVE  AtTypeOK'
<1>1. at'.phase # "day" => at'.todo = Source'
  BY DEF Source
<1>2. at'.todo \in Seq(Entries)
  BY DEF Places
<1>3. at'.phase # "day" => EndOf(at'.todo, Source')
  BY <1>1, <1>2, EndOfItself
<1> QED
  BY <1>3 DEF AtTypeOK, Reading, ListPhases, DayPhases, ChainPhases
-----------------------------------------------------------------------------
LEMMA NowhereIs == Nowhere \in Places /\ Nowhere.phase = "idle"
<1>1. << >> \in Seq(Entries) /\ << >> \in Seq(Steps)
  OBVIOUS
<1> QED
  BY <1>1 DEF Nowhere, Places, Phases

LEMMA TypeInit == RunInit => RunTypeOK
<1> SUFFICES ASSUME RunInit
             PROVE  RunTypeOK
  OBVIOUS
<1>1. run = NoRun /\ at = Nowhere /\ tally = NoTally /\ chained = NoneChained
      /\ zips = [d \in UNION {j.from..j.to : j \in RunJobs} |-> "none"] /\ ended = "none"
  BY DEF RunInit
<1>2. tally \in [failures : Nat, days : Nat]
  BY <1>1 DEF NoTally
<1>3. chained \in [loaded : Seq(Reports), rows : Seq(Rows)]
  <2>1. << >> \in Seq(Reports) /\ << >> \in Seq(Rows)
    OBVIOUS
  <2> QED
    BY <1>1, <2>1 DEF NoneChained
<1>4. \A d \in DOMAIN zips : zips[d] # "good"
  BY <1>1
<1>5. UNION {j.from..j.to : j \in RunJobs} \subseteq DOMAIN zips
  BY <1>1
<1>6. AtTypeOK
  <2>1. at \in Places /\ at.phase = "idle"
    BY <1>1, NowhereIs
  <2> QED
    BY <2>1 DEF AtTypeOK, ListPhases, DayPhases, ChainPhases, Reading
<1> QED
  BY <1>1, <1>2, <1>3, <1>4, <1>5, <1>6 DEF RunTypeOK

(* Where each action goes is a place the command may be in.                *)
LEMMA AtTypeStep ==
    ASSUME RunTypeOK, [RunNext]_runVars
    PROVE  AtTypeOK' /\ (at'.phase # "idle" => ended' = "none")
<1>1. AtTypeOK /\ at \in Places /\ (at.phase # "idle" => ended = "none")
  BY DEF RunTypeOK, AtTypeOK
<1>2. CASE GiveRun
  <2>1. PICK j \in RunJobs :
           /\ run' = j /\ ended' = IF RefusesRun(j) THEN "refused" ELSE "none"
           /\ at' = IF RefusesRun(j) THEN Nowhere
                    ELSE [Nowhere EXCEPT !.phase = IF j.cmd = "filings" THEN "list" ELSE "day", !.day = j.from]
    BY <1>2 DEF GiveRun
  <2>2. CASE RefusesRun(j)
    BY <2>1, <2>2, GoesNowhere
  <2>3. CASE ~RefusesRun(j)
    <3>1. << >> \in Seq(Entries) /\ << >> \in Seq(Steps)
      OBVIOUS
    <3>2. Nowhere \in Places
      BY <3>1 DEF Nowhere, Places, Phases
    <3>3. j.from \in Nat /\ j.to \in Nat /\ j.cmd \in {"filings", "backfill"}
      BY RunJobsAssumption
    <3>4. at' \in Places /\ at'.day = j.from /\ at'.phase = IF j.cmd = "filings" THEN "list" ELSE "day"
      BY <2>1, <2>3, <3>2, <3>3 DEF Places, Phases, ListPhases, DayPhases
    <3>5. j.cmd = "backfill" => j.from \in j.from..j.to
      BY <2>3, <3>3 DEF RefusesRun
    <3> QED
      BY <2>1, <2>3, <3>3, <3>4, <3>5 DEF AtTypeOK, Reading, ListPhases, DayPhases, ChainPhases
  <2> QED
    BY <2>2, <2>3
<1>3. CASE List
  <2>1. at.phase = "list" /\ run' = run
    BY <1>3 DEF List
  <2>2. CASE at' = [at EXCEPT !.phase = "each", !.todo = Taken(run)] /\ UNCHANGED ended
    <3>1. run \in RunJobs /\ run.cmd = "filings" /\ Taken(run) \in Seq(ListEntries)
      BY <1>1, <2>1, ListingIs DEF AtTypeOK, ListPhases
    <3>2. Taken(run) \in Seq(Entries)
      BY <3>1, SeqMonotonic, ListEntries \subseteq Entries DEF Entries
    <3>3. at' \in Places /\ at'.phase = "each" /\ at'.todo = Taken(run)
      BY <1>1, <2>2, <3>2 DEF Places, Phases, ListPhases
    <3>4. AtTypeOK'
      BY <2>1, <3>1, <3>3, Begins
    <3> QED
      BY <1>1, <2>1, <2>2, <3>4
  <2>3. CASE at' = Nowhere
    BY <2>3, GoesNowhere
  <2> QED
    BY <1>3, <2>2, <2>3 DEF List
<1>4. CASE Each
  <2>1. at.phase = "each" /\ run' = run /\ Reading
    BY <1>4 DEF Each, Reading
  <2>2. run \in RunJobs /\ run.cmd = "filings"
    BY <1>1, <2>1 DEF AtTypeOK, ListPhases
  <2>3. CASE at.todo # << >>
    <3>1. ended' = ended
      BY <1>4, <2>3 DEF Each
    <3>2. CASE at' = [at EXCEPT !.todo = Tail(@)]
      <4>1. Tail(at.todo) \in Seq(Entries)
        BY <1>1, <2>1, <2>3, ThisFilingIs
      <4>2. at' \in Places /\ at'.phase = "each" /\ at'.todo = Tail(at.todo) /\ at'.day = at.day
        BY <1>1, <2>1, <3>2, <4>1 DEF Places
      <4>3. AtTypeOK'
        BY <1>1, <2>1, <2>2, <2>3, <4>2, GoesPast
      <4> QED
        BY <1>1, <2>1, <3>1, <4>3
    <3>3. CASE /\ ThisFiling.id # 0
               /\ at' = [at EXCEPT !.phase = "fetch", !.via = ThisFiling.hint, !.wrong = FALSE]
      <4>1. ThisFiling.hint \in {"store", "other"}
        BY <1>1, <2>1, <2>2, <2>3, ThisFilingIs DEF ListEntries
      <4>2. at' \in Places /\ at'.phase = "fetch" /\ at'.todo = at.todo /\ at'.day = at.day
        BY <1>1, <2>1, <3>3, <4>1 DEF Places, Phases, ListPhases
      <4>3. AtTypeOK'
        BY <1>1, <2>1, <2>2, <2>3, <3>3, <4>2, GoesOn
      <4> QED
        BY <1>1, <2>1, <3>1, <4>3
    <3> QED
      BY <1>4, <2>3, <3>2, <3>3 DEF Each
  <2>4. CASE at.todo = << >> /\ run.chain
    <3>1. at' = [at EXCEPT !.phase = "chain", !.todo = Taken(run)] /\ ended' = ended
      BY <1>4, <2>4 DEF Each
    <3>2. Taken(run) \in Seq(Entries)
      BY <2>2, ListingIs, SeqMonotonic, ListEntries \subseteq Entries DEF Entries
    <3>3. at' \in Places /\ at'.phase = "chain" /\ at'.todo = Taken(run)
      BY <1>1, <3>1, <3>2 DEF Places, Phases, ChainPhases
    <3>4. AtTypeOK'
      BY <2>1, <2>2, <2>4, <3>3, Begins
    <3> QED
      BY <1>1, <2>1, <3>1, <3>4
  <2>5. CASE at.todo = << >> /\ ~run.chain
    <3>1. at' = Nowhere
      BY <1>4, <2>5 DEF Each, RunEnds
    <3> QED
      BY <3>1, GoesNowhere
  <2> QED
    BY <2>3, <2>4, <2>5
<1>5. CASE FetchBytes
  <2>1. at.phase \in {"fetch", "chainFetch"} /\ run' = run /\ ended' = ended /\ Reading
    BY <1>5 DEF FetchBytes, Reading
  <2>2. /\ run \in RunJobs /\ run.cmd = "filings" /\ at.todo # << >> /\ ThisFiling.id # 0
        /\ at.phase = "chainFetch" => run.chain
    BY <1>1, <2>1, FilingsAssumption DEF AtTypeOK, ListPhases, ChainPhases
  <2>3. CASE at' = [at EXCEPT !.phase = Got(@), !.left = StepsOf(run)]
    <3>1. StepsOf(run) \in Seq(Steps)
      BY <2>2, StepsAre
    <3>2. /\ at' \in Places /\ at'.todo = at.todo /\ at'.day = at.day
          /\ at'.phase = IF at.phase = "fetch" THEN "apply" ELSE "load"
      BY <1>1, <2>1, <2>3, <3>1 DEF Places, Phases, ChainPhases, Got
    <3> QED
      BY <1>1, <2>1, <2>2, <3>2, GoesOn
  <2>4. CASE at' = [at EXCEPT !.via = "store"]
    <3>1. at' \in Places /\ at'.todo = at.todo /\ at'.day = at.day /\ at'.phase = at.phase
      BY <1>1, <2>4 DEF Places
    <3> QED
      BY <1>1, <2>1, <2>2, <3>1, GoesOn
  <2>5. CASE at' = [at EXCEPT !.phase = IF at.phase = "fetch" THEN "each" ELSE "chain", !.todo = Tail(@)]
    <3>1. Tail(at.todo) \in Seq(Entries)
      BY <1>1, <2>1, <2>2, ThisFilingIs
    <3>2. /\ at' \in Places /\ at'.todo = Tail(at.todo) /\ at'.day = at.day
          /\ at'.phase = IF at.phase = "fetch" THEN "each" ELSE "chain"
      BY <1>1, <2>1, <2>5, <3>1 DEF Places, Phases, ListPhases, ChainPhases
    <3> QED
      BY <1>1, <2>1, <2>2, <3>2, GoesPast
  <2> QED
    BY <1>5, <2>1, <2>3, <2>4, <2>5 DEF FetchBytes
<1>6. CASE Apply
  <2>1. at.phase = "apply" /\ at.left # << >> /\ run' = run /\ ended' = ended /\ Reading
    BY <1>6 DEF Apply, Reading
  <2>2. PICK w \in BOOLEAN : at' = [at EXCEPT !.left = Tail(@), !.wrong = w]
    <3>1. at.wrong \in BOOLEAN /\ \A b : (at.wrong \/ b) \in BOOLEAN
      BY <1>1 DEF Places
    <3>2. \E b : at' = [at EXCEPT !.left = Tail(@), !.wrong = @ \/ b]
      BY <1>6 DEF Apply
    <3> QED
      BY <3>1, <3>2
  <2>3. at.left \in Seq(Steps) /\ Tail(at.left) \in Seq(Steps)
    BY <1>1, <2>1, HeadTailProperties DEF Places
  <2>4. at' \in Places /\ at'.todo = at.todo /\ at'.day = at.day /\ at'.phase = at.phase
    BY <1>1, <2>2, <2>3 DEF Places
  <2>5. Source' = Source /\ ThisFiling' = ThisFiling /\ Wanted(run.from..run.to)' = Wanted(run.from..run.to)
    BY <2>1, <2>4 DEF Source, ThisFiling, Wanted
  <2> QED
    BY <1>1, <2>1, <2>4, <2>5 DEF AtTypeOK, Reading, ListPhases, DayPhases, ChainPhases
<1>7. CASE Applied
  <2>1. at.phase = "apply" /\ run' = run /\ ended' = ended /\ Reading /\ at.todo # << >>
        /\ at' = [at EXCEPT !.phase = IF run.cmd = "filings" THEN "each" ELSE "entries", !.todo = Tail(@)]
    BY <1>1, <1>7 DEF Applied, Reading, AtTypeOK
  <2>2. Tail(at.todo) \in Seq(Entries) /\ run.cmd \in {"filings", "backfill"}
    BY <1>1, <2>1, ThisFilingIs, SourceIs
  <2>3. /\ at' \in Places /\ at'.todo = Tail(at.todo) /\ at'.day = at.day
        /\ at'.phase = IF run.cmd = "filings" THEN "each" ELSE "entries"
    BY <1>1, <2>1, <2>2 DEF Places, Phases, ListPhases, DayPhases
  <2> QED
    BY <1>1, <2>1, <2>2, <2>3, GoesPast
<1>8. CASE OpenDay
  <2>1. at.phase = "day" /\ run' = run
    BY <1>8 DEF OpenDay
  <2>2. run \in RunJobs /\ run.cmd = "backfill" /\ at.day \in run.from..run.to /\ run.from \in Nat /\ run.to \in Nat
    BY <1>1, <2>1, RunJobsAssumption DEF AtTypeOK, DayPhases
  <2>3. CASE ArchiveOpens /\ at.day \in DOMAIN Archive
    <3>1. Archive[at.day] \in Seq(Entries)
      BY <2>3, ArchiveIs, SeqMonotonic, Archived \subseteq Entries DEF Entries
    <3>2. at' = [at EXCEPT !.phase = "entries", !.todo = Archive[at.day]] /\ ended' = ended
      BY <2>3 DEF ArchiveOpens
    <3>3. at' \in Places /\ at'.phase = "entries" /\ at'.day = at.day /\ at'.todo = Archive[at.day]
      BY <1>1, <3>1, <3>2 DEF Places, Phases, DayPhases
    <3>4. AtTypeOK'
      BY <2>1, <2>2, <2>3, <3>3, Begins
    <3> QED
      BY <1>1, <2>1, <3>2, <3>4
  <2>4. CASE DayIsLost /\ LastDay(at.day)
    BY <2>4, GoesNowhere DEF DayIsLost, RunEnds
  <2>5. CASE DayIsLost /\ ~LastDay(at.day)
    <3>1. at' = [at EXCEPT !.day = @ + 1] /\ ended' = ended
      BY <2>5 DEF DayIsLost
    <3>2. at.day + 1 \in run.from..run.to /\ at.day + 1 \in Nat
      BY <2>2, <2>5 DEF LastDay
    <3>3. at' \in Places /\ at'.phase = "day" /\ at'.day = at.day + 1
      BY <1>1, <2>1, <3>1, <3>2 DEF Places
    <3>4. AtTypeOK'
      BY <2>1, <2>2, <3>2, <3>3, Begins
    <3> QED
      BY <1>1, <2>1, <3>1, <3>4
  <2>6. zips[at.day] = "good" => at.day \in DOMAIN Archive
    <3>1. at.day \in DOMAIN zips
      BY <2>2 DEF RunTypeOK
    <3> QED
      BY <3>1 DEF RunTypeOK
  <2>7. \/ zips[at.day] = "good" /\ ArchiveOpens
        \/ at.day \in DOMAIN Archive /\ ArchiveOpens
        \/ DayIsLost
    BY <1>8 DEF OpenDay
  <2> QED
    BY <2>3, <2>4, <2>5, <2>6, <2>7
<1>9. CASE ReadEntry
  <2>1. at.phase = "entries" /\ run' = run /\ ended' = ended /\ Reading /\ at.todo # << >>
    BY <1>9 DEF ReadEntry, Reading
  <2>2. run \in RunJobs /\ run.cmd = "backfill"
    BY <1>1, <2>1 DEF AtTypeOK, DayPhases
  <2>3. CASE at' = [at EXCEPT !.todo = Tail(@)]
    <3>1. Tail(at.todo) \in Seq(Entries)
      BY <1>1, <2>1, ThisFilingIs
    <3>2. at' \in Places /\ at'.todo = Tail(at.todo) /\ at'.day = at.day /\ at'.phase = "entries"
      BY <1>1, <2>1, <2>3, <3>1 DEF Places
    <3> QED
      BY <1>1, <2>1, <2>2, <3>2, GoesPast
  <2>4. CASE /\ IsFiling(ThisFiling) /\ FormMatches(ThisFiling.id, run.filter)
             /\ at' = [at EXCEPT !.phase = "apply", !.left = StepsOf(run), !.wrong = FALSE]
    <3>1. StepsOf(run) \in Seq(Steps)
      BY <2>2, StepsAre
    <3>2. at' \in Places /\ at'.todo = at.todo /\ at'.day = at.day /\ at'.phase = "apply"
      BY <1>1, <2>1, <2>4, <3>1 DEF Places, Phases
    <3>3. ThisFiling.id # 0 /\ IsOf(ThisFiling.id, run.filter)
      BY <2>4, FilterIs DEF IsFiling
    <3> QED
      BY <1>1, <2>1, <2>2, <2>4, <3>2, <3>3, GoesOn
  <2> QED
    BY <1>9, <2>3, <2>4 DEF ReadEntry
<1>10. CASE DayEnds
  <2>1. at.phase = "entries" /\ run' = run
    BY <1>10 DEF DayEnds
  <2>2. run \in RunJobs /\ run.cmd = "backfill" /\ at.day \in run.from..run.to /\ run.from \in Nat /\ run.to \in Nat
    BY <1>1, <2>1, RunJobsAssumption DEF AtTypeOK, DayPhases
  <2>3. CASE LastDay(at.day)
    BY <1>10, <2>3, GoesNowhere DEF DayEnds, RunEnds
  <2>4. CASE ~LastDay(at.day)
    <3>1. at' = [at EXCEPT !.phase = "day", !.day = @ + 1] /\ ended' = ended
      BY <1>10, <2>4 DEF DayEnds
    <3>2. at.day + 1 \in run.from..run.to /\ at.day + 1 \in Nat
      BY <2>2, <2>4 DEF LastDay
    <3>3. at' \in Places /\ at'.phase = "day" /\ at'.day = at.day + 1
      BY <1>1, <2>1, <3>1, <3>2 DEF Places, Phases, DayPhases
    <3>4. AtTypeOK'
      BY <2>1, <2>2, <3>2, <3>3, Begins
    <3> QED
      BY <1>1, <2>1, <3>1, <3>4
  <2> QED
    BY <2>3, <2>4
<1>11. CASE LoadReport
  <2>1. at.phase = "load" /\ run' = run /\ ended' = ended /\ Reading /\ at.todo # << >>
        /\ at' = [at EXCEPT !.phase = "chain", !.todo = Tail(@)]
    BY <1>1, <1>11 DEF LoadReport, Reading, AtTypeOK
  <2>2. run.cmd = "filings" /\ run.chain /\ Tail(at.todo) \in Seq(Entries)
    BY <1>1, <2>1, ThisFilingIs DEF AtTypeOK, ChainPhases
  <2>3. at' \in Places /\ at'.todo = Tail(at.todo) /\ at'.day = at.day /\ at'.phase = "chain"
    BY <1>1, <2>1, <2>2 DEF Places, Phases, ChainPhases
  <2> QED
    BY <1>1, <2>1, <2>2, <2>3, GoesPast
<1>12. CASE Chain
  <2>1. at.phase = "chain" /\ run' = run /\ Reading
    BY <1>12 DEF Chain, Reading
  <2>2. run.cmd = "filings" /\ run.chain
    BY <1>1, <2>1 DEF AtTypeOK, ChainPhases
  <2>3. CASE at.todo # << >>
    <3>1. /\ ended' = ended
          /\ at' = IF ThisFiling.id = 0 THEN [at EXCEPT !.todo = Tail(@)]
                   ELSE [at EXCEPT !.phase = "chainFetch", !.via = ThisFiling.hint]
      BY <1>12, <2>3 DEF Chain
    <3>2. Tail(at.todo) \in Seq(Entries) /\ ThisFiling.hint \in {"store", "other"}
      BY <1>1, <2>1, <2>2, <2>3, ThisFilingIs DEF ListEntries
    <3>3. CASE ThisFiling.id = 0
      <4>1. at' \in Places /\ at'.phase = "chain" /\ at'.todo = Tail(at.todo) /\ at'.day = at.day
        BY <1>1, <2>1, <3>1, <3>2, <3>3 DEF Places
      <4> QED
        BY <1>1, <2>1, <2>2, <2>3, <3>1, <4>1, GoesPast
    <3>4. CASE ThisFiling.id # 0
      <4>1. at' \in Places /\ at'.phase = "chainFetch" /\ at'.todo = at.todo /\ at'.day = at.day
        BY <1>1, <2>1, <3>1, <3>2, <3>4 DEF Places, Phases, ChainPhases
      <4> QED
        BY <1>1, <2>1, <2>2, <2>3, <3>1, <3>4, <4>1, GoesOn
    <3> QED
      BY <3>3, <3>4
  <2>4. CASE at.todo = << >>
    BY <1>12, <2>4, GoesNowhere DEF Chain, RunEnds
  <2> QED
    BY <2>3, <2>4
<1>13. CASE KillRun
  BY <1>13, GoesNowhere DEF KillRun
<1>14. CASE ClearCache
  BY <1>1, <1>14, StaysAt DEF ClearCache
<1>15. CASE UNCHANGED runVars
  BY <1>1, <1>15, StaysAt DEF runVars
<1> QED
  BY <1>2, <1>3, <1>4, <1>5, <1>6, <1>7, <1>8, <1>9, <1>10, <1>11, <1>12, <1>13, <1>14, <1>15 DEF RunNext
-----------------------------------------------------------------------------
(* The reports of a chain.                                                 *)
LEMMA ReportIs ==
    ASSUME NEW r \in Reports
    PROVE  /\ r.id \in DOMAIN Known /\ r = Loaded(r.id)
           /\ r.from = Known[r.id].from /\ r.through = Known[r.id].through /\ r.filer = Known[r.id].filer
           /\ r.form = Known[r.id].form /\ r.rules = Known[r.id].rules
           /\ r.from \in Nat /\ r.through \in Nat /\ r.rules \in BOOLEAN
<1>1. PICK id \in DOMAIN Known : r = Loaded(id)
  BY DEF Reports
<1>2. r.id = id
  BY <1>1 DEF Loaded
<1> QED
  BY <1>1, <1>2, FilingsAssumption DEF Loaded

(* Sorted, they are the same reports, each as often as before.             *)
LEMMA OrderedIs ==
    ASSUME NEW loaded \in Seq(Reports)
    PROVE  /\ Ordered(loaded) \in Seq(Reports) /\ Len(Ordered(loaded)) = Len(loaded)
           /\ \A k \in 1..Len(loaded) : \E i \in 1..Len(loaded) : loaded[i] = Ordered(loaded)[k]
           /\ \A i \in 1..Len(loaded) : \E k \in 1..Len(loaded) : Ordered(loaded)[k] = loaded[i]
<1> DEFINE n == Len(loaded)
           P == 1..n
           R == {p \in P \X P : Earlier(loaded, p[1], p[2])}
           Before(i) == Cardinality({j \in P : Earlier(loaded, j, i)})
<1>1. n \in Nat
  OBVIOUS
<1>2. IsFiniteSet(P) /\ Cardinality(P) = n
  <2> HIDE DEF n
  <2>1. IsFiniteSet(1..n) /\ Cardinality(1..n) = IF 1 > n THEN 0 ELSE n - 1 + 1
    BY <1>1, FS_Interval
  <2> QED
    BY <1>1, <2>1
<1>3. \A i \in P : loaded[i] \in Reports /\ loaded[i].from \in Nat /\ loaded[i].through \in Nat
  BY ReportIs
<1>4. Orders(R, P)
  <2>1. \A i \in P : ~Earlier(loaded, i, i)
    BY <1>3 DEF Earlier
  <2>2. \A i, j \in P : i # j => Earlier(loaded, i, j) \/ Earlier(loaded, j, i)
    BY <1>1, <1>3 DEF Earlier
  <2>3. \A i, j, k \in P : Earlier(loaded, i, j) /\ Earlier(loaded, j, k) => Earlier(loaded, i, k)
    BY <1>1, <1>3 DEF Earlier
  <2> QED
    BY <2>1, <2>2, <2>3 DEF Orders
<1>5. \A i \in P : Rank(R, P, i) = Before(i)
  <2> SUFFICES ASSUME NEW i \in P
               PROVE  Rank(R, P, i) = Before(i)
    OBVIOUS
  <2>1. {j \in P : <<j, i>> \in R} = {j \in P : Earlier(loaded, j, i)}
    OBVIOUS
  <2> QED
    BY <2>1 DEF Rank
<1>6. /\ \A i \in P : Before(i) \in 0..(n - 1)
      /\ \A i, j \in P : Before(i) = Before(j) => i = j
      /\ \A k \in 1..n : \E i \in P : Before(i) = k - 1
  <2> HIDE DEF Before, R, P
  <2>1. /\ \A i \in P : Rank(R, P, i) \in 0..(Cardinality(P) - 1)
        /\ \A i, j \in P : Rank(R, P, i) = Rank(R, P, j) => i = j
        /\ \A k \in 1..Cardinality(P) : \E i \in P : Rank(R, P, i) = k - 1
    BY <1>2, <1>4, RanksAreAll
  <2> QED
    BY <1>2, <1>5, <2>1
<1>7. Ordered(loaded) = [k \in P |-> loaded[CHOOSE i \in P : Before(i) = k - 1]]
  BY DEF Ordered
<1> DEFINE Of(k) == CHOOSE i \in P : Before(i) = k - 1
<1>8. ASSUME NEW k \in P
      PROVE  Of(k) \in P /\ Before(Of(k)) = k - 1 /\ Ordered(loaded)[k] = loaded[Of(k)]
  <2>1. \E i \in P : Before(i) = k - 1
    BY <1>6
  <2>2. Of(k) \in P /\ Before(Of(k)) = k - 1
    <3> HIDE DEF Before, P
    <3> QED
      BY <2>1
  <2>3. Ordered(loaded)[k] = loaded[Of(k)]
    BY <1>7
  <2> QED
    BY <2>2, <2>3
<1> HIDE DEF Of, Before
<1>9. Ordered(loaded) \in Seq(Reports) /\ Len(Ordered(loaded)) = n
  <2>1. DOMAIN Ordered(loaded) = P /\ Ordered(loaded) = [k \in P |-> Ordered(loaded)[k]]
    BY <1>7
  <2>2. \A k \in P : Ordered(loaded)[k] \in Reports
    BY <1>3, <1>8
  <2>3. Ordered(loaded) \in [1..n -> Reports]
    <3> HIDE DEF n
    <3> QED
      BY <2>1, <2>2
  <2> QED
    BY <1>1, <2>1, <2>3, LenProperties
<1>10. ASSUME NEW i \in P
       PROVE  \E k \in P : Ordered(loaded)[k] = loaded[i]
  <2> DEFINE k == Before(i) + 1
  <2>1. Before(i) \in 0..(n - 1)
    BY <1>6
  <2>2. k \in P /\ k - 1 = Before(i)
    <3> HIDE DEF n
    <3> QED
      BY <1>1, <2>1
  <2> HIDE DEF k
  <2>3. Of(k) \in P /\ Before(Of(k)) = Before(i)
    BY <1>8, <2>2
  <2>4. Of(k) = i
    BY <1>6, <2>3
  <2> QED
    BY <1>8, <2>2, <2>4
<1> QED
  BY <1>8, <1>9, <1>10

LEMMA DayIsInt ==
    ASSUME NEW d \in Nat
    PROVE  YearOfDay(d) \in Int /\ YearOfDay(d) * YearDays + 1 \in Int
BY RunJobsAssumption DEF YearOfDay

(* A row of a chain is of one of its reports, and sound.                   *)
LEMMA ChainRowIs ==
    ASSUME NEW loaded \in Seq(Reports), NEW k \in 1..Len(loaded)
    PROVE  ChainRow(k, loaded) \in Rows /\ ChainRow(k, loaded).id = loaded[k].id /\ RowIsSound(ChainRow(k, loaded))
<1> DEFINE r == loaded[k]
           before == {i \in 1..k - 1 : loaded[i].form = r.form}
           broken == ~r.rules \/ ChainBroken(r, loaded, before)
           summed == IF broken THEN {} ELSE Summed(r, {loaded[i] : i \in before})
           row == [id |-> r.id, error |-> broken, summed |-> {p.id : p \in summed},
                   gaps |-> ~broken /\ HasGaps(r, summed)]
           of == [id \in row.summed |-> Known[id]]
<1>1. ChainRow(k, loaded) = row
  BY DEF ChainRow
<1>2. r \in Reports /\ \A i \in before : loaded[i] \in Reports
  OBVIOUS
<1>3. \A p \in summed : p \in Reports /\ (p = r \/ \E i \in before : p = loaded[i])
  BY <1>2 DEF Summed
<1>4. row.id \in DOMAIN Known /\ row.summed \subseteq DOMAIN Known
  <2>1. row.id = r.id /\ row.summed = {p.id : p \in summed}
    OBVIOUS
  <2> HIDE DEF r, before, summed, row
  <2>2. \A p \in summed : p.id \in DOMAIN Known
    BY <1>3, ReportIs
  <2> QED
    BY <1>2, <2>1, <2>2, ReportIs
<1>5. broken \in BOOLEAN /\ (~broken /\ HasGaps(r, summed)) \in BOOLEAN
  BY DEF ChainBroken, HasGaps
<1>6. row \in Rows
  <2> HIDE DEF broken, summed
  <2> QED
    BY <1>4, <1>5 DEF Rows
<1>7. ASSUME NEW a \in row.summed, NEW b \in row.summed, a # b
      PROVE  ~Overlap(of[a], of[b]) /\ of[a].filer = of[b].filer
  <2>1. PICK p \in summed, q \in summed : p.id = a /\ q.id = b
    OBVIOUS
  <2>2. ~broken
    BY <2>1
  <2>3. /\ of[a].from = p.from /\ of[a].through = p.through /\ of[a].filer = p.filer
        /\ of[b].from = q.from /\ of[b].through = q.through /\ of[b].filer = q.filer
        /\ p.from \in Nat /\ p.through \in Nat /\ q.from \in Nat /\ q.through \in Nat
    BY <1>3, <2>1, ReportIs
  <2>4. p = r \/ \E i \in before : p = loaded[i]
    BY <1>3
  <2>5. q = r \/ \E i \in before : q = loaded[i]
    BY <1>3
  <2>6. ~ChainBroken(r, loaded, before)
    BY <2>2
  <2> HIDE DEF r, before, summed, broken, of
  <2>7. /\ \A i \in before : loaded[i].filer = r.filer /\ ~(loaded[i].through >= r.from)
        /\ \A i, j \in before : i # j => ~Overlap(loaded[i], loaded[j])
    BY <2>6 DEF ChainBroken
  <2>8. ~Overlap(p, q) /\ p.filer = q.filer
    <3>1. p # q
      BY <1>7, <2>1
    <3>2. CASE p = r
      BY <2>3, <2>5, <2>7, <3>1, <3>2 DEF Overlap
    <3>3. CASE q = r
      BY <2>3, <2>4, <2>7, <3>1, <3>3 DEF Overlap
    <3>4. CASE p # r /\ q # r
      BY <2>4, <2>5, <2>7, <3>1, <3>4
    <3> QED
      BY <3>2, <3>3, <3>4
  <2> QED
    BY <2>3, <2>8 DEF Overlap
<1>8. ASSUME ~row.error, ~row.gaps, of[row.id].form = "F3X",
             NEW d \in YearOfDay(of[row.id].from) * YearDays + 1..of[row.id].through
      PROVE  \E a \in row.summed : d \in of[a].from..of[a].through
  <2>1. ~broken /\ ~HasGaps(r, summed)
    BY <1>8
  <2>2. r \in summed /\ r.id \in row.summed
    BY <2>1 DEF Summed
  <2>3. of[row.id] = Known[r.id] /\ r.from = of[row.id].from /\ r.through = of[row.id].through /\ r.form = "F3X"
    BY <1>2, <1>8, <2>2, ReportIs
  <2>4. r.from \in Nat /\ r.through \in Nat
    BY <1>2, ReportIs
  <2>5. PeriodStart(r, summed) = YearOfDay(r.from) * YearDays + 1
    BY <2>3 DEF PeriodStart
  <2>6. YearOfDay(r.from) * YearDays + 1 \in Int
    BY <2>4, DayIsInt
  <2>7. d \in Int /\ PeriodStart(r, summed) <= d /\ d <= r.through
    <3> DEFINE start == YearOfDay(r.from) * YearDays + 1
    <3>1. d \in start..r.through
      BY <1>8, <2>3
    <3> HIDE DEF start, r
    <3> QED
      BY <2>4, <2>5, <2>6, <3>1 DEF start
  <2>8. CASE d >= r.from
    <3>1. d \in of[row.id].from..of[row.id].through
      <4> HIDE DEF r, summed, broken, of, row
      <4> QED
        BY <2>3, <2>4, <2>7, <2>8
    <3> QED
      BY <2>2, <3>1
  <2>9. CASE ~(d >= r.from)
    <3>1. d \in PeriodStart(r, summed)..r.from - 1
      <4> DEFINE start == PeriodStart(r, summed)
      <4>1. start \in Int
        BY <2>5, <2>6
      <4> HIDE DEF start, r
      <4> QED
        BY <2>4, <2>7, <2>9, <4>1 DEF start
    <3>2. d \in Days(summed)
      BY <2>1, <3>1 DEF HasGaps
    <3>3. PICK p \in summed : d \in p.from..p.through
      BY <3>2 DEF Days
    <3>4. p.id \in row.summed /\ of[p.id] = Known[p.id]
      OBVIOUS
    <3>5. of[p.id].from = p.from /\ of[p.id].through = p.through
      BY <1>3, <3>4, ReportIs
    <3> QED
      BY <3>3, <3>4, <3>5
  <2> QED
    BY <2>8, <2>9
<1>9. RowIsSound(row)
  <2>1. \A a, b \in row.summed : a # b => ~Overlap(of[a], of[b]) /\ of[a].filer = of[b].filer
    BY <1>7
  <2>2. ~row.error /\ ~row.gaps /\ of[row.id].form = "F3X" =>
          \A d \in YearOfDay(of[row.id].from) * YearDays + 1..of[row.id].through :
             \E a \in row.summed : d \in of[a].from..of[a].through
    BY <1>8
  <2> QED
    BY <2>1, <2>2 DEF RowIsSound
<1> QED
  BY <1>1, <1>6, <1>9

LEMMA ErrorRowIs ==
    ASSUME NEW id \in DOMAIN Known
    PROVE  ErrorRow(id) \in Rows /\ ErrorRow(id).id = id /\ RowIsSound(ErrorRow(id))
BY DEF ErrorRow, Rows, RowIsSound
-----------------------------------------------------------------------------
(* The other state keeps its type.                                         *)
LEMMA TallyStep ==
    ASSUME RunTypeOK, [RunNext]_runVars
    PROVE  tally' \in [failures : Nat, days : Nat] /\ run' \in RunJobs \cup {NoRun}
<1>1. tally \in [failures : Nat, days : Nat] /\ tally.failures \in Nat /\ tally.days \in Nat
      /\ run \in RunJobs \cup {NoRun}
  BY DEF RunTypeOK
<1>2. \/ run' = run \/ run' \in RunJobs
  BY DEF RunNext, runVars, GiveRun, List, Each, FetchBytes, Apply, Applied, OpenDay, ReadEntry, DayEnds, LoadReport,
         Chain, KillRun, ClearCache
<1>3. \/ tally' = tally \/ tally' = NoTally
      \/ tally' = [tally EXCEPT !.failures = @ + 1] \/ tally' = [tally EXCEPT !.days = @ + 1]
  <2>1. CASE OpenDay
    BY <2>1 DEF OpenDay, ArchiveOpens, DayIsLost
  <2>2. CASE ~OpenDay
    BY <2>2 DEF RunNext, runVars, GiveRun, List, Each, FetchBytes, Apply, Applied, ReadEntry, DayEnds, LoadReport,
                Chain, KillRun, ClearCache
  <2> QED
    BY <2>1, <2>2
<1> QED
  BY <1>1, <1>2, <1>3 DEF NoTally

LEMMA ZipsStep ==
    ASSUME RunTypeOK, [RunNext]_runVars
    PROVE  /\ \A d \in DOMAIN zips' : zips'[d] = "good" => d \in DOMAIN Archive
           /\ UNION {j.from..j.to : j \in RunJobs} \subseteq DOMAIN zips'
<1>1. /\ \A d \in DOMAIN zips : zips[d] = "good" => d \in DOMAIN Archive
      /\ UNION {j.from..j.to : j \in RunJobs} \subseteq DOMAIN zips
  BY DEF RunTypeOK
<1>2. CASE OpenDay
  <2>1. \/ zips' = zips \/ zips' = [zips EXCEPT ![at.day] = "bad"]
        \/ at.day \in DOMAIN Archive /\ zips' = [zips EXCEPT ![at.day] = "good"]
    BY <1>2 DEF OpenDay
  <2> QED
    BY <1>1, <2>1
<1>3. CASE ClearCache
  BY <1>1, <1>3 DEF ClearCache
<1>4. CASE ~OpenDay /\ ~ClearCache
  <2>1. zips' = zips
    BY <1>4 DEF RunNext, runVars, GiveRun, List, Each, FetchBytes, Apply, Applied, ReadEntry, DayEnds, LoadReport,
                Chain, KillRun
  <2> QED
    BY <1>1, <2>1
<1> QED
  BY <1>2, <1>3, <1>4

LEMMA IdsAppend ==
    ASSUME NEW S, NEW s \in Seq(S), NEW x \in S
    PROVE  /\ Append(s, x) \in Seq(S) /\ Len(Append(s, x)) = Len(s) + 1 /\ IdsOf(Append(s, x)) = IdsOf(s) \cup {x.id}
           /\ \A i \in DOMAIN Append(s, x) : (i \in DOMAIN s /\ Append(s, x)[i] = s[i]) \/ Append(s, x)[i] = x
<1>1. /\ Append(s, x) \in Seq(S) /\ Len(Append(s, x)) = Len(s) + 1
      /\ \A i \in 1..Len(s) : Append(s, x)[i] = s[i]
      /\ Append(s, x)[Len(s) + 1] = x
  BY AppendProperties
<1>2. DOMAIN s = 1..Len(s) /\ DOMAIN Append(s, x) = 1..Len(s) + 1 /\ Len(s) \in Nat
  BY <1>1, LenProperties
<1>3. \A i \in DOMAIN Append(s, x) : (i \in DOMAIN s /\ Append(s, x)[i] = s[i]) \/ Append(s, x)[i] = x
  BY <1>1, <1>2
<1>4. \A i \in DOMAIN s : i \in DOMAIN Append(s, x) /\ Append(s, x)[i] = s[i]
  BY <1>1, <1>2
<1>5. Len(s) + 1 \in DOMAIN Append(s, x)
  BY <1>2
<1>6. IdsOf(Append(s, x)) \subseteq IdsOf(s) \cup {x.id}
  BY <1>3 DEF IdsOf
<1>7. IdsOf(s) \cup {x.id} \subseteq IdsOf(Append(s, x))
  BY <1>1, <1>4, <1>5 DEF IdsOf
<1> QED
  BY <1>1, <1>3, <1>6, <1>7

LEMMA PutTogether ==
    ASSUME NEW S, NEW s \in Seq(S), NEW t \in Seq(S)
    PROVE  /\ s \o t \in Seq(S) /\ Len(s \o t) = Len(s) + Len(t) /\ DOMAIN (s \o t) = 1..Len(s) + Len(t)
           /\ \A i \in 1..Len(s) + Len(t) : (s \o t)[i] = IF i <= Len(s) THEN s[i] ELSE t[i - Len(s)]
<1>1. /\ s \o t \in Seq(S) /\ Len(s \o t) = Len(s) + Len(t)
      /\ \A i \in 1..Len(s) + Len(t) : (s \o t)[i] = IF i <= Len(s) THEN s[i] ELSE t[i - Len(s)]
  BY ConcatProperties
<1> QED
  BY <1>1, LenProperties

(* The rows there are at the end: those of what failed, and one for each   *)
(* report, in the order of its days.                                       *)
LEMMA RowsAdded ==
    ASSUME NEW loaded \in Seq(Reports), NEW rows \in Seq(Rows), NEW all,
           all = rows \o [k \in DOMAIN Ordered(loaded) |-> ChainRow(k, Ordered(loaded))]
    PROVE  /\ all \in Seq(Rows) /\ Len(all) = Len(rows) + Len(loaded)
           /\ IdsOf(all) = IdsOf(rows) \cup IdsOf(loaded)
           /\ (\A i \in DOMAIN rows : RowIsSound(rows[i])) => \A i \in DOMAIN all : RowIsSound(all[i])
<1> DEFINE sorted == Ordered(loaded)
           added == [k \in DOMAIN sorted |-> ChainRow(k, sorted)]
<1>1. /\ sorted \in Seq(Reports) /\ Len(sorted) = Len(loaded) /\ DOMAIN sorted = 1..Len(loaded)
      /\ \A k \in 1..Len(loaded) : \E i \in 1..Len(loaded) : loaded[i] = sorted[k]
      /\ \A i \in 1..Len(loaded) : \E k \in 1..Len(loaded) : sorted[k] = loaded[i]
  BY OrderedIs, LenProperties
<1>2. Len(loaded) \in Nat /\ Len(rows) \in Nat /\ DOMAIN loaded = 1..Len(loaded) /\ DOMAIN rows = 1..Len(rows)
  BY LenProperties
<1>3. \A k \in 1..Len(loaded) :
         ChainRow(k, sorted) \in Rows /\ ChainRow(k, sorted).id = sorted[k].id /\ RowIsSound(ChainRow(k, sorted))
  <2> HIDE DEF sorted
  <2> QED
    BY <1>1, ChainRowIs
<1> HIDE DEF sorted
<1>4. /\ added \in Seq(Rows) /\ Len(added) = Len(loaded)
      /\ \A k \in 1..Len(loaded) : added[k].id = sorted[k].id /\ RowIsSound(added[k])
  <2>1. DOMAIN added = 1..Len(loaded) /\ \A k \in 1..Len(loaded) : added[k] = ChainRow(k, sorted)
    BY <1>1
  <2>2. added \in [1..Len(loaded) -> Rows]
    BY <1>1, <1>3
  <2> HIDE DEF added
  <2>3. added \in Seq(Rows) /\ Len(added) = Len(loaded)
    BY <1>2, <2>2, FunctionIsSeq
  <2> QED
    BY <1>3, <2>1, <2>3
<1>5. all = rows \o added
  BY DEF sorted
<1> HIDE DEF added
<1>6. /\ all \in Seq(Rows) /\ Len(all) = Len(rows) + Len(loaded) /\ DOMAIN all = 1..Len(rows) + Len(loaded)
      /\ \A i \in 1..Len(rows) + Len(loaded) : all[i] = IF i <= Len(rows) THEN rows[i] ELSE added[i - Len(rows)]
  <2>1. rows \in Seq(Rows) /\ added \in Seq(Rows)
    BY <1>4
  <2>2. /\ rows \o added \in Seq(Rows) /\ Len(rows \o added) = Len(rows) + Len(added)
        /\ DOMAIN (rows \o added) = 1..Len(rows) + Len(added)
        /\ \A i \in 1..Len(rows) + Len(added) : (rows \o added)[i] = IF i <= Len(rows) THEN rows[i] ELSE added[i - Len(rows)]
    BY <2>1, PutTogether
  <2> QED
    BY <1>4, <1>5, <2>2
<1>7. \A i \in 1..Len(rows) : i \in DOMAIN all /\ all[i] = rows[i]
  BY <1>2, <1>6
<1>8. \A k \in 1..Len(loaded) : Len(rows) + k \in DOMAIN all /\ all[Len(rows) + k] = added[k]
  BY <1>2, <1>6
<1>9. ASSUME NEW i \in DOMAIN all
      PROVE  \/ i \in 1..Len(rows) /\ all[i] = rows[i]
             \/ \E k \in 1..Len(loaded) : all[i] = added[k]
  <2>1. i \in Int /\ 1 <= i /\ i <= Len(rows) + Len(loaded)
    BY <1>2, <1>6
  <2>2. CASE i <= Len(rows)
    BY <1>2, <1>6, <2>1, <2>2
  <2>3. CASE ~(i <= Len(rows))
    <3>1. i - Len(rows) \in 1..Len(loaded) /\ all[i] = added[i - Len(rows)]
      BY <1>2, <1>6, <2>1, <2>3
    <3> QED
      BY <3>1
  <2> QED
    BY <2>2, <2>3
<1>10. IdsOf(all) \subseteq IdsOf(rows) \cup IdsOf(loaded)
  <2>1. ASSUME NEW i \in DOMAIN all
        PROVE  all[i].id \in IdsOf(rows) \cup IdsOf(loaded)
    <3>1. CASE i \in 1..Len(rows) /\ all[i] = rows[i]
      BY <1>2, <3>1 DEF IdsOf
    <3>2. ASSUME NEW k \in 1..Len(loaded), all[i] = added[k]
          PROVE  all[i].id \in IdsOf(loaded)
      <4>1. PICK j \in 1..Len(loaded) : loaded[j] = sorted[k]
        BY <1>1
      <4>2. all[i].id = loaded[j].id
        BY <1>4, <3>2, <4>1
      <4> QED
        BY <1>2, <4>2 DEF IdsOf
    <3> QED
      BY <1>9, <3>1, <3>2
  <2> QED
    BY <2>1 DEF IdsOf
<1>11. IdsOf(rows) \cup IdsOf(loaded) \subseteq IdsOf(all)
  <2>1. ASSUME NEW i \in DOMAIN rows
        PROVE  rows[i].id \in IdsOf(all)
    BY <1>2, <1>7 DEF IdsOf
  <2>2. ASSUME NEW i \in DOMAIN loaded
        PROVE  loaded[i].id \in IdsOf(all)
    <3>1. PICK k \in 1..Len(loaded) : sorted[k] = loaded[i]
      BY <1>1, <1>2
    <3>2. Len(rows) + k \in DOMAIN all /\ all[Len(rows) + k].id = loaded[i].id
      BY <1>4, <1>8, <3>1
    <3> QED
      BY <3>2 DEF IdsOf
  <2> QED
    BY <2>1, <2>2 DEF IdsOf
<1>12. (\A i \in DOMAIN rows : RowIsSound(rows[i])) => \A i \in DOMAIN all : RowIsSound(all[i])
  BY <1>2, <1>4, <1>9
<1> QED
  BY <1>6, <1>10, <1>11, <1>12
-----------------------------------------------------------------------------
(* The listing is gone through once more for the chain, a place at a time.  *)
Seen      == Len(Taken(run)) - Len(at.todo)
IdsTo(n)  == {Taken(run)[i].id : i \in FilingsTo(n)}

LEMMA NoneSeen ==
    FilingsTo(0) = {} /\ IdsTo(0) = {} /\ Cardinality(FilingsTo(0)) = 0
<1>1. FilingsTo(0) = {}
  BY DEF FilingsTo
<1> QED
  BY <1>1, FS_EmptySet DEF IdsTo

LEMMA OneMoreSeen ==
    ASSUME AtTypeOK, at.phase \in ChainPhases, at.todo # << >>
    PROVE  /\ Seen \in Nat /\ Len(Tail(at.todo)) = Len(at.todo) - 1
           /\ Len(Taken(run)) - Len(Tail(at.todo)) = Seen + 1
           /\ ThisFiling.id = 0 => FilingsTo(Seen + 1) = FilingsTo(Seen) /\ IdsTo(Seen + 1) = IdsTo(Seen)
           /\ ThisFiling.id # 0 =>
                 /\ IdsTo(Seen + 1) = IdsTo(Seen) \cup {ThisFiling.id}
                 /\ Cardinality(FilingsTo(Seen + 1)) = Cardinality(FilingsTo(Seen)) + 1
                 /\ Cardinality(FilingsTo(Seen)) \in Nat
<1>1. Reading /\ Source = Taken(run) /\ run.cmd = "filings"
  BY DEF AtTypeOK, Reading, Source, ChainPhases
<1>2. /\ Len(Tail(at.todo)) = Len(at.todo) - 1 /\ Seen + 1 \in 1..Len(Taken(run))
      /\ ThisFiling = Taken(run)[Seen + 1]
  BY <1>1, ThisFilingIs DEF Seen
<1>3. Len(Taken(run)) \in Nat /\ Len(at.todo) \in Nat
  BY <1>1, SourceIs, LenProperties DEF AtTypeOK, Places
<1>4. Seen \in Nat /\ Len(Taken(run)) - Len(Tail(at.todo)) = Seen + 1
  <2> DEFINE a == Len(Taken(run))
             b == Len(at.todo)
             c == Len(Tail(at.todo))
  <2>1. a \in Nat /\ b \in Nat /\ c = b - 1 /\ Seen = a - b /\ Seen + 1 \in 1..a
    BY <1>2, <1>3 DEF Seen
  <2> HIDE DEF a, b, c
  <2>2. Seen \in Nat /\ a - c = Seen + 1
    BY <2>1
  <2> QED
    BY <2>2 DEF a, c
<1> DEFINE n == Seen
<1> HIDE DEF n
<1>5. n \in Nat /\ ThisFiling = Taken(run)[n + 1]
  BY <1>2, <1>4 DEF n
<1>6. ASSUME ThisFiling.id = 0
      PROVE  FilingsTo(n + 1) = FilingsTo(n)
  BY <1>5, <1>6 DEF FilingsTo
<1>7. ASSUME ThisFiling.id # 0
      PROVE  /\ IdsTo(n + 1) = IdsTo(n) \cup {ThisFiling.id}
             /\ Cardinality(FilingsTo(n + 1)) = Cardinality(FilingsTo(n)) + 1
             /\ Cardinality(FilingsTo(n)) \in Nat
  <2>1. FilingsTo(n + 1) = FilingsTo(n) \cup {n + 1} /\ n + 1 \notin FilingsTo(n)
    BY <1>5, <1>7 DEF FilingsTo
  <2>2. IsFiniteSet(FilingsTo(n))
    <3>1. IsFiniteSet(1..n)
      BY <1>5, FS_Interval
    <3>2. FilingsTo(n) \subseteq 1..n
      BY DEF FilingsTo
    <3> QED
      BY <3>1, <3>2, FS_Subset
  <2>3. Cardinality(FilingsTo(n)) \in Nat
    BY <2>2, FS_CardinalityType
  <2>4. Cardinality(FilingsTo(n) \cup {n + 1}) = Cardinality(FilingsTo(n)) + 1
    BY <2>1, <2>2, FS_AddElement
  <2>5. IdsTo(n + 1) = IdsTo(n) \cup {ThisFiling.id}
    BY <1>5, <2>1 DEF IdsTo
  <2> QED
    BY <2>1, <2>3, <2>4, <2>5
<1> QED
  BY <1>2, <1>4, <1>6, <1>7 DEF n, IdsTo

(* In a chain, what it has seen are the places that have their row or report. *)
Chained == chained \in [loaded : Seq(Reports), rows : Seq(Rows)]
PlacesHeld ==
    /\ IdsOf(chained.rows) \cup IdsOf(chained.loaded) = IdsTo(Seen)
    /\ Len(chained.rows) + Len(chained.loaded) = Cardinality(FilingsTo(Seen))

LEMMA PlaceIs ==
    EachHasItsPlace <=>
        /\ ChainCountsDaysOnce
        /\ at.phase \in ChainPhases => PlacesHeld
        /\ at.phase \notin ChainPhases /\ at.phase # "idle" => chained = NoneChained
BY DEF EachHasItsPlace, PlacesHeld, IdsTo, Seen

LEMMA ChainedStep ==
    ASSUME RunTypeOK, EachHasItsPlace, EveryReportHasARow, [RunNext]_runVars
    PROVE  Chained' /\ EachHasItsPlace' /\ EveryReportHasARow'
<1>1. /\ Chained /\ AtTypeOK /\ at \in Places /\ ChainCountsDaysOnce
      /\ chained.loaded \in Seq(Reports) /\ chained.rows \in Seq(Rows)
      /\ at.phase # "idle" => ended = "none"
      /\ at.phase \in ChainPhases => PlacesHeld
      /\ at.phase \notin ChainPhases /\ at.phase # "idle" => chained = NoneChained
  BY PlaceIs DEF RunTypeOK, AtTypeOK, Chained
<1>2. NoneChained \in [loaded : Seq(Reports), rows : Seq(Rows)]
      /\ NoneChained.rows = << >> /\ NoneChained.loaded = << >>
  BY << >> \in Seq(Reports), << >> \in Seq(Rows) DEF NoneChained
<1>3. chained' = NoneChained => Chained' /\ ChainCountsDaysOnce'
  BY <1>2 DEF Chained, ChainCountsDaysOnce
<1>4. chained' = chained => Chained' /\ ChainCountsDaysOnce'
  BY <1>1 DEF Chained, ChainCountsDaysOnce
<1>5. ended' \notin {"ok", "failed"} => EveryReportHasARow'
  BY DEF EveryReportHasARow
<1>6. CASE GiveRun
  <2>1. chained' = NoneChained /\ ended' \in {"refused", "none"} /\ at'.phase \in {"idle", "list", "day"}
    <3>1. chained' = NoneChained /\ ended' \in {"refused", "none"}
      BY <1>6 DEF GiveRun
    <3>2. \A d : \A f \in {"list", "day"} : [Nowhere EXCEPT !.phase = f, !.day = d].phase = f
      BY NowhereIs DEF Places
    <3>3. at'.phase \in {"idle", "list", "day"}
      BY <1>6, <3>2, NowhereIs DEF GiveRun
    <3> QED
      BY <3>1, <3>3
  <2> QED
    BY <1>3, <1>5, <2>1, PlaceIs DEF EachHasItsPlace, ChainPhases
<1>7. CASE /\ chained' = chained /\ run' = run
           /\ at.phase \notin ChainPhases /\ at.phase # "idle" /\ at'.phase \notin ChainPhases
           /\ ended' \notin {"ok", "failed"} \/ ~run.chain
  BY <1>1, <1>4, <1>5, <1>7 DEF EachHasItsPlace, EveryReportHasARow
<1>8. CASE List
  <2>1. at'.phase \in {"each", "idle"} /\ ended' \notin {"ok", "failed"}
    BY <1>1, <1>8, NowhereIs DEF List, Places
  <2> QED
    BY <1>7, <1>8, <2>1 DEF List, ChainPhases
<1>9. CASE Each
  <2>1. at.phase = "each" /\ run' = run /\ chained' = chained
    BY <1>9 DEF Each
  <2>2. CASE at.todo = << >> /\ run.chain
    <3>1. at' = [at EXCEPT !.phase = "chain", !.todo = Taken(run)] /\ ended' = ended
      BY <1>9, <2>2 DEF Each
    <3>2. run \in RunJobs
      BY <1>1, <2>1 DEF AtTypeOK
    <3>3. Len(Taken(run)) \in Nat
      BY <3>2, ListingIs, LenProperties
    <3>4. Seen' = 0 /\ at'.phase = "chain"
      <4>1. at'.phase = "chain" /\ at'.todo = Taken(run)
        BY <1>1, <3>1 DEF Places
      <4>2. Seen' = Len(Taken(run)) - Len(Taken(run))
        BY <2>1, <4>1 DEF Seen
      <4> QED
        BY <3>3, <4>1, <4>2
    <3>5. chained = NoneChained
      BY <1>1, <2>1 DEF ChainPhases
    <3>6. IdsOf(<< >>) = {} /\ Len(<< >>) = 0
      BY DEF IdsOf
    <3>7. PlacesHeld'
      <4>1. IdsTo(Seen)' = {} /\ Cardinality(FilingsTo(Seen))' = 0
        <5>1. IdsTo(0)' = IdsTo(0) /\ FilingsTo(0)' = FilingsTo(0)
          BY <2>1 DEF IdsTo, FilingsTo
        <5> QED
          BY <3>4, <5>1, NoneSeen DEF IdsTo, FilingsTo
      <4>2. IdsOf(chained.rows)' = {} /\ IdsOf(chained.loaded)' = {} /\ Len(chained'.rows) + Len(chained'.loaded) = 0
        BY <1>2, <2>1, <3>5, <3>6 DEF IdsOf
      <4> QED
        BY <4>1, <4>2 DEF PlacesHeld
    <3> QED
      BY <1>1, <1>4, <1>5, <2>1, <3>1, <3>4, <3>7 DEF EachHasItsPlace, PlacesHeld, IdsTo, Seen, ChainPhases
  <2>3. CASE ~(at.todo = << >> /\ run.chain)
    <3>1. at'.phase \in {"each", "fetch", "idle"}
      BY <1>1, <1>9, <2>1, <2>3, NowhereIs DEF Each, RunEnds, Places
    <3>2. ended' = ended \/ ~run.chain
      BY <1>9, <2>3 DEF Each
    <3> QED
      BY <1>1, <1>7, <2>1, <3>1, <3>2 DEF ChainPhases
  <2> QED
    BY <2>2, <2>3
(* From here on the chain.                                                 *)
<1>10. ASSUME at.phase \in ChainPhases, run' = run, ended' = ended, chained' = chained, at'.phase \in ChainPhases,
              at'.todo = at.todo
       PROVE  Chained' /\ EachHasItsPlace' /\ EveryReportHasARow'
  <2>1. PlacesHeld'
    <3>1. Seen' = Seen /\ \A n : FilingsTo(n)' = FilingsTo(n)
      BY <1>10 DEF Seen, FilingsTo
    <3>2. FilingsTo(Seen)' = FilingsTo(Seen) /\ IdsTo(Seen)' = IdsTo(Seen)
      BY <1>10, <3>1 DEF IdsTo, FilingsTo
    <3>3. IdsOf(chained.rows)' = IdsOf(chained.rows) /\ IdsOf(chained.loaded)' = IdsOf(chained.loaded)
      BY <1>10 DEF IdsOf
    <3> QED
      BY <1>1, <1>10, <3>2, <3>3 DEF PlacesHeld
  <2>2. EachHasItsPlace'
    BY <1>4, <1>10, <2>1 DEF EachHasItsPlace, PlacesHeld, IdsTo, Seen, ChainPhases
  <2> QED
    BY <1>1, <1>4, <1>5, <1>10, <2>2 DEF ChainPhases
<1>11. ASSUME at.phase \in ChainPhases, at.todo # << >>, run' = run, ended' = ended,
              at'.phase = "chain", at'.todo = Tail(at.todo),
              \/ ThisFiling.id = 0 /\ chained' = chained
              \/ /\ ThisFiling.id # 0
                 /\ \/ chained' = [chained EXCEPT !.rows = Append(@, ErrorRow(ThisFiling.id))]
                    \/ chained' = [chained EXCEPT !.loaded = Append(@, Loaded(ThisFiling.id))]
       PROVE  Chained' /\ EachHasItsPlace' /\ EveryReportHasARow'
  <2>1. /\ IdsOf(chained.rows) \cup IdsOf(chained.loaded) = IdsTo(Seen)
        /\ Len(chained.rows) + Len(chained.loaded) = Cardinality(FilingsTo(Seen))
        /\ Len(chained.rows) \in Nat /\ Len(chained.loaded) \in Nat
    BY <1>1, <1>11, LenProperties DEF PlacesHeld
  <2>2. Seen' = Seen + 1 /\ IdsTo(Seen)' = IdsTo(Seen + 1) /\ FilingsTo(Seen)' = FilingsTo(Seen + 1)
    <3>1. Seen' = Seen + 1
      BY <1>1, <1>11, OneMoreSeen DEF Seen
    <3> QED
      BY <1>11, <3>1 DEF IdsTo, FilingsTo
  <2>3. CASE ThisFiling.id = 0 /\ chained' = chained
    <3>1. PlacesHeld'
      <4>1. FilingsTo(Seen + 1) = FilingsTo(Seen) /\ IdsTo(Seen + 1) = IdsTo(Seen)
        BY <1>1, <1>11, <2>3, OneMoreSeen
      <4>2. IdsOf(chained.rows)' = IdsOf(chained.rows) /\ IdsOf(chained.loaded)' = IdsOf(chained.loaded)
        BY <2>3 DEF IdsOf
      <4> QED
        BY <2>1, <2>2, <2>3, <4>1, <4>2 DEF PlacesHeld
    <3> QED
      BY <1>1, <1>4, <1>5, <1>11, <2>3, <3>1
      DEF EachHasItsPlace, PlacesHeld, IdsTo, Seen, ChainPhases
  <2>4. CASE ThisFiling.id # 0
    <3> DEFINE id == ThisFiling.id
    <3>1. id \in DOMAIN Known
      BY <1>1, <1>11, <2>4, ThisFilingIs DEF Reading, ChainPhases
    <3>2. /\ IdsTo(Seen + 1) = IdsTo(Seen) \cup {id}
          /\ Cardinality(FilingsTo(Seen + 1)) = Cardinality(FilingsTo(Seen)) + 1
      BY <1>1, <1>11, <2>4, OneMoreSeen
    <3> HIDE DEF id
    <3>3. CASE chained' = [chained EXCEPT !.rows = Append(@, ErrorRow(id))]
      <4>1. chained'.rows = Append(chained.rows, ErrorRow(id)) /\ chained'.loaded = chained.loaded
        BY <1>1, <3>3 DEF Chained
      <4>2. ErrorRow(id) \in Rows /\ ErrorRow(id).id = id /\ RowIsSound(ErrorRow(id))
        BY <3>1, ErrorRowIs
      <4>3. /\ chained'.rows \in Seq(Rows) /\ Len(chained'.rows) = Len(chained.rows) + 1
            /\ IdsOf(chained'.rows) = IdsOf(chained.rows) \cup {id}
            /\ \A i \in DOMAIN chained'.rows :
                  (i \in DOMAIN chained.rows /\ chained'.rows[i] = chained.rows[i]) \/ chained'.rows[i] = ErrorRow(id)
        BY <1>1, <4>1, <4>2, IdsAppend
      <4>4. ChainCountsDaysOnce'
        BY <1>1, <4>2, <4>3 DEF ChainCountsDaysOnce
      <4>5. Chained'
        BY <1>1, <3>3, <4>1, <4>3 DEF Chained
      <4>6. PlacesHeld'
        <5>0. Len(chained'.loaded) = Len(chained.loaded)
          BY <4>1
        <5>1. IdsOf(chained.rows)' = IdsOf(chained'.rows) /\ IdsOf(chained.loaded)' = IdsOf(chained.loaded)
          BY <4>1 DEF IdsOf
        <5>2. Cardinality(FilingsTo(Seen))' = Cardinality(FilingsTo(Seen + 1))
          BY <2>2
        <5>3. Len(chained'.rows) + Len(chained'.loaded) = Len(chained.rows) + Len(chained.loaded) + 1
          <6> DEFINE a == Len(chained.rows)
                     b == Len(chained.loaded)
                     c == Len(chained'.rows)
                     d == Len(chained'.loaded)
          <6>1. a \in Nat /\ b \in Nat /\ ((c = a + 1 /\ d = b) \/ (c = a /\ d = b + 1))
            BY <2>1, <4>3, <5>0
          <6> HIDE DEF a, b, c, d
          <6>2. c + d = a + b + 1
            BY <6>1
          <6> QED
            BY <6>2 DEF a, b, c, d
        <5> QED
          BY <2>1, <2>2, <3>2, <4>3, <5>1, <5>2, <5>3 DEF PlacesHeld
      <4> QED
        BY <1>1, <1>5, <1>11, <4>4, <4>5, <4>6 DEF EachHasItsPlace, PlacesHeld, IdsTo, Seen, ChainPhases
    <3>4. CASE chained' = [chained EXCEPT !.loaded = Append(@, Loaded(id))]
      <4>1. chained'.loaded = Append(chained.loaded, Loaded(id)) /\ chained'.rows = chained.rows
        BY <1>1, <3>4 DEF Chained
      <4>2. Loaded(id) \in Reports /\ Loaded(id).id = id
        BY <3>1 DEF Reports, Loaded
      <4>3. /\ chained'.loaded \in Seq(Reports) /\ Len(chained'.loaded) = Len(chained.loaded) + 1
            /\ IdsOf(chained'.loaded) = IdsOf(chained.loaded) \cup {id}
        BY <1>1, <4>1, <4>2, IdsAppend
      <4>4. ChainCountsDaysOnce'
        BY <1>1, <4>1 DEF ChainCountsDaysOnce
      <4>5. Chained'
        BY <1>1, <3>4, <4>1, <4>3 DEF Chained
      <4>6. PlacesHeld'
        <5>0. Len(chained'.rows) = Len(chained.rows)
          BY <4>1
        <5>1. IdsOf(chained.loaded)' = IdsOf(chained'.loaded) /\ IdsOf(chained.rows)' = IdsOf(chained.rows)
          BY <4>1 DEF IdsOf
        <5>2. Cardinality(FilingsTo(Seen))' = Cardinality(FilingsTo(Seen + 1))
          BY <2>2
        <5>3. Len(chained'.rows) + Len(chained'.loaded) = Len(chained.rows) + Len(chained.loaded) + 1
          <6> DEFINE a == Len(chained.rows)
                     b == Len(chained.loaded)
                     c == Len(chained'.rows)
                     d == Len(chained'.loaded)
          <6>1. a \in Nat /\ b \in Nat /\ ((c = a + 1 /\ d = b) \/ (c = a /\ d = b + 1))
            BY <2>1, <4>3, <5>0
          <6> HIDE DEF a, b, c, d
          <6>2. c + d = a + b + 1
            BY <6>1
          <6> QED
            BY <6>2 DEF a, b, c, d
        <5> QED
          BY <2>1, <2>2, <3>2, <4>3, <5>1, <5>2, <5>3 DEF PlacesHeld
      <4> QED
        BY <1>1, <1>5, <1>11, <4>4, <4>5, <4>6 DEF EachHasItsPlace, PlacesHeld, IdsTo, Seen, ChainPhases
    <3> QED
      BY <1>11, <2>4, <3>3, <3>4 DEF id
  <2> QED
    BY <1>11, <2>3, <2>4
<1>12. CASE FetchBytes
  <2>1. at.phase \in {"fetch", "chainFetch"} /\ run' = run /\ ended' = ended
    BY <1>12 DEF FetchBytes
  <2>2. CASE at.phase = "fetch"
    <3>1. chained' = chained /\ at'.phase \in {"apply", "fetch", "each"}
      BY <1>1, <1>12, <2>2 DEF FetchBytes, Got, Places
    <3> QED
      BY <1>1, <1>7, <2>1, <2>2, <3>1 DEF ChainPhases
  <2>3. CASE at.phase = "chainFetch"
    <3>1. ThisFiling.id \in DOMAIN Known /\ ThisFiling.id # 0 /\ at.todo # << >>
      BY <1>1, <2>3, FilingsAssumption DEF AtTypeOK
    <3>2. \/ chained' = chained /\ at'.phase \in {"load", "chainFetch"} /\ at'.todo = at.todo
          \/ /\ chained' = [chained EXCEPT !.rows = Append(@, ErrorRow(ThisFiling.id))]
             /\ at'.phase = "chain" /\ at'.todo = Tail(at.todo)
      BY <1>1, <1>12, <2>3 DEF FetchBytes, Got, Places
    <3> QED
      BY <1>10, <1>11, <2>1, <2>3, <3>1, <3>2 DEF ChainPhases
  <2> QED
    BY <2>1, <2>2, <2>3
<1>13. CASE Apply
  <2>1. at'.phase = "apply" /\ at.phase = "apply" /\ run' = run /\ chained' = chained /\ ended' = ended
    BY <1>1, <1>13 DEF Apply, Places
  <2> QED
    BY <1>1, <1>7, <2>1 DEF ChainPhases
<1>14. CASE Applied
  <2>1. at'.phase \in {"each", "entries"} /\ at.phase = "apply" /\ run' = run /\ chained' = chained /\ ended' = ended
    BY <1>1, <1>14 DEF Applied, Places
  <2> QED
    BY <1>1, <1>7, <2>1 DEF ChainPhases
<1>15. CASE OpenDay \/ ReadEntry \/ DayEnds
  <2>1. at.phase \in DayPhases /\ run' = run /\ chained' = chained
    BY <1>15 DEF OpenDay, ReadEntry, DayEnds, DayPhases
  <2>2. at'.phase \in {"entries", "day", "apply", "idle"}
    <3>1. CASE OpenDay
      <4>1. \/ at' = [at EXCEPT !.phase = "entries", !.todo = Archive[at.day]]
            \/ at' = Nowhere \/ (at.phase = "day" /\ at' = [at EXCEPT !.day = @ + 1])
        BY <3>1 DEF OpenDay, ArchiveOpens, DayIsLost, RunEnds
      <4> QED
        BY <1>1, <4>1, NowhereIs DEF Places
    <3>2. CASE ReadEntry
      BY <1>1, <3>2 DEF ReadEntry, Places
    <3>3. CASE DayEnds
      BY <1>1, <3>3, NowhereIs DEF DayEnds, RunEnds, Places
    <3> QED
      BY <1>15, <3>1, <3>2, <3>3
  <2>3. ~run.chain
    BY <1>1, <2>1, RunJobsAssumption DEF AtTypeOK, DayPhases
  <2> QED
    BY <1>7, <2>1, <2>2, <2>3 DEF ChainPhases, DayPhases
<1>16. CASE LoadReport
  <2>1. /\ at.phase = "load" /\ run' = run /\ ended' = ended /\ at'.phase = "chain" /\ at'.todo = Tail(at.todo)
        /\ \/ chained' = [chained EXCEPT !.rows = Append(@, ErrorRow(ThisFiling.id))]
           \/ chained' = [chained EXCEPT !.loaded = Append(@, Loaded(ThisFiling.id))]
    BY <1>1, <1>16 DEF LoadReport, Places
  <2>2. ThisFiling.id \in DOMAIN Known /\ ThisFiling.id # 0 /\ at.todo # << >>
    BY <1>1, <2>1, FilingsAssumption DEF AtTypeOK
  <2> QED
    BY <1>11, <2>1, <2>2 DEF ChainPhases
<1>17. CASE Chain
  <2>1. at.phase = "chain" /\ run' = run
    BY <1>17 DEF Chain
  <2>2. CASE at.todo # << >> /\ ThisFiling.id = 0
    <3>1. chained' = chained /\ ended' = ended /\ at'.phase = "chain" /\ at'.todo = Tail(at.todo)
      BY <1>1, <1>17, <2>1, <2>2 DEF Chain, Places
    <3> QED
      BY <1>11, <2>1, <2>2, <3>1 DEF ChainPhases
  <2>3. CASE at.todo # << >> /\ ThisFiling.id # 0
    <3>1. chained' = chained /\ ended' = ended /\ at'.phase = "chainFetch" /\ at'.todo = at.todo
      BY <1>1, <1>17, <2>1, <2>3 DEF Chain, Places
    <3> QED
      BY <1>10, <2>1, <3>1 DEF ChainPhases
  <2>4. CASE at.todo = << >>
    <3> DEFINE all == chained'.rows
               n == Len(Taken(run))
    <3>1. /\ chained' = [chained EXCEPT !.rows = @ \o [k \in DOMAIN Ordered(chained.loaded) |->
                                                         ChainRow(k, Ordered(chained.loaded))]]
          /\ at' = Nowhere
      BY <1>17, <2>4 DEF Chain, RunEnds
    <3>2. /\ all = chained.rows \o [k \in DOMAIN Ordered(chained.loaded) |-> ChainRow(k, Ordered(chained.loaded))]
          /\ chained'.loaded = chained.loaded
      BY <1>1, <3>1 DEF Chained
    <3> HIDE DEF all
    <3>3. /\ all \in Seq(Rows) /\ Len(all) = Len(chained.rows) + Len(chained.loaded)
          /\ IdsOf(all) = IdsOf(chained.rows) \cup IdsOf(chained.loaded)
          /\ (\A i \in DOMAIN chained.rows : RowIsSound(chained.rows[i])) => \A i \in DOMAIN all : RowIsSound(all[i])
      <4> DEFINE loaded == chained.loaded
                 rows == chained.rows
      <4>1. /\ loaded \in Seq(Reports) /\ rows \in Seq(Rows)
            /\ all = rows \o [k \in DOMAIN Ordered(loaded) |-> ChainRow(k, Ordered(loaded))]
        BY <1>1, <3>2
      <4> HIDE DEF loaded, rows
      <4>2. /\ all \in Seq(Rows) /\ Len(all) = Len(rows) + Len(loaded)
            /\ IdsOf(all) = IdsOf(rows) \cup IdsOf(loaded)
            /\ (\A i \in DOMAIN rows : RowIsSound(rows[i])) => \A i \in DOMAIN all : RowIsSound(all[i])
        BY <4>1, RowsAdded
      <4> QED
        BY <4>2 DEF loaded, rows
    <3>4. Chained' /\ ChainCountsDaysOnce'
      <4>1. chained' = [chained EXCEPT !.rows = all]
        BY <3>1, <3>2
      <4> QED
        BY <1>1, <3>3, <4>1 DEF Chained, ChainCountsDaysOnce, all
    <3>5. at'.phase = "idle"
      BY <3>1, NowhereIs
    <3>6. EachHasItsPlace'
      BY <3>4, <3>5 DEF EachHasItsPlace, ChainPhases
    <3>7. run \in RunJobs /\ run.cmd = "filings"
      BY <1>1, <2>1 DEF AtTypeOK, ChainPhases
    <3>8. n \in Nat /\ DOMAIN Taken(run) = 1..n /\ Seen = n
      BY <2>4, <3>7, ListingIs, LenProperties DEF Seen
    <3>9. IdsOf(all) = IdsTo(n) /\ Len(all) = Cardinality(FilingsTo(n))
      BY <1>1, <2>1, <3>3, <3>8 DEF PlacesHeld, ChainPhases
    <3>10. IdsTo(n) = Wanted({})
      BY <3>7, <3>8 DEF Wanted, IdsTo, FilingsTo, Range
    <3>11. FilingsTo(n) = {i \in DOMAIN Taken(run) : Taken(run)[i].id # 0}
      BY <3>8 DEF FilingsTo
    <3>12. EveryReportHasARow'
      BY <2>1, <3>9, <3>10, <3>11 DEF EveryReportHasARow, Wanted, IdsOf, all
    <3> QED
      BY <3>4, <3>6, <3>12
  <2> QED
    BY <2>2, <2>3, <2>4
<1>18. CASE KillRun
  <2>1. run' = run /\ chained' = chained /\ at'.phase = "idle" /\ ended' = "killed"
    BY <1>18, NowhereIs DEF KillRun
  <2> QED
    BY <1>4, <1>5, <2>1 DEF EachHasItsPlace, ChainPhases
<1>19. CASE ClearCache \/ UNCHANGED runVars
  <2>1. UNCHANGED <<run, at, chained, ended>>
    BY <1>19 DEF ClearCache, runVars
  <2>2. EachHasItsPlace'
    <3>1. CASE at.phase \in ChainPhases
      BY <1>10, <2>1, <3>1
    <3>2. CASE at.phase \notin ChainPhases
      BY <1>1, <1>4, <2>1, <3>2 DEF EachHasItsPlace
    <3> QED
      BY <3>1, <3>2
  <2>3. EveryReportHasARow'
    BY <2>1 DEF EveryReportHasARow, Wanted
  <2> QED
    BY <1>4, <2>1, <2>2, <2>3
<1> QED
  BY <1>6, <1>8, <1>9, <1>12, <1>13, <1>14, <1>15, <1>16, <1>17, <1>18, <1>19 DEF RunNext
-----------------------------------------------------------------------------
(* What is saved or ingested is what the run is about.                     *)
LEMMA TouchedStep ==
    ASSUME RunTypeOK, NothingElseTouched, [RunNext]_runVars
    PROVE  NothingElseTouched'
<1>1. /\ saved \ earlier.saved \subseteq Wanted(run.from..run.to)
      /\ ingested \ earlier.ingested \subseteq Wanted(run.from..run.to)
  BY DEF NothingElseTouched
<1>2. CASE GiveRun
  <2>1. saved' = earlier'.saved /\ ingested' = earlier'.ingested
    BY <1>2 DEF GiveRun
  <2> QED
    BY <2>1 DEF NothingElseTouched
<1>3. CASE Apply
  <2>1. /\ run' = run /\ earlier' = earlier
        /\ saved' \subseteq saved \cup {ThisFiling.id} /\ ingested' \subseteq ingested \cup {ThisFiling.id}
    BY <1>3 DEF Apply, Alone
  <2>2. ThisFiling.id \in Wanted(run.from..run.to)
    BY <1>3 DEF Apply, RunTypeOK, AtTypeOK
  <2>3. Wanted(run.from..run.to)' = Wanted(run.from..run.to)
    BY <2>1 DEF Wanted
  <2> QED
    BY <1>1, <2>1, <2>2, <2>3 DEF NothingElseTouched
<1>4. CASE ~GiveRun /\ ~Apply
  <2>1. UNCHANGED <<run, earlier, saved, ingested>>
    <3>1. CASE OpenDay
      BY <3>1 DEF OpenDay, Alone
    <3> QED
      BY <1>4, <3>1 DEF RunNext, runVars, List, Each, FetchBytes, Applied, ReadEntry, DayEnds, LoadReport, Chain,
                        KillRun, ClearCache, Alone
  <2>2. Wanted(run.from..run.to)' = Wanted(run.from..run.to)
    BY <2>1 DEF Wanted
  <2> QED
    BY <1>1, <2>1, <2>2 DEF NothingElseTouched
<1> QED
  BY <1>2, <1>3, <1>4
-----------------------------------------------------------------------------
(* How what the run is done with grows.                                    *)
LEMMA GoneIs ==
    ASSUME NEW S, NEW all \in Seq(S)
    PROVE  /\ Gone(all, all) = {} /\ Gone(all, << >>) = Range(all)
           /\ \A unread : EndOf(unread, all) /\ unread # << >> /\ unread \in Seq(S) =>
                 Gone(all, Tail(unread)) = Gone(all, unread) \cup {Head(unread)}
<1>1. Len(all) \in Nat /\ DOMAIN all = 1..Len(all)
  BY LenProperties
<1>2. Gone(all, all) = {}
  BY <1>1 DEF Gone
<1>3. Gone(all, << >>) = Range(all)
  <2>1. Len(all) - Len(<< >>) = Len(all)
    BY <1>1
  <2> QED
    BY <1>1, <2>1 DEF Gone, Range
<1>4. ASSUME NEW unread \in Seq(S), EndOf(unread, all), unread # << >>
      PROVE  Gone(all, Tail(unread)) = Gone(all, unread) \cup {Head(unread)}
  <2> DEFINE n == Len(all) - Len(unread)
  <2>1. /\ Len(Tail(unread)) = Len(unread) - 1 /\ n + 1 \in 1..Len(all) /\ Head(unread) = all[n + 1]
    BY <1>4, EndOfTail
  <2>2. Len(unread) \in Nat
    BY LenProperties
  <2>3. n \in Int /\ 0 <= n /\ Len(all) - Len(Tail(unread)) = n + 1
    <3> DEFINE a == Len(all)
               b == Len(unread)
               c == Len(Tail(unread))
    <3>1. a \in Nat /\ b \in Nat /\ c = b - 1 /\ (a - b) + 1 \in 1..a
      BY <1>1, <2>1, <2>2
    <3> HIDE DEF a, b, c
    <3>2. a - b \in Int /\ 0 <= a - b /\ a - c = (a - b) + 1
      BY <3>1
    <3> QED
      BY <3>2 DEF a, b, c
  <2> HIDE DEF n
  <2>4. 1..n + 1 = 1..n \cup {n + 1}
    BY <2>3
  <2>5. Gone(all, unread) = {all[i] : i \in 1..n} /\ Gone(all, Tail(unread)) = {all[i] : i \in 1..n + 1}
    BY <2>3 DEF Gone, n
  <2> QED
    BY <2>1, <2>4, <2>5
<1> QED
  BY <1>2, <1>3, <1>4

(* Of the filing at hand, whether the run is about it.                     *)
Counts == ThisFiling.id # 0 /\ (run.cmd = "backfill" => IsFiling(ThisFiling) /\ IsOf(ThisFiling.id, run.filter))

LEMMA GoneGrows ==
    ASSUME AtTypeOK, Reading, at.todo # << >>
    PROVE  Gone(Source, Tail(at.todo)) = Gone(Source, at.todo) \cup {ThisFiling}
<1> DEFINE all  == Source
           unread == at.todo
<1>1. all \in Seq(Entries) /\ unread \in Seq(Entries) /\ EndOf(unread, all) /\ unread # << >>
  BY SourceIs DEF AtTypeOK, Places, Reading
<1> HIDE DEF all, unread
<1>2. Gone(all, Tail(unread)) = Gone(all, unread) \cup {Head(unread)}
  BY <1>1, GoneIs
<1> QED
  BY <1>2 DEF all, unread, ThisFiling

LEMMA BehindPast ==
    ASSUME AtTypeOK, Reading, at.todo # << >>, UNCHANGED <<run, lost>>, at'.day = at.day, Reading',
           at'.todo = Tail(at.todo), at.phase \in ChainPhases <=> at'.phase \in ChainPhases
    PROVE  /\ Behind' \subseteq Behind \cup {ThisFiling.id}
           /\ ~Counts \/ at.phase \in ChainPhases => Behind' \subseteq Behind
<1>1. run.cmd \in {"filings", "backfill"}
  BY SourceIs
<1>2. Gone(Source, Tail(at.todo)) = Gone(Source, at.todo) \cup {ThisFiling}
  BY GoneGrows
<1>3. CASE run.cmd = "filings"
  <2>1. Source = Taken(run) /\ Behind = ListingBehind /\ Behind' = ListingBehind'
    BY <1>3 DEF Source, Behind
  <2>2. CASE at.phase \in ChainPhases
    BY <2>1, <2>2 DEF ListingBehind
  <2>3. CASE at.phase \notin ChainPhases
    <3>1. /\ ListingBehind = {r.id : r \in Gone(Taken(run), at.todo)} \ {0}
          /\ ListingBehind' = {r.id : r \in Gone(Taken(run), Tail(at.todo))} \ {0}
      BY <2>3 DEF ListingBehind, Gone
    <3>2. ListingBehind' \subseteq ListingBehind \cup ({ThisFiling.id} \ {0})
      BY <1>2, <2>1, <3>1
    <3>3. ~Counts => ThisFiling.id = 0
      BY <1>3 DEF Counts
    <3> QED
      BY <2>1, <2>3, <3>2, <3>3
  <2> QED
    BY <2>2, <2>3
<1>4. CASE run.cmd = "backfill"
  <2> DEFINE whole == InArchives((run.from..at.day - 1) \ lost)
             part(unread) == {e.id : e \in {x \in Gone(Archive[at.day], unread) : IsFiling(x)}}
  <2>1. Source = Archive[at.day] /\ Behind = ArchivesBehind /\ Behind' = ArchivesBehind'
    BY <1>4 DEF Source, Behind
  <2>2. /\ ArchivesBehind = {id \in whole \cup part(at.todo) : IsOf(id, run.filter)}
        /\ ArchivesBehind' = {id \in whole \cup part(Tail(at.todo)) : IsOf(id, run.filter)}
    BY DEF ArchivesBehind, Gone
  <2>3. part(Tail(at.todo)) = part(at.todo) \cup {e.id : e \in {x \in {ThisFiling} : IsFiling(x)}}
    BY <1>2, <2>1
  <2> HIDE DEF whole, part
  <2>4. Behind' \subseteq Behind \cup {id \in {e.id : e \in {x \in {ThisFiling} : IsFiling(x)}} : IsOf(id, run.filter)}
    BY <2>1, <2>2, <2>3
  <2>5. ~Counts => ~IsFiling(ThisFiling) \/ ~IsOf(ThisFiling.id, run.filter)
    BY DEF Counts, IsFiling
  <2>6. at.phase \notin ChainPhases
    BY <1>4 DEF AtTypeOK
  <2> QED
    BY <2>4, <2>5, <2>6
<1> QED
  BY <1>1, <1>3, <1>4

LEMMA BehindStays ==
    ASSUME UNCHANGED <<run, lost>>, at'.day = at.day, at'.todo = at.todo, Reading <=> Reading',
           at.phase \in ChainPhases <=> at'.phase \in ChainPhases
    PROVE  Behind' = Behind
BY DEF Behind, ListingBehind, ArchivesBehind, Gone

(* All of the listing is behind the run that comes to its end.             *)
LEMMA ListingIsBehind ==
    ASSUME AtTypeOK, at.phase \in {"each"} \cup ChainPhases, at.phase = "each" => at.todo = << >>
    PROVE  Behind = {r.id : r \in Range(Taken(run))} \ {0} /\ run.cmd = "filings" /\ Reading
<1>1. run \in RunJobs /\ run.cmd = "filings" /\ Reading
  BY DEF AtTypeOK, Reading, ListPhases, ChainPhases
<1>2. Gone(Taken(run), << >>) = Range(Taken(run))
  BY <1>1, ListingIs, GoneIs
<1> QED
  BY <1>1, <1>2 DEF Behind, ListingBehind, ChainPhases

(* And all of the archives that could be had, up to the day at hand.        *)
LEMMA DayIsBehind ==
    ASSUME AtTypeOK, at.phase = "entries", at.todo = << >>, NEW to \in Nat, to <= at.day
    PROVE  {id \in InArchives((run.from..to) \ lost) : IsOf(id, run.filter)} \subseteq Behind
<1>1. run \in RunJobs /\ run.cmd = "backfill" /\ Reading /\ at.day \in DOMAIN Archive
      /\ at.day \in Nat /\ run.from \in Nat
  BY RunJobsAssumption DEF AtTypeOK, Reading, DayPhases, Places
<1>2. Gone(Archive[at.day], at.todo) = Range(Archive[at.day])
  BY <1>1, ArchiveIs, GoneIs
<1>3. Behind = {id \in InArchives((run.from..at.day - 1) \ lost)
                        \cup {e.id : e \in {x \in Range(Archive[at.day]) : IsFiling(x)}} : IsOf(id, run.filter)}
  BY <1>1, <1>2 DEF Behind, ArchivesBehind
<1>4. run.from..to \subseteq (run.from..at.day - 1) \cup {at.day}
  BY <1>1
<1> DEFINE Of(d) == {e.id : e \in {x \in Range(Archive[d]) : IsFiling(x)}}
<1>5. \A days : InArchives(days) = UNION {Of(d) : d \in days \cap DOMAIN Archive}
  BY DEF InArchives
<1>6. Behind = {id \in InArchives((run.from..at.day - 1) \ lost) \cup Of(at.day) : IsOf(id, run.filter)}
  BY <1>3
<1> HIDE DEF Of
<1>7. ASSUME NEW id \in InArchives((run.from..to) \ lost)
      PROVE  id \in InArchives((run.from..at.day - 1) \ lost) \cup Of(at.day)
  <2>1. PICK d \in ((run.from..to) \ lost) \cap DOMAIN Archive : id \in Of(d)
    BY <1>5
  <2>2. CASE d = at.day
    BY <2>1, <2>2
  <2>3. CASE d # at.day
    <3>1. d \in ((run.from..at.day - 1) \ lost) \cap DOMAIN Archive
      BY <1>4, <2>3
    <3> QED
      BY <1>5, <2>1, <3>1
  <2> QED
    BY <2>2, <2>3
<1> QED
  BY <1>6, <1>7

LEMMA LostIsNotBehind ==
    ASSUME NEW from \in Nat, NEW to \in Nat, NEW day \in Nat, to <= day, NEW gone
    PROVE  InArchives((from..to) \ (gone \cup {day})) \subseteq InArchives((from..day - 1) \ gone)
<1>1. (from..to) \ (gone \cup {day}) \subseteq (from..day - 1) \ gone
  OBVIOUS
<1> QED
  BY <1>1 DEF InArchives
-----------------------------------------------------------------------------
Accounted == NothingLeftUndone /\ FailuresAreCounted
Ended     == SuccessIsWhole /\ FailureIsOfItsOwn

LEMMA TreatedStays ==
    ASSUME UNCHANGED run, saved \subseteq saved', checked \subseteq checked', ingested \subseteq ingested',
           NEW CONSTANT id, Treated(id)
    PROVE  Treated(id)'
BY DEF Treated

LEMMA StepDoneStays ==
    ASSUME saved \subseteq saved', checked \subseteq checked', ingested \subseteq ingested',
           NEW CONSTANT id, NEW CONSTANT a \in Steps, StepDone(a, id)
    PROVE  StepDone(a, id)'
BY DEF StepDone, Steps

LEMMA NotEndedYet ==
    ASSUME ended' \notin {"ok", "failed"}
    PROVE  Ended'
BY DEF Ended, SuccessIsWhole, FailureIsOfItsOwn

(* A run that goes on to another filing or day.                            *)
LEMMA AccountGoesOn ==
    ASSUME Accounted, at.phase # "idle", run' = run,
           saved \subseteq saved', checked \subseteq checked', ingested \subseteq ingested', faulty \subseteq faulty',
           \A id \in Behind' \ Behind : id \in faulty' \/ Treated(id)', at'.phase # "apply",
           tally'.failures = 0 => /\ tally.failures = 0 /\ faulty' = {}
                                  /\ Unparsed(Behind' \ Behind) = {},
           tally'.days = 0 => lost' = {},
           run.cmd = "backfill" => run.from..at'.day - 1 \subseteq DOMAIN Archive \cup lost'
    PROVE  Accounted'
<1>1. ASSUME NEW id \in Behind' \ faulty'
      PROVE  Treated(id)'
  <2>1. CASE id \in Behind
    <3>1. Treated(id)
      BY <2>1 DEF Accounted, NothingLeftUndone
    <3> QED
      BY <3>1, TreatedStays
  <2>2. CASE id \notin Behind
    BY <2>2
  <2> QED
    BY <2>1, <2>2
<1>2. tally'.failures = 0 => Unparsed(Behind)' = {}
  <2>1. tally'.failures = 0 => Unparsed(Behind) = {}
    BY DEF Accounted, FailuresAreCounted
  <2> QED
    BY <2>1 DEF Unparsed
<1>3. NothingLeftUndone'
  BY <1>1 DEF NothingLeftUndone
<1>4. FailuresAreCounted'
  BY <1>2 DEF FailuresAreCounted
<1> QED
  BY <1>3, <1>4 DEF Accounted

(* It goes on to the steps for the filing at hand.                         *)
LEMMA AccountBegins ==
    ASSUME Accounted, at.phase \notin {"idle", "apply"}, UNCHANGED <<run, saved, checked, ingested, faulty, lost, tally>>,
           Behind' = Behind, at'.phase = "apply", at'.day = at.day, Range(at'.left) = run.acts
    PROVE  Accounted'
<1>1. \A id \in Behind \ faulty : Treated(id)
  BY DEF Accounted, NothingLeftUndone
<1>2. ASSUME NEW id \in Behind' \ faulty'
      PROVE  Treated(id)'
  BY <1>1, TreatedStays
<1>3. NothingLeftUndone'
  BY <1>2 DEF NothingLeftUndone
<1>4. FailuresAreCounted'
  BY DEF Accounted, FailuresAreCounted, Unparsed
<1> QED
  BY <1>3, <1>4 DEF Accounted

(* It comes to its end.                                                    *)
LEMMA RunIsAccountedFor ==
    ASSUME Accounted, at.phase \notin {"idle", "apply"}, UNCHANGED <<run, saved, checked, ingested, faulty>>, RunEnds,
           tally.failures \in Nat, tally'.failures = tally.failures, tally'.days \in Nat,
           tally'.days = 0 => tally.days = 0 /\ lost' = lost,
           Wanted((run.from..run.to) \ lost') \subseteq Behind,
           tally'.days = 0 => run.cmd = "filings" \/ run.from..run.to \subseteq DOMAIN Archive
    PROVE  Accounted' /\ Ended'
<1>1. at'.phase = "idle"
  BY NowhereIs DEF RunEnds
<1>2. Accounted'
  BY <1>1 DEF Accounted, NothingLeftUndone, FailuresAreCounted
<1>3. /\ \A id \in Behind \ faulty : Treated(id)
      /\ tally.failures = 0 => faulty = {} /\ Unparsed(Behind) = {}
      /\ tally.days = 0 => lost = {}
  BY DEF Accounted, NothingLeftUndone, FailuresAreCounted
<1>4. FailureIsOfItsOwn'
  <2>1. \A id : Treated(id) => Treated(id)'
    BY DEF Treated
  <2>2. Wanted((run.from..run.to) \ lost)' = Wanted((run.from..run.to) \ lost')
    BY DEF Wanted
  <2> QED
    BY <1>3, <2>1, <2>2 DEF FailureIsOfItsOwn
<1>5. SuccessIsWhole'
  <2> SUFFICES ASSUME ended' = "ok"
               PROVE  SuccessIsWhole'
    BY DEF SuccessIsWhole
  <2>1. tally.failures = 0 /\ tally'.days = 0
    BY DEF RunEnds
  <2>2. lost' = {} /\ faulty = {} /\ Unparsed(Behind) = {}
    BY <1>3, <2>1
  <2>3. Wanted(run.from..run.to) \subseteq Behind
    BY <2>2
  <2>4. Unparsed(Wanted(run.from..run.to)) = {}
    BY <2>2, <2>3 DEF Unparsed
  <2>5. \A id \in Wanted(run.from..run.to) : Treated(id)
    BY <1>3, <2>2, <2>3
  <2>6. Wanted(run.from..run.to)' = Wanted(run.from..run.to)
    BY DEF Wanted
  <2>7. Unparsed(Wanted(run.from..run.to))' = {}
    BY <2>4, <2>6 DEF Unparsed
  <2>8. \A id \in Wanted(run.from..run.to) : Treated(id)'
    BY <2>5 DEF Treated
  <2> QED
    BY <2>1, <2>6, <2>7, <2>8 DEF SuccessIsWhole
<1> QED
  BY <1>2, <1>4, <1>5 DEF Ended

(* A step for the filing at hand: done, or it went wrong.                   *)
LEMMA ApplyStep ==
    ASSUME RunTypeOK, Accounted, Apply
    PROVE  Accounted' /\ Ended'
<1>0. PICK id, a : id = ThisFiling.id /\ a = Head(at.left)
  OBVIOUS
<1>1. /\ AtTypeOK /\ at \in Places /\ at.phase = "apply" /\ ended = "none" /\ at.left \in Seq(Steps)
      /\ at.left # << >> /\ at.wrong \in BOOLEAN
      /\ UNCHANGED <<run, tally, ended, lost>> /\ run \in RunJobs
  BY DEF Apply, RunTypeOK, AtTypeOK, Places
<1>2. PICK w \in BOOLEAN :
         /\ at' = [at EXCEPT !.left = Tail(@), !.wrong = @ \/ w]
         /\ \/ /\ w /\ faulty' = faulty \cup {id} /\ UNCHANGED <<saved, checked, ingested>>
            \/ /\ a = "out" /\ ~w /\ saved' = saved \cup {id} /\ UNCHANGED <<checked, ingested, faulty>>
            \/ /\ a = "check" /\ w = ~Known[id].parses /\ UNCHANGED <<saved, ingested, faulty>>
               /\ checked' = IF Known[id].parses THEN checked \cup {id} ELSE checked
            \/ /\ a = "ingest" /\ w = ~Known[id].parses /\ UNCHANGED <<saved, checked, faulty>>
               /\ ingested' = IF Known[id].parses THEN ingested \cup {id} ELSE ingested
  BY <1>0 DEF Apply
<1>3. /\ at'.phase = "apply" /\ at'.todo = at.todo /\ at'.day = at.day /\ at'.left = Tail(at.left)
      /\ at'.wrong = (at.wrong \/ w)
  BY <1>1, <1>2 DEF Places
<1>4. ThisFiling' = ThisFiling /\ Behind' = Behind
  <2>1. Reading /\ Reading'
    BY <1>1, <1>3 DEF Reading
  <2> QED
    BY <1>1, <1>3, <2>1, BehindStays DEF ThisFiling
<1>5. saved \subseteq saved' /\ checked \subseteq checked' /\ ingested \subseteq ingested' /\ faulty \subseteq faulty'
  BY <1>2
<1>6. a \in Steps /\ Range(at.left) = {a} \cup Range(Tail(at.left))
  <2>1. a \in Steps /\ Tail(at.left) \in Seq(Steps)
    BY <1>0, <1>1, HeadTailProperties
  <2>2. Gone(at.left, << >>) = Range(at.left)
    BY <1>1, GoneIs
  <2>3. /\ Len(Tail(at.left)) = Len(at.left) - 1 /\ Len(at.left) \in Nat /\ Len(at.left) # 0
        /\ \A i \in 1..Len(at.left) - 1 : Tail(at.left)[i] = at.left[i + 1]
        /\ a = at.left[1]
    BY <1>0, <1>1, HeadTailProperties, EmptySeq, LenProperties
  <2>4. DOMAIN at.left = 1..Len(at.left) /\ DOMAIN Tail(at.left) = 1..Len(at.left) - 1
    BY <1>1, <2>1, <2>3, LenProperties
  <2>5. Range(Tail(at.left)) \subseteq Range(at.left) /\ a \in Range(at.left)
    BY <2>3, <2>4 DEF Range
  <2>6. ASSUME NEW i \in DOMAIN at.left
        PROVE  at.left[i] \in {a} \cup Range(Tail(at.left))
    <3>1. CASE i = 1
      BY <2>3, <3>1
    <3>2. CASE i # 1
      <4>1. i - 1 \in DOMAIN Tail(at.left) /\ Tail(at.left)[i - 1] = at.left[i]
        BY <2>3, <2>4, <3>2
      <4> QED
        BY <4>1 DEF Range
    <3> QED
      BY <3>1, <3>2
  <2>7. Range(at.left) \subseteq {a} \cup Range(Tail(at.left))
    BY <2>6 DEF Range
  <2> QED
    BY <2>1, <2>5, <2>7
<1>7. /\ \A x \in Behind \ faulty : Treated(x)
      /\ id \notin faulty => \A b \in run.acts : b \in Range(at.left) \/ StepDone(b, id)
      /\ tally.failures = 0 => (faulty = {} \/ at.wrong) /\ Unparsed(Behind) = {}
      /\ ~at.wrong /\ ~Known[id].parses => run.acts \cap {"check", "ingest"} \subseteq Range(at.left)
      /\ tally.days = 0 => lost = {}
      /\ run.cmd = "backfill" => run.from..at.day - 1 \subseteq DOMAIN Archive \cup lost
  BY <1>0, <1>1 DEF Accounted, NothingLeftUndone, FailuresAreCounted
<1>8. id \notin faulty' => StepDone(a, id)'
  BY <1>2 DEF StepDone
<1>9. run.acts \subseteq Steps
  BY <1>1, RunJobsAssumption DEF Steps
<1>10. NothingLeftUndone'
  <2>1. ASSUME NEW x \in Behind' \ faulty'
        PROVE  Treated(x)'
    <3>1. Treated(x)
      BY <1>4, <1>5, <1>7
    <3> QED
      BY <1>1, <1>5, <3>1, TreatedStays
  <2>2. ASSUME id \notin faulty', NEW b \in run.acts
        PROVE  b \in Range(Tail(at.left)) \/ StepDone(b, id)'
    <3>1. id \notin faulty
      BY <1>5, <2>2
    <3>2. CASE b = a
      BY <1>8, <2>2, <3>2
    <3>3. CASE b # a /\ b \in Range(at.left)
      BY <1>6, <3>3
    <3>4. CASE StepDone(b, id)
      BY <1>5, <1>9, <3>4, StepDoneStays DEF StepDone, Steps
    <3> QED
      BY <1>7, <3>1, <3>2, <3>3, <3>4
  <2> QED
    BY <1>0, <1>1, <1>3, <1>4, <2>1, <2>2 DEF NothingLeftUndone
<1>11. FailuresAreCounted'
  <2>1. tally'.failures = 0 => faulty' = {} \/ at'.wrong
    BY <1>1, <1>2, <1>3, <1>7
  <2>2. tally'.failures = 0 => Unparsed(Behind)' = {}
    BY <1>1, <1>4, <1>7 DEF Unparsed
  <2>3. ~at'.wrong /\ ~Known[id].parses => run.acts \cap {"check", "ingest"} \subseteq Range(Tail(at.left))
    BY <1>2, <1>3, <1>6, <1>7
  <2> QED
    BY <1>0, <1>1, <1>3, <1>4, <1>7, <2>1, <2>2, <2>3 DEF FailuresAreCounted
<1> QED
  BY <1>1, <1>10, <1>11, NotEndedYet DEF Accounted

(* No step is left: the filing is done, or it counts as a failure.         *)
LEMMA AppliedStep ==
    ASSUME RunTypeOK, Accounted, Applied
    PROVE  Accounted' /\ Ended'
<1>0. PICK id : id = ThisFiling.id
  OBVIOUS
<1>1. /\ AtTypeOK /\ at \in Places /\ at.phase = "apply" /\ ended = "none" /\ at.left = << >>
      /\ at.wrong \in BOOLEAN /\ tally \in [failures : Nat, days : Nat]
      /\ UNCHANGED <<run, ended, lost, saved, checked, ingested, faulty>> /\ at.todo # << >> /\ run \in RunJobs
  BY DEF Applied, RunTypeOK, AtTypeOK, Places
<1>2. /\ at' = [at EXCEPT !.phase = IF run.cmd = "filings" THEN "each" ELSE "entries", !.todo = Tail(@)]
      /\ tally' = IF at.wrong THEN [tally EXCEPT !.failures = @ + 1] ELSE tally
  BY DEF Applied
<1>3. at'.phase \in {"each", "entries"} /\ at'.todo = Tail(at.todo) /\ at'.day = at.day
  BY <1>1, <1>2 DEF Places
<1>4. Behind' \subseteq Behind \cup {id}
  <2>1. Reading /\ Reading'
    BY <1>1, <1>3 DEF Reading
  <2> QED
    BY <1>0, <1>1, <1>3, <2>1, BehindPast DEF ChainPhases
<1>5. /\ id \notin faulty => \A a \in run.acts : StepDone(a, id)
      /\ tally.failures = 0 => faulty = {} \/ at.wrong
      /\ ~at.wrong /\ ~Known[id].parses => run.acts \cap {"check", "ingest"} = {}
      /\ tally.days = 0 => lost = {}
      /\ run.cmd = "backfill" => run.from..at.day - 1 \subseteq DOMAIN Archive \cup lost
  <2>1. Range(at.left) = {}
    BY <1>1 DEF Range
  <2> QED
    BY <1>0, <1>1, <2>1 DEF Accounted, NothingLeftUndone, FailuresAreCounted
<1>6. id \in faulty \/ Treated(id)
  BY <1>5 DEF Treated, StepDone
<1>7. Treated(id) => Treated(id)'
  BY <1>1 DEF Treated
<1>8. \A x \in Behind' \ Behind : x \in faulty' \/ Treated(x)'
  BY <1>1, <1>4, <1>6, <1>7
<1>9. tally'.failures = 0 => tally.failures = 0 /\ ~at.wrong /\ faulty' = {}
  BY <1>1, <1>2, <1>5
<1>10. tally'.failures = 0 => Unparsed(Behind' \ Behind) = {}
  BY <1>4, <1>5, <1>9 DEF Unparsed
<1>11. tally'.days = tally.days
  BY <1>1, <1>2
<1>12. Accounted'
  BY <1>1, <1>3, <1>5, <1>8, <1>9, <1>10, <1>11, AccountGoesOn
<1> QED
  BY <1>1, <1>12, NotEndedYet

(* The days of a command for the archives.                                 *)
LEMMA DaysAre ==
    ASSUME RunTypeOK, at.phase \in DayPhases
    PROVE  /\ run \in RunJobs /\ run.cmd = "backfill" /\ at.day \in Nat /\ run.from \in Nat /\ run.to \in Nat
           /\ run.from <= at.day /\ at.day <= run.to /\ ended = "none"
           /\ tally \in [failures : Nat, days : Nat] /\ tally.failures \in Nat /\ tally.days \in Nat
           /\ at \in Places /\ AtTypeOK
<1>1. /\ run \in RunJobs /\ run.cmd = "backfill" /\ at \in Places /\ ended = "none"
      /\ tally \in [failures : Nat, days : Nat] /\ at.day \in run.from..run.to /\ AtTypeOK
  BY DEF RunTypeOK, AtTypeOK, DayPhases
<1>2. run.from \in Nat /\ run.to \in Nat
  BY <1>1, RunJobsAssumption
<1>3. at.day \in Nat /\ tally.failures \in Nat /\ tally.days \in Nat
  BY <1>1 DEF Places
<1>4. run.from <= at.day /\ at.day <= run.to
  BY <1>1, <1>2, <1>3
<1> QED
  BY <1>1, <1>2, <1>3, <1>4

LEMMA OpenDayStep ==
    ASSUME RunTypeOK, Accounted, OpenDay
    PROVE  Accounted' /\ Ended'
<1>1. at.phase = "day" /\ at.phase \in DayPhases /\ UNCHANGED <<run, saved, checked, ingested, faulty>>
  BY DEF OpenDay, DayPhases
<1>2. /\ run \in RunJobs /\ run.cmd = "backfill" /\ at.day \in Nat /\ run.from \in Nat /\ run.to \in Nat
      /\ run.from <= at.day /\ at.day <= run.to /\ ended = "none"
      /\ tally \in [failures : Nat, days : Nat] /\ tally.failures \in Nat /\ tally.days \in Nat
      /\ at \in Places /\ AtTypeOK
  BY <1>1, DaysAre
<1>3. /\ \A id \in Behind \ faulty : Treated(id)
      /\ tally.failures = 0 => faulty = {} /\ Unparsed(Behind) = {}
      /\ tally.days = 0 => lost = {}
      /\ run.from..at.day - 1 \subseteq DOMAIN Archive \cup lost
  BY <1>1, <1>2 DEF Accounted, NothingLeftUndone, FailuresAreCounted
<1>4. Behind = {id \in InArchives((run.from..at.day - 1) \ lost) : IsOf(id, run.filter)}
  BY <1>1, <1>2 DEF Behind, ArchivesBehind, Reading
<1>5. CASE ArchiveOpens /\ at.day \in DOMAIN Archive
  <2>1. UNCHANGED <<tally, lost, ended>> /\ at' = [at EXCEPT !.phase = "entries", !.todo = Archive[at.day]]
    BY <1>5 DEF ArchiveOpens
  <2>2. at'.phase = "entries" /\ at'.todo = Archive[at.day] /\ at'.day = at.day
    BY <1>2, <2>1 DEF Places
  <2>3. Gone(Archive[at.day], Archive[at.day]) = {}
    BY <1>5, ArchiveIs, GoneIs
  <2>4. Behind' = ArchivesBehind'
    BY <1>1, <1>2 DEF Behind
  <2>5. ArchivesBehind' = Behind
    BY <1>1, <1>4, <2>1, <2>2, <2>3 DEF ArchivesBehind, Gone
  <2>6. Unparsed(Behind' \ Behind) = {}
    BY <2>4, <2>5 DEF Unparsed
  <2>7. Accounted'
    BY <1>1, <1>3, <2>1, <2>2, <2>4, <2>5, <2>6, AccountGoesOn
  <2> QED
    BY <1>2, <2>1, <2>7, NotEndedYet
<1>6. ASSUME DayIsLost
      PROVE  /\ tally'.failures = tally.failures /\ tally'.days = tally.days + 1 /\ lost' = lost \cup {at.day}
             /\ run.from..at.day \subseteq DOMAIN Archive \cup lost'
  <2>1. tally' = [tally EXCEPT !.days = @ + 1] /\ lost' = lost \cup {at.day}
    BY <1>6 DEF DayIsLost
  <2>2. run.from..at.day \subseteq (run.from..at.day - 1) \cup {at.day}
    BY <1>2
  <2> QED
    BY <1>2, <1>3, <2>1, <2>2
<1>7. CASE DayIsLost /\ LastDay(at.day)
  <2>1. RunEnds
    BY <1>7 DEF DayIsLost
  <2>2. /\ tally'.failures = tally.failures /\ tally'.days \in Nat /\ tally'.days # 0
        /\ lost' = lost \cup {at.day}
    BY <1>2, <1>6, <1>7
  <2>3. Wanted((run.from..run.to) \ lost') \subseteq Behind
    <3>1. InArchives((run.from..run.to) \ lost') \subseteq InArchives((run.from..at.day - 1) \ lost)
      <4>1. run.to <= at.day
        BY <1>7 DEF LastDay
      <4>2. InArchives((run.from..run.to) \ (lost \cup {at.day})) \subseteq InArchives((run.from..at.day - 1) \ lost)
        BY <1>2, <4>1, LostIsNotBehind
      <4> QED
        BY <2>2, <4>2
    <3> QED
      BY <1>2, <1>4, <3>1 DEF Wanted
  <2> QED
    BY <1>1, <1>2, <2>1, <2>2, <2>3, RunIsAccountedFor
<1>8. CASE DayIsLost /\ ~LastDay(at.day)
  <2>1. at' = [at EXCEPT !.day = @ + 1] /\ ended' = ended
    BY <1>8 DEF DayIsLost
  <2>2. at'.phase = "day" /\ at'.day = at.day + 1
    BY <1>1, <1>2, <2>1 DEF Places
  <2>3. /\ tally'.failures = tally.failures /\ tally'.days \in Nat /\ tally'.days # 0
        /\ lost' = lost \cup {at.day} /\ run.from..at.day \subseteq DOMAIN Archive \cup lost'
    BY <1>2, <1>6, <1>8
  <2>4. at'.day - 1 = at.day
    BY <1>2, <2>2
  <2>5. Behind' = {id \in InArchives((run.from..at.day) \ lost') : IsOf(id, run.filter)}
    BY <1>1, <1>2, <2>2, <2>4 DEF Behind, ArchivesBehind, Reading
  <2>6. Behind' \subseteq Behind
    <3>1. InArchives((run.from..at.day) \ lost') \subseteq InArchives((run.from..at.day - 1) \ lost)
      <4>1. at.day <= at.day
        BY <1>2
      <4>2. InArchives((run.from..at.day) \ (lost \cup {at.day})) \subseteq InArchives((run.from..at.day - 1) \ lost)
        BY <1>2, <4>1, LostIsNotBehind
      <4> QED
        BY <2>3, <4>2
    <3> QED
      BY <1>4, <2>5, <3>1
  <2>7. Unparsed(Behind' \ Behind) = {}
    BY <2>6 DEF Unparsed
  <2>8. Accounted'
    BY <1>1, <1>3, <2>2, <2>3, <2>4, <2>6, <2>7, AccountGoesOn
  <2> QED
    BY <1>2, <2>1, <2>8, NotEndedYet
<1>9. \/ ArchiveOpens /\ at.day \in DOMAIN Archive
      \/ DayIsLost
  <2>1. at.day \in DOMAIN zips
    <3>1. at.day \in run.from..run.to
      BY <1>2
    <3> QED
      BY <1>2, <3>1 DEF RunTypeOK
  <2>2. zips[at.day] = "good" => at.day \in DOMAIN Archive
    BY <2>1 DEF RunTypeOK
  <2> QED
    BY <2>2 DEF OpenDay
<1> QED
  BY <1>5, <1>7, <1>8, <1>9

LEMMA DayEndsStep ==
    ASSUME RunTypeOK, Accounted, DayEnds
    PROVE  Accounted' /\ Ended'
<1>1. /\ at.phase = "entries" /\ at.phase \in DayPhases /\ at.todo = << >>
      /\ UNCHANGED <<run, saved, checked, ingested, faulty, tally, lost>>
  BY DEF DayEnds, DayPhases
<1>2. /\ run \in RunJobs /\ run.cmd = "backfill" /\ at.day \in Nat /\ run.from \in Nat /\ run.to \in Nat
      /\ run.from <= at.day /\ at.day <= run.to /\ ended = "none"
      /\ tally \in [failures : Nat, days : Nat] /\ tally.failures \in Nat /\ tally.days \in Nat
      /\ at \in Places /\ AtTypeOK
  BY <1>1, DaysAre
<1>3. /\ \A id \in Behind \ faulty : Treated(id)
      /\ tally.failures = 0 => faulty = {} /\ Unparsed(Behind) = {}
      /\ tally.days = 0 => lost = {}
      /\ run.from..at.day - 1 \subseteq DOMAIN Archive \cup lost
  BY <1>1, <1>2 DEF Accounted, NothingLeftUndone, FailuresAreCounted
<1>4. run.from..at.day \subseteq DOMAIN Archive \cup lost
  <2>1. run.from..at.day \subseteq (run.from..at.day - 1) \cup {at.day}
    BY <1>2
  <2>2. at.day \in DOMAIN Archive
    BY <1>1, <1>2 DEF AtTypeOK, Reading
  <2> QED
    BY <1>3, <2>1, <2>2
<1>5. {id \in InArchives((run.from..at.day) \ lost) : IsOf(id, run.filter)} \subseteq Behind
  BY <1>1, <1>2, DayIsBehind
<1>6. CASE LastDay(at.day)
  <2>1. RunEnds /\ run.to = at.day
    BY <1>2, <1>6 DEF DayEnds, LastDay
  <2>2. Wanted((run.from..run.to) \ lost') \subseteq Behind
    BY <1>1, <1>2, <1>5, <2>1 DEF Wanted
  <2>3. tally'.days = 0 => run.from..run.to \subseteq DOMAIN Archive
    BY <1>1, <1>3, <1>4, <2>1
  <2> QED
    BY <1>1, <1>2, <2>1, <2>2, <2>3, RunIsAccountedFor
<1>7. CASE ~LastDay(at.day)
  <2>1. at' = [at EXCEPT !.phase = "day", !.day = @ + 1] /\ ended' = ended
    BY <1>7 DEF DayEnds
  <2>2. at'.phase = "day" /\ at'.day = at.day + 1
    BY <1>2, <2>1 DEF Places
  <2>3. at'.day - 1 = at.day
    BY <1>2, <2>2
  <2>4. Behind' = {id \in InArchives((run.from..at.day) \ lost) : IsOf(id, run.filter)}
    BY <1>1, <1>2, <2>2, <2>3 DEF Behind, ArchivesBehind, Reading
  <2>5. Behind' \subseteq Behind
    BY <1>5, <2>4
  <2>6. Unparsed(Behind' \ Behind) = {}
    BY <2>5 DEF Unparsed
  <2>7. Accounted'
    BY <1>1, <1>3, <1>4, <2>2, <2>3, <2>5, <2>6, AccountGoesOn
  <2> QED
    BY <1>2, <2>1, <2>7, NotEndedYet
<1> QED
  BY <1>6, <1>7

LEMMA AccountStep ==
    ASSUME RunTypeOK, AtTypeOK', Accounted, Ended, [RunNext]_runVars
    PROVE  Accounted' /\ Ended'
<1>1. /\ AtTypeOK /\ at \in Places /\ (at.phase # "idle" => ended = "none")
      /\ tally \in [failures : Nat, days : Nat] /\ tally.failures \in Nat /\ tally.days \in Nat
  BY DEF RunTypeOK, AtTypeOK
<1>2. at.phase # "idle" =>
        /\ \A id \in Behind \ faulty : Treated(id)
        /\ tally.failures = 0 /\ at.phase # "apply" => faulty = {}
        /\ tally.failures = 0 => Unparsed(Behind) = {}
        /\ tally.days = 0 => lost = {}
        /\ run.cmd = "backfill" => run.from..at.day - 1 \subseteq DOMAIN Archive \cup lost
  BY DEF Accounted, NothingLeftUndone, FailuresAreCounted
<1>3. CASE GiveRun
  <2>1. PICK j \in RunJobs : run' = j /\ at' = IF RefusesRun(j) THEN Nowhere
              ELSE [Nowhere EXCEPT !.phase = IF j.cmd = "filings" THEN "list" ELSE "day", !.day = j.from]
    BY <1>3 DEF GiveRun
  <2>2. tally' = NoTally /\ faulty' = {} /\ lost' = {} /\ ended' \in {"refused", "none"}
    BY <1>3 DEF GiveRun
  <2>3. j.from \in Nat /\ j.to \in Nat /\ j.cmd \in {"filings", "backfill"}
    BY RunJobsAssumption
  <2>4. CASE RefusesRun(j)
    <3>1. at'.phase = "idle"
      BY <2>1, <2>4, NowhereIs
    <3> QED
      BY <2>2, <3>1, NotEndedYet DEF Accounted, NothingLeftUndone, FailuresAreCounted
  <2>5. CASE ~RefusesRun(j)
    <3>1. at'.day = j.from /\ at'.phase = IF j.cmd = "filings" THEN "list" ELSE "day"
      BY <2>1, <2>5, NowhereIs DEF Places
    <3>2. at'.phase \notin {"idle", "apply"} /\ ~Reading'
      BY <3>1 DEF Reading
    <3>3. run'.from..at'.day - 1 = {}
      BY <2>1, <2>3, <3>1
    <3>4. Behind' = {}
      <4>1. run'.cmd # "backfill" => Behind' = {}
        BY <3>2 DEF Behind
      <4>2. InArchives({}) = {}
        BY DEF InArchives
      <4>3. ArchivesBehind' = {}
        BY <3>2, <3>3, <4>2 DEF ArchivesBehind
      <4> QED
        BY <4>1, <4>3 DEF Behind
    <3>5. Unparsed(Behind)' = {}
      BY <3>4 DEF Unparsed
    <3>6. Accounted'
      BY <2>2, <3>2, <3>3, <3>4, <3>5 DEF Accounted, NothingLeftUndone, FailuresAreCounted
    <3> QED
      BY <2>2, <3>6, NotEndedYet
  <2> QED
    BY <2>4, <2>5
<1>4. CASE List
  <2>1. at.phase = "list" /\ run.cmd = "filings" /\ ~Reading /\ run \in RunJobs
    BY <1>1, <1>4 DEF List, AtTypeOK, ListPhases, Reading
  <2>2. UNCHANGED <<run, tally, saved, ingested, checked, faulty, lost>>
    BY <1>4 DEF List
  <2>3. CASE at' = [at EXCEPT !.phase = "each", !.todo = Taken(run)] /\ UNCHANGED ended
    <3>1. at'.phase = "each" /\ at'.todo = Taken(run)
      BY <1>1, <2>3 DEF Places
    <3>2. Gone(Taken(run), Taken(run)) = {}
      BY <2>1, ListingIs, GoneIs
    <3>3. Behind' = {}
      BY <2>1, <2>2, <3>1, <3>2 DEF Behind, Reading, ListingBehind, ChainPhases, Gone
    <3>4. Unparsed(Behind' \ Behind) = {}
      BY <3>3 DEF Unparsed
    <3>5. Accounted'
      BY <1>2, <2>1, <2>2, <3>1, <3>3, <3>4, AccountGoesOn
    <3> QED
      BY <1>1, <2>1, <2>3, <3>5, NotEndedYet
  <2>4. CASE at' = Nowhere /\ ended' = "refused"
    BY <2>4, NowhereIs, NotEndedYet DEF Accounted, NothingLeftUndone, FailuresAreCounted
  <2> QED
    BY <1>4, <2>3, <2>4 DEF List
(* A filing is passed over: it is nothing the run is about, or there is    *)
(* nothing to do.                                                          *)
<1>5. ASSUME Reading, at.phase # "apply", at.todo # << >>, ~Counts \/ run.acts = {} \/ at.phase \in ChainPhases,
             UNCHANGED <<run, tally, saved, ingested, checked, faulty, lost, ended>>,
             at'.todo = Tail(at.todo), at'.phase = at.phase, at'.day = at.day
      PROVE  Accounted' /\ Ended'
  <2>1. Reading' /\ at.phase # "idle"
    BY <1>5 DEF Reading
  <2>2. Behind' \subseteq Behind \/ run.acts = {}
    BY <1>1, <1>5, <2>1, BehindPast
  <2>3. \A id \in Behind' \ Behind : Treated(id)'
    BY <1>5, <2>2 DEF Treated
  <2>4. Unparsed(Behind' \ Behind) = {}
    BY <2>2 DEF Unparsed
  <2>5. Accounted'
    BY <1>2, <1>5, <2>1, <2>3, <2>4, AccountGoesOn
  <2> QED
    BY <1>1, <1>5, <2>1, <2>5, NotEndedYet
(* It is on its way to the same one.                                       *)
<1>6. ASSUME Reading, at.phase # "apply", Reading', at'.phase # "apply",
             UNCHANGED <<run, tally, saved, ingested, checked, faulty, lost, ended>>,
             at'.todo = at.todo, at'.day = at.day, at.phase \in ChainPhases <=> at'.phase \in ChainPhases
      PROVE  Accounted' /\ Ended'
  <2>1. at.phase # "idle" /\ Behind' = Behind
    BY <1>6, BehindStays DEF Reading
  <2>2. Unparsed(Behind' \ Behind) = {}
    BY <2>1 DEF Unparsed
  <2>3. Accounted'
    BY <1>2, <1>6, <2>1, <2>2, AccountGoesOn
  <2> QED
    BY <1>1, <1>6, <2>1, <2>3, NotEndedYet
(* It could not be had, and that is counted.                               *)
<1>7. ASSUME Reading, at.phase # "apply", at.todo # << >>,
             UNCHANGED <<run, saved, ingested, checked, lost, ended>>, faulty' = faulty \cup {ThisFiling.id},
             tally' = [tally EXCEPT !.failures = @ + 1],
             at'.todo = Tail(at.todo), at'.day = at.day, Reading', at'.phase # "apply",
             at.phase \in ChainPhases <=> at'.phase \in ChainPhases
      PROVE  Accounted' /\ Ended'
  <2>1. at.phase # "idle" /\ Behind' \subseteq Behind \cup {ThisFiling.id}
    BY <1>1, <1>7, BehindPast DEF Reading
  <2>2. tally'.failures # 0 /\ tally'.days = tally.days
    BY <1>1, <1>7
  <2>3. Accounted'
    BY <1>2, <1>7, <2>1, <2>2, AccountGoesOn
  <2> QED
    BY <1>1, <1>7, <2>1, <2>3, NotEndedYet
(* What is done with the filing at hand.                                   *)
<1>8. ASSUME at.phase \notin {"idle", "apply"}, Reading, run \in RunJobs,
             UNCHANGED <<run, tally, saved, ingested, checked, faulty, lost, ended>>,
             at'.todo = at.todo, at'.day = at.day, at'.phase = "apply", at'.left = StepsOf(run),
             at.phase \notin ChainPhases
      PROVE  Accounted' /\ Ended'
  <2>1. Behind' = Behind
    BY <1>8, BehindStays DEF Reading, ChainPhases
  <2>2. Range(at'.left) = run.acts
    BY <1>8, StepsAre
  <2>3. Accounted'
    BY <1>8, <2>1, <2>2, AccountBegins
  <2> QED
    BY <1>1, <1>8, <2>3, NotEndedYet
<1>9. CASE Each
  <2>1. /\ at.phase = "each" /\ run.cmd = "filings" /\ Reading /\ run \in RunJobs
        /\ UNCHANGED <<run, tally, saved, ingested, checked, faulty, lost>>
    BY <1>1, <1>9 DEF Each, AtTypeOK, ListPhases, Reading
  <2>2. CASE at.todo # << >> /\ (run.acts = {} \/ ThisFiling.id = 0)
    <3>1. at' = [at EXCEPT !.todo = Tail(@)] /\ ended' = ended
      BY <1>9, <2>2 DEF Each
    <3>2. at'.todo = Tail(at.todo) /\ at'.phase = at.phase /\ at'.day = at.day
      BY <1>1, <3>1 DEF Places
    <3> QED
      BY <1>5, <2>1, <2>2, <3>1, <3>2 DEF Counts
  <2>3. CASE at.todo # << >> /\ ~(run.acts = {} \/ ThisFiling.id = 0)
    <3>1. at' = [at EXCEPT !.phase = "fetch", !.via = ThisFiling.hint, !.wrong = FALSE] /\ ended' = ended
      BY <1>9, <2>3 DEF Each
    <3>2. at'.todo = at.todo /\ at'.phase = "fetch" /\ at'.day = at.day
      BY <1>1, <3>1 DEF Places
    <3> QED
      BY <1>6, <2>1, <3>1, <3>2 DEF Reading, ChainPhases
  <2>4. CASE at.todo = << >>
    <3>1. Behind = {r.id : r \in Range(Taken(run))} \ {0}
      BY <1>1, <2>1, <2>4, ListingIsBehind
    <3>2. CASE run.chain
      <4>1. at' = [at EXCEPT !.phase = "chain", !.todo = Taken(run)] /\ ended' = ended
        BY <1>9, <2>4, <3>2 DEF Each
      <4>2. at'.phase = "chain" /\ at'.day = at.day
        BY <1>1, <4>1 DEF Places
      <4>3. Behind' = Behind
        BY <2>1, <3>1, <4>2 DEF Behind, Reading, ListingBehind, ChainPhases
      <4>4. Unparsed(Behind' \ Behind) = {}
        BY <4>3 DEF Unparsed
      <4>5. Accounted'
        BY <1>2, <2>1, <4>2, <4>3, <4>4, AccountGoesOn
      <4> QED
        BY <1>1, <2>1, <4>1, <4>5, NotEndedYet
    <3>3. CASE ~run.chain
      <4>1. RunEnds
        BY <1>9, <2>4, <3>3 DEF Each
      <4>2. \A days : Wanted(days) = Behind
        BY <2>1, <3>1 DEF Wanted
      <4> QED
        BY <1>1, <2>1, <4>1, <4>2, RunIsAccountedFor
    <3> QED
      BY <3>2, <3>3
  <2> QED
    BY <2>2, <2>3, <2>4
<1>10. CASE FetchBytes
  <2>1. /\ at.phase \in {"fetch", "chainFetch"} /\ Reading /\ at.todo # << >> /\ run \in RunJobs
        /\ UNCHANGED <<run, saved, ingested, checked, lost, ended>>
    BY <1>1, <1>10 DEF FetchBytes, AtTypeOK, Reading
  <2>2. CASE at' = [at EXCEPT !.phase = Got(@), !.left = StepsOf(run)] /\ UNCHANGED <<tally, faulty>>
    <3>1. /\ at'.todo = at.todo /\ at'.day = at.day /\ at'.left = StepsOf(run)
          /\ at'.phase = IF at.phase = "fetch" THEN "apply" ELSE "load"
      BY <1>1, <2>2 DEF Places, Got
    <3>2. CASE at.phase = "fetch"
      BY <1>8, <2>1, <2>2, <3>1, <3>2 DEF ChainPhases
    <3>3. CASE at.phase = "chainFetch"
      BY <1>6, <2>1, <2>2, <3>1, <3>3 DEF ChainPhases, Reading
    <3> QED
      BY <2>1, <3>2, <3>3
  <2>3. CASE at' = [at EXCEPT !.via = "store"] /\ UNCHANGED <<tally, faulty>>
    <3>1. at'.todo = at.todo /\ at'.day = at.day /\ at'.phase = at.phase
      BY <1>1, <2>3 DEF Places
    <3> QED
      BY <1>6, <2>1, <2>3, <3>1 DEF ChainPhases, Reading
  <2>4. CASE /\ at' = [at EXCEPT !.phase = IF at.phase = "fetch" THEN "each" ELSE "chain", !.todo = Tail(@)]
             /\ faulty' = faulty \cup {ThisFiling.id} /\ tally' = [tally EXCEPT !.failures = @ + 1]
    <3>1. /\ at'.todo = Tail(at.todo) /\ at'.day = at.day
          /\ at'.phase = IF at.phase = "fetch" THEN "each" ELSE "chain"
      BY <1>1, <2>4 DEF Places
    <3> QED
      BY <1>7, <2>1, <2>4, <3>1 DEF ChainPhases, Reading
  <2>5. \/ at' = [at EXCEPT !.phase = Got(@), !.left = StepsOf(run)] /\ UNCHANGED <<tally, faulty>>
        \/ at' = [at EXCEPT !.via = "store"] /\ UNCHANGED <<tally, faulty>>
        \/ /\ at' = [at EXCEPT !.phase = IF at.phase = "fetch" THEN "each" ELSE "chain", !.todo = Tail(@)]
           /\ faulty' = faulty \cup {ThisFiling.id} /\ tally' = [tally EXCEPT !.failures = @ + 1]
    BY <1>10, <2>1 DEF FetchBytes
  <2> QED
    BY <2>2, <2>3, <2>4, <2>5
<1>11. CASE Apply
  BY <1>1, <1>11, ApplyStep
<1>12. CASE Applied
  BY <1>1, <1>12, AppliedStep
<1>13. CASE OpenDay
  BY <1>1, <1>2, <1>13, OpenDayStep
<1>14. CASE ReadEntry
  <2>1. /\ at.phase = "entries" /\ Reading /\ at.todo # << >> /\ run \in RunJobs
        /\ UNCHANGED <<run, saved, ingested, checked, lost, ended>>
    BY <1>1, <1>14 DEF ReadEntry, AtTypeOK, Reading
  <2>2. run.cmd = "backfill"
    BY <1>1, <2>1 DEF AtTypeOK, DayPhases
  <2>3. CASE /\ tally' = [tally EXCEPT !.failures = @ + 1] /\ faulty' = faulty \cup {ThisFiling.id}
             /\ at' = [at EXCEPT !.todo = Tail(@)]
    <3>1. at'.todo = Tail(at.todo) /\ at'.day = at.day /\ at'.phase = at.phase
      BY <1>1, <2>3 DEF Places
    <3> QED
      BY <1>7, <2>1, <2>3, <3>1 DEF Reading
  <2>4. CASE /\ UNCHANGED <<tally, faulty>> /\ at' = [at EXCEPT !.todo = Tail(@)]
             /\ ~(IsFiling(ThisFiling) /\ FormMatches(ThisFiling.id, run.filter) /\ run.acts # {})
    <3>1. at'.todo = Tail(at.todo) /\ at'.day = at.day /\ at'.phase = at.phase
      BY <1>1, <2>4 DEF Places
    <3>2. ~Counts \/ run.acts = {}
      BY <2>2, <2>4, FilterIs DEF Counts
    <3> QED
      BY <1>5, <2>1, <2>4, <3>1, <3>2
  <2>5. CASE /\ UNCHANGED <<tally, faulty>>
             /\ at' = [at EXCEPT !.phase = "apply", !.left = StepsOf(run), !.wrong = FALSE]
    <3>1. at'.todo = at.todo /\ at'.day = at.day /\ at'.phase = "apply" /\ at'.left = StepsOf(run)
      BY <1>1, <2>5 DEF Places
    <3> QED
      BY <1>8, <2>1, <2>5, <3>1 DEF ChainPhases
  <2> QED
    BY <1>14, <2>3, <2>4, <2>5 DEF ReadEntry
<1>15. CASE DayEnds
  BY <1>1, <1>2, <1>15, DayEndsStep
<1>16. CASE LoadReport
  <2>1. /\ at.phase = "load" /\ Reading /\ at.todo # << >>
        /\ UNCHANGED <<run, saved, ingested, checked, lost, ended, faulty>>
        /\ at' = [at EXCEPT !.phase = "chain", !.todo = Tail(@)]
        /\ tally' = tally \/ tally' = [tally EXCEPT !.failures = @ + 1]
    BY <1>1, <1>16 DEF LoadReport, AtTypeOK, Reading
  <2>2. at'.todo = Tail(at.todo) /\ at'.day = at.day /\ at'.phase = "chain"
    BY <1>1, <2>1 DEF Places
  <2>3. Behind' \subseteq Behind
    BY <1>1, <2>1, <2>2, BehindPast DEF Reading, ChainPhases
  <2>4. (tally'.failures = 0 => tally.failures = 0) /\ tally'.days = tally.days
    BY <1>1, <2>1
  <2>5. Unparsed(Behind' \ Behind) = {}
    BY <2>3 DEF Unparsed
  <2>6. Accounted'
    BY <1>2, <2>1, <2>2, <2>3, <2>4, <2>5, AccountGoesOn
  <2> QED
    BY <1>1, <2>1, <2>6, NotEndedYet
<1>17. CASE Chain
  <2>1. /\ at.phase = "chain" /\ Reading /\ run \in RunJobs
        /\ UNCHANGED <<run, tally, saved, ingested, checked, lost, faulty>>
    BY <1>1, <1>17 DEF Chain, AtTypeOK, Reading
  <2>2. CASE at.todo # << >> /\ ThisFiling.id = 0
    <3>1. at' = [at EXCEPT !.todo = Tail(@)] /\ ended' = ended
      BY <1>17, <2>2 DEF Chain
    <3>2. at'.todo = Tail(at.todo) /\ at'.day = at.day /\ at'.phase = at.phase
      BY <1>1, <3>1 DEF Places
    <3> QED
      BY <1>5, <2>1, <2>2, <3>1, <3>2 DEF ChainPhases
  <2>3. CASE at.todo # << >> /\ ThisFiling.id # 0
    <3>1. at' = [at EXCEPT !.phase = "chainFetch", !.via = ThisFiling.hint] /\ ended' = ended
      BY <1>17, <2>3 DEF Chain
    <3>2. at'.todo = at.todo /\ at'.day = at.day /\ at'.phase = "chainFetch"
      BY <1>1, <3>1 DEF Places
    <3> QED
      BY <1>6, <2>1, <3>1, <3>2 DEF ChainPhases, Reading
  <2>4. CASE at.todo = << >>
    <3>1. Behind = {r.id : r \in Range(Taken(run))} \ {0} /\ run.cmd = "filings"
      BY <1>1, <2>1, ListingIsBehind DEF ChainPhases
    <3>2. RunEnds
      BY <1>17, <2>4 DEF Chain
    <3>3. \A days : Wanted(days) = Behind
      BY <3>1 DEF Wanted
    <3> QED
      BY <1>1, <2>1, <3>1, <3>2, <3>3, RunIsAccountedFor
  <2> QED
    BY <2>2, <2>3, <2>4
<1>18. CASE KillRun
  BY <1>18, NowhereIs, NotEndedYet DEF KillRun, Accounted, NothingLeftUndone, FailuresAreCounted
<1>19. CASE ClearCache \/ UNCHANGED runVars
  <2>1. UNCHANGED <<run, at, tally, saved, ingested, ended, checked, faulty, lost>>
    BY <1>19 DEF ClearCache, runVars
  <2>2. Behind' = Behind
    BY <2>1, BehindStays DEF Reading
  <2>3. \A id : Treated(id)' <=> Treated(id)
    BY <2>1 DEF Treated
  <2>4. \A a, id : StepDone(a, id)' <=> StepDone(a, id)
    BY <2>1 DEF StepDone
  <2>5. \A ids : Unparsed(ids)' = Unparsed(ids)
    BY <2>1 DEF Unparsed
  <2>6. \A days : Wanted(days)' = Wanted(days)
    BY <2>1 DEF Wanted
  <2>7. Accounted'
    <3>1. Unparsed(Behind)' = Unparsed(Behind)
      BY <2>1, <2>2 DEF Unparsed
    <3> QED
      BY <2>1, <2>2, <2>3, <2>4, <3>1 DEF Accounted, NothingLeftUndone, FailuresAreCounted, ThisFiling
  <2>8. Ended'
    BY <2>1 DEF Ended, SuccessIsWhole, FailureIsOfItsOwn, Treated, Wanted, Unparsed
  <2> QED
    BY <2>7, <2>8
<1> QED
  BY <1>3, <1>4, <1>9, <1>10, <1>11, <1>12, <1>13, <1>14, <1>15, <1>16, <1>17, <1>18, <1>19 DEF RunNext

LEMMA RunInitInv == RunInit => RunInv
<1> SUFFICES ASSUME RunInit
             PROVE  RunInv
  OBVIOUS
<1>1. RunTypeOK
  BY TypeInit
<1>2. /\ at.phase = "idle" /\ ended = "none" /\ chained = NoneChained /\ saved = {} /\ ingested = {}
      /\ NoneChained.rows = << >>
  BY NowhereIs DEF RunInit, NoneChained
<1>3. NothingLeftUndone /\ FailuresAreCounted
  BY <1>2 DEF NothingLeftUndone, FailuresAreCounted
<1>4. NothingElseTouched
  BY <1>2 DEF NothingElseTouched
<1>5. EachHasItsPlace
  BY <1>2 DEF EachHasItsPlace, ChainCountsDaysOnce, ChainPhases
<1>6. SuccessIsWhole /\ FailureIsOfItsOwn /\ EveryReportHasARow
  BY <1>2 DEF SuccessIsWhole, FailureIsOfItsOwn, EveryReportHasARow
<1> QED
  BY <1>1, <1>3, <1>4, <1>5, <1>6 DEF RunInv

LEMMA RunStep == RunInv /\ [RunNext]_runVars => RunInv'
<1> SUFFICES ASSUME RunInv, [RunNext]_runVars
             PROVE  RunInv'
  OBVIOUS
<1>1. /\ RunTypeOK /\ Accounted /\ Ended /\ NothingElseTouched /\ EachHasItsPlace /\ EveryReportHasARow
  BY DEF RunInv, Accounted, Ended
<1>2. AtTypeOK' /\ (at'.phase # "idle" => ended' = "none")
  BY <1>1, AtTypeStep
<1>3. tally' \in [failures : Nat, days : Nat] /\ run' \in RunJobs \cup {NoRun}
  BY <1>1, TallyStep
<1>4. /\ \A d \in DOMAIN zips' : zips'[d] = "good" => d \in DOMAIN Archive
      /\ UNION {j.from..j.to : j \in RunJobs} \subseteq DOMAIN zips'
  BY <1>1, ZipsStep
<1>5. Chained' /\ EachHasItsPlace' /\ EveryReportHasARow'
  BY <1>1, ChainedStep
<1>6. NothingElseTouched'
  BY <1>1, TouchedStep
<1>7. Accounted' /\ Ended'
  BY <1>1, <1>2, AccountStep
<1>8. RunTypeOK'
  BY <1>2, <1>3, <1>4, <1>5 DEF RunTypeOK, Chained
<1> QED
  BY <1>5, <1>6, <1>7, <1>8 DEF RunInv, Accounted, Ended

(* What the type, the account and the chain say together holds throughout,  *)
(* for any listing, archives, commands and faults.                         *)
THEOREM RunInvariant == RunSpec => []RunInv
<1>1. RunInit => RunInv
  BY RunInitInv
<1>2. RunInv /\ [RunNext]_runVars => RunInv'
  BY RunStep
<1> QED
  BY <1>1, <1>2, PTL DEF RunSpec

(* A run that succeeded did everything to every filing it is about; one that *)
(* failed left undone what itself could not be done, or was on a day that was *)
(* lost; nothing else was saved or ingested, no row of a chain counts a day   *)
(* twice, and each filing listed has its row (src/cli/filings.rs, efile.rs).  *)
THEOREM RunsAccount == RunSpec => []RunsAccountForAll
<1>1. RunInv => RunsAccountForAll
  BY DEF RunInv, RunsAccountForAll, EachHasItsPlace
<1> QED
  BY <1>1, RunInvariant, PTL

-----------------------------------------------------------------------------
(***************************************************************************)
(* Exports: what they leave behind is whole.                               *)
(***************************************************************************)
RecordTables == UNION {Range(Exported[f].records) : f \in DOMAIN Exported}
ExportedRows == [filing : DOMAIN Exported, line : Nat, table : RecordTables]
OpenFiles    == [table : RecordTables, rows : Seq(ExportedRows), pending : Seq(ExportedRows)]

IsDatabase(db) ==
    /\ db = [columns |-> db.columns, rows |-> db.rows, filings |-> db.filings]
    /\ db.rows \in Seq(ExportedRows) /\ db.filings \in Seq(DOMAIN Exported)

ExportTypeOK ==
    /\ IsDatabase(database)
    /\ intoDb \in Seq([job : ExportJobs, after : 0..Len(database.rows)])
    /\ dir = [f \in DOMAIN dir |-> dir[f]] /\ \A f \in DOMAIN dir : f[2] # "sqlite"
    /\ ~Idle => /\ exporting = [job |-> Job, next |-> exporting.next, open |-> exporting.open, tx |-> exporting.tx]
                /\ Job \in ExportJobs /\ exporting.next \in 1..Len(RecordsOf(Job)) + 1
                /\ exporting.open \in Seq(OpenFiles) /\ IsDatabase(exporting.tx)

(* The lines the export under way has written, and those of one table.     *)
ReadSoFar == {i \in 1..exporting.next - 1 : Chosen(Job, i)}
ReadOf(t) == {i \in ReadSoFar : RecordsOf(Job)[i] = t}

(* Each table that was met is open once, and what was written of it and    *)
(* what is pending are together its records so far.                        *)
OpenAsRead(open) ==
    /\ \A k \in DOMAIN open :
          /\ open[k].rows \o open[k].pending = RowsOf(Job, ReadOf(open[k].table))
          /\ Job.format # "parquet" => open[k].pending = << >>
    /\ \A j, k \in DOMAIN open : open[j].table = open[k].table => j = k
OpenIsRead == OpenAsRead(exporting.open)
TablesMet  == {RecordsOf(Job)[i] : i \in ReadSoFar}

(* The transaction is what is committed and the lines written so far.      *)
TxAsRead ==
    /\ exporting.tx.rows = IF IntoDirectory THEN database.rows
                           ELSE database.rows \o RowsOf(Job, ReadSoFar)
    /\ exporting.tx.filings = Append(database.filings, Job.filing)

UnderWay ==
    ~Idle => /\ OpenIsRead
             /\ {exporting.open[k].table : k \in DOMAIN exporting.open} = TablesMet
             /\ IntoDirectory => \A t \in TablesMet : PathFor(t) \in DOMAIN dir
             /\ IntoDirectory => report = << >>
             /\ TxAsRead

ExportInv == ExportTypeOK /\ UnderWay /\ ExportsAreWhole
-----------------------------------------------------------------------------
LEMMA RecordsAre ==
    ASSUME NEW job \in ExportJobs
    PROVE  /\ job.filing \in DOMAIN Exported
           /\ RecordsOf(job) \in Seq(RecordTables) /\ Len(RecordsOf(job)) \in Nat
           /\ DOMAIN RecordsOf(job) = 1..Len(RecordsOf(job))
           /\ \A i \in 1..Len(RecordsOf(job)) :
                 RecordsOf(job)[i] \in RecordTables /\ RowAt(job, i) \in ExportedRows
<1>1. job.filing \in DOMAIN Exported
  BY ExportsAssumption
<1>2. RecordsOf(job) \in Seq(Range(RecordsOf(job))) /\ Range(RecordsOf(job)) \subseteq RecordTables
  BY <1>1, ExportsAssumption DEF RecordsOf, RecordTables
<1>3. RecordsOf(job) \in Seq(RecordTables)
  BY <1>2, SeqMonotonic
<1>4. Len(RecordsOf(job)) \in Nat /\ DOMAIN RecordsOf(job) = 1..Len(RecordsOf(job))
  BY <1>3, LenProperties
<1>5. ASSUME NEW i \in 1..Len(RecordsOf(job))
      PROVE  RecordsOf(job)[i] \in RecordTables /\ RowAt(job, i) \in ExportedRows
  <2>1. RecordsOf(job)[i] \in RecordTables
    BY <1>3, ElementOfSeq
  <2> QED
    BY <1>1, <1>4, <2>1 DEF RowAt, ExportedRows
<1> QED
  BY <1>1, <1>3, <1>4, <1>5

(* The rows of some lines of a filing, one more at the end of them, none.  *)
LEMMA RowsOfLines ==
    ASSUME NEW job \in ExportJobs, NEW S \in SUBSET (1..Len(RecordsOf(job)))
    PROVE  /\ IsFiniteSet(S) /\ Cardinality(S) \in Nat
           /\ RowsOf(job, S) \in Seq(ExportedRows) /\ Len(RowsOf(job, S)) = Cardinality(S)
           /\ \A k \in 1..Cardinality(S) : RowsOf(job, S)[k] = RowAt(job, Nth(S, k))
<1>1. Len(RecordsOf(job)) \in Nat
  BY RecordsAre
<1>2. IsFiniteSet(S) /\ S \in SUBSET Nat
  <2>1. 1 \in Int /\ Len(RecordsOf(job)) \in Int
    BY <1>1
  <2>2. IsFiniteSet(1..Len(RecordsOf(job)))
    BY <2>1, FS_Interval
  <2>3. IsFiniteSet(S)
    BY <2>2, FS_Subset
  <2> QED
    BY <1>1, <2>3
<1>3. Cardinality(S) \in Nat /\ \A k \in 1..Cardinality(S) : Nth(S, k) \in S
  BY <1>2, LeastFirst
<1> DEFINE n == Cardinality(S)
<1>4. RowsOf(job, S) = [k \in 1..n |-> RowAt(job, Nth(S, k))]
  BY DEF RowsOf, Nth
<1>5. \A k \in 1..n : RowAt(job, Nth(S, k)) \in ExportedRows
  BY <1>3, RecordsAre
<1> HIDE DEF n
<1>6. RowsOf(job, S) \in [1..n -> ExportedRows]
  BY <1>4, <1>5
<1>7. n \in Nat
  BY <1>3 DEF n
<1>8. RowsOf(job, S) \in Seq(ExportedRows) /\ Len(RowsOf(job, S)) = n
  BY <1>6, <1>7, FunctionIsSeq
<1> QED
  BY <1>2, <1>3, <1>4, <1>8 DEF n

LEMMA RowsOfOneMore ==
    ASSUME NEW job \in ExportJobs, NEW i \in 1..Len(RecordsOf(job)), NEW S \in SUBSET (1..i - 1)
    PROVE  RowsOf(job, S \cup {i}) = Append(RowsOf(job, S), RowAt(job, i))
<1> DEFINE T == S \cup {i}
           rows == RowsOf(job, S)
           n == Cardinality(S)
<1>1. Len(RecordsOf(job)) \in Nat /\ i \in Nat
  BY RecordsAre
<1>2. S \in SUBSET (1..Len(RecordsOf(job))) /\ T \in SUBSET (1..Len(RecordsOf(job)))
      /\ S \in SUBSET Nat /\ \A j \in S : j < i
  BY <1>1
<1>3. /\ IsFiniteSet(S) /\ n \in Nat /\ rows \in Seq(ExportedRows) /\ Len(rows) = n
      /\ \A k \in 1..n : rows[k] = RowAt(job, Nth(S, k))
  BY <1>2, RowsOfLines
<1>4. /\ RowsOf(job, T) \in Seq(ExportedRows) /\ Len(RowsOf(job, T)) = Cardinality(T)
      /\ \A k \in 1..Cardinality(T) : RowsOf(job, T)[k] = RowAt(job, Nth(T, k))
  <2> HIDE DEF T
  <2> QED
    BY <1>2, RowsOfLines
<1>5. /\ Cardinality(T) = n + 1 /\ Nth(T, n + 1) = i
      /\ \A k \in 1..n : Nth(T, k) = Nth(S, k)
  BY <1>1, <1>2, <1>3, OneMoreAtTheEnd
<1> HIDE DEF T, n, rows
<1>6. RowAt(job, i) \in ExportedRows
  BY RecordsAre
<1>7. /\ Append(rows, RowAt(job, i)) \in Seq(ExportedRows)
      /\ Len(Append(rows, RowAt(job, i))) = n + 1
      /\ Append(rows, RowAt(job, i))[n + 1] = RowAt(job, i)
      /\ \A k \in 1..n : Append(rows, RowAt(job, i))[k] = rows[k]
  BY <1>3, <1>6, AppendProperties
<1>8. ASSUME NEW k \in 1..n + 1
      PROVE  RowsOf(job, T)[k] = Append(rows, RowAt(job, i))[k]
  <2>1. k \in 1..n \/ k = n + 1
    BY <1>3
  <2>2. RowsOf(job, T)[k] = RowAt(job, Nth(T, k))
    BY <1>4, <1>5
  <2>3. CASE k \in 1..n
    BY <1>3, <1>5, <1>7, <2>2, <2>3
  <2>4. CASE k = n + 1
    BY <1>5, <1>7, <2>2, <2>4
  <2> QED
    BY <2>1, <2>3, <2>4
<1>9. RowsOf(job, T) = Append(rows, RowAt(job, i))
  BY <1>4, <1>5, <1>7, <1>8, SeqEqual
<1> QED
  BY <1>9 DEF T, rows

LEMMA RowsOfNone ==
    ASSUME NEW job \in ExportJobs
    PROVE  RowsOf(job, {}) = << >>
<1>1. Cardinality({}) = 0 /\ {} \in SUBSET (1..Len(RecordsOf(job)))
  BY FS_EmptySet
<1>2. RowsOf(job, {}) \in Seq(ExportedRows) /\ Len(RowsOf(job, {})) = 0
  BY <1>1, RowsOfLines
<1> QED
  BY <1>2, EmptySeq

(* One more at the end of two sequences, the second empty or not.          *)
LEMMA AppendedLast ==
    ASSUME NEW S, NEW a \in Seq(S), NEW b \in Seq(S), NEW x \in S
    PROVE  /\ Append(b, x) \in Seq(S) /\ a \o b \in Seq(S) /\ a \o << >> = a
           /\ a \o Append(b, x) = Append(a \o b, x)
<1>1. /\ Append(b, x) \in Seq(S) /\ Len(Append(b, x)) = Len(b) + 1
      /\ Append(b, x)[Len(b) + 1] = x /\ \A i \in 1..Len(b) : Append(b, x)[i] = b[i]
  BY AppendProperties
<1>2. /\ a \o b \in Seq(S) /\ Len(a \o b) = Len(a) + Len(b)
      /\ \A i \in 1..Len(a) + Len(b) : (a \o b)[i] = IF i <= Len(a) THEN a[i] ELSE b[i - Len(a)]
  BY ConcatProperties
<1>3. a \o << >> = a
  BY ConcatEmptySeq
<1> DEFINE m == Len(a)
           n == Len(b)
           c == Append(b, x)
           ab == a \o b
<1>4. m \in Nat /\ n \in Nat
  BY LenProperties
<1> HIDE DEF m, n, c, ab
<1>5. /\ a \o c \in Seq(S) /\ Len(a \o c) = m + (n + 1)
      /\ \A i \in 1..m + (n + 1) : (a \o c)[i] = IF i <= m THEN a[i] ELSE c[i - m]
  BY <1>1, ConcatProperties DEF m, n, c
<1>6. /\ Append(ab, x) \in Seq(S) /\ Len(Append(ab, x)) = (m + n) + 1
      /\ Append(ab, x)[(m + n) + 1] = x
      /\ \A i \in 1..m + n : Append(ab, x)[i] = ab[i]
  BY <1>2, AppendProperties DEF ab, m, n
<1>7. ASSUME NEW i \in 1..m + (n + 1)
      PROVE  (a \o c)[i] = Append(ab, x)[i]
  <2>1. i \in 1..m \/ (i \in m + 1..m + n /\ i - m \in 1..n /\ i \in 1..m + n) \/ i = m + n + 1
    BY <1>4
  <2>2. CASE i \in 1..m
    <3>1. i <= m /\ i \in 1..m + n
      BY <1>4, <2>2
    <3> QED
      BY <1>2, <1>5, <1>6, <3>1 DEF ab, m, n
  <2>3. CASE i \in m + 1..m + n /\ i - m \in 1..n /\ i \in 1..m + n
    <3>1. ~(i <= m)
      BY <1>4, <2>3
    <3>2. c[i - m] = b[i - m]
      BY <1>1, <2>3 DEF c, n
    <3>3. ab[i] = b[i - m]
      BY <1>2, <2>3, <3>1 DEF ab, m, n
    <3> QED
      BY <1>5, <1>6, <2>3, <3>1, <3>2, <3>3
  <2>4. CASE i = m + n + 1
    <3>1. ~(i <= m) /\ i - m = n + 1
      BY <1>4, <2>4
    <3>2. c[n + 1] = x
      BY <1>1 DEF c, n
    <3> QED
      BY <1>5, <1>6, <2>4, <3>1, <3>2
  <2> QED
    BY <2>1, <2>2, <2>3, <2>4
<1>8. a \o c = Append(ab, x)
  <2>1. Len(a \o c) = Len(Append(ab, x)) /\ \A i \in 1..Len(a \o c) : (a \o c)[i] = Append(ab, x)[i]
    BY <1>4, <1>5, <1>6, <1>7
  <2> QED
    BY <1>5, <1>6, <2>1, SeqEqual
<1> QED
  BY <1>1, <1>2, <1>3, <1>8 DEF c, ab
-----------------------------------------------------------------------------
(* A record added to what is written and pending of its table.             *)
LEMMA RowIsAdded ==
    ASSUME NEW o \in OpenFiles, Job \in ExportJobs, NEW i \in 1..Len(RecordsOf(Job)),
           NEW S \in SUBSET (1..i - 1), o.rows \o o.pending = RowsOf(Job, S),
           Job.format # "parquet" => o.pending = << >>
    PROVE  LET n == WithRow(o, RowAt(Job, i))
           IN  /\ n \in OpenFiles /\ n.table = o.table
               /\ n.rows \o n.pending = RowsOf(Job, S \cup {i})
               /\ Job.format # "parquet" => n.pending = << >>
<1> DEFINE row == RowAt(Job, i)
           n == WithRow(o, row)
<1>1. /\ o.table \in RecordTables /\ o.rows \in Seq(ExportedRows) /\ o.pending \in Seq(ExportedRows)
      /\ o = [table |-> o.table, rows |-> o.rows, pending |-> o.pending]
  BY DEF OpenFiles
<1>2. row \in ExportedRows
  BY RecordsAre
<1>3. RowsOf(Job, S \cup {i}) = Append(o.rows \o o.pending, row)
  BY RowsOfOneMore
<1> HIDE DEF row
<1>4. /\ Append(o.pending, row) \in Seq(ExportedRows)
      /\ o.rows \o Append(o.pending, row) \in Seq(ExportedRows)
      /\ o.rows \o Append(o.pending, row) = Append(o.rows \o o.pending, row)
  <2>1. \A a, b \in Seq(ExportedRows) :
           /\ Append(b, row) \in Seq(ExportedRows) /\ a \o b \in Seq(ExportedRows)
           /\ a \o Append(b, row) = Append(a \o b, row)
    BY <1>2, AppendedLast
  <2> QED
    BY <1>1, <2>1
<1>5. << >> \in Seq(ExportedRows) /\ \A s \in Seq(ExportedRows) : s \o << >> = s
  BY EmptySeq, ConcatEmptySeq
<1>6. CASE Job.format = "parquet" /\ Len(Append(o.pending, row)) < BatchRows
  <2>1. n = [table |-> o.table, rows |-> o.rows, pending |-> Append(o.pending, row)]
    BY <1>1, <1>6 DEF WithRow, BatchedRow
  <2> HIDE DEF n
  <2>2. n \in OpenFiles /\ n.table = o.table /\ n.rows \o n.pending = Append(o.rows \o o.pending, row)
    BY <1>1, <1>4, <2>1 DEF OpenFiles
  <2> QED
    BY <1>3, <1>6, <2>2 DEF n, row
<1>7. CASE Job.format = "parquet" /\ ~(Len(Append(o.pending, row)) < BatchRows)
  <2>1. n = [table |-> o.table, rows |-> o.rows \o Append(o.pending, row), pending |-> << >>]
    BY <1>1, <1>7 DEF WithRow, BatchedRow
  <2> HIDE DEF n
  <2>2. n \in OpenFiles /\ n.table = o.table /\ n.rows \o n.pending = Append(o.rows \o o.pending, row)
    BY <1>1, <1>4, <1>5, <2>1 DEF OpenFiles
  <2> QED
    BY <1>3, <1>7, <2>2 DEF n, row
<1>8. CASE Job.format # "parquet"
  <2>1. n = [table |-> o.table, rows |-> Append(o.rows, row), pending |-> o.pending]
    BY <1>1, <1>8 DEF WithRow, TextRow
  <2>2. Append(o.rows, row) \in Seq(ExportedRows)
    BY <1>1, <1>2
  <2>3. o.pending = << >> /\ o.rows \o << >> = o.rows /\ Append(o.rows, row) \o << >> = Append(o.rows, row)
    BY <1>1, <1>5, <1>8, <2>2
  <2> HIDE DEF n
  <2>4. /\ n \in OpenFiles /\ n.table = o.table /\ n.pending = << >>
        /\ n.rows \o n.pending = Append(o.rows \o o.pending, row)
    BY <1>1, <1>5, <2>1, <2>2, <2>3 DEF OpenFiles
  <2> QED
    BY <1>3, <2>4 DEF n, row
<1> QED
  BY <1>6, <1>7, <1>8

(* What is open when the line at hand is written: its table, and the ones  *)
(* met before.                                                             *)
LEMMA TableIsOpen ==
    ASSUME ExportTypeOK, ~Idle, OpenAsRead(exporting.open),
           {exporting.open[k].table : k \in DOMAIN exporting.open} = TablesMet,
           NEW t \in RecordTables
    PROVE  LET open == IF OpenAt(t) = {} THEN Append(exporting.open, NewFile(t)) ELSE exporting.open
           IN  /\ open \in Seq(OpenFiles) /\ OpenAsRead(open)
               /\ {open[k].table : k \in DOMAIN open} = TablesMet \cup {t}
<1> DEFINE was  == exporting.open
           open == IF OpenAt(t) = {} THEN Append(was, NewFile(t)) ELSE was
           n    == Len(was)
<1>1. was \in Seq(OpenFiles) /\ Job \in ExportJobs
  BY DEF ExportTypeOK
<1>2. CASE OpenAt(t) # {}
  <2>1. \E k \in DOMAIN was : was[k].table = t
    BY <1>2 DEF OpenAt
  <2>2. TablesMet = TablesMet \cup {t}
    BY <2>1
  <2> QED
    BY <1>1, <1>2, <2>2
<1>3. CASE OpenAt(t) = {}
  <2>1. open = Append(was, NewFile(t))
    BY <1>3
  <2>2. NewFile(t) \in OpenFiles /\ NewFile(t).table = t /\ NewFile(t).rows = << >> /\ NewFile(t).pending = << >>
    BY EmptySeq DEF NewFile, OpenFiles
  <2>3. n \in Nat /\ DOMAIN was = 1..n
    BY <1>1, LenProperties
  <2>4. /\ open \in Seq(OpenFiles) /\ Len(open) = n + 1 /\ open[n + 1] = NewFile(t)
        /\ \A k \in 1..n : open[k] = was[k]
    BY <1>1, <2>1, <2>2, AppendProperties
  <2>5. DOMAIN open = 1..n + 1
    BY <2>4, LenProperties
  <2>6. \A k \in 1..n : was[k].table # t
    BY <1>3, <2>3 DEF OpenAt
  <2>7. t \notin TablesMet
    BY <2>3, <2>6
  <2>8. ReadOf(t) = {}
    BY <2>7 DEF ReadOf, TablesMet
  <2>9. RowsOf(Job, ReadOf(t)) = << >> \o << >>
    BY <1>1, <2>8, RowsOfNone, ConcatEmptySeq, EmptySeq
  <2> HIDE DEF open, n
  <2>10. \A k \in DOMAIN open : (k \in 1..n /\ k \in DOMAIN was /\ open[k] = was[k]) \/ (k = n + 1 /\ open[k] = NewFile(t))
    BY <2>3, <2>4, <2>5
  <2>11. OpenAsRead(open)
    <3>1. ASSUME NEW k \in DOMAIN open
          PROVE  /\ open[k].rows \o open[k].pending = RowsOf(Job, ReadOf(open[k].table))
                 /\ Job.format # "parquet" => open[k].pending = << >>
      <4>1. CASE k \in DOMAIN was /\ open[k] = was[k]
        BY <4>1 DEF OpenAsRead
      <4>2. CASE open[k] = NewFile(t)
        BY <2>2, <2>9, <4>2
      <4> QED
        BY <2>10, <4>1, <4>2
    <3>2. ASSUME NEW j \in DOMAIN open, NEW k \in DOMAIN open, open[j].table = open[k].table
          PROVE  j = k
      BY <2>2, <2>6, <2>10, <3>2 DEF OpenAsRead
    <3> QED
      BY <3>1, <3>2 DEF OpenAsRead
  <2>12. {open[k].table : k \in DOMAIN open} = TablesMet \cup {t}
    <3>1. \A k \in 1..n : k \in DOMAIN open
      BY <2>3, <2>5
    <3>2. n + 1 \in DOMAIN open
      BY <2>3, <2>5
    <3> QED
      BY <2>2, <2>3, <2>4, <2>10, <3>1, <3>2
  <2> QED
    BY <2>4, <2>11, <2>12 DEF open
<1> QED
  BY <1>2, <1>3

(* Closing files changes what they say, not which there are; an export into *)
(* the database has none.                                                  *)
LEMMA ClosingFiles ==
    ASSUME ExportTypeOK, NEW written, NEW whole, dir' = FilesClosed(written, whole)
    PROVE  /\ DOMAIN dir' = DOMAIN dir /\ dir' = [f \in DOMAIN dir' |-> dir'[f]]
           /\ \A f \in DOMAIN dir' : f[2] # "sqlite"
           /\ Job.format = "sqlite" => dir' = dir
<1>1. DOMAIN dir' = DOMAIN dir /\ dir' = [f \in DOMAIN dir' |-> dir'[f]]
  BY DEF FilesClosed
<1>2. \A f \in DOMAIN dir : f[2] # "sqlite"
  BY DEF ExportTypeOK
<1>3. ASSUME Job.format = "sqlite"
      PROVE  dir' = dir
  <2>1. \A f \in DOMAIN dir : dir'[f] = dir[f]
    BY <1>2, <1>3 DEF FilesClosed
  <2>2. dir = [f \in DOMAIN dir |-> dir[f]]
    BY DEF ExportTypeOK
  <2> QED
    BY <1>1, <2>1, <2>2
<1> QED
  BY <1>1, <1>2, <1>3

(* A step after which nothing is under way, and that keeps the database.   *)
LEMMA NothingUnderWay ==
    ASSUME ExportInv, exporting' = NotExporting, UNCHANGED <<database, intoDb>>,
           dir' = [f \in DOMAIN dir' |-> dir'[f]], \A f \in DOMAIN dir' : f[2] # "sqlite",
           FilesAreTheFiling'
    PROVE  ExportInv'
<1>1. Idle'
  BY DEF Idle
<1>2. IsDatabase(database') /\ intoDb' \in Seq([job : ExportJobs, after : 0..Len(database'.rows)])
  BY DEF ExportInv, ExportTypeOK
<1>3. ExportTypeOK' /\ UnderWay'
  BY <1>1, <1>2 DEF ExportTypeOK, UnderWay
<1>4. DatabaseHoldsWholeExports'
  BY DEF ExportInv, ExportsAreWhole, DatabaseHoldsWholeExports, CommittedBefore
<1> QED
  BY <1>3, <1>4 DEF ExportInv, ExportsAreWhole

LEMMA ExportsBegin == ExportInit => ExportInv
<1> SUFFICES ASSUME ExportInit PROVE ExportInv
  OBVIOUS
<1>1. Idle
  BY DEF ExportInit, Idle
<1>2. dir = [f \in DOMAIN dir |-> dir[f]] /\ DOMAIN dir = {} /\ DOMAIN intoDb = {} /\ Range(report) = {}
  BY DEF ExportInit, Range
<1>3. IsDatabase(database) /\ database.rows = << >> /\ Len(database.rows) = 0 /\ database.filings = << >>
  BY EmptySeq DEF ExportInit, IsDatabase, NoDatabase
<1>4. intoDb \in Seq([job : ExportJobs, after : 0..Len(database.rows)])
  BY EmptySeq DEF ExportInit
<1>5. ExportTypeOK /\ UnderWay
  BY <1>1, <1>2, <1>3, <1>4 DEF ExportTypeOK, UnderWay
<1>6. DatabaseHoldsWholeExports
  <2>1. [k \in DOMAIN intoDb |-> intoDb[k].job.filing] = << >>
    BY <1>2
  <2>2. CommittedBefore(1) = 0
    BY <1>2, <1>3 DEF CommittedBefore
  <2> QED
    BY <1>2, <1>3, <2>1, <2>2 DEF DatabaseHoldsWholeExports
<1>7. FilesAreTheFiling
  BY <1>2 DEF FilesAreTheFiling
<1> QED
  BY <1>5, <1>6, <1>7 DEF ExportInv, ExportsAreWhole

LEMMA BeginsWell ==
    ASSUME ExportInv, ExportBegins
    PROVE  ExportInv'
<1>1. PICK job \in ExportJobs :
         /\ exporting' = [job |-> job, next |-> 1, open |-> << >>,
                          tx |-> [database EXCEPT !.filings = Append(@, job.filing)]]
         /\ report' = IF job.format = "sqlite" THEN report ELSE << >>
  BY DEF ExportBegins
<1>2. UNCHANGED <<dir, database, intoDb>>
  BY DEF ExportBegins
<1>3. Job' = job /\ exporting'.next = 1 /\ exporting'.open = << >>
      /\ exporting' = [job |-> Job', next |-> exporting'.next, open |-> exporting'.open, tx |-> exporting'.tx]
  BY <1>1 DEF Job
<1>4. IsDatabase(database) /\ database.rows \in Seq(ExportedRows)
  BY DEF ExportInv, ExportTypeOK, IsDatabase
<1>5. exporting'.tx = [columns |-> database.columns, rows |-> database.rows,
                       filings |-> Append(database.filings, job.filing)]
  BY <1>1, <1>4 DEF IsDatabase
<1>6. IsDatabase(exporting'.tx)
  <2>1. job.filing \in DOMAIN Exported
    BY RecordsAre
  <2>2. Append(database.filings, job.filing) \in Seq(DOMAIN Exported)
    BY <1>4, <2>1 DEF IsDatabase
  <2> QED
    BY <1>4, <1>5, <2>2 DEF IsDatabase
<1>7. exporting'.next \in 1..Len(RecordsOf(Job')) + 1 /\ exporting'.open \in Seq(OpenFiles)
  BY <1>3, RecordsAre, EmptySeq
<1>8. ExportTypeOK'
  <2>1. /\ IsDatabase(database') /\ intoDb' \in Seq([job : ExportJobs, after : 0..Len(database'.rows)])
        /\ dir' = [f \in DOMAIN dir' |-> dir'[f]] /\ \A f \in DOMAIN dir' : f[2] # "sqlite"
    BY <1>2 DEF ExportInv, ExportTypeOK
  <2>2. Job' \in ExportJobs
    BY <1>3
  <2> QED
    BY <1>3, <1>6, <1>7, <2>1, <2>2 DEF ExportTypeOK
<1>9. ReadSoFar' = {}
  BY <1>3 DEF ReadSoFar
<1>10. UnderWay'
  <2>1. DOMAIN exporting'.open = {}
    BY <1>3
  <2>2. OpenIsRead' /\ TablesMet' = {} /\ {exporting.open[k].table : k \in DOMAIN exporting.open}' = {}
    BY <1>9, <2>1 DEF OpenIsRead, OpenAsRead, TablesMet
  <2>3. TxAsRead'
    <3>1. database.rows \o RowsOf(job, {}) = database.rows
      BY <1>4, RowsOfNone, ConcatEmptySeq
    <3>2. exporting'.tx.rows = database.rows /\ exporting'.tx.filings = Append(database.filings, job.filing)
      BY <1>5
    <3>3. database' = database /\ Job'.filing = job.filing /\ RowsOf(Job', ReadSoFar') = RowsOf(job, {})
      BY <1>2, <1>3, <1>9
    <3> QED
      BY <3>1, <3>2, <3>3 DEF TxAsRead
  <2>4. IntoDirectory' => report' = << >>
    BY <1>1, <1>3 DEF IntoDirectory
  <2> QED
    BY <2>2, <2>3, <2>4 DEF UnderWay
<1>11. ExportsAreWhole'
  <2>1. DatabaseHoldsWholeExports'
    BY <1>2 DEF ExportInv, ExportsAreWhole, DatabaseHoldsWholeExports, CommittedBefore
  <2>2. FilesAreTheFiling'
    <3>1. CASE report' = << >>
      BY <3>1 DEF FilesAreTheFiling, Range
    <3>2. CASE report' = report
      BY <1>2, <3>2 DEF ExportInv, ExportsAreWhole, FilesAreTheFiling
    <3> QED
      BY <1>1, <3>1, <3>2
  <2> QED
    BY <2>1, <2>2 DEF ExportsAreWhole
<1> QED
  BY <1>8, <1>10, <1>11 DEF ExportInv

(* The lines behind the next one, when this one is written or passed over.  *)
LEMMA OneLineOn ==
    ASSUME ExportInv, RecordLeft, Job' = Job, exporting'.next = exporting.next + 1
    PROVE  /\ exporting.next \in 1..Len(RecordsOf(Job)) /\ exporting'.next \in 1..Len(RecordsOf(Job)) + 1
           /\ ReadSoFar \in SUBSET (1..exporting.next - 1)
           /\ Chosen(Job, exporting.next) => ReadSoFar' = ReadSoFar \cup {exporting.next}
           /\ ~Chosen(Job, exporting.next) => ReadSoFar' = ReadSoFar
<1> DEFINE i == exporting.next
           n == Len(RecordsOf(Job))
<1>1. Job \in ExportJobs /\ i \in 1..n + 1 /\ i <= n
  BY DEF ExportInv, ExportTypeOK, RecordLeft
<1>2. n \in Nat
  BY <1>1, RecordsAre
<1> HIDE DEF n
<1>3. i \in 1..n /\ i + 1 \in 1..n + 1 /\ i \in Nat
  BY <1>1, <1>2
<1>4. 1..(i + 1) - 1 = (1..i - 1) \cup {i}
  BY <1>3
<1>5. ReadSoFar' = {j \in 1..(i + 1) - 1 : Chosen(Job, j)}
  BY DEF ReadSoFar
<1>6. ReadSoFar = {j \in 1..i - 1 : Chosen(Job, j)}
  BY DEF ReadSoFar
<1>7. {j \in 1..(i + 1) - 1 : Chosen(Job, j)} =
        {j \in 1..i - 1 : Chosen(Job, j)} \cup (IF Chosen(Job, i) THEN {i} ELSE {})
  <2> HIDE DEF i
  <2> QED
    BY <1>4
<1> QED
  BY <1>3, <1>5, <1>6, <1>7 DEF n

LEMMA PassesOverWell ==
    ASSUME ExportInv, PassOver
    PROVE  ExportInv'
<1>1. /\ RecordLeft /\ ~Idle /\ ~Chosen(Job, exporting.next)
      /\ exporting' = [exporting EXCEPT !.next = @ + 1]
      /\ UNCHANGED <<dir, database, exported, report, intoDb>>
  BY DEF PassOver, RecordLeft
<1>2. /\ exporting = [job |-> Job, next |-> exporting.next, open |-> exporting.open, tx |-> exporting.tx]
      /\ Job \in ExportJobs /\ exporting.open \in Seq(OpenFiles) /\ IsDatabase(exporting.tx)
  BY <1>1 DEF ExportInv, ExportTypeOK
<1>3. exporting' = [job |-> Job, next |-> exporting.next + 1, open |-> exporting.open, tx |-> exporting.tx]
  BY <1>1, <1>2
<1>4. /\ Job' = Job /\ exporting'.next = exporting.next + 1 /\ exporting'.open = exporting.open
      /\ exporting'.tx = exporting.tx
      /\ exporting' = [job |-> Job', next |-> exporting'.next, open |-> exporting'.open, tx |-> exporting'.tx]
  BY <1>3 DEF Job
<1>5. exporting'.next \in 1..Len(RecordsOf(Job)) + 1 /\ ReadSoFar' = ReadSoFar
  BY <1>1, <1>4, OneLineOn
<1>6. ExportTypeOK'
  BY <1>1, <1>2, <1>4, <1>5 DEF ExportInv, ExportTypeOK
<1>7. UnderWay'
  <2>1. \A t : ReadOf(t)' = ReadOf(t)
    BY <1>4, <1>5 DEF ReadOf
  <2>2. TablesMet' = TablesMet
    BY <1>4, <1>5 DEF TablesMet
  <2>3. OpenIsRead => OpenIsRead'
    BY <1>4, <2>1 DEF OpenIsRead, OpenAsRead
  <2>4. TxAsRead => TxAsRead'
    BY <1>1, <1>4, <1>5 DEF TxAsRead, IntoDirectory
  <2>5. /\ OpenIsRead /\ TxAsRead
        /\ {exporting.open[k].table : k \in DOMAIN exporting.open} = TablesMet
        /\ IntoDirectory => \A t \in TablesMet : PathFor(t) \in DOMAIN dir
        /\ IntoDirectory => report = << >>
    BY <1>1 DEF ExportInv, UnderWay
  <2>6. IntoDirectory' => \A t \in TablesMet' : PathFor(t)' \in DOMAIN dir'
    BY <1>1, <1>4, <2>2, <2>5 DEF IntoDirectory, PathFor
  <2> QED
    BY <1>1, <1>4, <2>2, <2>3, <2>4, <2>5, <2>6 DEF UnderWay, IntoDirectory
<1>8. ExportsAreWhole'
  BY <1>1 DEF ExportInv, ExportsAreWhole, DatabaseHoldsWholeExports, CommittedBefore, FilesAreTheFiling
<1> QED
  BY <1>6, <1>7, <1>8 DEF ExportInv

(* Each file that is open, with the record of its table added.             *)
AddedTo(open, t, i) ==
    [k \in DOMAIN open |-> IF open[k].table = t THEN WithRow(open[k], RowAt(Job, i)) ELSE open[k]]
ReadWith(i, t) == {j \in ReadSoFar \cup {i} : RecordsOf(Job)[j] = t}
AddedAsRead(now, open, i) ==
    /\ now \in Seq(OpenFiles)
    /\ \A k \in DOMAIN now :
          /\ now[k].rows \o now[k].pending = RowsOf(Job, ReadWith(i, now[k].table))
          /\ Job.format # "parquet" => now[k].pending = << >>
    /\ \A j, k \in DOMAIN now : now[j].table = now[k].table => j = k
    /\ {now[k].table : k \in DOMAIN now} = {open[k].table : k \in DOMAIN open}

LEMMA OpenGoesOn ==
    ASSUME Job \in ExportJobs, NEW i \in 1..Len(RecordsOf(Job)), ReadSoFar \in SUBSET (1..i - 1),
           NEW t, t = RecordsOf(Job)[i],
           NEW open \in Seq(OpenFiles), OpenAsRead(open)
    PROVE  AddedAsRead(AddedTo(open, t, i), open, i)
<1> DEFINE now == AddedTo(open, t, i)
<1>1. \A u : ReadOf(u) \in SUBSET (1..i - 1) /\ ReadWith(i, u) = ReadOf(u) \cup (IF u = t THEN {i} ELSE {})
  BY DEF ReadOf, ReadWith
<1>2. Len(open) \in Nat /\ DOMAIN open = 1..Len(open)
  BY LenProperties
<1>3. DOMAIN now = DOMAIN open
  BY DEF AddedTo
<1>4. ASSUME NEW k \in DOMAIN open
      PROVE  /\ now[k] \in OpenFiles /\ now[k].table = open[k].table
             /\ now[k].rows \o now[k].pending = RowsOf(Job, ReadWith(i, now[k].table))
             /\ Job.format # "parquet" => now[k].pending = << >>
  <2> DEFINE o == open[k]
             n == WithRow(o, RowAt(Job, i))
  <2>1. /\ o \in OpenFiles /\ o.rows \o o.pending = RowsOf(Job, ReadOf(o.table))
        /\ Job.format # "parquet" => o.pending = << >>
    BY <1>2, ElementOfSeq DEF OpenAsRead
  <2>2. now[k] = IF o.table = t THEN n ELSE o
    BY DEF AddedTo
  <2> HIDE DEF now, o
  <2>3. CASE o.table = t
    <3>1. ReadOf(t) \in SUBSET (1..i - 1) /\ o.rows \o o.pending = RowsOf(Job, ReadOf(t))
      BY <1>1, <2>1, <2>3
    <3>2. /\ n \in OpenFiles /\ n.table = o.table /\ n.rows \o n.pending = RowsOf(Job, ReadOf(t) \cup {i})
          /\ Job.format # "parquet" => n.pending = << >>
      BY <2>1, <3>1, RowIsAdded
    <3> HIDE DEF n
    <3> QED
      BY <1>1, <2>2, <2>3, <3>2 DEF o
  <2>4. CASE o.table # t
    BY <1>1, <2>1, <2>2, <2>4 DEF o
  <2> QED
    BY <2>3, <2>4 DEF o
<1>5. now \in Seq(OpenFiles)
  <2>1. now = [k \in 1..Len(open) |-> now[k]]
    BY <1>2 DEF AddedTo
  <2> HIDE DEF now
  <2>2. now \in [1..Len(open) -> OpenFiles]
    BY <1>2, <1>4, <2>1
  <2> QED
    BY <1>2, <2>2, FunctionIsSeq
<1> HIDE DEF now
<1>6. \A j, k \in DOMAIN now : now[j].table = now[k].table => j = k
  BY <1>3, <1>4 DEF OpenAsRead
<1>7. {now[k].table : k \in DOMAIN now} = {open[k].table : k \in DOMAIN open}
  <2>1. \A k \in DOMAIN open : now[k].table = open[k].table
    BY <1>4
  <2> QED
    BY <1>3, <2>1
<1> QED
  BY <1>3, <1>4, <1>5, <1>6, <1>7 DEF now, AddedAsRead

LEMMA WritesWell ==
    ASSUME ExportInv, WriteRecord
    PROVE  ExportInv'
<1> DEFINE i    == exporting.next
           t    == RecordsOf(Job)[i]
           row  == RowAt(Job, i)
           tx   == exporting.tx
           open == IF OpenAt(t) = {} THEN Append(exporting.open, NewFile(t)) ELSE exporting.open
           now  == [k \in DOMAIN open |-> IF open[k].table = t THEN WithRow(open[k], row) ELSE open[k]]
           txNow == IF IntoDirectory THEN tx
                    ELSE [tx EXCEPT !.columns = With(@, t, ColumnsOf(t)), !.rows = Append(@, row)]
<1>1. /\ RecordLeft /\ ~Idle /\ Chosen(Job, i)
      /\ exporting' = [job |-> Job, next |-> i + 1, open |-> now, tx |-> txNow]
      /\ dir' = IF IntoDirectory /\ OpenAt(t) = {} THEN With(dir, PathFor(t), EmptyFile) ELSE dir
      /\ UNCHANGED <<database, exported, report, intoDb>>
  BY DEF WriteRecord, RecordLeft
<1>2. /\ exporting = [job |-> Job, next |-> i, open |-> exporting.open, tx |-> tx]
      /\ Job \in ExportJobs /\ IsDatabase(tx) /\ IsDatabase(database)
  BY <1>1 DEF ExportInv, ExportTypeOK
<1> HIDE DEF now, txNow
<1>4. /\ Job' = Job /\ exporting'.next = i + 1 /\ exporting'.open = now /\ exporting'.tx = txNow
      /\ exporting' = [job |-> Job', next |-> exporting'.next, open |-> exporting'.open, tx |-> exporting'.tx]
  BY <1>1 DEF Job
<1>5. /\ i \in 1..Len(RecordsOf(Job)) /\ exporting'.next \in 1..Len(RecordsOf(Job)) + 1
      /\ ReadSoFar \in SUBSET (1..i - 1) /\ ReadSoFar' = ReadSoFar \cup {i}
  BY <1>1, <1>4, OneLineOn
<1>6. t \in RecordTables /\ row \in ExportedRows
  BY <1>2, <1>5, RecordsAre
<1>7. /\ OpenIsRead /\ TxAsRead
      /\ {exporting.open[k].table : k \in DOMAIN exporting.open} = TablesMet
      /\ IntoDirectory => \A u \in TablesMet : PathFor(u) \in DOMAIN dir
      /\ IntoDirectory => report = << >>
  BY <1>1 DEF ExportInv, UnderWay
<1>8. /\ open \in Seq(OpenFiles) /\ OpenAsRead(open)
      /\ {open[k].table : k \in DOMAIN open} = TablesMet \cup {t}
  <2> HIDE DEF t
  <2> QED
    BY <1>1, <1>6, <1>7, TableIsOpen DEF ExportInv, OpenIsRead
<1>9. /\ now \in Seq(OpenFiles) /\ OpenIsRead'
      /\ {exporting.open[k].table : k \in DOMAIN exporting.open}' = TablesMet \cup {t}
  <2>1. now = AddedTo(open, t, i)
    BY DEF now, row, AddedTo
  <2>2. t = RecordsOf(Job)[i]
    OBVIOUS
  <2> HIDE DEF open, t, i
  <2>3. AddedAsRead(now, open, i)
    <3>1. AddedAsRead(AddedTo(open, t, i), open, i)
      BY <1>2, <1>5, <1>8, <2>2, OpenGoesOn
    <3> QED
      BY <2>1, <3>1
  <2>4. \A u : {j \in ReadSoFar' : RecordsOf(Job')[j] = u} = ReadWith(i, u)
    BY <1>4, <1>5 DEF ReadWith
  <2>5. /\ \A k \in DOMAIN now :
              /\ now[k].rows \o now[k].pending = RowsOf(Job', {j \in ReadSoFar' : RecordsOf(Job')[j] = now[k].table})
              /\ Job'.format # "parquet" => now[k].pending = << >>
    BY <1>4, <2>3, <2>4 DEF AddedAsRead
  <2>6. exporting'.open = now
    BY <1>4
  <2>7. OpenIsRead'
    BY <2>3, <2>5, <2>6 DEF OpenIsRead, OpenAsRead, ReadOf, AddedAsRead
  <2>8. {exporting'.open[k].table : k \in DOMAIN exporting'.open} = TablesMet \cup {t}
    BY <1>8, <2>3, <2>6 DEF AddedAsRead
  <2> QED
    BY <2>3, <2>7, <2>8 DEF AddedAsRead
<1>10. TablesMet' = TablesMet \cup {t}
  <2>1. TablesMet' = {RecordsOf(Job)[j] : j \in ReadSoFar \cup {i}}
    BY <1>4, <1>5 DEF TablesMet
  <2> QED
    BY <2>1 DEF TablesMet
<1> HIDE DEF open, row
<1>11. /\ dir' = [f \in DOMAIN dir' |-> dir'[f]] /\ \A f \in DOMAIN dir' : f[2] # "sqlite"
       /\ DOMAIN dir \subseteq DOMAIN dir' /\ (IntoDirectory => PathFor(t) \in DOMAIN dir')
       /\ ~IntoDirectory => dir' = dir
  <2>1. dir = [f \in DOMAIN dir |-> dir[f]] /\ \A f \in DOMAIN dir : f[2] # "sqlite"
    BY DEF ExportInv, ExportTypeOK
  <2>2. CASE IntoDirectory /\ OpenAt(t) = {}
    <3>1. dir' = With(dir, PathFor(t), EmptyFile)
      BY <1>1, <2>2
    <3>2. DOMAIN dir' = DOMAIN dir \cup {PathFor(t)} /\ dir' = [f \in DOMAIN dir' |-> dir'[f]]
      BY <3>1 DEF With
    <3>3. PathFor(t)[2] # "sqlite"
      BY <2>2 DEF PathFor, IntoDirectory
    <3> QED
      BY <2>1, <2>2, <3>2, <3>3
  <2>3. CASE IntoDirectory /\ OpenAt(t) # {}
    <3>1. t \in TablesMet
      BY <1>7, <2>3 DEF OpenAt
    <3> QED
      BY <1>1, <1>7, <2>1, <2>3, <3>1
  <2>4. CASE ~IntoDirectory
    BY <1>1, <2>1, <2>4
  <2> QED
    BY <2>2, <2>3, <2>4
<1>12. /\ IsDatabase(txNow) /\ txNow.filings = tx.filings
       /\ txNow.rows = IF IntoDirectory THEN tx.rows ELSE Append(tx.rows, row)
  <2>1. CASE IntoDirectory
    BY <1>2, <2>1 DEF txNow
  <2>2. CASE ~IntoDirectory
    <3>1. tx = [columns |-> tx.columns, rows |-> tx.rows, filings |-> tx.filings]
      BY <1>2 DEF IsDatabase
    <3>2. txNow = [columns |-> With(tx.columns, t, ColumnsOf(t)), rows |-> Append(tx.rows, row), filings |-> tx.filings]
      BY <2>2, <3>1 DEF txNow
    <3>3. tx.rows \in Seq(ExportedRows) /\ tx.filings \in Seq(DOMAIN Exported)
      BY <1>2 DEF IsDatabase
    <3>4. Append(tx.rows, row) \in Seq(ExportedRows)
      BY <1>6, <3>3
    <3> QED
      BY <2>2, <3>2, <3>3, <3>4 DEF IsDatabase
  <2> QED
    BY <2>1, <2>2
<1>13. ExportTypeOK'
  <2>1. /\ IsDatabase(database') /\ intoDb' \in Seq([job : ExportJobs, after : 0..Len(database'.rows)])
    BY <1>1 DEF ExportInv, ExportTypeOK
  <2> QED
    BY <1>2, <1>4, <1>5, <1>9, <1>11, <1>12, <2>1 DEF ExportTypeOK
<1>14. TxAsRead'
  <2>1. database' = database /\ tx.filings = Append(database.filings, Job.filing)
    BY <1>1, <1>7 DEF TxAsRead
  <2>2. CASE IntoDirectory
    BY <1>4, <1>7, <1>12, <2>1, <2>2 DEF TxAsRead, IntoDirectory
  <2>3. CASE ~IntoDirectory
    <3>1. RowsOf(Job, ReadSoFar \cup {i}) = Append(RowsOf(Job, ReadSoFar), row)
      <4> HIDE DEF i
      <4> QED
        BY <1>2, <1>5, RowsOfOneMore DEF row
    <3>2. RowsOf(Job, ReadSoFar) \in Seq(ExportedRows) /\ database.rows \in Seq(ExportedRows)
      <4>1. Len(RecordsOf(Job)) \in Nat
        BY <1>2, RecordsAre
      <4>2. ReadSoFar \in SUBSET (1..Len(RecordsOf(Job)))
        BY <1>5, <4>1
      <4> QED
        BY <1>2, <4>2, RowsOfLines DEF IsDatabase
    <3>3. tx.rows = database.rows \o RowsOf(Job, ReadSoFar)
      BY <1>7, <2>3 DEF TxAsRead
    <3>4. database.rows \o Append(RowsOf(Job, ReadSoFar), row) = Append(database.rows \o RowsOf(Job, ReadSoFar), row)
      <4>1. \A a, b \in Seq(ExportedRows) : a \o Append(b, row) = Append(a \o b, row)
        BY <1>6, AppendedLast
      <4> QED
        BY <3>2, <4>1
    <3>5. txNow.rows = database.rows \o RowsOf(Job', ReadSoFar')
      BY <1>4, <1>5, <1>12, <2>3, <3>1, <3>3, <3>4
    <3>6. ~IntoDirectory'
      BY <1>4, <2>3 DEF IntoDirectory
    <3> QED
      BY <1>4, <1>12, <2>1, <3>5, <3>6 DEF TxAsRead
  <2> QED
    BY <2>2, <2>3
<1>15. UnderWay'
  <2>1. IntoDirectory' => \A u \in TablesMet' : PathFor(u)' \in DOMAIN dir'
    BY <1>4, <1>7, <1>10, <1>11 DEF IntoDirectory, PathFor
  <2>2. IntoDirectory' => report' = << >>
    BY <1>1, <1>4, <1>7 DEF IntoDirectory
  <2> QED
    BY <1>9, <1>10, <1>14, <2>1, <2>2 DEF UnderWay
<1>16. ExportsAreWhole'
  <2>1. DatabaseHoldsWholeExports'
    BY <1>1 DEF ExportInv, ExportsAreWhole, DatabaseHoldsWholeExports, CommittedBefore
  <2>2. FilesAreTheFiling'
    <3>1. CASE IntoDirectory
      BY <1>1, <1>7, <3>1 DEF FilesAreTheFiling, Range
    <3>2. CASE ~IntoDirectory
      BY <1>1, <1>11, <3>2 DEF ExportInv, ExportsAreWhole, FilesAreTheFiling
    <3> QED
      BY <3>1, <3>2
  <2> QED
    BY <2>1, <2>2 DEF ExportsAreWhole
<1> QED
  BY <1>13, <1>15, <1>16 DEF ExportInv

(* An export read to its end has read the lines selected.                  *)
LEMMA AllIsRead ==
    ASSUME ExportInv, ~Idle, exporting.next > Len(RecordsOf(Job))
    PROVE  /\ Job \in ExportJobs /\ ReadSoFar = Selected(Job) /\ Selected(Job) \in SUBSET (1..Len(RecordsOf(Job)))
           /\ TablesMet = TablesOf(Job) /\ \A t : ReadOf(t) = OfTable(Job, t)
<1>1. Job \in ExportJobs /\ exporting.next \in 1..Len(RecordsOf(Job)) + 1
  BY DEF ExportInv, ExportTypeOK
<1> DEFINE n == Len(RecordsOf(Job))
<1>2. n \in Nat /\ DOMAIN RecordsOf(Job) = 1..n
  BY <1>1, RecordsAre
<1> HIDE DEF n
<1>3. exporting.next - 1 = n
  BY <1>1, <1>2 DEF n
<1>4. ReadSoFar = {i \in 1..n : Chosen(Job, i)}
  BY <1>3 DEF ReadSoFar
<1>5. Selected(Job) = {i \in 1..n : Chosen(Job, i)}
  BY <1>2 DEF Selected, Chosen
<1> QED
  BY <1>1, <1>4, <1>5 DEF n, ReadOf, TablesMet, TablesOf, OfTable

(* A file of a table whose records are selected, when the files are closed. *)
LEMMA FilesEnd ==
    ASSUME ExportInv, ~Idle, exporting.next > Len(RecordsOf(Job)), IntoDirectory,
           dir' = FilesClosed([k \in DOMAIN exporting.open |-> Flushed(exporting.open[k])], TRUE),
           report' = <<ReportOf(exporting.open)>>
    PROVE  FilesAreTheFiling'
<1> DEFINE open == exporting.open
           flushed == [k \in DOMAIN open |-> Flushed(open[k])]
           r == ReportOf(open)
<1>1. Job \in ExportJobs /\ TablesMet = TablesOf(Job) /\ \A t : ReadOf(t) = OfTable(Job, t)
  BY AllIsRead
<1>2. /\ OpenAsRead(open) /\ {open[k].table : k \in DOMAIN open} = TablesMet
      /\ \A t \in TablesMet : PathFor(t) \in DOMAIN dir
  BY DEF ExportInv, UnderWay, OpenIsRead
<1>3. r.job = Job /\ Range(r.tables) = {open[k].table : k \in DOMAIN open}
  <2>1. r.job = Job /\ r.tables = [k \in DOMAIN open |-> open[k].table]
    BY DEF ReportOf
  <2> HIDE DEF r, open
  <2>2. DOMAIN r.tables = DOMAIN open /\ \A k \in DOMAIN open : r.tables[k] = open[k].table
    BY <2>1
  <2> QED
    BY <2>1, <2>2 DEF Range
<1>5. ASSUME NEW t \in TablesMet
      PROVE  /\ dir'[<<t, Job.format>>].whole
             /\ dir'[<<t, Job.format>>].rows = RowsOf(Job, OfTable(Job, t))
  <2>1. OpenAt(t) # {} /\ OpenAt(t) \subseteq DOMAIN open /\ \A k \in OpenAt(t) : open[k].table = t
    BY <1>2 DEF OpenAt
  <2> DEFINE k0 == CHOOSE k \in OpenAt(t) : TRUE
             f  == <<t, Job.format>>
  <2>2. k0 \in DOMAIN open /\ open[k0].table = t
    BY <2>1
  <2>3. f \in DOMAIN dir /\ f[1] = t /\ f[2] = Job.format
    BY <1>2 DEF PathFor
  <2> HIDE DEF f
  <2>4. dir'[f] = [rows |-> flushed[k0], whole |-> TRUE]
    BY <2>1, <2>3 DEF FilesClosed
  <2> HIDE DEF k0, open
  <2>5. flushed[k0] = open[k0].rows \o open[k0].pending
    BY <2>2 DEF Flushed
  <2> HIDE DEF flushed
  <2>6. open[k0].rows \o open[k0].pending = RowsOf(Job, ReadOf(open[k0].table))
    BY <1>2, <2>2 DEF OpenAsRead
  <2>7. dir'[f].whole /\ dir'[f].rows = flushed[k0]
    <3>1. \A file, rows : file = [rows |-> rows, whole |-> TRUE] => file.whole /\ file.rows = rows
      OBVIOUS
    <3> QED
      BY <2>4, <3>1, Zenon
  <2>8. ReadOf(open[k0].table) = OfTable(Job, t) /\ open[k0].table = t
    BY <1>1, <2>2
  <2>9. flushed[k0] = RowsOf(Job, OfTable(Job, t))
    BY <2>5, <2>6, <2>8
  <2> QED
    BY <2>7, <2>9 DEF f
<1>6. Range(report') = {r}
  <2>1. DOMAIN report' = {1} /\ report'[1] = r
    OBVIOUS
  <2> QED
    BY <2>1 DEF Range
<1> HIDE DEF r, open, flushed
<1>7. /\ Range(r.tables) = TablesOf(r.job)
      /\ \A t \in TablesOf(r.job) :
            /\ dir'[<<t, r.job.format>>].whole
            /\ dir'[<<t, r.job.format>>].rows = RowsOf(r.job, OfTable(r.job, t))
  BY <1>1, <1>2, <1>3, <1>5
<1> QED
  BY <1>6, <1>7 DEF FilesAreTheFiling

LEMMA DatabaseEnds ==
    ASSUME ExportInv, ~Idle, exporting.next > Len(RecordsOf(Job)), ~IntoDirectory,
           database' = exporting.tx, intoDb' = Append(intoDb, [job |-> Job, after |-> Len(database.rows)])
    PROVE  /\ IsDatabase(database') /\ intoDb' \in Seq([job : ExportJobs, after : 0..Len(database'.rows)])
           /\ DatabaseHoldsWholeExports'
<1> DEFINE was  == database.rows
           rows == RowsOf(Job, Selected(Job))
           now  == database'.rows
           n    == Len(intoDb)
           m    == Len(was)
           entry == [job |-> Job, after |-> m]
<1>1. /\ Job \in ExportJobs /\ ReadSoFar = Selected(Job) /\ Selected(Job) \in SUBSET (1..Len(RecordsOf(Job)))
  BY AllIsRead
<1>2. now = was \o rows /\ database'.filings = Append(database.filings, Job.filing)
  BY <1>1 DEF ExportInv, UnderWay, TxAsRead
<1>3. was \in Seq(ExportedRows) /\ rows \in Seq(ExportedRows) /\ database.filings \in Seq(DOMAIN Exported)
  BY <1>1, RowsOfLines DEF ExportInv, ExportTypeOK, IsDatabase
<1>4. IsDatabase(database')
  BY DEF ExportInv, ExportTypeOK
<1>5. intoDb \in Seq([job : ExportJobs, after : 0..m])
  BY DEF ExportInv, ExportTypeOK
<1>6. DatabaseHoldsWholeExports
  BY DEF ExportInv, ExportsAreWhole
<1> HIDE DEF was, rows, now
<1>7. /\ m \in Nat /\ Len(rows) \in Nat /\ DOMAIN rows = 1..Len(rows) /\ Len(now) = m + Len(rows)
      /\ \A i \in 1..m : now[i] = was[i]
      /\ \A i \in 1..Len(rows) : now[m + i] = rows[i]
  <2>1. m \in Nat /\ Len(rows) \in Nat /\ DOMAIN rows = 1..Len(rows)
    BY <1>3, LenProperties
  <2>2. /\ Len(was \o rows) = m + Len(rows)
        /\ \A i \in 1..m + Len(rows) : (was \o rows)[i] = IF i <= m THEN was[i] ELSE rows[i - m]
    BY <1>3, ConcatProperties
  <2> HIDE DEF m
  <2>3. \A i \in 1..m : i \in 1..m + Len(rows) /\ i <= m
    BY <2>1
  <2>4. \A i \in 1..Len(rows) : m + i \in 1..m + Len(rows) /\ ~(m + i <= m) /\ (m + i) - m = i
    BY <2>1
  <2> QED
    BY <1>2, <2>1, <2>2, <2>3, <2>4
<1> HIDE DEF m
<1>8. n \in Nat /\ DOMAIN intoDb = 1..n /\ \A k \in 1..n : intoDb[k].job \in ExportJobs /\ intoDb[k].after \in 0..m
  <2>1. n \in Nat /\ DOMAIN intoDb = 1..n
    BY <1>5, LenProperties
  <2>2. \A k \in 1..n : intoDb[k] \in [job : ExportJobs, after : 0..m]
    BY <1>5, ElementOfSeq
  <2> QED
    BY <2>1, <2>2
<1>9. intoDb' = Append(intoDb, entry)
  BY DEF m, was
<1>10. /\ intoDb' \in Seq([job : ExportJobs, after : 0..Len(now)])
       /\ DOMAIN intoDb' = 1..n + 1 /\ intoDb'[n + 1] = entry
       /\ \A k \in 1..n : intoDb'[k] = intoDb[k]
  <2>1. [job : ExportJobs, after : 0..m] \subseteq [job : ExportJobs, after : 0..Len(now)]
    BY <1>7
  <2>2. intoDb \in Seq([job : ExportJobs, after : 0..Len(now)])
    <3> DEFINE A == [job : ExportJobs, after : 0..m]
               B == [job : ExportJobs, after : 0..Len(now)]
    <3> HIDE DEF A, B
    <3>1. intoDb \in Seq(A) /\ A \subseteq B
      BY <1>5, <2>1 DEF A, B
    <3>2. intoDb \in Seq(B)
      BY <3>1, SeqMonotonic
    <3> QED
      BY <3>2 DEF B
  <2>3. entry \in [job : ExportJobs, after : 0..Len(now)]
    BY <1>1, <1>7
  <2> HIDE DEF entry
  <2>4. /\ Append(intoDb, entry) \in Seq([job : ExportJobs, after : 0..Len(now)])
        /\ Len(Append(intoDb, entry)) = n + 1 /\ Append(intoDb, entry)[n + 1] = entry
        /\ \A k \in 1..n : Append(intoDb, entry)[k] = intoDb[k]
    BY <2>2, <2>3, AppendProperties
  <2>5. DOMAIN Append(intoDb, entry) = 1..n + 1
    BY <2>4, LenProperties
  <2> QED
    BY <1>9, <2>4, <2>5
<1> DEFINE Before(k) == IF k \in 1..n + 1 THEN intoDb'[k].after ELSE Len(now)
<1> HIDE DEF n
<1>11. /\ \A k \in 1..n + 1 : Before(k) = CommittedBefore(k)
       /\ Before(n + 2) = m + Len(rows) /\ CommittedBefore(n + 1) = m
       /\ \A k \in 1..n + 1 : CommittedBefore(k) \in 0..m
  <2>1. \A k \in 1..n : CommittedBefore(k) = intoDb[k].after /\ Before(k) = intoDb[k].after
    BY <1>8, <1>10 DEF CommittedBefore
  <2>2. CommittedBefore(n + 1) = m
    BY <1>8 DEF CommittedBefore, m, was
  <2>3. Before(n + 1) = m /\ Before(n + 2) = m + Len(rows)
    BY <1>7, <1>8, <1>10
  <2>4. \A k \in 1..n + 1 : k \in 1..n \/ k = n + 1
    BY <1>8
  <2> HIDE DEF Before
  <2>5. \A k \in 1..n + 1 : Before(k) = CommittedBefore(k)
    BY <2>1, <2>2, <2>3, <2>4
  <2>6. \A k \in 1..n : CommittedBefore(k) \in 0..m
    BY <1>8, <2>1
  <2>7. m \in 0..m
    BY <1>7
  <2>8. \A k \in 1..n + 1 : CommittedBefore(k) \in 0..m
    BY <2>2, <2>4, <2>6, <2>7
  <2> QED
    BY <2>2, <2>3, <2>5, <2>8
<1>12. \A k : CommittedBefore(k)' = Before(k)
  BY <1>10 DEF CommittedBefore, now
<1> HIDE DEF Before
<1>13. ASSUME NEW k \in 1..n + 1
       PROVE  LET of == RowsOf(intoDb'[k].job, Selected(intoDb'[k].job))
              IN  /\ Before(k + 1) = Before(k) + Len(of)
                  /\ \A i \in DOMAIN of : now[Before(k) + i] = of[i]
  <2>1. CASE k \in 1..n
    <3> DEFINE of == RowsOf(intoDb[k].job, Selected(intoDb[k].job))
    <3>1. /\ CommittedBefore(k + 1) = CommittedBefore(k) + Len(of)
          /\ \A i \in DOMAIN of : was[CommittedBefore(k) + i] = of[i]
      BY <1>6, <1>8, <2>1 DEF DatabaseHoldsWholeExports, was
    <3>2. intoDb[k].job \in ExportJobs /\ intoDb'[k] = intoDb[k]
      BY <1>8, <1>10, <2>1
    <3>3. DOMAIN of = 1..Len(of) /\ Len(of) \in Nat
      <4> DEFINE job == intoDb[k].job
      <4> HIDE DEF job
      <4>1. job \in ExportJobs
        BY <3>2 DEF job
      <4>2. Selected(job) \in SUBSET (1..Len(RecordsOf(job)))
        BY <4>1, RecordsAre DEF Selected
      <4>3. RowsOf(job, Selected(job)) \in Seq(ExportedRows)
        BY <4>1, <4>2, RowsOfLines
      <4> QED
        BY <4>3, LenProperties DEF job
    <3>4. k \in 1..n + 1 /\ k + 1 \in 1..n + 1
      BY <1>8, <2>1
    <3>5. Before(k) = CommittedBefore(k) /\ Before(k + 1) = CommittedBefore(k + 1)
          /\ CommittedBefore(k) \in 0..m /\ CommittedBefore(k + 1) \in 0..m
      BY <1>11, <3>4
    <3> HIDE DEF of
    <3>6. \A i \in DOMAIN of : CommittedBefore(k) + i \in 1..m
      BY <1>7, <3>1, <3>3, <3>5
    <3> QED
      BY <1>7, <3>1, <3>2, <3>5, <3>6 DEF of
  <2>2. CASE k = n + 1
    <3>1. intoDb'[k].job = Job
      BY <1>10, <2>2
    <3>2. Before(k) = m /\ Before(k + 1) = m + Len(rows)
      <4>1. n + 1 \in 1..n + 1 /\ (n + 1) + 1 = n + 2
        BY <1>8
      <4> QED
        BY <1>11, <2>2, <4>1
    <3> QED
      BY <1>7, <3>1, <3>2 DEF rows
  <2>3. k \in 1..n \/ k = n + 1
    BY <1>8
  <2> QED
    BY <2>1, <2>2, <2>3
<1>14. CommittedBefore(1)' = 0
  <2>1. 1 \in 1..n + 1
    BY <1>8
  <2> QED
    BY <1>6, <1>11, <1>12, <2>1 DEF DatabaseHoldsWholeExports
<1>15. database'.filings = [k \in 1..n + 1 |-> intoDb'[k].job.filing]
  <2> DEFINE F == database.filings
             x == Job.filing
  <2>1. F = [k \in 1..n |-> intoDb[k].job.filing]
    BY <1>6, <1>8 DEF DatabaseHoldsWholeExports
  <2>2. x \in DOMAIN Exported
    BY <1>1, RecordsAre
  <2>3. F \in Seq(DOMAIN Exported)
    BY <1>3
  <2>4. Len(F) = n
    <3>1. DOMAIN F = 1..n /\ DOMAIN F = 1..Len(F) /\ Len(F) \in Nat
      BY <2>1, <2>3, LenProperties
    <3> HIDE DEF F
    <3> QED
      BY <1>8, <3>1
  <2> HIDE DEF F, x
  <2>5. /\ Append(F, x) \in Seq(DOMAIN Exported) /\ Len(Append(F, x)) = n + 1 /\ Append(F, x)[n + 1] = x
        /\ \A k \in 1..n : Append(F, x)[k] = F[k]
    BY <2>2, <2>3, <2>4, AppendProperties
  <2>6. Append(F, x) = [k \in 1..n + 1 |-> Append(F, x)[k]]
    BY <2>5, LenProperties
  <2>7. \A k \in 1..n + 1 : Append(F, x)[k] = intoDb'[k].job.filing
    <3>1. \A k \in 1..n + 1 : k \in 1..n \/ k = n + 1
      BY <1>8
    <3>2. \A k \in 1..n : Append(F, x)[k] = intoDb'[k].job.filing
      BY <1>10, <2>1, <2>5
    <3>3. Append(F, x)[n + 1] = intoDb'[n + 1].job.filing
      BY <1>10, <2>5 DEF x
    <3> QED
      BY <3>1, <3>2, <3>3
  <2> QED
    BY <1>2, <2>6, <2>7 DEF F, x
<1>16. DatabaseHoldsWholeExports'
  <2>1. \A k \in DOMAIN intoDb' :
           LET of == RowsOf(intoDb'[k].job, Selected(intoDb'[k].job))
           IN  /\ CommittedBefore(k + 1)' = CommittedBefore(k)' + Len(of)
               /\ \A i \in DOMAIN of : database'.rows[CommittedBefore(k)' + i] = of[i]
    BY <1>10, <1>12, <1>13 DEF now
  <2>2. database'.filings = [k \in DOMAIN intoDb' |-> intoDb'[k].job.filing]
    BY <1>10, <1>15
  <2> QED
    BY <1>14, <2>1, <2>2 DEF DatabaseHoldsWholeExports
<1> QED
  BY <1>4, <1>10, <1>16 DEF now
-----------------------------------------------------------------------------
LEMMA EndsWell ==
    ASSUME ExportInv, ExportEnds
    PROVE  ExportInv'
<1>1. /\ ~Idle /\ exporting.next > Len(RecordsOf(Job)) /\ exporting' = NotExporting
  BY DEF ExportEnds
<1>2. CASE IntoDirectory
  <2>1. /\ dir' = FilesClosed([k \in DOMAIN exporting.open |-> Flushed(exporting.open[k])], TRUE)
        /\ report' = <<ReportOf(exporting.open)>>
        /\ UNCHANGED <<database, intoDb>>
    BY <1>2 DEF ExportEnds
  <2>2. FilesAreTheFiling'
    BY <1>1, <1>2, <2>1, FilesEnd
  <2>3. dir' = [f \in DOMAIN dir' |-> dir'[f]] /\ \A f \in DOMAIN dir' : f[2] # "sqlite"
    BY <2>1, ClosingFiles DEF ExportInv
  <2> QED
    BY <1>1, <2>1, <2>2, <2>3, NothingUnderWay
<1>3. CASE ~IntoDirectory
  <2>1. /\ database' = exporting.tx
        /\ intoDb' = Append(intoDb, [job |-> Job, after |-> Len(database.rows)])
        /\ UNCHANGED <<dir, report>>
    BY <1>3 DEF ExportEnds
  <2>2. /\ IsDatabase(database') /\ intoDb' \in Seq([job : ExportJobs, after : 0..Len(database'.rows)])
        /\ DatabaseHoldsWholeExports'
    BY <1>1, <1>3, <2>1, DatabaseEnds
  <2>3. Idle'
    BY <1>1 DEF Idle
  <2>4. ExportTypeOK' /\ UnderWay'
    BY <2>1, <2>2, <2>3 DEF ExportInv, ExportTypeOK, UnderWay
  <2>5. FilesAreTheFiling'
    BY <2>1 DEF ExportInv, ExportsAreWhole, FilesAreTheFiling
  <2> QED
    BY <2>2, <2>4, <2>5 DEF ExportInv, ExportsAreWhole
<1> QED
  BY <1>2, <1>3

(* What is dropped or killed: the database is as it was committed, and     *)
(* nothing is said of a directory that an export was writing into.         *)
LEMMA StopsWell ==
    ASSUME ExportInv, ~Idle, NEW written, NEW whole, dir' = FilesClosed(written, whole),
           exporting' = NotExporting, UNCHANGED <<database, report, intoDb>>
    PROVE  ExportInv'
<1>1. /\ dir' = [f \in DOMAIN dir' |-> dir'[f]] /\ \A f \in DOMAIN dir' : f[2] # "sqlite"
      /\ Job.format = "sqlite" => dir' = dir
  BY ClosingFiles DEF ExportInv
<1>2. FilesAreTheFiling'
  <2>1. CASE IntoDirectory
    <3>1. Range(report') = {}
      BY <2>1 DEF ExportInv, UnderWay, Range
    <3> QED
      BY <3>1 DEF FilesAreTheFiling
  <2>2. CASE ~IntoDirectory
    <3>1. dir' = dir /\ report' = report
      BY <1>1, <2>2 DEF IntoDirectory
    <3> QED
      BY <3>1 DEF ExportInv, ExportsAreWhole, FilesAreTheFiling
  <2> QED
    BY <2>1, <2>2
<1> QED
  BY <1>1, <1>2, NothingUnderWay

LEMMA FailsWell == ASSUME ExportInv, ExportFails PROVE ExportInv'
<1>1. /\ ~Idle /\ exporting' = NotExporting /\ UNCHANGED <<database, report, intoDb>>
      /\ \E written, whole : dir' = FilesClosed(written, whole)
  BY DEF ExportFails, RolledBack
<1> QED
  BY <1>1, StopsWell

LEMMA KilledWell == ASSUME ExportInv, ExportKilled PROVE ExportInv'
<1>1. /\ ~Idle /\ exporting' = NotExporting /\ UNCHANGED <<database, report, intoDb>>
      /\ \E written, whole : dir' = FilesClosed(written, whole)
  BY DEF ExportKilled
<1> QED
  BY <1>1, StopsWell

(* The inductive invariant of exports: what is written and pending of each *)
(* table is its records read so far, the transaction is what is committed  *)
(* and the lines so far, and what has ended is whole.                      *)
THEOREM ExportInvariant == ExportSpec => []ExportInv
<1>1. ExportInit => ExportInv
  BY ExportsBegin
<1>2. ExportInv /\ [ExportNext]_exportVars => ExportInv'
  <2> SUFFICES ASSUME ExportInv, [ExportNext]_exportVars PROVE ExportInv'
    OBVIOUS
  <2>1. CASE ExportBegins
    BY <2>1, BeginsWell
  <2>2. CASE WriteRecord
    BY <2>2, WritesWell
  <2>3. CASE PassOver
    BY <2>3, PassesOverWell
  <2>4. CASE ExportEnds
    BY <2>4, EndsWell
  <2>5. CASE ExportFails
    BY <2>5, FailsWell
  <2>6. CASE ExportKilled
    BY <2>6, KilledWell
  <2>7. CASE UNCHANGED exportVars
    <3>1. dir' = dir /\ database' = database /\ exporting' = exporting /\ report' = report /\ intoDb' = intoDb
      BY <2>7 DEF exportVars
    <3>2. ExportTypeOK'
      BY <3>1 DEF ExportInv, ExportTypeOK, Idle, Job
    <3>3. DatabaseHoldsWholeExports' /\ FilesAreTheFiling'
      BY <3>1 DEF ExportInv, ExportsAreWhole, DatabaseHoldsWholeExports, FilesAreTheFiling, CommittedBefore
    <3>4. (\A u : ReadOf(u)' = ReadOf(u)) /\ TablesMet' = TablesMet /\ ReadSoFar' = ReadSoFar
      BY <3>1 DEF ReadOf, TablesMet, ReadSoFar, Job
    <3>5. OpenIsRead => OpenIsRead'
      BY <3>1, <3>4 DEF OpenIsRead, OpenAsRead, Job
    <3>6. UnderWay'
      BY <3>1, <3>4, <3>5 DEF ExportInv, UnderWay, TxAsRead, Idle, Job, IntoDirectory, PathFor
    <3> QED
      BY <3>2, <3>3, <3>6 DEF ExportInv, ExportsAreWhole
  <2> QED
    BY <2>1, <2>2, <2>3, <2>4, <2>5, <2>6, <2>7 DEF ExportNext
<1> QED
  BY <1>1, <1>2, PTL DEF ExportSpec

(* Whatever exports follow each other, fail in the middle or are killed:   *)
(* the database holds the ones that succeeded, each whole, and the files   *)
(* an export reports are the whole of what it selected.                    *)
THEOREM ExportsLeaveWhole == ExportSpec => []ExportsAreWhole
<1>1. ExportInv => ExportsAreWhole
  BY DEF ExportInv
<1> QED
  BY <1>1, ExportInvariant, PTL
=============================================================================
