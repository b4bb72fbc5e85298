---------------------------- MODULE GuidedImport ----------------------------
(***************************************************************************)
(* The guided commands around a restore: `dumps check`, `status`, `import` *)
(* and `update` size what they will do, check the computer, ask, and then  *)
(* run one dump after the other, on a computer others use too.  The steps  *)
(* of one restore are in DumpRestore, those of a download in DumpDownload. *)
(***************************************************************************)
EXTENDS Integers, Sequences, SequencesExt, FiniteSets, Functions

CONSTANTS Dumps,        \* name -> [split, large, approx], as DumpSource
          Machines,     \* the computers a command may find
          Kept0,        \* bound: the downloads there may be before the first command
          GuidedJobs,   \* bound: the commands that are given
          ThisYear,     \* the current cycle; cycles are numbered one by one
          MaxCommands, MaxMeddling

\* A command names each dump once.
ASSUME GuideAssumption ==
    /\ Kept0 \subseteq [DOMAIN Dumps -> [complete : Nat, partial : Nat, of : Nat]]
    /\ GuidedJobs \subseteq [cmd : {"check", "import", "update"}, what : Seq(DOMAIN Dumps), cycles : SUBSET Int,
                             file : Nat, explain : BOOLEAN, offline : BOOLEAN]
    /\ \A j \in GuidedJobs : \A k, l \in DOMAIN j.what : j.what[k] = j.what[l] => k = l

VARIABLES
    machine,    \* tool, url, server, rights, ..., free space, the namespace
    archives,   \* the downloads: [complete, partial, of]
    restored,   \* the size of each part in the database; part 0 is the parent
    versions,   \* which of the FEC's files the database has; 0: not recorded
    offered,    \* what fec.gov has: [size, of, up]
    job, stage, \* the command given, and where it is
    steps, checks, unit, todo,
    outcome, before,    \* how it ended; what there was when it began (history)
    commands, meddled       \* bounds; whether others changed anything since

surroundings == <<machine, archives, restored, versions, offered>>
guideVars == <<surroundings, job, stage, steps, checks, unit, todo, outcome, before, commands, meddled>>

None0    == 0
NoJob    == [cmd |-> "none", what |-> << >>, cycles |-> {}, file |-> None0, explain |-> FALSE, offline |-> FALSE]
Nothing  == [p \in {} |-> 0]

GuideInit ==
    /\ machine \in Machines
    /\ archives \in Kept0
    /\ restored = [d \in DOMAIN Dumps |-> Nothing]
    /\ versions = [d \in DOMAIN Dumps |-> 0]
    /\ \E reached \in BOOLEAN :
         offered = [d \in DOMAIN Dumps |-> [size |-> Dumps[d].approx + 1, of |-> 1, up |-> reached]]
    /\ job = NoJob /\ stage = "idle" /\ steps = << >> /\ checks = << >>
    /\ unit = 0 /\ todo = {} /\ outcome = "none" /\ before = << >> /\ commands = 0 /\ meddled = 0
-----------------------------------------------------------------------------
(* What an import needs.                                                    *)
CycleShare(c) == LET back == ThisYear - c IN IF back <= 1 THEN 30 ELSE IF back <= 3 THEN 15 ELSE 5

SumOver(f(_), S) == FoldFunction(+, 0, [x \in S |-> f(x)])
Least(a, b) == IF a < b THEN a ELSE b

Estimate(d, bytes, download, cycles, dataOnly) ==
    LET selective == Dumps[d].split /\ cycles # {}
        share     == IF selective THEN Least(SumOver(CycleShare, cycles), 100) ELSE 100
        factor    == IF dataOnly \/ selective THEN 5 ELSE IF Dumps[d].large THEN 30 ELSE 8
    IN  [download |-> IF download THEN bytes ELSE 0, database |-> factor * ((bytes * share) \div 100)]

LastOnly(total, needs) == needs
Plus(total, needs) ==
    [download |-> total.download + needs.download, database |-> total.database + needs.database]
Free == [download |-> 0, database |-> 0]

CyclesOf(d, asked) == IF ~Dumps[d].split THEN {} ELSE IF asked = {} THEN {ThisYear} ELSE asked

AddedUp(needs) == FoldLeft(Plus, Free, needs)

\* needs_for: a partial download counts as one still to be made.
NeedsOf(j, d) ==
    LET kept   == archives[d].complete
        remote == ~j.offline /\ offered[d].up
        bytes  == IF kept # None0 THEN kept ELSE IF remote THEN offered[d].size ELSE Dumps[d].approx
    IN  Estimate(d, bytes, kept = None0, CyclesOf(d, j.cycles), FALSE)
NeedsFor(j) == AddedUp([k \in DOMAIN j.what |-> NeedsOf(j, j.what[k])])

\* plan_step; `update` plans as if the download were not there.
Exists0(d) == 0 \in DOMAIN restored[d]
PlannedStep(d, asked, j) ==
    LET cycles   == CyclesOf(d, asked)
        kept     == IF j.cmd = "update" THEN None0 ELSE archives[d].complete
        location == IF j.file # None0 THEN "file" ELSE IF kept # None0 THEN "cached" ELSE "download"
        exact    == location # "download" \/ offered[d].up
        bytes    == IF j.file # None0 THEN j.file ELSE IF kept # None0 THEN kept
                    ELSE IF exact THEN offered[d].size ELSE Dumps[d].approx
    IN  [of |-> d, cycles |-> cycles, location |-> location, bytes |-> bytes, exact |-> exact,
         needs |-> Estimate(d, bytes, location = "download", cycles, Dumps[d].split /\ cycles # {}),
         parent |-> Exists0(d)]

TotalNeeds(s) == AddedUp([k \in DOMAIN s |-> s[k].needs])
-----------------------------------------------------------------------------
(* The checks, in the order they are made; without a connection, only those *)
(* that need none.                                                          *)
Check(name, status) == [name |-> name, status |-> status]

JudgeSpace(free, need) ==
    IF free >= need + need \div 5 THEN "pass" ELSE IF free >= need THEN "warn" ELSE "fail"

SpaceCheck(name, measured, free, need) ==
    Check(name, IF ~measured THEN "warn" ELSE IF need = 0 THEN "pass" ELSE JudgeSpace(free, need))

ToolCheck(m) ==
    Check("pg_restore", IF m.tool = "new" THEN "pass" ELSE IF m.tool = "unreadable" THEN "warn" ELSE "fail")
VersionCheck(m) ==
    Check("version", IF m.server >= 15 THEN "pass" ELSE IF m.server >= 10 THEN "warn" ELSE "fail")
SchemaCheck(m) == Check("schema", IF m.mayCreate THEN "pass" ELSE "fail")
ExtensionsCheck(m) == Check("extensions", IF m.contrib THEN "pass" ELSE "warn")
DownloadsCheck(m, needs) == SpaceCheck("downloads", m.df, m.downloads, needs.download)
DatabaseCheck(m, needs) ==
    SpaceCheck("database space", m.df /\ m.local /\ m.tellsDirectory, m.database, needs.database)
Current(m)        == m.namespace = "current"
NamespaceCheck(m) == Check("namespace", IF Current(m) THEN "pass" ELSE "warn")
UrlCheck(m)       == Check("database", IF m.url = "ok" THEN "pass" ELSE "fail")

Connects(m) == m.url = "ok" /\ m.server > 0

Preflight(m, needs) ==
    IF m.url # "ok" THEN <<ToolCheck(m), UrlCheck(m), DownloadsCheck(m, needs)>>
    ELSE IF ~Connects(m)
         THEN <<ToolCheck(m), UrlCheck(m), Check("connection", "fail"), DownloadsCheck(m, needs)>>
    ELSE <<ToolCheck(m), UrlCheck(m), Check("connection", "pass"), VersionCheck(m), SchemaCheck(m),
           ExtensionsCheck(m), DownloadsCheck(m, needs), DatabaseCheck(m, needs), NamespaceCheck(m)>>

Passed(pf) == \A k \in DOMAIN pf : pf[k].status # "fail"
Named(pf, name) == SelectSeq(pf, LAMBDA c : c.name = name)
Unmeasured(pf) ==
    \E k \in DOMAIN pf : pf[k].name \in {"downloads", "database space"} /\ pf[k].status = "warn"
                         /\ ~(machine.df /\ machine.local /\ machine.tellsDirectory)

\* A connection makes the namespace's schema if it is missing.
Connected(m) == IF m.namespace = "missing" THEN [m EXCEPT !.namespace = "empty"] ELSE m
SetUp(m)     == [m EXCEPT !.namespace = "current"]
-----------------------------------------------------------------------------
(* `status` compares with fec.gov as `update` does.                         *)
LocalOf(d) == IF versions[d] # 0 THEN versions[d] ELSE archives[d].of

StatusSays(d) ==
    IF ~Exists0(d) THEN "not imported" ELSE IF ~offered[d].up THEN "not reached"
    ELSE IF LocalOf(d) = 0 THEN "cannot tell"
    ELSE IF offered[d].of > LocalOf(d) THEN "newer" ELSE "current"

\* The dumps with a newer file, in order.
ToUpdate(what) ==
    LET newer == {k \in DOMAIN what : /\ Exists0(what[k]) /\ offered[what[k]].up
                                     /\ LocalOf(what[k]) # 0 /\ offered[what[k]].of > LocalOf(what[k])}
    IN  [k \in 1..Cardinality(newer) |->
            what[CHOOSE i \in newer : Cardinality({j \in newer : j < i}) = k - 1]]

Ends(how) == outcome' = how /\ stage' = "idle"

\* One file for several dumps, no database, cycles of a dump that is one table.
Misused(j) ==
    \/ j.file # None0 /\ Len(j.what) > 1
    \/ machine.url = "none"
    \/ j.cycles # {} /\ \E d \in Range(j.what) : ~Dumps[d].split

\* The command begins; one that has nothing to work on ends there.
GiveCommand ==
    /\ stage = "idle" /\ commands < MaxCommands
    /\ commands' = commands + 1 /\ meddled' = 0
    /\ \E j \in GuidedJobs :
         /\ job' = IF j.cmd = "update" THEN [j EXCEPT !.what = ToUpdate(j.what)] ELSE j
         /\ CASE j.cmd = "import" /\ Misused(j) -> Ends("usage")
              [] j.cmd = "update" /\ ~Connects(machine) -> Ends("no database")
              [] j.cmd = "update" /\ ToUpdate(j.what) = << >> -> Ends("nothing to do")
              [] j.cmd = "check" -> stage' = "check" /\ outcome' = "none"
              [] OTHER -> stage' = "plan" /\ outcome' = "none"
    /\ steps' = << >> /\ checks' = << >> /\ unit' = 1 /\ todo' = {}
    /\ before' = <<archives, restored, machine.namespace>>
    /\ machine' = IF Connects(machine) THEN Connected(machine) ELSE machine
    /\ UNCHANGED <<archives, restored, versions, offered>>

\* `update` imports the cycles that are there again.
PlanOne ==
    /\ stage = "plan" /\ Len(steps) < Len(job.what)
    /\ LET d     == job.what[Len(steps) + 1]
           again == DOMAIN restored[d] \ {0}
       IN  steps' = Append(steps, PlannedStep(d, IF job.cmd = "update" THEN again ELSE job.cycles, job))
    /\ UNCHANGED <<surroundings, job, stage, checks, unit, todo, outcome, before, commands, meddled>>

\* `update` makes no checks.
Planned ==
    /\ stage = "plan" /\ Len(steps) = Len(job.what)
    /\ stage' = IF job.cmd = "update" THEN "ask" ELSE "check"
    /\ UNCHANGED <<surroundings, job, steps, checks, unit, todo, outcome, before, commands, meddled>>

RunChecks ==
    /\ stage = "check"
    /\ checks' = Preflight(machine, IF job.cmd = "check" THEN NeedsFor(job) ELSE TotalNeeds(steps))
    /\ machine' = IF Connects(machine) THEN Connected(machine) ELSE machine
    /\ CASE ~Passed(checks') -> Ends("refused")
         [] Passed(checks') /\ job.cmd = "check" -> Ends("ready")
         [] Passed(checks') /\ job.cmd = "import" /\ job.explain -> Ends("explained")
         [] OTHER -> stage' = "ask" /\ UNCHANGED outcome
    /\ UNCHANGED <<archives, restored, versions, offered, job, steps, unit, todo, before, commands, meddled>>

\* `check` may set the namespace up after all passed, if that is wanted.
SetUpAfterCheck ==
    /\ stage = "idle" /\ outcome = "ready" /\ ~Current(machine) /\ Connects(machine)
    /\ machine' = SetUp(machine)
    /\ outcome' = "set up"
    /\ UNCHANGED <<archives, restored, versions, offered, job, stage, steps, checks, unit, todo,
                   before, commands, meddled>>

Declined ==
    /\ stage = "ask" /\ Ends("declined")
    /\ UNCHANGED <<surroundings, job, steps, checks, unit, todo, before, commands, meddled>>

\* `import` sets the namespace up first, or ends if that is declined; `update`
\* goes on to the old download, whether the server still answers or not.
GoesAhead ==
    /\ stage = "ask"
    /\ \/ job.cmd = "update" /\ stage' = "run" /\ UNCHANGED <<machine, outcome>>
       \/ job.cmd # "update" /\ ~Connects(machine) /\ Ends("failed") /\ UNCHANGED machine
       \/ job.cmd # "update" /\ Connects(machine) /\ stage' = "run" /\ machine' = SetUp(machine) /\ UNCHANGED outcome
       \/ job.cmd # "update" /\ Connects(machine) /\ ~Current(machine) /\ Ends("declined") /\ UNCHANGED machine
    /\ UNCHANGED <<archives, restored, versions, offered, job, steps, checks, unit, todo, before,
                   commands, meddled>>
-----------------------------------------------------------------------------
(* execute_step: the download, then the parts, in the space there is.       *)
Uses(m, where, n) ==
    IF m.oneDisk THEN [m EXCEPT !.downloads = @ - n, !.database = @ - n]
    ELSE IF where = "downloads" THEN [m EXCEPT !.downloads = @ - n] ELSE [m EXCEPT !.database = @ - n]

Step == steps[unit]
Doing(label) == stage = label /\ unit <= Len(steps)
NoArchive == [complete |-> None0, partial |-> 0, of |-> 0]

\* `update` deletes the old download only now.
EvictOld ==
    /\ Doing("run")
    /\ stage' = "fetch"
    /\ IF job.cmd # "update" THEN UNCHANGED <<archives, machine>>
       ELSE /\ archives' = [archives EXCEPT ![Step.of] = NoArchive]
            /\ machine' = Uses(machine, "downloads",
                              -(archives[Step.of].complete + archives[Step.of].partial))
    /\ UNCHANGED <<restored, versions, offered, job, steps, checks, unit, todo, outcome, before, commands, meddled>>

\* Anything that is not there is downloaded, also what the plan found there.
Fetch ==
    /\ Doing("fetch")
    /\ LET d      == Step.of
           have   == IF archives[d].of = offered[d].of THEN archives[d].partial ELSE 0
           more   == offered[d].size - archives[d].partial
           spills == more > machine.downloads
       IN  IF Step.location = "file" \/ archives[d].complete # None0
           THEN stage' = "drop" /\ UNCHANGED <<archives, machine, outcome>>
           ELSE IF ~offered[d].up THEN Ends("failed") /\ UNCHANGED <<archives, machine>>
           ELSE \/ /\ spills /\ Ends("no space") /\ UNCHANGED <<archives, machine>>
                \/ /\ ~spills /\ stage' = "drop" /\ UNCHANGED outcome
                   /\ archives' = [archives EXCEPT ![d] =
                                     [complete |-> offered[d].size, partial |-> 0, of |-> offered[d].of]]
                   /\ machine' = Uses(machine, "downloads", more)
                \/ /\ ~spills /\ have < offered[d].size - 1 /\ Ends("failed")
                   /\ archives' = [archives EXCEPT ![d] =
                                     [complete |-> None0, partial |-> have + 1, of |-> offered[d].of]]
                   /\ machine' = Uses(machine, "downloads", have + 1 - archives[d].partial)
    /\ UNCHANGED <<restored, versions, offered, job, steps, checks, unit, todo, before, commands, meddled>>

Replaced(s) == IF s.cycles = {} THEN {0} ELSE s.cycles
Without(parts, gone) == Restrict(parts, DOMAIN parts \ gone)
ArchiveBytes(s) == IF s.location = "file" THEN s.bytes ELSE archives[s.of].complete
SizeOf(s, part) == Estimate(s.of, ArchiveBytes(s), FALSE, s.cycles \cap {part}, s.cycles # {}).database

DropOld ==
    /\ Doing("drop")
    /\ IF ~Connects(machine) THEN Ends("failed") /\ UNCHANGED <<machine, restored, todo>>
       ELSE LET gone == Replaced(Step) \cap DOMAIN restored[Step.of]
            IN  /\ machine' = Uses(machine, "database", -SumOver(LAMBDA p : restored[Step.of][p], gone))
                /\ restored' = [restored EXCEPT ![Step.of] = Without(@, gone)]
                /\ todo' = Replaced(Step)
                /\ stage' = "load" /\ UNCHANGED outcome
    /\ UNCHANGED <<archives, versions, offered, job, steps, checks, unit, before, commands, meddled>>

LoadPart ==
    /\ Doing("load") /\ todo # {}
    /\ \E p \in todo :
         LET size == SizeOf(Step, p)
         IN  IF size > machine.database
             THEN Ends("no space") /\ UNCHANGED <<machine, restored, todo>>
             ELSE /\ machine' = Uses(machine, "database", size)
                  /\ restored' = [restored EXCEPT ![Step.of] =
                                    [q \in DOMAIN @ \cup {0, p} |->
                                        IF q = p THEN size ELSE IF q \in DOMAIN @ THEN @[q] ELSE 0]]
                  /\ todo' = todo \ {p}
                  /\ UNCHANGED <<stage, outcome>>
    /\ UNCHANGED <<archives, versions, offered, job, steps, checks, unit, before, commands, meddled>>

StepDone ==
    /\ Doing("load") /\ todo = {}
    /\ versions' = [versions EXCEPT ![Step.of] =
                       IF Step.location = "file" THEN 0 ELSE archives[Step.of].of]
    /\ unit' = unit + 1
    /\ IF unit = Len(steps) THEN Ends("done") ELSE stage' = "run" /\ UNCHANGED outcome
    /\ UNCHANGED <<machine, archives, restored, offered, job, steps, checks, todo, before, commands, meddled>>
-----------------------------------------------------------------------------
(* Others: the disk fills, the server stops, a download is deleted, the FEC *)
(* publishes a larger file.                                                 *)
Meddle ==
    /\ meddled < MaxMeddling /\ commands > 0
    /\ meddled' = meddled + 1
    /\ \/ machine' = Uses(machine, "database", machine.database) /\ UNCHANGED <<archives, offered>>
       \/ machine' = [machine EXCEPT !.server = 0] /\ UNCHANGED <<archives, offered>>
       \/ \E d \in DOMAIN Dumps :
            /\ archives[d].complete # None0
            /\ archives' = [archives EXCEPT ![d] = NoArchive]
            /\ machine' = Uses(machine, "downloads", -archives[d].complete)
            /\ UNCHANGED offered
       \/ \E d \in DOMAIN Dumps :
            /\ offered[d].up /\ offered[d].of = 1
            /\ offered' = [offered EXCEPT ![d].of = 2, ![d].size = @ + 1]
            /\ UNCHANGED <<machine, archives>>
    /\ UNCHANGED <<restored, versions, job, stage, steps, checks, unit, todo, outcome, before, commands>>

GuideNext ==
    \/ GiveCommand \/ PlanOne \/ Planned \/ RunChecks \/ SetUpAfterCheck \/ Declined \/ GoesAhead
    \/ EvictOld \/ Fetch \/ DropOld \/ LoadPart \/ StepDone \/ Meddle

GuideSpec == GuideInit /\ [][GuideNext]_guideVars
-----------------------------------------------------------------------------
Harmless == {"usage", "no database", "nothing to do", "refused", "explained", "ready", "declined"}
AllThere(s) == Replaced(s) \subseteq DOMAIN restored[s.of]
Foreseen ==
    /\ job.cmd = "import" /\ ~machine.oneDisk /\ ~Unmeasured(checks)
    /\ \A k \in DOMAIN steps : steps[k].exact
Untouched(s) == archives[s.of] = before[1][s.of] /\ restored[s.of] = before[2][s.of]

(* What the guided commands say is so, when nobody meddles: what they say   *)
(* changed nothing left downloads, tables and migrations alone; a step that *)
(* fails leaves the later ones undone and those before it done; the checks  *)
(* of `check` are those `import` makes; `status` calls newer what `update`  *)
(* takes.                                                                   *)
NothingChanged ==
    outcome \in Harmless => /\ <<archives, restored>> = <<before[1], before[2]>>
                            /\ Current(machine) = (before[3] = "current")
StepsInOrder ==
    outcome \in {"failed", "no space", "done"} =>
        \A k \in DOMAIN steps : /\ k < unit => AllThere(steps[k])
                                /\ k > unit => Untouched(steps[k])
SameNeeds ==
    (stage = "check" /\ job.cmd = "import" /\ job.file = None0 /\ ~job.offline)
        => TotalNeeds(steps) = NeedsFor(job)
NewerIsTaken ==
    \A d \in DOMAIN Dumps : (StatusSays(d) = "newer") <=> d \in Range(ToUpdate(<<d>>))

GuideSaysWhatIsSo ==
    meddled = 0 => NothingChanged /\ StepsInOrder /\ SameNeeds /\ NewerIsTaken

(* The guided commands keep their word, when nobody meddles: what they say  *)
(* is so, and an import whose checks passed does not run out of the space   *)
(* they measured, if its sizes were known and the two disks are two.        *)
GuideKeepsItsWord ==
    /\ GuideSaysWhatIsSo
    /\ meddled = 0 /\ outcome = "no space" => ~Foreseen
=============================================================================
