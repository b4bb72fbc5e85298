------------------------ MODULE DumpRestoreProofs -------------------------
(***************************************************************************)
(* Invariance proofs for DumpRestore, for any number of commands, servers  *)
(* and namespaces and every dump.                                          *)
(***************************************************************************)
EXTENDS DumpRestore, SequenceTheorems, TLAPS

(* Who holds what: the table exclusively to drop it, in ACCESS SHARE mode   *)
(* from LOCK TABLE to the end of the block, a view from DROP VIEW to there. *)
RestoreLocks ==
    /\ xlock # NoProc => At(xlock, "dropTable") /\ shared = {}
    /\ \A p \in Procs : At(p, "dropTable") => xlock = p
    /\ \A p \in Procs : p \in shared <=> step[p] \in {"dropView", "createView"}
    /\ \A n \in Namespaces : vlock[n] # NoProc => At(vlock[n], "createView")
    /\ shared # {} \/ views # {} => Exists(Parent)

(* What a process is going to replace is in its archive, and it holds the   *)
(* plan that goes with its command.                                         *)
HasPlan(p) ==
    /\ At(p, "dropChildren") =>
          /\ todo[p] \subseteq cmd[p].cycles
          /\ cmd[p].cycles \subseteq InArchive(archive[p])
          /\ plan[p].tables \subseteq cmd[p].cycles \cup {Parent}
    /\ step[p] \in {"locate", "plan", "dropChildren", "create", "copy", "keys", "count", "record"} =>
          p \in Restorers /\ cmd[p].cmd # "remove"
    /\ step[p] \in {"lockTable", "dropTable"} /\ cmd[p].cmd # "remove" => Parent \in plan[p].tables
    /\ step[p] \in {"plan", "lockTable", "dropTable", "dropChildren", "create", "copy"}
          /\ cmd[p].cmd # "remove" => archive[p] # NoVersion

PlanKept == \A p \in Procs : HasPlan(p)

RestoreInv == RestoreTypeOK /\ RestoreLocks /\ PlanKept

(* A table is as the archive has it, or it is known not to be. *)
AsPlanned(p, t) == t \in broken \/ data[t] = <<archive[p]>>

(* How far a restore has got whose tables nobody else has changed. *)
Progress(p) ==
    /\ At(p, "dropChildren") =>
          /\ Parent \in plan[p].tables \/ Exists(Parent)
          /\ \A t \in plan[p].tables : t \in todo[p] \/ ~Exists(t)
    /\ At(p, "create") =>
          /\ Parent \in plan[p].tables \/ Exists(Parent)
          /\ \A t \in plan[p].tables : ~Exists(t)
    /\ At(p, "copy") =>
          /\ Exists(Parent)
          /\ \A t \in todo[p] : data[t] = << >>
          /\ \A t \in plan[p].tables \ todo[p] : AsPlanned(p, t)
    /\ step[p] \in {"keys", "count", "look", "lock", "dropView", "createView", "record"} =>
          /\ Exists(Parent)
          /\ \A t \in plan[p].tables : AsPlanned(p, t)

ProgressInv == \A p \in Restorers \ disturbed : cmd[p].cmd # "remove" => Progress(p)

(* Every view is of a process's namespace, and nobody locks another's.      *)
ViewsOwned ==
    /\ \A n \in views : \E p \in Procs : n = Home[p]
    /\ \A n \in Namespaces : vlock[n] # NoProc => n = Home[vlock[n]]

ViewsBack == \A p \in Restorers \ disturbed : At(p, "record") => Home[p] \in views

ViewsInv == PublicApart => ViewsOwned /\ ViewsBack

(* Of one restorer and a dump of one table: what was recorded is no newer   *)
(* than what is in the table, and that no newer than what fec.gov has.      *)
Recent(v) == \A n \in Namespaces : \A i \in DOMAIN records[n] : records[n][i].of <= v

RestoringLabels == {"plan", "lockTable", "dropTable", "create", "copy", "keys", "count", "look", "lock",
                    "dropView", "createView", "record"}
Restoring(p)    == cmd[p].cmd # "remove" /\ step[p] \in RestoringLabels

(* A restore is of the download, of the whole table, and undisturbed.       *)
PlainProc(p) ==
    /\ plans[p] = {} => At(p, "idle")
    /\ cmd[p].file = NoVersion /\ p \notin disturbed /\ ~At(p, "dropChildren")
    /\ Restoring(p) => cached # NoVersion /\ archive[p] = cached
    /\ Restoring(p) /\ ~At(p, "plan") => Parent \in plan[p].tables

PlainBooks ==
    /\ \A n \in Namespaces : \A i \in DOMAIN records[n] : records[n][i].of # NoVersion
    /\ Recent(onFec) /\ cached <= onFec
    /\ cached # NoVersion => Recent(cached)

PlainTable ==
    \/ ~Exists(Parent) \/ Parent \in broken
    \/ \E v \in DumpVersions : data[Parent] = <<v>> /\ v <= onFec /\ Recent(v)

PlainKept == (\A p \in Restorers : PlainProc(p)) /\ PlainBooks /\ PlainTable

PlainInv == Plain => PlainKept

-----------------------------------------------------------------------------
(* The archives, and what they may have.                                    *)
LEMMA DumpFacts ==
    ASSUME RestoreTypeOK
    PROVE  /\ dump \in Dumps /\ dump.children # << >>
           /\ DumpVersions \subseteq Nat \ {0} /\ NoVersion \notin DumpVersions
           /\ \A v \in DumpVersions \cup {NoVersion} : InArchive(v) \in SUBSET Cycles
           /\ \A p \in Restorers : \A c \in plans[p] :
                 c \in Commands /\ c.file \in DumpVersions \cup {NoVersion}
           /\ ~dump.split => \A v : v \in DumpVersions \cup {NoVersion} => InArchive(v) = {}
           /\ Absent \notin Seq(DumpVersions)
<1>1. PICK w \in Workloads : dump = w.dump /\ plans = w.plans
  BY DEF RestoreTypeOK
<1>2. /\ dump \in Dumps /\ dump.children # << >>
      /\ ~dump.split => \A v \in DOMAIN dump.children : dump.children[v] = {}
      /\ plans \in [Restorers -> SUBSET Commands]
      /\ \A p \in Restorers : \A c \in plans[p] : c.file \in DOMAIN dump.children \cup {NoVersion}
  BY <1>1, WorkloadAssumption
<1>3. dump.children \in Seq(SUBSET Cycles) /\ NoVersion = 0
  BY <1>2, BoundsAssumption DEF Dumps
<1>4. DumpVersions \subseteq Nat \ {0}
  BY <1>3 DEF DumpVersions
<1>5. \A v \in DumpVersions \cup {NoVersion} : InArchive(v) \in SUBSET Cycles
  <2> SUFFICES ASSUME NEW v \in DumpVersions \cup {NoVersion} PROVE InArchive(v) \in SUBSET Cycles
    OBVIOUS
  <2>1. CASE v = NoVersion
    BY <2>1 DEF InArchive
  <2>2. CASE v \in DumpVersions /\ v # NoVersion
    BY <2>2, <1>3, ElementOfSeq DEF InArchive, DumpVersions
  <2> QED BY <2>1, <2>2
<1>6. Absent \notin Seq(DumpVersions)
  <2> SUFFICES ASSUME Absent \in Seq(DumpVersions) PROVE FALSE
    OBVIOUS
  <2>1. Len(Absent) = 1 /\ Absent[1] = -1
    BY DEF Absent
  <2>2. Absent[1] \in DumpVersions
    BY <2>1, ElementOfSeq
  <2> QED BY <2>1, <2>2, <1>4
<1> QED BY <1>2, <1>3, <1>4, <1>5, <1>6 DEF InArchive, DumpVersions

LEMMA SameDump ==
    ASSUME RestoreTypeOK, UNCHANGED given
    PROVE  /\ DumpVersions' = DumpVersions /\ Contents' = Contents /\ Records' = Records
           /\ Plans' = Plans
           /\ \E w \in Workloads : dump' = w.dump /\ plans' = w.plans
           /\ \A v : InArchive(v)' = InArchive(v)
BY DEF RestoreTypeOK, given, DumpVersions, Contents, Records, Plans, InArchive

Fields == {c \in Commands : c.file \in DumpVersions \cup {NoVersion}}

(* What a guided command asks of restore_with is again a command. *)
LEMMA OptionsTypes ==
    ASSUME RestoreTypeOK, NEW p \in Restorers, NEW c \in plans[p]
    PROVE  /\ c \in Fields /\ Options(c) \in Fields /\ Options(c).cmd = c.cmd
           /\ Options(c).file = c.file
           /\ Options([c EXCEPT !.cycles = CyclesPresent]) \in Fields
           /\ Options([c EXCEPT !.cycles = CyclesPresent]).cmd = c.cmd
           /\ Options([c EXCEPT !.cycles = CyclesPresent]).file = c.file
<1>1. c \in Fields /\ dump.split \in BOOLEAN
  BY DumpFacts DEF Fields, Dumps
<1>2. ASSUME NEW k \in Fields PROVE Options(k) \in Fields /\ Options(k).cmd = k.cmd /\ Options(k).file = k.file
  <2>1. CyclesFor(k.cycles) \in SUBSET Cycles
    BY <1>2, BoundsAssumption DEF CyclesFor, Fields, Commands
  <2> QED BY <2>1, <1>1, <1>2 DEF Options, Fields, Commands
<1>3. /\ [c EXCEPT !.cycles = CyclesPresent] \in Fields
      /\ [c EXCEPT !.cycles = CyclesPresent].cmd = c.cmd
      /\ [c EXCEPT !.cycles = CyclesPresent].file = c.file
  BY <1>1 DEF CyclesPresent, Fields, Commands
<1> QED BY <1>1, <1>2, <1>3
-----------------------------------------------------------------------------
LEMMA InitTypes == RestoreInit => RestoreTypeOK
<1> SUFFICES ASSUME RestoreInit PROVE RestoreTypeOK
  OBVIOUS
<1>1. PICK w \in Workloads : dump = w.dump /\ plans = w.plans
  BY DEF RestoreInit
<1>2. dump.children \in Seq(SUBSET Cycles) /\ dump.children # << >>
  BY <1>1, WorkloadAssumption DEF Dumps
<1>3. 1 \in DumpVersions
  BY <1>2 DEF DumpVersions
<1>4. NoCommand \in Fields
  BY BoundsAssumption DEF NoCommand, Fields, Commands
<1>5. NoPlan \in Plans
  BY DEF NoPlan, Plans
<1>6. \A n \in Namespaces : << >> \in Records
  BY DEF Records
<1>7. Absent \in Contents
  BY DEF Contents
<1> QED BY <1>1, <1>3, <1>4, <1>5, <1>6, <1>7, BoundsAssumption
        DEF RestoreInit, RestoreTypeOK, Fields, RestoreLabels

(* The operations that change nothing in the database.                      *)
LEMMA StartTypes ==
    ASSUME RestoreTypeOK, NEW p \in Procs, NEW c \in Fields, NEW l \in RestoreLabels, Start(p, c, l),
           UNCHANGED <<given, fec, content, views, records, broken, locks, archive, plan, todo>>
    PROVE  RestoreTypeOK'
<1>1. runs' \in 0..MaxRuns
  BY BoundsAssumption DEF Start, RestoreTypeOK
<1>2. cmd' \in [Procs -> Fields] /\ step' \in [Procs -> RestoreLabels] /\ disturbed' \subseteq Procs
  BY DEF Start, To, RestoreTypeOK, Fields
<1> QED BY <1>1, <1>2, SameDump DEF RestoreTypeOK, Fields, fec, content, locks, Exists, Contents, Records, Plans

LEMMA UnlockTypes ==
    ASSUME RestoreTypeOK, NEW p \in Procs, Unlock(p)
    PROVE  shared' \subseteq Procs /\ vlock' \in [Namespaces -> Procs \cup {NoProc}]
BY DEF RestoreTypeOK, Unlock

LEMMA LabelTypes ==
    ASSUME NEW p \in Procs
    PROVE  /\ AfterViews(p) \in RestoreLabels /\ AfterDrop(p) \in RestoreLabels
           /\ AfterRecords(p) \in RestoreLabels
           /\ AfterStep("look") = "lock" /\ AfterStep("lock") = "dropView"
           /\ AfterStep("dropView") = "createView"
BY DEF AfterViews, AfterDrop, AfterRecords, AfterStep, RestoreLabels

LEMMA TargetsTypes ==
    ASSUME RestoreTypeOK, NEW p \in Procs
    PROVE  Targets(p) \in SUBSET Tables
<1>1. plan[p].partitions \subseteq Cycles
  BY DEF RestoreTypeOK, Plans
<1> QED BY <1>1 DEF Targets, Tables

(* Every step keeps the types. *)
LEMMA TypesKept ==
    ASSUME RestoreTypeOK, PlanKept, [RestoreNext]_restoreVars
    PROVE  RestoreTypeOK'
<1> USE DEF At, To
<1>1. ASSUME NEW p \in Restorers, RestoreDump(p) \/ Import(p) \/ Update(p) \/ Remove(p) \/ DumpIndex(p)
      PROVE  RestoreTypeOK'
  <2>1. CASE RestoreDump(p)
    BY <2>1, StartTypes, OptionsTypes DEF RestoreDump, RestoreLabels, Procs
  <2>2. CASE Import(p)
    BY <2>2, StartTypes, OptionsTypes DEF Import, RestoreLabels, Procs
  <2>3. CASE Update(p)
    BY <2>3, StartTypes, OptionsTypes DEF Update, RestoreLabels, Procs
  <2>4. CASE DumpIndex(p)
    BY <2>4, StartTypes, OptionsTypes DEF DumpIndex, RestoreLabels, Procs
  <2>5. CASE Remove(p)
    <3>1. PICK c \in plans[p] : Start(p, c, IF Exists(Parent) THEN "lockTable" ELSE "look")
      BY <2>5 DEF Remove
    <3>2. c \in Fields /\ p \in Procs
      BY OptionsTypes DEF Procs
    <3>3. runs' \in 0..MaxRuns /\ disturbed' \subseteq Procs
      BY <3>1, BoundsAssumption DEF Start, RestoreTypeOK
    <3>4. cmd' \in [Procs -> Fields] /\ step' \in [Procs -> RestoreLabels]
      BY <3>1, <3>2 DEF Start, RestoreTypeOK, Fields, RestoreLabels
    <3>5. plan' \in [Procs -> Plans]
      BY <2>5 DEF Remove, RestoreTypeOK, NoPlan, Plans
    <3> QED BY <2>5, <3>3, <3>4, <3>5, SameDump
            DEF Remove, RestoreTypeOK, Fields, fec, content, locks, Exists, Contents, Records, Plans
  <2> QED BY <1>1, <2>1, <2>2, <2>3, <2>4, <2>5
<1>2. ASSUME NEW p \in Servers, Serve(p) PROVE RestoreTypeOK'
  <2>1. NoCommand \in Fields /\ p \in Procs /\ "look" \in RestoreLabels
    BY BoundsAssumption DEF NoCommand, Fields, Commands, Procs, RestoreLabels
  <2> QED BY <1>2, <2>1, StartTypes DEF Serve
<1>3. ASSUME Refresh PROVE RestoreTypeOK'
  BY <1>3, SameDump DEF Refresh, RestoreTypeOK, content, locks, own, Exists, Fields
<1>4. ASSUME NEW p \in Restorers, Evict(p) PROVE RestoreTypeOK'
  BY <1>4, SameDump DEF Evict, RestoreTypeOK, content, locks, own, Exists, RestoreLabels, Procs
<1>5. ASSUME NEW p \in Restorers, Locate(p) PROVE RestoreTypeOK'
  <2>1. cmd[p].file \in DumpVersions \cup {NoVersion} /\ p \in Procs
    BY DEF RestoreTypeOK, Procs
  <2>2. step' \in [Procs -> RestoreLabels]
    BY <1>5 DEF Locate, RestoreTypeOK, RestoreLabels
  <2>3. cached' \in DumpVersions \cup {NoVersion} /\ archive' \in [Procs -> DumpVersions \cup {NoVersion}]
    <3>1. CASE UNCHANGED <<cached, archive>>
      BY <3>1 DEF RestoreTypeOK
    <3>2. CASE ~UNCHANGED <<cached, archive>>
      BY <1>5, <2>1, <3>2 DEF Locate, RestoreTypeOK
    <3> QED BY <3>1, <3>2
  <2> QED BY <1>5, <2>2, <2>3, SameDump DEF Locate, RestoreTypeOK, content, locks, Exists
<1>6. ASSUME NEW p \in Restorers, PlanRestore(p) PROVE RestoreTypeOK'
  <2>1. p \in Procs /\ cmd[p].cycles \in SUBSET Cycles /\ cmd[p].dataOnly \in BOOLEAN
    BY DEF RestoreTypeOK, Commands, Procs
  <2>2. InArchive(archive[p]) \in SUBSET Cycles
    BY <2>1, DumpFacts DEF RestoreTypeOK
  <2>3. PlanOf(p) \in Plans
    BY <2>1, <2>2 DEF PlanOf, Plans, Tables
  <2>4. step' \in [Procs -> RestoreLabels]
    BY <1>6 DEF PlanRestore, RestoreTypeOK, RestoreLabels
  <2>5. plan' \in [Procs -> Plans] /\ todo' \in [Procs -> SUBSET Tables]
    <3>1. CASE UNCHANGED <<plan, todo>>
      BY <3>1 DEF RestoreTypeOK, Plans
    <3>2. CASE ~UNCHANGED <<plan, todo>>
      BY <1>6, <2>1, <2>3, <3>2 DEF PlanRestore, RestoreTypeOK, Tables
    <3> QED BY <3>1, <3>2
  <2> QED BY <1>6, <2>4, <2>5, SameDump DEF PlanRestore, RestoreTypeOK, fec, content, locks, Exists, Plans
<1>7. ASSUME NEW p \in Restorers, LockTable(p) PROVE RestoreTypeOK'
  BY <1>7, SameDump DEF LockTable, RestoreTypeOK, fec, content, own, Exists, RestoreLabels, Procs
<1>8. ASSUME NEW p \in Restorers, DropTable(p) PROVE RestoreTypeOK'
  BY <1>8, SameDump, LabelTypes
     DEF DropTable, RestoreTypeOK, fec, own, Disturbs, Procs, Contents
<1>9. ASSUME NEW p \in Restorers, DropChild(p) PROVE RestoreTypeOK'
  <2>1. PICK t \in todo[p] :
           /\ data' = [data EXCEPT ![t] = Absent]
           /\ keyed' = keyed \ {t} /\ indexed' = indexed \ {t} /\ broken' = broken \ {t}
           /\ todo' = [todo EXCEPT ![p] = @ \ {t}]
           /\ step' = [step EXCEPT ![p] = IF todo[p] = {t} THEN "create" ELSE "dropChildren"]
    BY <1>9 DEF DropChild
  <2>2. p \in Procs /\ Absent \in Contents
    BY DEF Procs, Contents
  <2>3. data' \in [Tables -> Contents] /\ (keyed' \cup indexed') \subseteq {u \in Tables : data'[u] # Absent}
    BY <2>1, <2>2 DEF RestoreTypeOK, Exists
  <2>4. todo' \in [Procs -> SUBSET Tables] /\ step' \in [Procs -> RestoreLabels]
    BY <2>1, <2>2 DEF RestoreTypeOK, RestoreLabels
  <2>5. broken' \subseteq Tables /\ disturbed' \subseteq Procs
    BY <1>9, <2>1 DEF DropChild, Disturbs, RestoreTypeOK
  <2> QED BY <1>9, <2>3, <2>4, <2>5, SameDump DEF DropChild, RestoreTypeOK, fec, locks, Exists
<1>10. ASSUME NEW p \in Restorers, Create(p) PROVE RestoreTypeOK'
  <2>1. p \in Procs /\ plan[p].tables \in SUBSET Tables
    BY DEF RestoreTypeOK, Plans, Procs
  <2>2. << >> \in Contents /\ << >> # Absent
    BY DEF Contents, Absent
  <2>3. data' \in [Tables -> Contents] /\ \A t \in Tables : data[t] # Absent => data'[t] # Absent
    BY <1>10, <2>2 DEF Create, RestoreTypeOK
  <2>4. broken' \subseteq Tables /\ disturbed' \subseteq Procs
    BY <1>10, <2>1 DEF Create, Disturbs, RestoreTypeOK
  <2>5. todo' \in [Procs -> SUBSET Tables] /\ step' \in [Procs -> RestoreLabels]
    BY <1>10, <2>1 DEF Create, RestoreTypeOK, RestoreLabels
  <2> QED BY <1>10, <2>3, <2>4, <2>5, SameDump DEF Create, RestoreTypeOK, fec, locks, Exists
<1>11. ASSUME NEW p \in Restorers, CopyTable(p) PROVE RestoreTypeOK'
  <2>1. p \in Procs /\ archive[p] \in DumpVersions
    BY <1>11 DEF CopyTable, PlanKept, HasPlan, RestoreTypeOK, Procs
  <2>2. PICK t \in todo[p] :
           /\ \/ /\ Copies(p, t)
                 /\ data' = [data EXCEPT ![t] = Append(@, archive[p])]
                 /\ broken' = broken \ {t}
              \/ /\ broken' = broken \cup {t}
                 /\ UNCHANGED data
           /\ todo' = [todo EXCEPT ![p] = @ \ {t}]
           /\ step' = [step EXCEPT ![p] = IF todo[p] # {t} THEN "copy"
                    ELSE IF plan[p].dataOnly THEN "count" ELSE "keys"]
    BY <1>11 DEF CopyTable
  <2>3. t \in Tables
    BY <2>1 DEF RestoreTypeOK
  <2>4. data' \in [Tables -> Contents] /\ \A u \in Tables : data[u] # Absent => data'[u] # Absent
    <3>1. CASE UNCHANGED data
      BY <3>1 DEF RestoreTypeOK
    <3>2. CASE Copies(p, t) /\ data' = [data EXCEPT ![t] = Append(@, archive[p])]
      <4>1. data[t] \in Seq(DumpVersions)
        BY <2>3, <3>2 DEF Copies, Exists, RestoreTypeOK, Contents
      <4>2. Append(data[t], archive[p]) \in Seq(DumpVersions)
        BY <2>1, <4>1
      <4> QED BY <2>3, <3>2, <4>2, DumpFacts DEF RestoreTypeOK, Contents
    <3> QED BY <2>2, <3>1, <3>2
  <2>5. broken' \subseteq Tables /\ disturbed' \subseteq Procs
    BY <1>11, <2>2, <2>3 DEF CopyTable, Disturbs, RestoreTypeOK
  <2>6. todo' \in [Procs -> SUBSET Tables] /\ step' \in [Procs -> RestoreLabels]
    BY <2>1, <2>2 DEF RestoreTypeOK, RestoreLabels
  <2> QED BY <1>11, <2>4, <2>5, <2>6, SameDump DEF CopyTable, RestoreTypeOK, fec, locks, Exists
<1>12. ASSUME NEW p \in Restorers, MakeKeys(p) PROVE RestoreTypeOK'
  <2>1. plan[p].tables \in SUBSET Tables /\ p \in Procs
    BY DEF RestoreTypeOK, Plans, Procs
  <2>2. keyed' \subseteq {t \in Tables : data[t] # Absent}
    BY <1>12, <2>1 DEF MakeKeys, RestoreTypeOK, Exists
  <2> QED BY <1>12, <2>2, SameDump DEF MakeKeys, RestoreTypeOK, fec, locks, own, Exists, RestoreLabels
<1>13. ASSUME NEW p \in Restorers, CountRows(p) PROVE RestoreTypeOK'
  BY <1>13, SameDump DEF CountRows, RestoreTypeOK, fec, content, locks, own, Exists, RestoreLabels, Procs
<1>14. ASSUME NEW p \in Restorers, Record(p) PROVE RestoreTypeOK'
  <2>1. PICK t \in todo[p] :
           /\ records' = [records EXCEPT ![Home[p]] = Append(@, [table |-> t, of |-> Recorded(p)])]
           /\ todo' = [todo EXCEPT ![p] = IF @ = {t} THEN Targets(p) ELSE @ \ {t}]
           /\ step' = [step EXCEPT ![p] = IF todo[p] = {t} THEN AfterRecords(p) ELSE "record"]
    BY <1>14 DEF Record
  <2>2. p \in Procs /\ t \in Tables /\ Home[p] \in Namespaces
    BY HomeAssumption DEF RestoreTypeOK, Procs
  <2>3. [table |-> t, of |-> Recorded(p)] \in [table : Tables, of : DumpVersions \cup {NoVersion}]
    BY <2>2 DEF Recorded, RestoreTypeOK
  <2>4. records' \in [Namespaces -> Records]
    <3>1. records[Home[p]] \in Records
      BY <2>2 DEF RestoreTypeOK
    <3>2. Append(records[Home[p]], [table |-> t, of |-> Recorded(p)]) \in Records
      BY <2>3, <3>1 DEF Records
    <3> QED BY <2>1, <2>2, <3>2 DEF RestoreTypeOK
  <2>5. todo' \in [Procs -> SUBSET Tables] /\ step' \in [Procs -> RestoreLabels]
    BY <2>1, <2>2, TargetsTypes, LabelTypes DEF RestoreTypeOK, RestoreLabels
  <2> QED BY <1>14, <2>4, <2>5, SameDump DEF Record, RestoreTypeOK, fec, content, locks, Exists
<1>15. ASSUME NEW p \in Restorers, IndexTargets(p) PROVE RestoreTypeOK'
  <2>1. cmd[p].cycles \in SUBSET Tables /\ p \in Procs /\ CyclesPresent \in SUBSET Tables
    BY DEF RestoreTypeOK, Commands, Procs, Tables, CyclesPresent
  <2>2. step' \in [Procs -> RestoreLabels]
    BY <1>15 DEF IndexTargets, RestoreTypeOK, RestoreLabels
  <2>3. todo' \in [Procs -> SUBSET Tables]
    <3>1. CASE UNCHANGED todo
      BY <3>1 DEF RestoreTypeOK
    <3>2. CASE ~UNCHANGED todo
      BY <1>15, <2>1, <3>2 DEF IndexTargets, RestoreTypeOK, Tables
    <3> QED BY <3>1, <3>2
  <2> QED BY <1>15, <2>2, <2>3, SameDump DEF IndexTargets, RestoreTypeOK, fec, content, locks, Exists
<1>16. ASSUME NEW p \in Restorers, Index(p) PROVE RestoreTypeOK'
  <2>1. PICK t \in todo[p] :
           /\ indexed' = IF Exists(t) THEN indexed \cup {t} ELSE indexed
           /\ todo' = [todo EXCEPT ![p] = @ \ {t}]
           /\ step' = [step EXCEPT ![p] = IF Exists(t) /\ todo[p] # {t} THEN "index" ELSE "idle"]
    BY <1>16 DEF Index
  <2>2. p \in Procs /\ t \in Tables
    BY DEF RestoreTypeOK, Procs
  <2>3. indexed' \subseteq {u \in Tables : data[u] # Absent}
    BY <2>1, <2>2 DEF RestoreTypeOK, Exists
  <2>4. todo' \in [Procs -> SUBSET Tables] /\ step' \in [Procs -> RestoreLabels]
    BY <2>1, <2>2 DEF RestoreTypeOK, RestoreLabels
  <2> QED BY <1>16, <2>3, <2>4, SameDump DEF Index, RestoreTypeOK, fec, locks, Exists
<1>17. ASSUME NEW p \in Procs, Look(p) PROVE RestoreTypeOK'
  <2>1. todo' \in [Procs -> SUBSET Tables] /\ step' \in [Procs -> RestoreLabels]
    BY <1>17, TargetsTypes, LabelTypes DEF Look, RestoreTypeOK, RestoreLabels
  <2> QED BY <1>17, <2>1, SameDump DEF Look, RestoreTypeOK, fec, content, locks, Exists
<1>18. ASSUME NEW p \in Procs, LockShared(p) PROVE RestoreTypeOK'
  <2>1. shared' \subseteq Procs /\ vlock' \in [Namespaces -> Procs \cup {NoProc}]
    BY <1>18, UnlockTypes DEF LockShared, RestoreTypeOK
  <2>2. step' \in [Procs -> RestoreLabels]
    BY <1>18, LabelTypes DEF LockShared, RestoreTypeOK, RestoreLabels
  <2> QED BY <1>18, <2>1, <2>2, SameDump DEF LockShared, RestoreTypeOK, fec, content, own, Exists
<1>19. ASSUME NEW p \in Procs, DropView(p) PROVE RestoreTypeOK'
  <2>1. vlock' \in [Namespaces -> Procs \cup {NoProc}] /\ step' \in [Procs -> RestoreLabels]
    BY <1>19, LabelTypes DEF DropView, RestoreTypeOK, RestoreLabels
  <2> QED BY <1>19, <2>1, SameDump DEF DropView, RestoreTypeOK, fec, content, own, Exists
<1>20. ASSUME NEW p \in Procs, CreateView(p) PROVE RestoreTypeOK'
  <2>1. shared' \subseteq Procs /\ vlock' \in [Namespaces -> Procs \cup {NoProc}]
    BY <1>20, UnlockTypes DEF CreateView
  <2>2. views' \subseteq Namespaces /\ step' \in [Procs -> RestoreLabels]
    BY <1>20, LabelTypes, HomeAssumption DEF CreateView, RestoreTypeOK, RestoreLabels
  <2> QED BY <1>20, <2>1, <2>2, SameDump DEF CreateView, RestoreTypeOK, fec, content, own, Exists
<1>21. ASSUME NEW p \in Procs, Fail(p) PROVE RestoreTypeOK'
  <2>1. shared' \subseteq Procs /\ vlock' \in [Namespaces -> Procs \cup {NoProc}]
    BY <1>21, UnlockTypes DEF Fail
  <2>2. xlock' \in Procs \cup {NoProc} /\ step' \in [Procs -> RestoreLabels]
    BY <1>21 DEF Fail, RestoreTypeOK, RestoreLabels
  <2> QED BY <1>21, <2>1, <2>2, SameDump DEF Fail, RestoreTypeOK, fec, content, own, Exists
<1>22. ASSUME UNCHANGED restoreVars PROVE RestoreTypeOK'
  BY <1>22, SameDump DEF restoreVars, RestoreTypeOK, fec, content, locks, own, Exists
<1> QED
  <2> HIDE DEF At, To
  <2> QED BY <1>1, <1>2, <1>3, <1>4, <1>5, <1>6, <1>7, <1>8, <1>9, <1>10, <1>11, <1>12, <1>13, <1>14,
             <1>15, <1>16, <1>17, <1>18, <1>19, <1>20, <1>21, <1>22
          DEF RestoreNext, Restore, EnsureViews
-----------------------------------------------------------------------------
(* What the steps of one process leave of the others.                       *)
LEMMA OthersKeep ==
    ASSUME RestoreTypeOK, UNCHANGED given, PlanKept, NEW p \in Procs, HasPlan(p)',
           \A q \in Procs \ {p} : /\ step'[q] = step[q] /\ cmd'[q] = cmd[q] /\ plan'[q] = plan[q]
                                  /\ archive'[q] = archive[q] /\ todo'[q] = todo[q]
    PROVE  PlanKept'
<1> SUFFICES ASSUME NEW q \in Procs, q # p PROVE HasPlan(q)'
  BY DEF PlanKept
<1>1. /\ step'[q] = step[q] /\ cmd'[q] = cmd[q] /\ plan'[q] = plan[q]
      /\ archive'[q] = archive[q] /\ todo'[q] = todo[q]
  OBVIOUS
<1>2. InArchive(archive[q])' = InArchive(archive[q])
  BY <1>1 DEF InArchive, given
<1> QED BY <1>1, <1>2 DEF PlanKept, HasPlan, At

(* A process that starts has not been given a plan yet.                     *)
LEMMA StartKeepsPlans ==
    ASSUME RestoreTypeOK, PlanKept, NEW p \in Procs, NEW c, NEW l, Start(p, c, l),
           UNCHANGED <<given, archive, todo>>,
           \A q \in Procs \ {p} : plan'[q] = plan[q],
           \/ l \in {"evict", "look", "targets"}
           \/ l = "locate" /\ p \in Restorers /\ c.cmd # "remove"
           \/ l = "lockTable" /\ c.cmd = "remove"
    PROVE  PlanKept'
<1>1. step' = [step EXCEPT ![p] = l] /\ cmd' = [cmd EXCEPT ![p] = c]
  BY DEF Start, To
<1>2. step'[p] = l /\ cmd'[p] = c
  BY <1>1 DEF RestoreTypeOK
<1>3. HasPlan(p)'
  BY <1>2 DEF HasPlan, At
<1>4. \A q \in Procs \ {p} : step'[q] = step[q] /\ cmd'[q] = cmd[q]
  BY <1>1 DEF RestoreTypeOK
<1> QED BY <1>3, <1>4, OthersKeep

(* A step to a label that asks for no plan.                                 *)
LEMMA LeavesPlans ==
    ASSUME RestoreTypeOK, PlanKept, NEW p \in Procs, NEW l, step' = [step EXCEPT ![p] = l],
           UNCHANGED <<given, cmd, archive, plan>>, \A q \in Procs \ {p} : todo'[q] = todo[q],
           \/ l \in {"idle", "look", "lock", "dropView", "createView", "evict", "targets", "index"}
           \/ l = "record" /\ p \in Restorers /\ cmd[p].cmd # "remove"
    PROVE  PlanKept'
<1>1. step'[p] = l /\ \A q \in Procs \ {p} : step'[q] = step[q]
  BY DEF RestoreTypeOK
<1>2. HasPlan(p)'
  BY <1>1 DEF HasPlan, At
<1> QED BY <1>1, <1>2, OthersKeep

(* A step to a label of the restore itself that its plan still fits.        *)
LEMMA StaysPlanned ==
    ASSUME RestoreTypeOK, PlanKept, NEW p \in Restorers, NEW l, step' = [step EXCEPT ![p] = l],
           UNCHANGED <<given, cmd, archive, plan>>, \A q \in Procs \ {p} : todo'[q] = todo[q],
           \/ step[p] = "evict" /\ l = "locate" /\ cmd[p].cmd # "remove"
           \/ step[p] = "lockTable" /\ l = "dropTable"
           \/ step[p] = "dropTable" /\ l = "create" /\ cmd[p].cmd # "remove"
           \/ step[p] = "dropChildren" /\ l = "dropChildren" /\ todo'[p] \subseteq todo[p]
           \/ step[p] = "dropChildren" /\ l = "create"
           \/ step[p] \in {"create", "copy"} /\ l = "copy"
           \/ step[p] \in {"copy", "keys"} /\ l \in {"keys", "count"}
           \/ step[p] = "record" /\ l = "record"
    PROVE  PlanKept'
<1>1. p \in Procs /\ step'[p] = l /\ \A q \in Procs \ {p} : step'[q] = step[q]
  BY DEF RestoreTypeOK, Procs
<1>2. InArchive(archive[p])' = InArchive(archive[p])
  BY DEF InArchive, given
<1>3. HasPlan(p)
  BY <1>1 DEF PlanKept
<1>4. HasPlan(p)'
  BY <1>1, <1>2, <1>3 DEF HasPlan, At
<1> QED BY <1>1, <1>4, OthersKeep

LEMMA PlansKept ==
    ASSUME RestoreTypeOK, PlanKept, [RestoreNext]_restoreVars
    PROVE  PlanKept'
<1> USE DEF At, To
<1>1. ASSUME NEW p \in Restorers, RestoreDump(p) \/ Import(p) \/ Update(p) \/ Remove(p) \/ DumpIndex(p)
      PROVE  PlanKept'
  <2>1. CASE RestoreDump(p)
    BY <2>1, StartKeepsPlans, OptionsTypes DEF RestoreDump, Procs
  <2>2. CASE Import(p)
    BY <2>2, StartKeepsPlans, OptionsTypes DEF Import, Procs
  <2>3. CASE Update(p)
    BY <2>3, StartKeepsPlans, OptionsTypes DEF Update, Procs
  <2>4. CASE Remove(p)
    <3>1. \A q \in Procs \ {p} : plan'[q] = plan[q]
      BY <2>4 DEF Remove, RestoreTypeOK
    <3>2. p \in Procs
      BY DEF Procs
    <3>3. PICK c \in plans[p] : c.cmd = "remove" /\ Start(p, c, IF Exists(Parent) THEN "lockTable" ELSE "look")
      BY <2>4 DEF Remove
    <3>4. CASE Exists(Parent)
      BY <2>4, <3>1, <3>2, <3>3, <3>4, StartKeepsPlans DEF Remove
    <3>5. CASE ~Exists(Parent)
      BY <2>4, <3>1, <3>2, <3>3, <3>5, StartKeepsPlans DEF Remove
    <3> QED BY <3>4, <3>5
  <2>5. CASE DumpIndex(p)
    BY <2>5, StartKeepsPlans DEF DumpIndex, Procs
  <2> QED BY <1>1, <2>1, <2>2, <2>3, <2>4, <2>5
<1>2. ASSUME NEW p \in Servers, Serve(p) PROVE PlanKept'
  BY <1>2, StartKeepsPlans DEF Serve, Procs
<1>3. CASE Refresh \/ UNCHANGED restoreVars
  <2>1. UNCHANGED <<given, step, cmd, archive, plan, todo>>
    BY <1>3 DEF Refresh, restoreVars, own
  <2> QED BY <2>1, SameDump DEF PlanKept, HasPlan, InArchive, given
<1>4. ASSUME NEW p \in Restorers, Evict(p) PROVE PlanKept'
  BY <1>4, LeavesPlans, StaysPlanned DEF Evict, own, Procs
<1>5. ASSUME NEW p \in Restorers, Locate(p) PROVE PlanKept'
  <2>1. p \in Procs /\ HasPlan(p)
    BY DEF PlanKept, Procs
  <2>2. CASE step' = [step EXCEPT ![p] = "idle"] /\ UNCHANGED <<cached, archive>>
    BY <1>5, <2>1, <2>2, LeavesPlans DEF Locate
  <2>3. CASE ~(step' = [step EXCEPT ![p] = "idle"] /\ UNCHANGED <<cached, archive>>)
    <3>1. /\ archive' = [archive EXCEPT ![p] = IF cmd[p].file # NoVersion THEN cmd[p].file
                                               ELSE IF cached # NoVersion THEN cached ELSE onFec]
          /\ step' = [step EXCEPT ![p] = "plan"]
      BY <1>5, <2>3 DEF Locate
    <3>2. onFec # NoVersion
      BY DumpFacts DEF RestoreTypeOK
    <3>3. step'[p] = "plan" /\ archive'[p] # NoVersion /\ cmd'[p] = cmd[p] /\ step[p] = "locate"
      BY <1>5, <2>1, <3>1, <3>2 DEF Locate, RestoreTypeOK
    <3>4. HasPlan(p)'
      BY <2>1, <3>3 DEF HasPlan
    <3>5. \A q \in Procs \ {p} : step'[q] = step[q] /\ archive'[q] = archive[q]
      BY <3>1 DEF RestoreTypeOK
    <3> QED BY <1>5, <2>1, <3>4, <3>5, OthersKeep DEF Locate
  <2> QED BY <2>2, <2>3
<1>6. ASSUME NEW p \in Restorers, PlanRestore(p) PROVE PlanKept'
  <2>1. p \in Procs /\ HasPlan(p)
    BY DEF PlanKept, Procs
  <2>2. CASE ~Plannable(p)
    BY <1>6, <2>1, <2>2, LeavesPlans DEF PlanRestore
  <2>3. CASE Plannable(p)
    <3>1. /\ plan' = [plan EXCEPT ![p] = PlanOf(p)]
          /\ todo' = [todo EXCEPT ![p] = cmd[p].cycles]
          /\ step' = [step EXCEPT ![p] = IF cmd[p].cycles = {} THEN "lockTable" ELSE "dropChildren"]
          /\ UNCHANGED <<given, cmd, archive>> /\ step[p] = "plan"
      BY <1>6, <2>3 DEF PlanRestore
    <3>2. /\ step'[p] = IF cmd[p].cycles = {} THEN "lockTable" ELSE "dropChildren"
          /\ plan'[p] = PlanOf(p) /\ todo'[p] = cmd[p].cycles
          /\ cmd'[p] = cmd[p] /\ archive'[p] = archive[p]
      BY <2>1, <3>1 DEF RestoreTypeOK
    <3>3. InArchive(archive[p])' = InArchive(archive[p])
      BY <3>1 DEF InArchive, given
    <3>4. HasPlan(p)'
      <4>1. CASE cmd[p].cycles = {}
        BY <2>1, <3>1, <3>2, <4>1 DEF HasPlan, PlanOf
      <4>2. CASE cmd[p].cycles # {}
        <5>1. cmd[p].cycles \subseteq InArchive(archive[p])
          BY <2>3, <4>2 DEF Plannable
        <5>2. PlanOf(p).tables \subseteq cmd[p].cycles \cup {Parent}
          BY <4>2 DEF PlanOf
        <5> QED BY <2>1, <3>1, <3>2, <3>3, <4>2, <5>1, <5>2 DEF HasPlan
      <4> QED BY <4>1, <4>2
    <3>5. \A q \in Procs \ {p} : step'[q] = step[q] /\ plan'[q] = plan[q] /\ todo'[q] = todo[q]
      BY <3>1 DEF RestoreTypeOK
    <3> QED BY <2>1, <3>1, <3>4, <3>5, OthersKeep
  <2> QED BY <2>2, <2>3
<1>7. ASSUME NEW p \in Restorers, LockTable(p) \/ MakeKeys(p) PROVE PlanKept'
  BY <1>7, StaysPlanned DEF LockTable, MakeKeys, own
<1>8. ASSUME NEW p \in Restorers, DropTable(p) PROVE PlanKept'
  BY <1>8, LeavesPlans, StaysPlanned DEF DropTable, AfterDrop, own, Procs
<1>9. ASSUME NEW p \in Restorers, DropChild(p) PROVE PlanKept'
  <2>1. PICK t \in todo[p] :
           /\ todo' = [todo EXCEPT ![p] = @ \ {t}]
           /\ step' = [step EXCEPT ![p] = IF todo[p] = {t} THEN "create" ELSE "dropChildren"]
    BY <1>9 DEF DropChild
  <2>2. todo'[p] \subseteq todo[p] /\ \A q \in Procs \ {p} : todo'[q] = todo[q]
    BY <2>1 DEF RestoreTypeOK, Procs
  <2> QED BY <1>9, <2>1, <2>2, StaysPlanned DEF DropChild
<1>10. ASSUME NEW p \in Restorers, Create(p) PROVE PlanKept'
  <2>1. \A q \in Procs \ {p} : todo'[q] = todo[q]
    BY <1>10 DEF Create, RestoreTypeOK
  <2> QED BY <1>10, <2>1, StaysPlanned DEF Create
<1>11. ASSUME NEW p \in Restorers, CopyTable(p) PROVE PlanKept'
  <2>1. PICK t \in todo[p] :
           /\ todo' = [todo EXCEPT ![p] = @ \ {t}]
           /\ step' = [step EXCEPT ![p] = IF todo[p] # {t} THEN "copy"
                    ELSE IF plan[p].dataOnly THEN "count" ELSE "keys"]
    BY <1>11 DEF CopyTable
  <2>2. \A q \in Procs \ {p} : todo'[q] = todo[q]
    BY <2>1 DEF RestoreTypeOK
  <2> QED BY <1>11, <2>1, <2>2, StaysPlanned DEF CopyTable
<1>13. ASSUME NEW p \in Restorers, CountRows(p) PROVE PlanKept'
  BY <1>13, LeavesPlans DEF CountRows, own, Procs
<1>14. ASSUME NEW p \in Restorers, Record(p) PROVE PlanKept'
  <2>1. PICK t \in todo[p] :
           /\ todo' = [todo EXCEPT ![p] = IF @ = {t} THEN Targets(p) ELSE @ \ {t}]
           /\ step' = [step EXCEPT ![p] = IF todo[p] = {t} THEN AfterRecords(p) ELSE "record"]
    BY <1>14 DEF Record
  <2>2. \A q \in Procs \ {p} : todo'[q] = todo[q]
    BY <2>1 DEF RestoreTypeOK
  <2>3. CASE todo[p] = {t}
    BY <1>14, <2>1, <2>2, <2>3, LeavesPlans DEF Record, AfterRecords, Procs
  <2>4. CASE todo[p] # {t}
    BY <1>14, <2>1, <2>2, <2>4, StaysPlanned DEF Record
  <2> QED BY <2>3, <2>4
<1>15. ASSUME NEW p \in Restorers, IndexTargets(p) PROVE PlanKept'
  <2>1. \A q \in Procs \ {p} : todo'[q] = todo[q]
    <3>1. CASE UNCHANGED todo
      BY <3>1
    <3>2. CASE ~UNCHANGED todo
      BY <1>15, <3>2 DEF IndexTargets, RestoreTypeOK
    <3> QED BY <3>1, <3>2
  <2> QED BY <1>15, <2>1, LeavesPlans DEF IndexTargets, Procs
<1>16. ASSUME NEW p \in Restorers, Index(p) PROVE PlanKept'
  <2>1. PICK t \in todo[p] :
           /\ todo' = [todo EXCEPT ![p] = @ \ {t}]
           /\ step' = [step EXCEPT ![p] = IF Exists(t) /\ todo[p] # {t} THEN "index" ELSE "idle"]
    BY <1>16 DEF Index
  <2>2. \A q \in Procs \ {p} : todo'[q] = todo[q]
    BY <2>1 DEF RestoreTypeOK
  <2> QED BY <1>16, <2>1, <2>2, LeavesPlans DEF Index, Procs
<1>17. ASSUME NEW p \in Procs
       PROVE  \/ AfterViews(p) \in {"idle", "evict"}
              \/ AfterViews(p) = "record" /\ p \in Restorers /\ cmd[p].cmd # "remove"
  BY DEF AfterViews, Procs
<1>18. ASSUME NEW p \in Procs, Look(p) PROVE PlanKept'
  <2>1. \A q \in Procs \ {p} : todo'[q] = todo[q]
    BY <1>18 DEF Look, RestoreTypeOK
  <2> QED BY <1>17, <1>18, <2>1, LabelTypes, LeavesPlans DEF Look
<1>19. ASSUME NEW p \in Procs, LockShared(p) PROVE PlanKept'
  BY <1>17, <1>19, LabelTypes, LeavesPlans DEF LockShared, own
<1>20. ASSUME NEW p \in Procs, DropView(p) PROVE PlanKept'
  BY <1>20, LabelTypes, LeavesPlans DEF DropView, own
<1>21. ASSUME NEW p \in Procs, CreateView(p) PROVE PlanKept'
  BY <1>17, <1>21, LeavesPlans DEF CreateView, own
<1>22. ASSUME NEW p \in Procs, Fail(p) PROVE PlanKept'
  BY <1>22, LeavesPlans DEF Fail, own
<1> QED
  <2> HIDE DEF At, To
  <2> QED BY <1>1, <1>2, <1>3, <1>4, <1>5, <1>6, <1>7, <1>8, <1>9, <1>10, <1>11, <1>13, <1>14,
             <1>15, <1>16, <1>18, <1>19, <1>20, <1>21, <1>22
          DEF RestoreNext, Restore, EnsureViews
-----------------------------------------------------------------------------
LEMMA SameLabels ==
    ASSUME NEW p \in Procs
    PROVE  /\ AfterViews(p) \in {"idle", "evict", "record"} /\ AfterDrop(p) \in {"look", "create"}
           /\ AfterRecords(p) \in {"targets", "idle"}
BY DEF AfterViews, AfterDrop, AfterRecords

(* A step of a process that holds nothing, and takes nothing.               *)
LEMMA LocksAlone ==
    ASSUME RestoreTypeOK, RestoreLocks, NEW p \in Procs, NEW l, step' = [step EXCEPT ![p] = l],
           UNCHANGED <<locks, views>>, Exists(Parent) => data'[Parent] # Absent,
           step[p] \notin {"dropTable", "dropView", "createView"},
           l \notin {"dropTable", "dropView", "createView"}
    PROVE  RestoreLocks'
<1>1. step'[p] = l /\ \A q \in Procs \ {p} : step'[q] = step[q]
  BY DEF RestoreTypeOK
<1>2. xlock # NoProc => xlock \in Procs /\ xlock # p
  BY DEF RestoreTypeOK, RestoreLocks, At
<1>3. \A n \in Namespaces : vlock[n] # NoProc => vlock[n] \in Procs /\ vlock[n] # p
  BY DEF RestoreTypeOK, RestoreLocks, At
<1>4. (xlock # NoProc => At(xlock, "dropTable") /\ shared = {})'
  BY <1>1, <1>2 DEF RestoreLocks, At, locks
<1>5. (\A q \in Procs : At(q, "dropTable") => xlock = q)'
  BY <1>1 DEF RestoreLocks, At, locks
<1>6. (\A q \in Procs : q \in shared <=> step[q] \in {"dropView", "createView"})'
  BY <1>1 DEF RestoreLocks, locks
<1>7. (\A n \in Namespaces : vlock[n] # NoProc => At(vlock[n], "createView"))'
  BY <1>1, <1>3 DEF RestoreLocks, At, locks
<1>8. (shared # {} \/ views # {} => Exists(Parent))'
  BY DEF RestoreLocks, Exists, locks
<1> QED BY <1>4, <1>5, <1>6, <1>7, <1>8 DEF RestoreLocks

(* The end of a block: what a process has of the views, and its place in    *)
(* the table's queue, are given up.                                         *)
LEMMA LocksReleased ==
    ASSUME RestoreTypeOK, RestoreLocks, NEW p \in Procs, NEW l, step' = [step EXCEPT ![p] = l],
           Unlock(p), xlock' = IF xlock = p THEN NoProc ELSE xlock, UNCHANGED data,
           l \notin {"dropTable", "dropView", "createView"},
           views' # {} => Exists(Parent)
    PROVE  RestoreLocks'
<1>1. step'[p] = l /\ \A q \in Procs \ {p} : step'[q] = step[q]
  BY DEF RestoreTypeOK
<1>2. /\ xlock' # NoProc => xlock' \in Procs /\ xlock' # p /\ xlock' = xlock
      /\ shared' = shared \ {p}
  BY BoundsAssumption DEF RestoreTypeOK, Unlock
<1>3. \A n \in Namespaces : vlock'[n] # NoProc => vlock'[n] \in Procs /\ vlock'[n] # p /\ vlock'[n] = vlock[n]
  BY BoundsAssumption DEF RestoreTypeOK, Unlock
<1>4. (xlock # NoProc => At(xlock, "dropTable") /\ shared = {})'
  BY <1>1, <1>2 DEF RestoreLocks, At
<1>5. (\A q \in Procs : At(q, "dropTable") => xlock = q)'
  BY <1>1 DEF RestoreLocks, At
<1>6. (\A q \in Procs : q \in shared <=> step[q] \in {"dropView", "createView"})'
  BY <1>1, <1>2 DEF RestoreLocks
<1>7. (\A n \in Namespaces : vlock[n] # NoProc => At(vlock[n], "createView"))'
  BY <1>1, <1>3 DEF RestoreLocks, At
<1>8. (shared # {} \/ views # {} => Exists(Parent))'
  BY <1>2 DEF RestoreLocks, Exists
<1> QED BY <1>4, <1>5, <1>6, <1>7, <1>8 DEF RestoreLocks

LEMMA InitLocks == RestoreInit => RestoreLocks /\ PlanKept
BY BoundsAssumption DEF RestoreInit, RestoreLocks, PlanKept, HasPlan, At

LEMMA LocksKept ==
    ASSUME RestoreTypeOK, RestoreLocks, PlanKept, [RestoreNext]_restoreVars
    PROVE  RestoreLocks'
<1> USE DEF At, To
<1> USE BoundsAssumption
<1>1. ASSUME NEW p \in Procs, NEW c, NEW l, Start(p, c, l), UNCHANGED <<locks, views, data>>,
             l \notin {"dropTable", "dropView", "createView"}
      PROVE  RestoreLocks'
  BY <1>1, LocksAlone DEF Start, Exists
<1>2. ASSUME NEW p \in Restorers,
             RestoreDump(p) \/ Import(p) \/ Update(p) \/ Remove(p) \/ DumpIndex(p)
      PROVE  RestoreLocks'
  <2> p \in Procs
    BY DEF Procs
  <2>1. CASE RestoreDump(p)
    BY <2>1, <1>1 DEF RestoreDump, content
  <2>2. CASE Import(p)
    BY <2>2, <1>1 DEF Import, content
  <2>3. CASE Update(p)
    BY <2>3, <1>1 DEF Update, content
  <2>4. CASE Remove(p)
    BY <2>4, <1>1 DEF Remove, content
  <2>5. CASE DumpIndex(p)
    BY <2>5, <1>1 DEF DumpIndex, content
  <2> QED BY <1>2, <2>1, <2>2, <2>3, <2>4, <2>5
<1>3. ASSUME NEW p \in Servers, Serve(p) PROVE RestoreLocks'
  BY <1>3, <1>1 DEF Serve, content, Procs
<1>4. CASE Refresh \/ UNCHANGED restoreVars
  <2>1. UNCHANGED <<step, locks, views, data>>
    BY <1>4 DEF Refresh, restoreVars, own, locks, content
  <2> QED BY <2>1 DEF RestoreLocks, Exists, locks
<1>5. ASSUME NEW p \in Restorers, Evict(p) \/ Locate(p) \/ PlanRestore(p) \/ MakeKeys(p) \/ CountRows(p)
      PROVE  RestoreLocks'
  <2> p \in Procs
    BY DEF Procs
  <2>1. CASE Evict(p)
    BY <2>1, LocksAlone DEF Evict, content, Exists
  <2>2. CASE Locate(p)
    BY <2>2, LocksAlone DEF Locate, content, Exists
  <2>3. CASE PlanRestore(p)
    BY <2>3, LocksAlone DEF PlanRestore, content, Exists
  <2>4. CASE MakeKeys(p)
    BY <2>4, LocksAlone DEF MakeKeys, Exists
  <2>5. CASE CountRows(p)
    BY <2>5, LocksAlone DEF CountRows, content, Exists
  <2> QED BY <1>5, <2>1, <2>2, <2>3, <2>4, <2>5
<1>6. ASSUME NEW p \in Restorers, LockTable(p) PROVE RestoreLocks'
  <2>1. p \in Procs /\ step[p] = "lockTable" /\ step' = [step EXCEPT ![p] = "dropTable"]
        /\ xlock = NoProc /\ shared = {} /\ xlock' = p /\ UNCHANGED <<shared, vlock, views, data>>
    BY <1>6 DEF LockTable, Procs, content
  <2>2. step'[p] = "dropTable" /\ \A q \in Procs \ {p} : step'[q] = step[q] /\ step[q] # "dropTable"
    BY <2>1 DEF RestoreTypeOK, RestoreLocks
  <2>3. \A n \in Namespaces : vlock[n] # NoProc => vlock[n] \in Procs /\ vlock[n] # p
    BY <2>1 DEF RestoreTypeOK, RestoreLocks
  <2> QED BY <2>1, <2>2, <2>3 DEF RestoreLocks, Exists
<1>7. ASSUME NEW p \in Restorers, DropTable(p) PROVE RestoreLocks'
  <2>1. p \in Procs /\ step[p] = "dropTable" /\ step' = [step EXCEPT ![p] = AfterDrop(p)]
        /\ xlock' = NoProc /\ UNCHANGED <<shared, vlock>> /\ views' = {}
    BY <1>7 DEF DropTable, Procs
  <2>2. /\ step'[p] \in {"look", "create"}
        /\ \A q \in Procs \ {p} : step'[q] = step[q] /\ step[q] # "dropTable"
    BY <2>1, SameLabels DEF RestoreTypeOK, RestoreLocks
  <2>3. \A n \in Namespaces : vlock[n] # NoProc => vlock[n] \in Procs /\ vlock[n] # p
    BY <2>1 DEF RestoreTypeOK, RestoreLocks
  <2>4. shared = {}
    BY <2>1 DEF RestoreLocks
  <2> QED BY <2>1, <2>2, <2>3, <2>4 DEF RestoreLocks, Exists
<1>8. ASSUME NEW p \in Restorers, DropChild(p) PROVE RestoreLocks'
  <2>1. p \in Procs /\ Parent \notin todo[p]
    <3>1. p \in Procs /\ todo[p] \subseteq cmd[p].cycles
      BY <1>8 DEF DropChild, PlanKept, HasPlan, Procs
    <3>2. cmd[p].cycles \subseteq Cycles /\ Parent \notin Cycles
      BY <3>1 DEF RestoreTypeOK, Commands
    <3> QED BY <3>1, <3>2
  <2>2. PICK t \in todo[p] :
           /\ data' = [data EXCEPT ![t] = Absent]
           /\ step' = [step EXCEPT ![p] = IF todo[p] = {t} THEN "create" ELSE "dropChildren"]
    BY <1>8 DEF DropChild
  <2>3. data'[Parent] = data[Parent]
    BY <2>1, <2>2 DEF RestoreTypeOK, Tables
  <2> QED BY <1>8, <2>1, <2>2, <2>3, LocksAlone DEF DropChild, Exists
<1>9. ASSUME NEW p \in Restorers, Create(p) PROVE RestoreLocks'
  <2>1. data'[Parent] # Absent \/ ~Exists(Parent)
    BY <1>9 DEF Create, Tables, Exists
  <2> QED BY <1>9, <2>1, LocksAlone DEF Create, Procs
<1>10. ASSUME NEW p \in Restorers, CopyTable(p) PROVE RestoreLocks'
  <2>1. p \in Procs /\ archive[p] \in DumpVersions /\ todo[p] \subseteq Tables
    BY <1>10 DEF CopyTable, PlanKept, HasPlan, RestoreTypeOK, Procs
  <2>2. PICK t \in todo[p] :
           /\ \/ /\ Copies(p, t)
                 /\ data' = [data EXCEPT ![t] = Append(@, archive[p])]
              \/ UNCHANGED data
           /\ step' = [step EXCEPT ![p] = IF todo[p] # {t} THEN "copy"
                    ELSE IF plan[p].dataOnly THEN "count" ELSE "keys"]
    BY <1>10 DEF CopyTable
  <2>3. Exists(Parent) => data'[Parent] # Absent
    <3>1. CASE Copies(p, t) /\ data' = [data EXCEPT ![t] = Append(@, archive[p])]
      <4>1. data[t] \in Seq(DumpVersions)
        BY <2>1, <3>1 DEF Copies, Exists, RestoreTypeOK, Contents
      <4>2. Append(data[t], archive[p]) \in Seq(DumpVersions)
        BY <2>1, <4>1
      <4>3. Append(data[t], archive[p]) # Absent
        BY <4>2, DumpFacts
      <4> QED BY <2>1, <3>1, <4>3 DEF Exists, RestoreTypeOK, Tables
    <3>2. CASE UNCHANGED data
      BY <3>2 DEF Exists
    <3> QED BY <2>2, <3>1, <3>2
  <2> QED BY <1>10, <2>1, <2>2, <2>3, LocksAlone DEF CopyTable
<1>11. ASSUME NEW p \in Restorers, Record(p) \/ IndexTargets(p) \/ Index(p) PROVE RestoreLocks'
  <2> p \in Procs
    BY DEF Procs
  <2>1. CASE Record(p)
    BY <2>1, LocksAlone, SameLabels DEF Record, content, Exists
  <2>2. CASE IndexTargets(p)
    BY <2>2, LocksAlone DEF IndexTargets, content, Exists
  <2>3. CASE Index(p)
    BY <2>3, LocksAlone DEF Index, Exists
  <2> QED BY <1>11, <2>1, <2>2, <2>3
<1>12. ASSUME NEW p \in Procs, Look(p) PROVE RestoreLocks'
  BY <1>12, LocksAlone, SameLabels, LabelTypes DEF Look, content, Exists
<1>13. ASSUME NEW p \in Procs, LockShared(p) PROVE RestoreLocks'
  <2>1. CASE ~Exists(Parent)
    <3>1. views = {} /\ xlock = NoProc /\ xlock' = NoProc /\ UNCHANGED <<views, data>>
      BY <1>13, <2>1 DEF LockShared, RestoreLocks, content
    <3>2. Unlock(p) /\ step' = [step EXCEPT ![p] = AfterViews(p)]
      BY <1>13, <2>1 DEF LockShared
    <3> QED BY <3>1, <3>2, LocksReleased, SameLabels
  <2>2. CASE Exists(Parent)
    <3>1. /\ shared' = shared \cup {p} /\ step' = [step EXCEPT ![p] = "dropView"]
          /\ xlock = NoProc /\ UNCHANGED <<xlock, vlock, views, data>> /\ step[p] = "lock"
      BY <1>13, <2>2, LabelTypes DEF LockShared, content
    <3>2. step'[p] = "dropView" /\ \A q \in Procs \ {p} : step'[q] = step[q]
      BY <3>1 DEF RestoreTypeOK
    <3>3. \A n \in Namespaces : vlock[n] # NoProc => vlock[n] \in Procs /\ vlock[n] # p
      BY <3>1 DEF RestoreTypeOK, RestoreLocks
    <3> QED BY <2>2, <3>1, <3>2, <3>3 DEF RestoreLocks, Exists
  <2> QED BY <2>1, <2>2
<1>14. ASSUME NEW p \in Procs, DropView(p) PROVE RestoreLocks'
  <2>1. /\ step' = [step EXCEPT ![p] = "createView"] /\ step[p] = "dropView"
        /\ vlock' = [n \in Namespaces |-> IF n \in Named(Home[p]) THEN p ELSE vlock[n]]
        /\ UNCHANGED <<xlock, shared, views, data>>
    BY <1>14, LabelTypes DEF DropView, content
  <2>2. step'[p] = "createView" /\ \A q \in Procs \ {p} : step'[q] = step[q]
    BY <2>1 DEF RestoreTypeOK
  <2>3. \A n \in Namespaces : vlock[n] # NoProc => vlock[n] \in Procs
    BY DEF RestoreTypeOK
  <2>4. xlock # NoProc => xlock \in Procs /\ xlock # p
    BY <2>1 DEF RestoreTypeOK, RestoreLocks
  <2>5. \A n \in Namespaces : vlock'[n] # NoProc => step'[vlock'[n]] = "createView"
    BY <2>1, <2>2, <2>3 DEF RestoreLocks
  <2> QED BY <2>1, <2>2, <2>4, <2>5 DEF RestoreLocks, Exists
<1>15. ASSUME NEW p \in Procs, CreateView(p) PROVE RestoreLocks'
  <2>1. Unlock(p) /\ UNCHANGED <<xlock, data>> /\ step[p] = "createView"
    BY <1>15 DEF CreateView, content
  <2>2. xlock # p /\ Exists(Parent)
    BY <2>1 DEF RestoreLocks, RestoreTypeOK
  <2>3. step' = [step EXCEPT ![p] = "idle"] \/ step' = [step EXCEPT ![p] = AfterViews(p)]
    BY <1>15 DEF CreateView
  <2> QED BY <2>1, <2>2, <2>3, LocksReleased, SameLabels
<1>16. ASSUME NEW p \in Procs, Fail(p) PROVE RestoreLocks'
  <2>1. UNCHANGED <<data, views>> /\ (views # {} => Exists(Parent))
    BY <1>16 DEF Fail, content, RestoreLocks
  <2> QED BY <1>16, <2>1, LocksReleased DEF Fail
<1> QED
  <2> HIDE DEF At, To
  <2> QED BY <1>2, <1>3, <1>4, <1>5, <1>6, <1>7, <1>8, <1>9, <1>10, <1>11, <1>12, <1>13, <1>14, <1>15, <1>16
          DEF RestoreNext, Restore, EnsureViews

LEMMA RestoreInvKept == RestoreInv /\ [RestoreNext]_restoreVars => RestoreInv'
BY TypesKept, PlansKept, LocksKept DEF RestoreInv

LEMMA RestoreInvHolds == RestoreSpec => []RestoreInv
<1>1. RestoreInit => RestoreInv
  BY InitTypes, InitLocks DEF RestoreInv
<1> QED BY <1>1, RestoreInvKept, PTL DEF RestoreSpec

(* Every variable keeps to its range, and every table's content is a list   *)
(* of versions of the dump or no table at all.                              *)
THEOREM RestoreTypes == RestoreSpec => []RestoreTypeOK
<1>1. RestoreInv => RestoreTypeOK
  BY DEF RestoreInv
<1> QED BY <1>1, RestoreInvHolds, PTL

-----------------------------------------------------------------------------
(* Commands, removals and servers in any number of namespaces never wait    *)
(* for each other in a circle. Who has a view is past every wait; who has   *)
(* the table waits only for those; all others wait for one of these two.    *)
LEMMA NoCircle == RestoreInv => NobodyWaitsForEver
<1> USE DEF At
<1> SUFFICES ASSUME RestoreInv, NEW S \in SUBSET Procs, S # {}
             PROVE  \E p \in S : \A q \in S : ~Blocks(q, p)
  BY DEF NobodyWaitsForEver
<1> RestoreTypeOK /\ RestoreLocks
  BY DEF RestoreInv
<1>1. ASSUME NEW p \in Procs, NEW q \in Procs, Blocks(q, p)
      PROVE  \/ step[p] \in {"dropTable", "dropView"} /\ step[q] = "createView"
             \/ step[p] \in {"lockTable", "lock"} /\ step[q] \in {"dropTable", "dropView", "createView"}
  <2>1. CASE step[p] = "lockTable"
    BY <1>1, <2>1, BoundsAssumption DEF Blocks, RestoreLocks
  <2>2. CASE step[p] = "lock"
    BY <1>1, <2>2, BoundsAssumption DEF Blocks, RestoreLocks
  <2>3. CASE step[p] = "dropTable"
    <3>1. PICK n \in views : vlock[n] = q
      BY <1>1, <2>3 DEF Blocks
    <3> QED BY <2>3, <3>1, BoundsAssumption DEF RestoreLocks, RestoreTypeOK
  <2>4. CASE step[p] = "dropView"
    <3>1. PICK n \in Named(Home[p]) : vlock[n] = q
      BY <1>1, <2>4 DEF Blocks
    <3>2. n \in Namespaces
      BY <3>1 DEF Named, RestoreTypeOK
    <3> QED BY <2>4, <3>1, <3>2, BoundsAssumption DEF RestoreLocks
  <2> QED BY <1>1, <2>1, <2>2, <2>3, <2>4 DEF Blocks
<1>2. CASE \E p \in S : step[p] \notin {"dropTable", "dropView", "lockTable", "lock"}
  BY <1>1, <1>2
<1>3. CASE \A p \in S : step[p] \in {"dropTable", "dropView", "lockTable", "lock"}
  <2>1. CASE \E p \in S : step[p] \in {"dropTable", "dropView"}
    BY <1>1, <1>3, <2>1
  <2>2. CASE \A p \in S : step[p] \in {"lockTable", "lock"}
    BY <1>1, <2>2
  <2> QED BY <1>3, <2>1, <2>2
<1> QED BY <1>2, <1>3

(* No deadlock between restores, removals and the making of views: the      *)
(* table is locked before any view by all of them.                          *)
THEOREM NoDeadlock == RestoreSpec => []NobodyWaitsForEver
BY NoCircle, RestoreInvHolds, PTL
-----------------------------------------------------------------------------
(* A step of one process: it leaves the progress of the others alone, or    *)
(* they count as disturbed.                                                 *)
LEMMA ProgressOfOthers ==
    ASSUME RestoreTypeOK, ProgressInv, NEW p \in Procs,
           \A q \in Procs \ {p} : /\ step'[q] = step[q] /\ cmd'[q] = cmd[q] /\ plan'[q] = plan[q]
                                  /\ archive'[q] = archive[q] /\ todo'[q] = todo[q],
           \/ UNCHANGED <<data, broken>> /\ disturbed \subseteq disturbed' \cup {p}
           \/ Disturbs(p),
           p \in Restorers \ disturbed' /\ cmd'[p].cmd # "remove" => Progress(p)'
    PROVE  ProgressInv'
<1> SUFFICES ASSUME NEW q \in Restorers, q # p, q \notin disturbed', cmd'[q].cmd # "remove"
             PROVE  Progress(q)'
  BY DEF ProgressInv
<1>1. /\ q \in Procs /\ step'[q] = step[q] /\ cmd'[q] = cmd[q] /\ plan'[q] = plan[q]
      /\ archive'[q] = archive[q] /\ todo'[q] = todo[q]
  BY DEF Procs
<1>2. CASE UNCHANGED <<data, broken>> /\ disturbed \subseteq disturbed' \cup {p}
  <2>1. Progress(q)
    BY <1>1, <1>2 DEF ProgressInv
  <2> QED BY <1>1, <1>2, <2>1 DEF Progress, AsPlanned, At, Exists
<1>3. CASE Disturbs(p)
  <2>1. step'[q] = "idle"
    BY <1>1, <1>3 DEF Disturbs, At
  <2> QED BY <2>1 DEF Progress, At
<1> QED BY <1>2, <1>3

(* A step that leaves the tables alone, to a label that asks no more of     *)
(* them than the one before did.                                            *)
LEMMA ProgressStays ==
    ASSUME RestoreTypeOK, ProgressInv, NEW p \in Procs, NEW l, step' = [step EXCEPT ![p] = l],
           UNCHANGED <<data, broken, cmd, plan, disturbed>>,
           \A q \in Procs \ {p} : archive'[q] = archive[q] /\ todo'[q] = todo[q],
           \/ l \notin {"dropChildren", "create", "copy", "keys", "count", "look", "lock", "dropView",
                        "createView", "record"}
           \/ /\ l \in {"count", "look", "lock", "dropView", "createView", "record"}
              /\ step[p] \in {"keys", "count", "look", "lock", "dropView", "createView", "record"}
              /\ archive'[p] = archive[p]
           \/ p \notin Restorers
    PROVE  ProgressInv'
<1>1. step'[p] = l /\ \A q \in Procs \ {p} : step'[q] = step[q]
  BY DEF RestoreTypeOK
<1>2. ASSUME p \in Restorers \ disturbed', cmd'[p].cmd # "remove" PROVE Progress(p)'
  <2>1. Progress(p)
    BY <1>2 DEF ProgressInv
  <2>2. CASE l \notin {"dropChildren", "create", "copy", "keys", "count", "look", "lock", "dropView",
                       "createView", "record"}
    BY <1>1, <2>2 DEF Progress, At
  <2>3. CASE /\ l \in {"count", "look", "lock", "dropView", "createView", "record"}
             /\ step[p] \in {"keys", "count", "look", "lock", "dropView", "createView", "record"}
             /\ archive'[p] = archive[p]
    <3>1. Exists(Parent) /\ \A t \in plan[p].tables : AsPlanned(p, t)
      BY <2>1, <2>3 DEF Progress
    <3>2. Exists(Parent)' /\ \A t \in plan'[p].tables : AsPlanned(p, t)'
      BY <2>3, <3>1 DEF AsPlanned, Exists
    <3> QED BY <1>1, <2>3, <3>2 DEF Progress, At
  <2> QED BY <1>2, <2>2, <2>3
<1> QED BY <1>1, <1>2, ProgressOfOthers

LEMMA ProgressStart ==
    ASSUME RestoreTypeOK, ProgressInv, NEW p \in Procs, NEW c, NEW l, Start(p, c, l),
           UNCHANGED <<data, broken, archive, todo>>, \A q \in Procs \ {p} : plan'[q] = plan[q],
           l \in {"locate", "evict", "lockTable", "targets"} \/ c.cmd = "remove" \/ p \notin Restorers
    PROVE  ProgressInv'
<1>1. step'[p] = l /\ cmd'[p] = c /\ disturbed' = disturbed \ {p}
  BY DEF RestoreTypeOK, Start, To
<1>2. \A q \in Procs \ {p} : step'[q] = step[q] /\ cmd'[q] = cmd[q]
  BY DEF RestoreTypeOK, Start, To
<1>3. p \in Restorers \ disturbed' /\ cmd'[p].cmd # "remove" => Progress(p)'
  BY <1>1 DEF Progress, At
<1> QED BY <1>1, <1>2, <1>3, ProgressOfOthers

LEMMA ProgressKept ==
    ASSUME RestoreInv, ProgressInv, [RestoreNext]_restoreVars
    PROVE  ProgressInv'
<1> USE DEF At, To
<1> RestoreTypeOK /\ PlanKept
  BY DEF RestoreInv
<1>1. ASSUME NEW p \in Restorers,
             RestoreDump(p) \/ Import(p) \/ Update(p) \/ Remove(p) \/ DumpIndex(p)
      PROVE  ProgressInv'
  <2> p \in Procs
    BY DEF Procs
  <2>1. CASE RestoreDump(p)
    BY <2>1, ProgressStart DEF RestoreDump, content
  <2>2. CASE Import(p)
    BY <2>2, ProgressStart DEF Import, content
  <2>3. CASE Update(p)
    BY <2>3, ProgressStart DEF Update, content
  <2>4. CASE Remove(p)
    <3>1. \A q \in Procs \ {p} : plan'[q] = plan[q]
      BY <2>4 DEF Remove, RestoreTypeOK
    <3> QED BY <2>4, <3>1, ProgressStart DEF Remove, content
  <2>5. CASE DumpIndex(p)
    BY <2>5, ProgressStart DEF DumpIndex, content
  <2> QED BY <1>1, <2>1, <2>2, <2>3, <2>4, <2>5
<1>2. ASSUME NEW p \in Servers, Serve(p) PROVE ProgressInv'
  BY <1>2, ProgressStart, HomeAssumption DEF Serve, content, Procs
<1>3. CASE Refresh \/ UNCHANGED restoreVars
  <2>1. UNCHANGED <<data, broken, step, cmd, archive, plan, todo, disturbed>>
    BY <1>3 DEF Refresh, restoreVars, own, content
  <2> QED BY <2>1 DEF ProgressInv, Progress, AsPlanned, Exists
<1>4. ASSUME NEW p \in Restorers, Evict(p) \/ LockTable(p) \/ MakeKeys(p) \/ CountRows(p) PROVE ProgressInv'
  <2> p \in Procs
    BY DEF Procs
  <2>1. CASE Evict(p)
    BY <2>1, ProgressStays DEF Evict, content, own
  <2>2. CASE LockTable(p)
    BY <2>2, ProgressStays DEF LockTable, content, own
  <2>3. CASE MakeKeys(p)
    BY <2>3, ProgressStays DEF MakeKeys, own
  <2>4. CASE CountRows(p)
    BY <2>4, ProgressStays DEF CountRows, content, own
  <2> QED BY <1>4, <2>1, <2>2, <2>3, <2>4
<1>5. ASSUME NEW p \in Restorers, Locate(p) PROVE ProgressInv'
  <2>1. \A q \in Procs \ {p} : archive'[q] = archive[q]
    <3>1. CASE UNCHANGED archive
      BY <3>1
    <3>2. CASE ~UNCHANGED archive
      BY <1>5, <3>2 DEF Locate, RestoreTypeOK
    <3> QED BY <3>1, <3>2
  <2>2. step' = [step EXCEPT ![p] = "idle"] \/ step' = [step EXCEPT ![p] = "plan"]
    BY <1>5 DEF Locate
  <2> QED BY <1>5, <2>1, <2>2, ProgressStays DEF Locate, content, Procs
<1>6. ASSUME NEW p \in Restorers, PlanRestore(p) PROVE ProgressInv'
  <2> p \in Procs
    BY DEF Procs
  <2>1. CASE ~Plannable(p)
    BY <1>6, <2>1, ProgressStays DEF PlanRestore, content
  <2>2. CASE Plannable(p)
    <3>1. /\ plan' = [plan EXCEPT ![p] = PlanOf(p)]
          /\ todo' = [todo EXCEPT ![p] = cmd[p].cycles]
          /\ step' = [step EXCEPT ![p] = IF cmd[p].cycles = {} THEN "lockTable" ELSE "dropChildren"]
          /\ UNCHANGED <<cmd, archive, data, broken, disturbed>>
      BY <1>6, <2>2 DEF PlanRestore, content
    <3>2. /\ step'[p] = IF cmd[p].cycles = {} THEN "lockTable" ELSE "dropChildren"
          /\ plan'[p] = PlanOf(p) /\ todo'[p] = cmd[p].cycles
      BY <3>1 DEF RestoreTypeOK
    <3>3. \A q \in Procs \ {p} : step'[q] = step[q] /\ plan'[q] = plan[q] /\ todo'[q] = todo[q]
      BY <3>1 DEF RestoreTypeOK
    <3>4. Progress(p)'
      <4>1. CASE cmd[p].cycles = {}
        BY <3>2, <4>1 DEF Progress
      <4>2. CASE cmd[p].cycles # {}
        <5>1. PlanOf(p).tables = cmd[p].cycles \cup (IF Exists(Parent) THEN {} ELSE {Parent})
          BY <4>2 DEF PlanOf
        <5> QED BY <3>1, <3>2, <4>2, <5>1 DEF Progress, Exists
      <4> QED BY <4>1, <4>2
    <3> QED BY <3>1, <3>3, <3>4, ProgressOfOthers
  <2> QED BY <2>1, <2>2
<1>7. ASSUME NEW p \in Restorers, DropTable(p) PROVE ProgressInv'
  <2>1. p \in Procs /\ step'[p] = AfterDrop(p) /\ \A q \in Procs \ {p} : step'[q] = step[q]
    BY <1>7 DEF DropTable, RestoreTypeOK, Procs
  <2>2. UNCHANGED <<cmd, archive, plan, todo>> /\ Disturbs(p)
    BY <1>7 DEF DropTable, own
  <2>3. ASSUME cmd[p].cmd # "remove" PROVE Progress(p)'
    <3>1. step'[p] = "create" /\ Parent \in plan[p].tables
      BY <1>7, <2>1, <2>3 DEF AfterDrop, DropTable, PlanKept, HasPlan
    <3>2. \A t \in plan[p].tables : data'[t] = Absent
      BY <1>7, <2>1 DEF DropTable, RestoreTypeOK, Plans
    <3> QED BY <2>2, <3>1, <3>2 DEF Progress, Exists
  <2> QED BY <2>1, <2>2, <2>3, ProgressOfOthers
<1>8. ASSUME NEW p \in Restorers, DropChild(p) PROVE ProgressInv'
  <2> p \in Procs
    BY DEF Procs
  <2>1. PICK t \in todo[p] :
           /\ data' = [data EXCEPT ![t] = Absent]
           /\ todo' = [todo EXCEPT ![p] = @ \ {t}]
           /\ step' = [step EXCEPT ![p] = IF todo[p] = {t} THEN "create" ELSE "dropChildren"]
    BY <1>8 DEF DropChild
  <2>2. UNCHANGED <<cmd, archive, plan>> /\ Disturbs(p) /\ step[p] = "dropChildren"
    BY <1>8 DEF DropChild
  <2>3. /\ step'[p] = IF todo[p] = {t} THEN "create" ELSE "dropChildren"
        /\ todo'[p] = todo[p] \ {t}
        /\ \A q \in Procs \ {p} : step'[q] = step[q] /\ todo'[q] = todo[q]
    BY <2>1 DEF RestoreTypeOK
  <2>4. ASSUME p \notin disturbed', cmd[p].cmd # "remove" PROVE Progress(p)'
    <3>1. /\ Parent \in plan[p].tables \/ Exists(Parent)
          /\ \A u \in plan[p].tables : u \in todo[p] \/ ~Exists(u)
      BY <2>2, <2>4 DEF ProgressInv, Progress, Disturbs
    <3>2. t \in Cycles
      BY <2>2 DEF PlanKept, HasPlan, RestoreTypeOK, Commands
    <3>3. t \in Tables /\ t # Parent /\ data'[t] = Absent
      BY <2>1, <3>2, BoundsAssumption DEF RestoreTypeOK, Tables
    <3>4. \A u \in Tables \ {t} : data'[u] = data[u]
      BY <2>1, <3>3 DEF RestoreTypeOK
    <3>5. Parent \in plan[p].tables \/ data'[Parent] # Absent
      BY <3>1, <3>3, <3>4 DEF Exists, Tables
    <3>6. \A u \in plan[p].tables : u \in todo'[p] \/ data'[u] = Absent
      <4> SUFFICES ASSUME NEW u \in plan[p].tables, u \notin todo[p], u # t PROVE data'[u] = Absent
        BY <2>3, <3>3
      <4>1. u \in Tables
        BY DEF RestoreTypeOK, Plans
      <4> QED BY <3>1, <3>4, <4>1 DEF Exists
    <3> QED BY <2>2, <2>3, <3>5, <3>6 DEF Progress, Exists
  <2> QED BY <2>2, <2>3, <2>4, ProgressOfOthers
<1>9. ASSUME NEW p \in Restorers, Create(p) PROVE ProgressInv'
  <2> DEFINE new == {t \in plan[p].tables : ~Exists(t)
                       /\ (t = Parent \/ Parent \in plan[p].tables \/ Exists(Parent))}
  <2>1. /\ p \in Procs /\ step[p] = "create" /\ Disturbs(p) /\ UNCHANGED <<cmd, archive, plan>>
        /\ data' = [t \in Tables |-> IF t \in new THEN << >> ELSE data[t]]
    BY <1>9 DEF Create, Procs
  <2>2. /\ step'[p] = "copy" /\ todo'[p] = plan[p].tables
        /\ \A q \in Procs \ {p} : step'[q] = step[q] /\ todo'[q] = todo[q]
    BY <1>9, <2>1 DEF Create, RestoreTypeOK
  <2>3. ASSUME p \notin disturbed', cmd[p].cmd # "remove" PROVE Progress(p)'
    <3>1. /\ Parent \in plan[p].tables \/ Exists(Parent)
          /\ \A t \in plan[p].tables : ~Exists(t)
      BY <2>1, <2>3 DEF ProgressInv, Progress, Disturbs
    <3>2. new = plan[p].tables
      BY <3>1
    <3>3. plan[p].tables \subseteq Tables /\ Parent \in Tables
      BY <2>1 DEF RestoreTypeOK, Plans, Tables
    <3>4. \A t \in plan[p].tables : data'[t] = << >>
      BY <2>1, <3>2, <3>3
    <3>5. data'[Parent] # Absent
      BY <2>1, <3>1, <3>3, <3>4 DEF Exists, Absent
    <3> QED BY <2>1, <2>2, <3>4, <3>5 DEF Progress, Exists
  <2> QED BY <2>1, <2>2, <2>3, ProgressOfOthers
<1>10. ASSUME NEW p \in Restorers, CopyTable(p) PROVE ProgressInv'
  <2> p \in Procs
    BY DEF Procs
  <2>1. PICK t \in todo[p] :
           /\ \/ /\ data' = [data EXCEPT ![t] = Append(@, archive[p])]
                 /\ broken' = broken \ {t}
              \/ /\ broken' = broken \cup {t}
                 /\ UNCHANGED data
           /\ todo' = [todo EXCEPT ![p] = @ \ {t}]
           /\ step' = [step EXCEPT ![p] = IF todo[p] # {t} THEN "copy"
                    ELSE IF plan[p].dataOnly THEN "count" ELSE "keys"]
    BY <1>10 DEF CopyTable
  <2>2. UNCHANGED <<cmd, archive, plan>> /\ Disturbs(p) /\ step[p] = "copy"
    BY <1>10 DEF CopyTable
  <2>3. /\ step'[p] = IF todo[p] # {t} THEN "copy" ELSE IF plan[p].dataOnly THEN "count" ELSE "keys"
        /\ todo'[p] = todo[p] \ {t}
        /\ \A q \in Procs \ {p} : step'[q] = step[q] /\ todo'[q] = todo[q]
    BY <2>1 DEF RestoreTypeOK
  <2>4. ASSUME p \notin disturbed', cmd[p].cmd # "remove" PROVE Progress(p)'
    <3>1. /\ Exists(Parent)
          /\ \A u \in todo[p] : data[u] = << >>
          /\ \A u \in plan[p].tables \ todo[p] : AsPlanned(p, u)
      BY <2>2, <2>4 DEF ProgressInv, Progress, Disturbs
    <3>2. t \in Tables /\ data[t] = << >> /\ Append(<< >>, archive[p]) = <<archive[p]>>
      BY <3>1 DEF RestoreTypeOK
    <3>3. \A u \in Tables \ {t} : data'[u] = data[u] /\ (u \in broken' <=> u \in broken)
      BY <2>1, <3>2 DEF RestoreTypeOK
    <3>4. t \in broken' \/ data'[t] = <<archive[p]>>
      BY <2>1, <3>2 DEF RestoreTypeOK
    <3>5. archive[p] \in Nat
      BY <2>2, <2>4, DumpFacts DEF RestoreTypeOK, PlanKept, HasPlan
    <3>6. data'[Parent] # Absent
      <4>1. CASE t = Parent
        <5>1. data'[t] \in {<< >>, <<archive[p]>>}
          BY <2>1, <3>2 DEF RestoreTypeOK
        <5>2. << >> # Absent /\ <<archive[p]>> # Absent
          BY <3>5 DEF Absent
        <5> QED BY <4>1, <5>1, <5>2
      <4>2. CASE t # Parent
        BY <3>1, <3>3, <4>2 DEF Exists, Tables
      <4> QED BY <4>1, <4>2
    <3>7. todo[p] \subseteq Tables /\ plan[p].tables \subseteq Tables
      BY DEF RestoreTypeOK, Plans
    <3>8. \A u \in todo'[p] : data'[u] = << >>
      BY <2>3, <3>1, <3>3, <3>7
    <3>9. \A u \in plan'[p].tables \ todo'[p] : AsPlanned(p, u)'
      <4> SUFFICES ASSUME NEW u \in plan[p].tables, u = t \/ u \notin todo[p]
                   PROVE  u \in broken' \/ data'[u] = <<archive[p]>>
        BY <2>2, <2>3 DEF AsPlanned
      <4>1. CASE u = t
        BY <3>4, <4>1
      <4>2. CASE u # t
        BY <3>1, <3>3, <3>7, <4>2 DEF AsPlanned
      <4> QED BY <4>1, <4>2
    <3>10. todo'[p] = {} => \A u \in plan'[p].tables : AsPlanned(p, u)'
      BY <3>9
    <3>11. step'[p] # "copy" => todo'[p] = {}
      BY <2>3
    <3> QED BY <2>3, <3>6, <3>8, <3>9, <3>10, <3>11 DEF Progress, Exists
  <2> QED BY <2>2, <2>3, <2>4, ProgressOfOthers
<1>11. ASSUME NEW p \in Restorers, Record(p) PROVE ProgressInv'
  <2>1. PICK t \in todo[p] :
           /\ todo' = [todo EXCEPT ![p] = IF @ = {t} THEN Targets(p) ELSE @ \ {t}]
           /\ step' = [step EXCEPT ![p] = IF todo[p] = {t} THEN AfterRecords(p) ELSE "record"]
    BY <1>11 DEF Record
  <2>2. \A q \in Procs \ {p} : todo'[q] = todo[q]
    BY <2>1 DEF RestoreTypeOK
  <2> QED BY <1>11, <2>1, <2>2, ProgressStays, SameLabels DEF Record, content, Procs
<1>12. ASSUME NEW p \in Restorers, IndexTargets(p) PROVE ProgressInv'
  <2>1. \A q \in Procs \ {p} : todo'[q] = todo[q]
    <3>1. CASE UNCHANGED todo
      BY <3>1
    <3>2. CASE ~UNCHANGED todo
      BY <1>12, <3>2 DEF IndexTargets, RestoreTypeOK
    <3> QED BY <3>1, <3>2
  <2>2. step' = [step EXCEPT ![p] = "idle"] \/ step' = [step EXCEPT ![p] = "index"]
    BY <1>12 DEF IndexTargets
  <2> QED BY <1>12, <2>1, <2>2, ProgressStays DEF IndexTargets, content, Procs
<1>13. ASSUME NEW p \in Restorers, Index(p) PROVE ProgressInv'
  <2>1. PICK t \in todo[p] :
           /\ todo' = [todo EXCEPT ![p] = @ \ {t}]
           /\ step' = [step EXCEPT ![p] = IF Exists(t) /\ todo[p] # {t} THEN "index" ELSE "idle"]
    BY <1>13 DEF Index
  <2>2. \A q \in Procs \ {p} : todo'[q] = todo[q]
    BY <2>1 DEF RestoreTypeOK
  <2> QED BY <1>13, <2>1, <2>2, ProgressStays DEF Index, Procs
<1>14. ASSUME NEW p \in Procs, Look(p) PROVE ProgressInv'
  <2>1. \A q \in Procs \ {p} : todo'[q] = todo[q]
    BY <1>14 DEF Look, RestoreTypeOK
  <2> QED BY <1>14, <2>1, ProgressStays, SameLabels, LabelTypes DEF Look, content
<1>15. ASSUME NEW p \in Procs, LockShared(p) PROVE ProgressInv'
  BY <1>15, ProgressStays, SameLabels, LabelTypes DEF LockShared, content, own
<1>16. ASSUME NEW p \in Procs, DropView(p) PROVE ProgressInv'
  BY <1>16, ProgressStays, LabelTypes DEF DropView, content, own
<1>17. ASSUME NEW p \in Procs, CreateView(p) PROVE ProgressInv'
  BY <1>17, ProgressStays, SameLabels DEF CreateView, content, own
<1>18. ASSUME NEW p \in Procs, Fail(p) PROVE ProgressInv'
  BY <1>18, ProgressStays DEF Fail, content, own
<1> QED
  <2> HIDE DEF At, To
  <2> QED BY <1>1, <1>2, <1>3, <1>4, <1>5, <1>6, <1>7, <1>8, <1>9, <1>10, <1>11, <1>12, <1>13, <1>14,
             <1>15, <1>16, <1>17, <1>18
          DEF RestoreNext, Restore, EnsureViews

LEMMA ProgressHolds == RestoreSpec => []ProgressInv
<1>1. RestoreInit => ProgressInv
  BY DEF RestoreInit, ProgressInv, Progress, Procs, At
<1> QED BY <1>1, ProgressKept, RestoreInvHolds, PTL DEF RestoreSpec

(* What is recorded is in the tables, once and alone, or was complained of: *)
(* no drop and no key was missed on the way, whichever tables were there.   *)
THEOREM RecordsAreOfWhatWasRestored == RestoreSpec => []RecordedIsRestored
<1>1. RestoreInv /\ ProgressInv => RecordedIsRestored
  BY DEF RestoreInv, PlanKept, HasPlan, ProgressInv, Progress, AsPlanned, RecordedIsRestored, At, Procs
<1> QED BY <1>1, RestoreInvHolds, ProgressHolds, PTL
-----------------------------------------------------------------------------
(* Every step leaves the dump and the commands alone. *)
LEMMA GivenKept == ASSUME [RestoreNext]_restoreVars PROVE UNCHANGED given
<1>1. CASE UNCHANGED restoreVars
  BY <1>1 DEF restoreVars
<1>2. CASE Refresh
  BY <1>2 DEF Refresh
<1>3. CASE \E p \in Restorers : RestoreDump(p) \/ Import(p) \/ Update(p) \/ Evict(p) \/ Remove(p) \/ DumpIndex(p)
  BY <1>3 DEF RestoreDump, Import, Update, Evict, Remove, DumpIndex
<1>4. CASE \E p \in Restorers : Restore(p)
  BY <1>4 DEF Restore, Locate, PlanRestore, LockTable, DropTable, DropChild, Create, CopyTable, MakeKeys,
              CountRows, Record, IndexTargets, Index
<1>5. CASE \E p \in Servers : Serve(p)
  BY <1>5 DEF Serve
<1>6. CASE \E p \in Procs : EnsureViews(p) \/ Fail(p)
  BY <1>6 DEF EnsureViews, Look, LockShared, DropView, CreateView, Fail
<1> QED BY <1>1, <1>2, <1>3, <1>4, <1>5, <1>6 DEF RestoreNext

(* With one restorer, the others have not started, and are not disturbed.   *)
LEMMA OneRestorer ==
    ASSUME RestoreTypeOK, Plain, PlainKept, UNCHANGED given, NEW p \in Restorers, plans[p] # {},
           \A q \in Procs \ {p} : step'[q] = step[q] /\ cmd'[q] = cmd[q],
           disturbed' \subseteq disturbed \/ Disturbs(p),
           p \notin disturbed' => PlainProc(p)'
    PROVE  \A q \in Restorers : PlainProc(q)'
<1>1. p \notin disturbed /\ p \notin disturbed'
  BY DEF PlainKept, PlainProc, Disturbs
<1> SUFFICES ASSUME NEW q \in Restorers, q # p PROVE PlainProc(q)'
  BY <1>1
<1>2. q \in Procs /\ plans[q] = {} /\ step[q] = "idle" /\ cmd[q].file = NoVersion /\ q \notin disturbed
  BY DEF Plain, PlainKept, PlainProc, Procs, At
<1>3. step'[q] = "idle" /\ cmd'[q] = cmd[q] /\ q \notin disturbed'
  BY <1>2 DEF Disturbs, At
<1> QED BY <1>2, <1>3 DEF PlainProc, Restoring, RestoringLabels, At, given

(* A step of the restorer that leaves the tables and the books alone.       *)
LEMMA QuietStep ==
    ASSUME RestoreTypeOK, Plain, PlainKept, UNCHANGED given, NEW p \in Restorers, NEW l,
           step' = [step EXCEPT ![p] = l], step[p] # "idle", l # "dropChildren",
           UNCHANGED <<onFec, cached, data, broken, records, cmd, archive, plan, disturbed>>,
           cmd[p].cmd # "remove" => l \notin RestoringLabels \/ step[p] \in RestoringLabels \ {"plan"}
    PROVE  PlainKept'
<1>1. p \in Procs /\ step'[p] = l /\ \A q \in Procs \ {p} : step'[q] = step[q]
  BY DEF RestoreTypeOK, Procs
<1>2. PlainProc(p) /\ plans[p] # {}
  BY DEF PlainKept, PlainProc, At
<1>3. PlainProc(p)'
  BY <1>1, <1>2 DEF PlainProc, Restoring, At, given
<1>4. \A q \in Restorers : PlainProc(q)'
  BY <1>1, <1>2, <1>3, OneRestorer
<1>5. PlainBooks' /\ PlainTable'
  BY SameDump DEF PlainKept, PlainBooks, PlainTable, Recent, Exists
<1> QED BY <1>4, <1>5 DEF PlainKept

LEMMA QuietStart ==
    ASSUME RestoreTypeOK, Plain, PlainKept, NEW p \in Restorers, NEW k, NEW l, Start(p, k, l),
           plans[p] # {}, k.file = NoVersion,
           UNCHANGED <<given, onFec, cached, data, broken, records, archive>>,
           l \in {"locate", "evict", "targets"} \/ (l \in {"lockTable", "look"} /\ k.cmd = "remove")
    PROVE  PlainKept'
<1>1. /\ p \in Procs /\ step'[p] = l /\ \A q \in Procs \ {p} : step'[q] = step[q] /\ cmd'[q] = cmd[q]
      /\ cmd'[p] = k /\ disturbed' = disturbed \ {p}
  BY DEF RestoreTypeOK, Start, To, Procs, Plain
<1>2. PlainProc(p)'
  BY <1>1 DEF PlainProc, Restoring, RestoringLabels, At, given
<1>3. \A q \in Restorers : PlainProc(q)'
  BY <1>1, <1>2, OneRestorer
<1>4. PlainBooks' /\ PlainTable'
  BY SameDump DEF PlainKept, PlainBooks, PlainTable, Recent, Exists
<1> QED BY <1>3, <1>4 DEF PlainKept

(* A server's step. *)
LEMMA ServerStep ==
    ASSUME RestoreTypeOK, Plain, PlainKept, UNCHANGED given, NEW p \in Servers,
           \A q \in Procs \ {p} : step'[q] = step[q] /\ cmd'[q] = cmd[q],
           UNCHANGED <<onFec, cached, data, broken, records, archive, plan>>, disturbed' \subseteq disturbed
    PROVE  PlainKept'
<1>1. ASSUME NEW q \in Restorers PROVE PlainProc(q)'
  <2>1. q \in Procs \ {p}
    BY HomeAssumption DEF Procs
  <2>2. step'[q] = step[q] /\ cmd'[q] = cmd[q] /\ PlainProc(q)
    BY <2>1 DEF PlainKept
  <2> QED BY <2>2 DEF PlainProc, Restoring, At, given
<1>2. PlainBooks' /\ PlainTable'
  BY SameDump DEF PlainKept, PlainBooks, PlainTable, Recent, Exists
<1> QED BY <1>1, <1>2 DEF PlainKept

LEMMA PlainStep ==
    ASSUME RestoreInv, ProgressInv, Plain, PlainKept, [RestoreNext]_restoreVars
    PROVE  PlainKept'
<1> USE DEF At, To
<1> RestoreTypeOK /\ PlanKept /\ UNCHANGED given
  BY GivenKept DEF RestoreInv
<1>1. ASSUME NEW p \in Restorers,
             RestoreDump(p) \/ Import(p) \/ Update(p) \/ Remove(p) \/ DumpIndex(p)
      PROVE  PlainKept'
  <2>1. CASE RestoreDump(p)
    <3>1. PICK c \in plans[p] : Start(p, c, "locate")
      BY <2>1 DEF RestoreDump, Options
    <3>2. c.file = NoVersion /\ plans[p] # {}
      BY DEF Plain
    <3> QED BY <2>1, <3>1, <3>2, QuietStart DEF RestoreDump, fec, content
  <2>2. CASE Import(p)
    <3>1. PICK c \in plans[p] : Start(p, Options(c), "locate")
      BY <2>2 DEF Import
    <3>2. Options(c).file = NoVersion /\ plans[p] # {}
      BY OptionsTypes DEF Plain
    <3> QED BY <2>2, <3>1, <3>2, QuietStart DEF Import, fec, content
  <2>3. CASE Update(p)
    <3>1. PICK c \in plans[p] : Start(p, Options([c EXCEPT !.cycles = CyclesPresent]), "evict")
      BY <2>3 DEF Update
    <3>2. Options([c EXCEPT !.cycles = CyclesPresent]).file = NoVersion /\ plans[p] # {}
      BY OptionsTypes DEF Plain
    <3> QED BY <2>3, <3>1, <3>2, QuietStart DEF Update, fec, content
  <2>4. CASE Remove(p)
    <3>1. PICK c \in plans[p] : c.cmd = "remove" /\ Start(p, c, IF Exists(Parent) THEN "lockTable" ELSE "look")
      BY <2>4 DEF Remove
    <3>2. (IF Exists(Parent) THEN "lockTable" ELSE "look") \in {"lockTable", "look"}
      OBVIOUS
    <3>3. c.file = NoVersion /\ plans[p] # {}
      BY DEF Plain
    <3> QED BY <2>4, <3>1, <3>2, <3>3, QuietStart DEF Remove, fec, content
  <2>5. CASE DumpIndex(p)
    BY <2>5, QuietStart DEF DumpIndex, Plain, fec, content
  <2> QED BY <1>1, <2>1, <2>2, <2>3, <2>4, <2>5
<1>2. ASSUME NEW p \in Servers, Serve(p) PROVE PlainKept'
  <2>1. \A q \in Procs \ {p} : step'[q] = step[q] /\ cmd'[q] = cmd[q]
    BY <1>2 DEF Serve, Start, RestoreTypeOK
  <2> QED BY <1>2, <2>1, ServerStep DEF Serve, Start, fec, content
<1>3. CASE UNCHANGED restoreVars
  BY <1>3, SameDump DEF restoreVars, own, fec, content, PlainKept, PlainProc, Restoring, PlainBooks,
     PlainTable, Recent, Exists, given
<1>4. CASE Refresh
  <2>1. onFec' = onFec + 1 /\ onFec \in Nat /\ cached \in Nat
    BY <1>4, DumpFacts, BoundsAssumption DEF Refresh, RestoreTypeOK
  <2>2. UNCHANGED <<given, cached, data, records, broken, step, cmd, archive, plan, todo, disturbed>>
    BY <1>4 DEF Refresh, own, content
  <2>3. \A n \in Namespaces : \A i \in DOMAIN records[n] : records[n][i].of \in Nat
    <3> SUFFICES ASSUME NEW n \in Namespaces, NEW i \in DOMAIN records[n] PROVE records[n][i].of \in Nat
      OBVIOUS
    <3>1. records[n] \in Seq([table : Tables, of : DumpVersions \cup {NoVersion}])
      BY DEF RestoreTypeOK, Records
    <3>2. i \in 1..Len(records[n])
      BY <3>1
    <3>3. records[n][i] \in [table : Tables, of : DumpVersions \cup {NoVersion}]
      BY <3>1, <3>2, ElementOfSeq
    <3> QED BY <3>3, DumpFacts, BoundsAssumption
  <2>4. Recent(onFec)'
    BY <2>1, <2>2, <2>3 DEF PlainKept, PlainBooks, Recent
  <2>5. PlainBooks'
    BY <2>1, <2>2, <2>4 DEF PlainKept, PlainBooks, Recent
  <2>6. PlainTable'
    <3>1. CASE ~Exists(Parent) \/ Parent \in broken
      BY <2>2, <3>1 DEF PlainTable, Exists
    <3>2. CASE \E v \in DumpVersions : data[Parent] = <<v>> /\ v <= onFec /\ Recent(v)
      <4>1. PICK v \in DumpVersions : data[Parent] = <<v>> /\ v <= onFec /\ Recent(v)
        BY <3>2
      <4>2. v <= onFec' /\ Recent(v)' /\ v \in DumpVersions'
        BY <2>1, <2>2, <4>1, DumpFacts, SameDump DEF Recent
      <4> QED BY <2>2, <4>1, <4>2 DEF PlainTable
    <3> QED BY <3>1, <3>2 DEF PlainKept, PlainTable
  <2>7. \A q \in Restorers : PlainProc(q)'
    BY <2>2 DEF PlainKept, PlainProc, Restoring, given
  <2> QED BY <2>5, <2>6, <2>7 DEF PlainKept
<1>5. ASSUME NEW p \in Restorers, Evict(p) PROVE PlainKept'
  <2>1. /\ p \in Procs /\ step[p] = "evict" /\ cached' = NoVersion /\ step'[p] \in {"idle", "locate"}
        /\ \A q \in Procs \ {p} : step'[q] = step[q]
        /\ UNCHANGED <<onFec, data, broken, records, cmd, archive, plan, disturbed>>
    BY <1>5 DEF Evict, RestoreTypeOK, Procs, content, own
  <2>2. PlainProc(p) /\ plans[p] # {}
    BY <2>1 DEF PlainKept, PlainProc
  <2>3. PlainProc(p)'
    BY <2>1, <2>2 DEF PlainProc, Restoring, RestoringLabels, given
  <2>4. \A q \in Restorers : PlainProc(q)'
    BY <2>1, <2>2, <2>3, OneRestorer
  <2>5. onFec \in Nat
    BY DumpFacts DEF RestoreTypeOK
  <2>6. PlainBooks' /\ PlainTable'
    BY <2>1, <2>5, SameDump, BoundsAssumption DEF PlainKept, PlainBooks, PlainTable, Recent, Exists
  <2> QED BY <2>4, <2>6 DEF PlainKept
<1>6. ASSUME NEW p \in Restorers, Locate(p) PROVE PlainKept'
  <2>1. p \in Procs /\ step[p] = "locate" /\ PlainProc(p) /\ plans[p] # {} /\ cmd[p].file = NoVersion
    BY <1>6 DEF Locate, PlainKept, PlainProc, Procs
  <2>2. UNCHANGED <<onFec, data, broken, records, cmd, plan, disturbed>>
    BY <1>6 DEF Locate, content
  <2>3. CASE step' = [step EXCEPT ![p] = "idle"] /\ UNCHANGED <<cached, archive>>
    BY <2>1, <2>2, <2>3, QuietStep DEF RestoringLabels
  <2>4. CASE ~(step' = [step EXCEPT ![p] = "idle"] /\ UNCHANGED <<cached, archive>>)
    <3> DEFINE got == IF cached # NoVersion THEN cached ELSE onFec
    <3>1. /\ step' = [step EXCEPT ![p] = "plan"] /\ cached' = got
          /\ archive' = [archive EXCEPT ![p] = got]
      BY <1>6, <2>1, <2>4 DEF Locate
    <3>2. /\ step'[p] = "plan" /\ archive'[p] = got
          /\ \A q \in Procs \ {p} : step'[q] = step[q]
      BY <2>1, <3>1 DEF RestoreTypeOK
    <3>3. got # NoVersion /\ got <= onFec /\ Recent(got)
      BY DumpFacts DEF RestoreTypeOK, PlainKept, PlainBooks
    <3>4. PlainProc(p)'
      BY <2>1, <2>2, <3>1, <3>2, <3>3 DEF PlainProc, Restoring, given
    <3>5. \A q \in Restorers : PlainProc(q)'
      BY <2>1, <2>2, <3>2, <3>4, OneRestorer
    <3>6. PlainBooks' /\ PlainTable'
      BY <2>2, <3>1, <3>3, SameDump DEF PlainKept, PlainBooks, PlainTable, Recent, Exists
    <3> QED BY <3>5, <3>6 DEF PlainKept
  <2> QED BY <2>3, <2>4
<1>7. ASSUME NEW p \in Restorers, PlanRestore(p) PROVE PlainKept'
  <2>1. p \in Procs /\ step[p] = "plan" /\ PlainProc(p) /\ plans[p] # {}
    BY <1>7 DEF PlanRestore, PlainKept, PlainProc, Procs
  <2>2. UNCHANGED <<onFec, cached, data, broken, records, cmd, archive, disturbed>>
    BY <1>7 DEF PlanRestore, content, fec
  <2>3. CASE ~Plannable(p)
    BY <1>7, <2>1, <2>2, <2>3, QuietStep DEF PlanRestore, RestoringLabels
  <2>4. CASE Plannable(p)
    <3>1. cmd[p].cycles = {}
      BY <2>1, <2>4, DumpFacts DEF Plannable, RestoreTypeOK, Plain
    <3>2. step' = [step EXCEPT ![p] = "lockTable"] /\ plan' = [plan EXCEPT ![p] = PlanOf(p)]
      BY <1>7, <2>4, <3>1 DEF PlanRestore
    <3>3. /\ step'[p] = "lockTable" /\ plan'[p] = PlanOf(p)
          /\ \A q \in Procs \ {p} : step'[q] = step[q]
      BY <2>1, <3>2 DEF RestoreTypeOK
    <3>4. Parent \in PlanOf(p).tables
      BY <3>1 DEF PlanOf
    <3>5. PlainProc(p)'
      BY <2>1, <2>2, <3>3, <3>4 DEF PlainProc, Restoring, RestoringLabels, given
    <3>6. \A q \in Restorers : PlainProc(q)'
      BY <2>1, <2>2, <3>3, <3>5, OneRestorer
    <3>7. PlainBooks' /\ PlainTable'
      BY <2>2, SameDump DEF PlainKept, PlainBooks, PlainTable, Recent, Exists
    <3> QED BY <3>6, <3>7 DEF PlainKept
  <2> QED BY <2>3, <2>4
<1>8. ASSUME NEW p \in Restorers, LockTable(p) \/ MakeKeys(p) \/ CountRows(p) PROVE PlainKept'
  BY <1>8, QuietStep DEF LockTable, MakeKeys, CountRows, content, own, fec, RestoringLabels
<1>9. ASSUME NEW p \in Restorers, DropChild(p) PROVE PlainKept'
  BY <1>9 DEF DropChild, PlainKept, PlainProc
<1>10. ASSUME NEW p \in Restorers, NEW l, step' = [step EXCEPT ![p] = l], Disturbs(p),
              UNCHANGED <<onFec, cached, records, cmd, archive, plan>>,
              step[p] \in RestoringLabels \ {"plan"}, l # "dropChildren", PlainTable'
       PROVE  PlainKept'
  <2>1. p \in Procs /\ step'[p] = l /\ \A q \in Procs \ {p} : step'[q] = step[q]
    BY <1>10 DEF RestoreTypeOK, Procs
  <2>2. PlainProc(p) /\ plans[p] # {}
    BY <1>10 DEF PlainKept, PlainProc, RestoringLabels
  <2>3. p \notin disturbed' => PlainProc(p)'
    BY <1>10, <2>1, <2>2 DEF PlainProc, Restoring, given
  <2>4. \A q \in Restorers : PlainProc(q)'
    BY <1>10, <2>1, <2>2, <2>3, OneRestorer
  <2>5. PlainBooks'
    BY <1>10, SameDump DEF PlainKept, PlainBooks, Recent
  <2> QED BY <1>10, <2>4, <2>5 DEF PlainKept
<1>11. ASSUME NEW p \in Restorers, DropTable(p) PROVE PlainKept'
  <2>1. PlainTable'
    BY <1>11 DEF DropTable, PlainTable, Exists, Tables
  <2>2. AfterDrop(p) # "dropChildren"
    BY DEF AfterDrop
  <2> QED BY <1>10, <1>11, <2>1, <2>2 DEF DropTable, fec, own, RestoringLabels
<1>12. ASSUME NEW p \in Restorers, Create(p) PROVE PlainKept'
  <2> DEFINE new == {t \in plan[p].tables : ~Exists(t)
                       /\ (t = Parent \/ Parent \in plan[p].tables \/ Exists(Parent))}
  <2>1. data' = [t \in Tables |-> IF t \in new THEN << >> ELSE data[t]] /\ broken' = broken \cup new
    BY <1>12 DEF Create
  <2>2. PlainTable'
    <3>1. CASE Parent \in new
      BY <2>1, <3>1 DEF PlainTable
    <3>2. CASE Parent \notin new
      <4>1. data'[Parent] = data[Parent]
        BY <2>1, <3>2 DEF Tables
      <4>2. UNCHANGED <<onFec, records>>
        BY <1>12 DEF Create, fec
      <4> QED BY <2>1, <4>1, <4>2, SameDump DEF PlainKept, PlainTable, Exists, Recent
    <3> QED BY <3>1, <3>2
  <2> QED BY <1>10, <1>12, <2>2 DEF Create, fec, RestoringLabels
<1>13. ASSUME NEW p \in Restorers, CopyTable(p) PROVE PlainKept'
  <2>1. PICK t \in todo[p] :
           /\ \/ /\ data' = [data EXCEPT ![t] = Append(@, archive[p])]
                 /\ broken' = broken \ {t}
              \/ /\ broken' = broken \cup {t}
                 /\ UNCHANGED data
           /\ step' = [step EXCEPT ![p] = IF todo[p] # {t} THEN "copy"
                    ELSE IF plan[p].dataOnly THEN "count" ELSE "keys"]
    BY <1>13 DEF CopyTable
  <2>2. /\ p \in Procs /\ step[p] = "copy" /\ cmd[p].cmd # "remove" /\ PlainProc(p)
        /\ UNCHANGED <<onFec, cached, records, cmd, archive, plan>>
    BY <1>13 DEF CopyTable, PlainKept, PlanKept, HasPlan, Procs, fec
  <2>3. t \in Tables /\ data[t] = << >> /\ Append(<< >>, archive[p]) = <<archive[p]>>
    BY <2>2 DEF ProgressInv, Progress, RestoreTypeOK, PlainProc
  <2>4. archive[p] \in DumpVersions /\ archive[p] = cached /\ cached # NoVersion
    BY <2>2 DEF PlainProc, Restoring, RestoringLabels, RestoreTypeOK
  <2>5. archive[p] <= onFec /\ Recent(archive[p])'
    BY <2>2, <2>4 DEF PlainKept, PlainBooks, Recent
  <2>6. PlainTable'
    <3>1. CASE t # Parent
      <4>1. data'[Parent] = data[Parent] /\ (Parent \in broken' <=> Parent \in broken)
        BY <2>1, <2>3, <3>1 DEF RestoreTypeOK, Tables
      <4> QED BY <2>2, <4>1, SameDump DEF PlainKept, PlainTable, Exists, Recent
    <3>2. CASE t = Parent
      <4>1. Parent \in broken' \/ data'[Parent] = <<archive[p]>>
        BY <2>1, <2>3, <3>2 DEF RestoreTypeOK
      <4> QED BY <2>2, <2>4, <2>5, <4>1, SameDump DEF PlainTable
    <3> QED BY <3>1, <3>2
  <2>7. (IF todo[p] # {t} THEN "copy" ELSE IF plan[p].dataOnly THEN "count" ELSE "keys") # "dropChildren"
    OBVIOUS
  <2> QED BY <1>10, <1>13, <2>1, <2>2, <2>6, <2>7 DEF CopyTable, RestoringLabels
<1>14. ASSUME NEW p \in Restorers, Record(p) PROVE PlainKept'
  <2>1. PICK t \in todo[p] :
           /\ records' = [records EXCEPT ![Home[p]] = Append(@, [table |-> t, of |-> Recorded(p)])]
           /\ step' = [step EXCEPT ![p] = IF todo[p] = {t} THEN AfterRecords(p) ELSE "record"]
    BY <1>14 DEF Record
  <2>2. /\ p \in Procs /\ step[p] = "record" /\ cmd[p].cmd # "remove" /\ PlainProc(p) /\ plans[p] # {}
        /\ UNCHANGED <<onFec, cached, data, broken, cmd, archive, plan, disturbed>>
    BY <1>14 DEF Record, PlainKept, PlainProc, PlanKept, HasPlan, Procs, fec, content
  <2>3. step'[p] \in {"record", "targets", "idle"} /\ \A q \in Procs \ {p} : step'[q] = step[q]
    BY <2>1, <2>2, SameLabels DEF RestoreTypeOK
  <2>4. PlainProc(p)'
    BY <2>2, <2>3 DEF PlainProc, Restoring, RestoringLabels, given
  <2>5. \A q \in Restorers : PlainProc(q)'
    BY <2>2, <2>3, <2>4, OneRestorer
  <2>6. /\ archive[p] \in DumpVersions /\ archive[p] = cached /\ cached # NoVersion
        /\ Recorded(p) = archive[p] /\ Parent \in plan[p].tables
    BY <2>2 DEF PlainProc, Restoring, RestoringLabels, RestoreTypeOK, Recorded
  <2>7. \A n \in Namespaces : \A i \in DOMAIN records'[n] :
           \/ records'[n][i].of = archive[p]
           \/ i \in DOMAIN records[n] /\ records'[n][i] = records[n][i]
    <3> SUFFICES ASSUME NEW n \in Namespaces, NEW i \in DOMAIN records'[n]
                 PROVE  \/ records'[n][i].of = archive[p]
                        \/ i \in DOMAIN records[n] /\ records'[n][i] = records[n][i]
      OBVIOUS
    <3>1. CASE n # Home[p]
      BY <2>1, <3>1 DEF RestoreTypeOK
    <3>2. CASE n = Home[p]
      <4>1. records[n] \in Records
        BY DEF RestoreTypeOK
      <4>2. records'[n] = Append(records[n], [table |-> t, of |-> archive[p]])
        BY <2>1, <2>6, <3>2 DEF RestoreTypeOK
      <4>3. records[n] \in Seq([table : Tables, of : DumpVersions \cup {NoVersion}])
        BY <4>1 DEF Records
      <4> QED BY <4>2, <4>3
    <3> QED BY <3>1, <3>2
  <2>8. ASSUME NEW v, Recent(v), v \in Nat, archive[p] <= v PROVE Recent(v)'
    BY <2>7, <2>8 DEF Recent
  <2>9. archive[p] \in Nat /\ onFec \in Nat /\ archive[p] <= archive[p]
    BY <2>6, DumpFacts DEF RestoreTypeOK
  <2>10. PlainBooks'
    <3>1. Recent(onFec) /\ Recent(cached) /\ cached <= onFec
          /\ \A n \in Namespaces : \A i \in DOMAIN records[n] : records[n][i].of # NoVersion
      BY <2>6 DEF PlainKept, PlainBooks
    <3>2. Recent(onFec)'
      BY <2>2, <2>6, <2>8, <2>9, <3>1 DEF Recent
    <3>3. Recent(cached)'
      BY <2>2, <2>6, <2>8, <2>9, <3>1 DEF Recent
    <3> QED BY <2>2, <2>6, <2>7, <3>1, <3>2, <3>3 DEF PlainBooks
  <2>11. PlainTable'
    <3>1. Parent \in broken \/ data[Parent] = <<archive[p]>>
      BY <2>2, <2>6 DEF ProgressInv, Progress, AsPlanned, PlainProc
    <3>2. archive[p] <= onFec /\ Recent(archive[p])
      BY <2>6 DEF PlainKept, PlainBooks
    <3>3. Recent(archive[p])'
      BY <2>2, <2>8, <2>9, <3>2 DEF Recent
    <3> QED BY <2>2, <2>6, <3>1, <3>2, <3>3, SameDump DEF PlainTable
  <2> QED BY <2>5, <2>10, <2>11 DEF PlainKept
<1>15. ASSUME NEW p \in Restorers, IndexTargets(p) \/ Index(p) PROVE PlainKept'
  <2>1. CASE IndexTargets(p)
    <3>1. step' = [step EXCEPT ![p] = "idle"] \/ step' = [step EXCEPT ![p] = "index"]
      BY <2>1 DEF IndexTargets
    <3> QED BY <2>1, <3>1, QuietStep DEF IndexTargets, fec, content, RestoringLabels
  <2>2. CASE Index(p)
    <3>1. step' = [step EXCEPT ![p] = "idle"] \/ step' = [step EXCEPT ![p] = "index"]
      BY <2>2 DEF Index
    <3> QED BY <2>2, <3>1, QuietStep DEF Index, fec, RestoringLabels
  <2> QED BY <1>15, <2>1, <2>2
<1>16. ASSUME NEW p \in Procs, EnsureViews(p) \/ Fail(p) PROVE PlainKept'
  <2>1. /\ UNCHANGED <<onFec, cached, data, broken, records, cmd, archive, plan, disturbed>>
        /\ \E l \in {"idle", "evict", "record", "lock", "dropView", "createView"} :
             /\ step' = [step EXCEPT ![p] = l]
             /\ l \in {"idle", "evict"} \/ step[p] \in {"look", "lock", "dropView", "createView"}
        /\ step[p] # "idle"
    <3>1. CASE Look(p)
      BY <3>1, SameLabels, LabelTypes DEF Look, fec, content
    <3>2. CASE LockShared(p)
      BY <3>2, SameLabels, LabelTypes DEF LockShared, fec, content, own
    <3>3. CASE DropView(p)
      BY <3>3, SameLabels, LabelTypes DEF DropView, fec, content, own
    <3>4. CASE CreateView(p)
      BY <3>4, SameLabels, LabelTypes DEF CreateView, fec, content, own
    <3>5. CASE Fail(p)
      BY <3>5 DEF Fail, fec, content, own
    <3> QED BY <1>16, <3>1, <3>2, <3>3, <3>4, <3>5 DEF EnsureViews
  <2>2. CASE p \in Restorers
    <3>1. PICK l \in {"idle", "evict", "record", "lock", "dropView", "createView"} :
             /\ step' = [step EXCEPT ![p] = l]
             /\ l \in {"idle", "evict"} \/ step[p] \in {"look", "lock", "dropView", "createView"}
      BY <2>1
    <3> QED BY <2>1, <2>2, <3>1, QuietStep DEF RestoringLabels
  <2>3. CASE p \in Servers
    <3>1. \A q \in Procs \ {p} : step'[q] = step[q] /\ cmd'[q] = cmd[q]
      BY <2>1 DEF RestoreTypeOK
    <3> QED BY <2>1, <2>3, <3>1, ServerStep
  <2> QED BY <2>2, <2>3 DEF Procs
<1> QED
  <2> HIDE DEF At, To
  <2> QED BY <1>1, <1>2, <1>3, <1>4, <1>5, <1>6, <1>7, <1>8, <1>9, <1>11, <1>12, <1>13, <1>14, <1>15, <1>16
          DEF RestoreNext, Restore

LEMMA PlainHolds == RestoreSpec => []PlainInv
<1>1. RestoreInit => PlainInv
  <2> SUFFICES ASSUME RestoreInit, Plain PROVE PlainKept
    BY DEF PlainInv
  <2>1. onFec \in Nat /\ cached <= onFec /\ cached = NoVersion
    BY BoundsAssumption DEF RestoreInit
  <2>2. \A n \in Namespaces : DOMAIN records[n] = {}
    BY DEF RestoreInit
  <2>3. \A p \in Restorers : PlainProc(p)
    BY DEF RestoreInit, PlainProc, Restoring, RestoringLabels, NoCommand, At, Procs
  <2>4. ~Exists(Parent)
    BY DEF RestoreInit, Exists, Tables
  <2> QED BY <2>1, <2>2, <2>3, <2>4 DEF PlainKept, PlainBooks, PlainTable, Recent
<1>2. RestoreInv /\ ProgressInv /\ PlainInv /\ [RestoreNext]_restoreVars => PlainInv'
  <2> SUFFICES ASSUME RestoreInv, ProgressInv, PlainInv, [RestoreNext]_restoreVars, Plain' PROVE PlainKept'
    BY DEF PlainInv
  <2>1. Plain
    BY GivenKept DEF Plain, given
  <2> QED BY <2>1, PlainStep DEF PlainInv
<1> QED BY <1>1, <1>2, RestoreInvHolds, ProgressHolds, PTL DEF RestoreSpec

(* `dumps update` with one restorer and a dump of one table: where there is *)
(* a record, up to date is said only of the file that fec.gov has, or of a  *)
(* table that an earlier restore left unfinished or was warned of.          *)
THEOREM UpToDateIsRight == RestoreSpec => []UpToDateIsTrue
<1>1. ASSUME RestoreInv, PlainInv PROVE UpToDateIsTrue
  <2> SUFFICES ASSUME NEW n \in Namespaces, Plain, records[n] # << >>, SaysCurrent(n), Parent \notin broken
               PROVE  data[Parent] = <<onFec>>
    BY DEF UpToDateIsTrue
  <2> RestoreTypeOK /\ PlainBooks /\ PlainTable
    BY <1>1 DEF RestoreInv, PlainInv, PlainKept
  <2> DEFINE last == records[n][Len(records[n])].of
  <2>1. records[n] \in Seq([table : Tables, of : DumpVersions \cup {NoVersion}])
    BY DEF RestoreTypeOK, Records
  <2>2. Len(records[n]) \in DOMAIN records[n] /\ Len(records[n]) \in 1..Len(records[n])
    BY <2>1
  <2>3. last \in DumpVersions /\ last # NoVersion /\ last <= onFec
    <3>1. records[n][Len(records[n])] \in [table : Tables, of : DumpVersions \cup {NoVersion}]
      BY <2>1, <2>2, ElementOfSeq
    <3> QED BY <2>2, <3>1 DEF PlainBooks, Recent
  <2>4. LocalVersion(n) = last
    BY <2>3 DEF LocalVersion
  <2>5. ~IsNewer(onFec, last)
    BY <2>4 DEF SaysCurrent, Outdated
  <2>6. last = onFec
    BY <2>3, <2>5, DumpFacts DEF IsNewer, RestoreTypeOK
  <2>7. PICK v \in DumpVersions : data[Parent] = <<v>> /\ v <= onFec /\ Recent(v)
    BY DEF PlainTable, SaysCurrent
  <2>8. last <= v
    BY <2>2, <2>7 DEF Recent
  <2>9. v = onFec
    BY <2>6, <2>7, <2>8, DumpFacts DEF RestoreTypeOK
  <2> QED BY <2>7, <2>9
<1> QED BY <1>1, RestoreInvHolds, PlainHolds, PTL
-----------------------------------------------------------------------------
(* Where no namespace but public is on anybody's search_path beside its     *)
(* own, a name means one's own view or none.                                *)
LEMMA NamedIsOwn ==
    ASSUME PublicApart, ViewsOwned, NEW p \in Procs
    PROVE  Named(Home[p]) \subseteq {Home[p]}
<1>1. CASE Home[p] \in views
  BY <1>1 DEF Named
<1>2. CASE Home[p] \notin views
  <2>1. Public \notin views
    BY <1>2 DEF PublicApart, ViewsOwned
  <2> QED BY <1>2, <2>1 DEF Named
<1> QED BY <1>1, <1>2

(* Making a view takes none that is not made again. *)
LEMMA CreateTakesNone ==
    ASSUME RestoreTypeOK, ViewsOwned, NEW p \in Procs, CreateView(p)
    PROVE  views \subseteq views'
<1>1. \A n \in views : vlock[n] = p => n = Home[p]
  BY BoundsAssumption DEF ViewsOwned, RestoreTypeOK
<1> QED BY <1>1 DEF CreateView

(* The step of one process: the views of others stay, or they count as      *)
(* disturbed.                                                               *)
LEMMA BackStep ==
    ASSUME RestoreTypeOK, ViewsBack, NEW p \in Procs,
           \A q \in Procs \ {p} : step'[q] = step[q],
           \/ views \subseteq views' /\ disturbed \subseteq disturbed' \cup {p}
           \/ Disturbs(p),
           p \in Restorers \ disturbed' /\ step'[p] = "record" => Home[p] \in views'
    PROVE  ViewsBack'
<1> SUFFICES ASSUME NEW q \in Restorers, q # p, q \notin disturbed', step'[q] = "record"
             PROVE  Home[q] \in views'
  BY DEF ViewsBack, At
<1>1. q \in Procs /\ step[q] = "record"
  BY DEF Procs
<1>2. CASE views \subseteq views' /\ disturbed \subseteq disturbed' \cup {p}
  BY <1>1, <1>2 DEF ViewsBack, At
<1>3. CASE Disturbs(p)
  BY <1>1, <1>3 DEF Disturbs, At
<1> QED BY <1>2, <1>3

LEMMA OwnedAfterUnlock ==
    ASSUME RestoreTypeOK, ViewsOwned, NEW p \in Procs, Unlock(p), views' \subseteq views \cup {Home[p]}
    PROVE  ViewsOwned'
<1>1. \A n \in Namespaces : vlock'[n] # NoProc => vlock'[n] = vlock[n] /\ vlock[n] # NoProc
  BY DEF Unlock
<1>2. \A n \in Namespaces : vlock'[n] # NoProc => n = Home[vlock'[n]]
  BY <1>1 DEF ViewsOwned
<1>3. \A n \in views' : \E q \in Procs : n = Home[q]
  BY DEF ViewsOwned
<1> QED BY <1>2, <1>3 DEF ViewsOwned

(* Only these steps are about views. *)
LEMMA OtherSteps ==
    ASSUME RestoreTypeOK, PlanKept, ViewsBack, NEW p \in Procs, NEW l, step' = [step EXCEPT ![p] = l],
           UNCHANGED views,
           disturbed' = disturbed \/ (disturbed' = disturbed \ {p} /\ l # "record") \/ Disturbs(p),
           p \in Restorers => l # "record" \/ step[p] = "record"
    PROVE  ViewsBack'
<1>1. step'[p] = l /\ \A q \in Procs \ {p} : step'[q] = step[q]
  BY DEF RestoreTypeOK
<1>2. p \in Restorers \ disturbed' /\ step'[p] = "record" => Home[p] \in views'
  BY <1>1 DEF ViewsBack, At, Disturbs
<1> QED BY <1>1, <1>2, BackStep DEF Disturbs

LEMMA ViewsStep ==
    ASSUME RestoreInv, ProgressInv, PublicApart, ViewsOwned, ViewsBack, [RestoreNext]_restoreVars
    PROVE  ViewsOwned' /\ ViewsBack'
<1> USE DEF At, To
<1> RestoreTypeOK /\ PlanKept /\ RestoreLocks
  BY DEF RestoreInv
<1>0. ASSUME UNCHANGED <<views, vlock>> PROVE ViewsOwned'
  BY <1>0 DEF ViewsOwned
<1>1. ASSUME NEW p \in Procs, NEW c, NEW l, Start(p, c, l), UNCHANGED <<views, vlock>>, l # "record"
      PROVE  ViewsOwned' /\ ViewsBack'
  BY <1>0, <1>1, OtherSteps DEF Start
<1>2. ASSUME NEW p \in Restorers,
             RestoreDump(p) \/ Import(p) \/ Update(p) \/ Remove(p) \/ DumpIndex(p)
      PROVE  ViewsOwned' /\ ViewsBack'
  <2> p \in Procs
    BY DEF Procs
  <2>1. CASE RestoreDump(p)
    BY <2>1, <1>1 DEF RestoreDump, locks
  <2>2. CASE Import(p)
    BY <2>2, <1>1 DEF Import, locks
  <2>3. CASE Update(p)
    BY <2>3, <1>1 DEF Update, locks
  <2>4. CASE Remove(p)
    BY <2>4, <1>1 DEF Remove, locks
  <2>5. CASE DumpIndex(p)
    BY <2>5, <1>1 DEF DumpIndex, locks
  <2> QED BY <1>2, <2>1, <2>2, <2>3, <2>4, <2>5
<1>3. ASSUME NEW p \in Servers, Serve(p) PROVE ViewsOwned' /\ ViewsBack'
  BY <1>3, <1>1 DEF Serve, locks, Procs
<1>4. CASE Refresh \/ UNCHANGED restoreVars
  <2>1. UNCHANGED <<views, vlock, step, disturbed>>
    BY <1>4 DEF Refresh, restoreVars, own, locks
  <2> QED BY <2>1, <1>0 DEF ViewsBack
<1>5. ASSUME NEW p \in Restorers, Evict(p) \/ Locate(p) \/ PlanRestore(p) \/ LockTable(p) \/ MakeKeys(p) \/ CountRows(p)
      PROVE  ViewsOwned' /\ ViewsBack'
  <2> p \in Procs
    BY DEF Procs
  <2>1. /\ UNCHANGED <<views, vlock, disturbed>>
        /\ \E l \in {"idle", "locate", "plan", "lockTable", "dropChildren", "dropTable", "count", "look"} :
              step' = [step EXCEPT ![p] = l]
    <3>1. CASE Evict(p)
      BY <3>1 DEF Evict, locks, own
    <3>2. CASE Locate(p)
      BY <3>2 DEF Locate, locks, own
    <3>3. CASE PlanRestore(p)
      BY <3>3 DEF PlanRestore, locks, own
    <3>4. CASE LockTable(p)
      BY <3>4 DEF LockTable, locks, own
    <3>5. CASE MakeKeys(p)
      BY <3>5 DEF MakeKeys, locks, own
    <3>6. CASE CountRows(p)
      BY <3>6 DEF CountRows, locks, own
    <3> QED BY <1>5, <3>1, <3>2, <3>3, <3>4, <3>5, <3>6
  <2>2. PICK l \in {"idle", "locate", "plan", "lockTable", "dropChildren", "dropTable", "count", "look"} :
              step' = [step EXCEPT ![p] = l]
    BY <2>1
  <2> QED BY <2>1, <2>2, <1>0, OtherSteps
<1>6. ASSUME NEW p \in Restorers, DropTable(p) PROVE ViewsOwned' /\ ViewsBack'
  <2>1. p \in Procs /\ views' = {} /\ UNCHANGED vlock /\ Disturbs(p)
        /\ step' = [step EXCEPT ![p] = AfterDrop(p)]
    BY <1>6 DEF DropTable, Procs
  <2>2. step'[p] # "record" /\ \A q \in Procs \ {p} : step'[q] = step[q]
    BY <2>1, SameLabels DEF RestoreTypeOK
  <2>3. ViewsOwned'
    BY <2>1 DEF ViewsOwned
  <2> QED BY <2>1, <2>2, <2>3, BackStep
<1>7. ASSUME NEW p \in Restorers, DropChild(p) \/ Create(p) \/ CopyTable(p) PROVE ViewsOwned' /\ ViewsBack'
  <2> p \in Procs
    BY DEF Procs
  <2>1. /\ UNCHANGED <<views, vlock>> /\ Disturbs(p)
        /\ \E l \in {"dropChildren", "create", "copy", "count", "keys"} : step' = [step EXCEPT ![p] = l]
    <3>1. CASE DropChild(p)
      BY <3>1 DEF DropChild, locks
    <3>2. CASE Create(p)
      BY <3>2 DEF Create, locks
    <3>3. CASE CopyTable(p)
      BY <3>3 DEF CopyTable, locks
    <3> QED BY <1>7, <3>1, <3>2, <3>3
  <2>2. PICK l \in {"dropChildren", "create", "copy", "count", "keys"} : step' = [step EXCEPT ![p] = l]
    BY <2>1
  <2> QED BY <2>1, <2>2, <1>0, OtherSteps
<1>8. ASSUME NEW p \in Restorers, Record(p) \/ IndexTargets(p) \/ Index(p) PROVE ViewsOwned' /\ ViewsBack'
  <2> p \in Procs
    BY DEF Procs
  <2>1. /\ UNCHANGED <<views, vlock, disturbed>>
        /\ \E l \in {"idle", "record", "targets", "index"} :
              step' = [step EXCEPT ![p] = l] /\ (l = "record" => step[p] = "record")
    <3>1. CASE Record(p)
      BY <3>1, SameLabels DEF Record, locks
    <3>2. CASE IndexTargets(p)
      BY <3>2 DEF IndexTargets, locks
    <3>3. CASE Index(p)
      BY <3>3 DEF Index, locks
    <3> QED BY <1>8, <3>1, <3>2, <3>3
  <2>2. PICK l \in {"idle", "record", "targets", "index"} :
              step' = [step EXCEPT ![p] = l] /\ (l = "record" => step[p] = "record")
    BY <2>1
  <2>3. l # "record" \/ step[p] = "record"
    BY <2>2
  <2>4. step' = [step EXCEPT ![p] = l]
    BY <2>2
  <2> QED BY <2>1, <2>3, <2>4, <1>0, OtherSteps
<1>9. ASSUME NEW p \in Restorers \ disturbed, step[p] \in {"look", "lock"}, ~Exists(Parent)
      PROVE  AfterViews(p) # "record"
  BY <1>9 DEF ProgressInv, Progress, AfterViews
<1>10. ASSUME NEW p \in Procs, Look(p) PROVE ViewsOwned' /\ ViewsBack'
  <2>1. /\ UNCHANGED <<views, vlock, disturbed>>
        /\ step' = [step EXCEPT ![p] = IF Exists(Parent) THEN "lock" ELSE AfterViews(p)]
    BY <1>10, LabelTypes DEF Look, locks
  <2>2. /\ step'[p] = IF Exists(Parent) THEN "lock" ELSE AfterViews(p)
        /\ \A q \in Procs \ {p} : step'[q] = step[q]
    BY <2>1 DEF RestoreTypeOK
  <2>3. p \in Restorers \ disturbed' => step'[p] # "record"
    BY <1>9, <1>10, <2>1, <2>2 DEF Look
  <2> QED BY <2>1, <2>2, <2>3, <1>0, BackStep
<1>11. ASSUME NEW p \in Procs, LockShared(p) PROVE ViewsOwned' /\ ViewsBack'
  <2>1. /\ UNCHANGED <<views, disturbed>> /\ (UNCHANGED vlock \/ Unlock(p))
        /\ step' = [step EXCEPT ![p] = IF Exists(Parent) THEN "dropView" ELSE AfterViews(p)]
    BY <1>11, LabelTypes DEF LockShared
  <2>2. /\ step'[p] = IF Exists(Parent) THEN "dropView" ELSE AfterViews(p)
        /\ \A q \in Procs \ {p} : step'[q] = step[q]
    BY <2>1 DEF RestoreTypeOK
  <2>3. p \in Restorers \ disturbed' => step'[p] # "record"
    BY <1>9, <1>11, <2>1, <2>2 DEF LockShared
  <2>4. ViewsOwned'
    BY <2>1, <1>0, OwnedAfterUnlock
  <2> QED BY <2>1, <2>2, <2>3, <2>4, BackStep
<1>12. ASSUME NEW p \in Procs, DropView(p) PROVE ViewsOwned' /\ ViewsBack'
  <2>1. /\ UNCHANGED <<views, disturbed>> /\ step' = [step EXCEPT ![p] = "createView"]
        /\ vlock' = [n \in Namespaces |-> IF n \in Named(Home[p]) THEN p ELSE vlock[n]]
    BY <1>12, LabelTypes DEF DropView
  <2>2. ViewsOwned'
    BY <2>1, NamedIsOwn DEF ViewsOwned
  <2> QED BY <2>1, <2>2, OtherSteps
<1>13. ASSUME NEW p \in Procs, CreateView(p) PROVE ViewsOwned' /\ ViewsBack'
  <2>1. UNCHANGED disturbed /\ Unlock(p) /\ views' \subseteq views \cup {Home[p]}
    BY <1>13 DEF CreateView
  <2>2. views \subseteq views'
    BY <1>13, CreateTakesNone
  <2>3. CASE step' = [step EXCEPT ![p] = "idle"]
    <3>1. step'[p] = "idle" /\ \A q \in Procs \ {p} : step'[q] = step[q]
      BY <2>3 DEF RestoreTypeOK
    <3> QED BY <2>1, <2>2, <3>1, BackStep, OwnedAfterUnlock
  <2>4. CASE step' = [step EXCEPT ![p] = AfterViews(p)] /\ Home[p] \in views'
    <3>1. \A q \in Procs \ {p} : step'[q] = step[q]
      BY <2>4 DEF RestoreTypeOK
    <3> QED BY <2>1, <2>2, <2>4, <3>1, BackStep, OwnedAfterUnlock
  <2> QED BY <1>13, <2>3, <2>4 DEF CreateView
<1>14. ASSUME NEW p \in Procs, Fail(p) PROVE ViewsOwned' /\ ViewsBack'
  <2>1. UNCHANGED <<views, disturbed>> /\ Unlock(p) /\ step' = [step EXCEPT ![p] = "idle"]
    BY <1>14 DEF Fail
  <2> QED BY <2>1, OwnedAfterUnlock, OtherSteps
<1> QED
  <2> HIDE DEF At, To
  <2> QED BY <1>2, <1>3, <1>4, <1>5, <1>6, <1>7, <1>8, <1>10, <1>11, <1>12, <1>13, <1>14
          DEF RestoreNext, Restore, EnsureViews

LEMMA ViewsHold == RestoreSpec => []ViewsInv
<1>1. RestoreInit => ViewsInv
  BY DEF RestoreInit, ViewsInv, ViewsOwned, ViewsBack, At, Procs
<1>2. RestoreInv /\ ProgressInv /\ ViewsInv /\ [RestoreNext]_restoreVars => ViewsInv'
  BY ViewsStep DEF ViewsInv, PublicApart
<1> QED BY <1>1, <1>2, RestoreInvHolds, ProgressHolds, PTL DEF RestoreSpec

(* A restore that gets to its record has its namespace's view back, however *)
(* many others make theirs at the same time.                                *)
THEOREM ViewsAreBack == RestoreSpec => []ViewsComeBack
<1>1. ViewsInv => ViewsComeBack
  BY DEF ViewsInv, ViewsBack, ViewsComeBack
<1> QED BY <1>1, ViewsHold, PTL

-----------------------------------------------------------------------------
(* Only a drop takes a table: of the whole dump, or of a cycle that the     *)
(* archive in hand has.                                                     *)
LEMMA TablesStay ==
    ASSUME RestoreInv, RestoreNext, NEW t \in Cycles, Exists(t), data'[t] = Absent
    PROVE  \/ data'[Parent] = Absent
           \/ \E p \in Restorers : t \in todo[p] \cap InArchive(archive[p])
<1> RestoreTypeOK /\ PlanKept
  BY DEF RestoreInv
<1>0. t \in Tables /\ data[t] # Absent /\ data'[t] # data[t]
  BY DEF Exists, Tables
<1>1. CASE \E p \in Restorers : DropTable(p)
  BY <1>1 DEF DropTable, Tables
<1>2. ASSUME NEW p \in Restorers, DropChild(p)
      PROVE  t \in todo[p] \cap InArchive(archive[p])
  <2>1. PICK u \in todo[p] : data' = [data EXCEPT ![u] = Absent]
    BY <1>2 DEF DropChild
  <2>2. u = t
    BY <1>0, <2>1 DEF RestoreTypeOK
  <2> QED BY <1>2, <2>1, <2>2 DEF DropChild, PlanKept, HasPlan, Procs
<1>3. ASSUME NEW p \in Restorers, Create(p) PROVE FALSE
  BY <1>0, <1>3 DEF Create, Exists
<1>4. ASSUME NEW p \in Restorers, CopyTable(p) PROVE FALSE
  <2>1. p \in Procs /\ archive[p] \in DumpVersions
    <3>1. p \in Procs /\ step[p] = "copy" /\ HasPlan(p) /\ archive[p] \in DumpVersions \cup {NoVersion}
      BY <1>4 DEF CopyTable, PlanKept, RestoreTypeOK, Procs, At
    <3> QED BY <3>1 DEF HasPlan
  <2>2. PICK u \in todo[p] : Copies(p, u) /\ data' = [data EXCEPT ![u] = Append(@, archive[p])]
    BY <1>0, <1>4 DEF CopyTable
  <2>3. u = t
    BY <1>0, <2>2 DEF RestoreTypeOK
  <2>4. data[t] \in Seq(DumpVersions)
    BY <1>0 DEF RestoreTypeOK, Contents
  <2>5. Append(data[t], archive[p]) \in Seq(DumpVersions)
    BY <2>1, <2>4
  <2>6. data'[t] = Append(data[t], archive[p])
    BY <1>0, <2>2, <2>3 DEF RestoreTypeOK
  <2> QED BY <2>5, <2>6, DumpFacts
<1>5. CASE UNCHANGED data
  BY <1>0, <1>5
<1>6. ASSUME NEW p \in Restorers, RestoreDump(p) \/ Import(p) \/ Update(p) \/ Evict(p) \/ Remove(p) \/ DumpIndex(p)
      PROVE  UNCHANGED data
  BY <1>6 DEF RestoreDump, Import, Update, Evict, Remove, DumpIndex, content
<1>7. ASSUME NEW p \in Restorers, Locate(p) \/ PlanRestore(p) \/ LockTable(p) \/ MakeKeys(p) \/ CountRows(p)
                                  \/ Record(p) \/ IndexTargets(p) \/ Index(p)
      PROVE  UNCHANGED data
  BY <1>7 DEF Locate, PlanRestore, LockTable, MakeKeys, CountRows, Record, IndexTargets, Index, content
<1>8. ASSUME NEW p \in Procs, EnsureViews(p) \/ Fail(p) PROVE UNCHANGED data
  BY <1>8 DEF EnsureViews, Look, LockShared, DropView, CreateView, Fail, content
<1>9. CASE Refresh
  BY <1>9, <1>5 DEF Refresh, content
<1>10. ASSUME NEW p \in Servers, Serve(p) PROVE UNCHANGED data
  BY <1>10 DEF Serve, content
<1> QED BY <1>1, <1>2, <1>3, <1>4, <1>5, <1>6, <1>7, <1>8, <1>9, <1>10 DEF RestoreNext, Restore

(* A view goes only with the table, or to be made again in the same step.   *)
LEMMA ViewsStay ==
    ASSUME RestoreInv, ViewsOwned, RestoreNext
    PROVE  views \subseteq views' \/ data'[Parent] = Absent
<1> RestoreTypeOK
  BY DEF RestoreInv
<1>1. CASE \E p \in Restorers : DropTable(p)
  BY <1>1 DEF DropTable, Tables
<1>2. CASE \E p \in Procs : CreateView(p)
  BY <1>2, CreateTakesNone
<1>3. ASSUME NEW p \in Restorers, RestoreDump(p) \/ Import(p) \/ Update(p) \/ Evict(p) \/ Remove(p) \/ DumpIndex(p)
      PROVE  UNCHANGED views
  BY <1>3 DEF RestoreDump, Import, Update, Evict, Remove, DumpIndex
<1>4. ASSUME NEW p \in Restorers, Locate(p) \/ PlanRestore(p) \/ LockTable(p) \/ DropChild(p) \/ Create(p)
                                  \/ CopyTable(p) \/ MakeKeys(p) \/ CountRows(p)
                                  \/ Record(p) \/ IndexTargets(p) \/ Index(p)
      PROVE  UNCHANGED views
  BY <1>4 DEF Locate, PlanRestore, LockTable, DropChild, Create, CopyTable, MakeKeys, CountRows, Record,
              IndexTargets, Index
<1>5. ASSUME NEW p \in Procs, Look(p) \/ LockShared(p) \/ DropView(p) \/ Fail(p) PROVE UNCHANGED views
  BY <1>5 DEF Look, LockShared, DropView, Fail
<1>6. CASE Refresh \/ \E p \in Servers : Serve(p)
  BY <1>6 DEF Refresh, Serve
<1> QED BY <1>1, <1>2, <1>3, <1>4, <1>5, <1>6 DEF RestoreNext, Restore, EnsureViews

(* No step loses data for nothing: neither a cycle's table that the archive *)
(* cannot replace nor another namespace's view.                             *)
THEOREM NothingIsLost == RestoreSpec => NothingGoesForGood
<1>1. RestoreInv /\ [RestoreNext]_restoreVars =>
        [\A t \in Cycles : Exists(t) /\ data'[t] = Absent =>
          \/ data'[Parent] = Absent
          \/ \E p \in Restorers : t \in todo[p] \cap InArchive(archive[p])]_restoreVars
  BY TablesStay
<1>2. RestoreInv /\ ViewsInv /\ [RestoreNext]_restoreVars =>
        [PublicApart => \A n \in views : n \in views' \/ data'[Parent] = Absent]_restoreVars
  BY ViewsStay DEF ViewsInv
<1> QED BY <1>1, <1>2, RestoreInvHolds, ViewsHold, PTL
        DEF RestoreSpec, NothingGoesForGood, LostOnlyToTheArchive, ViewsAreOnesOwn
=============================================================================
