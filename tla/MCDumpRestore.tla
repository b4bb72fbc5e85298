--------------------------- MODULE MCDumpRestore ---------------------------
(* Instances of DumpRestore. *)
EXTENDS DumpRestore, TLC

CONSTANTS r1, r2, s1, n1, n2

Cmd(what)      == [NoCommand EXCEPT !.cmd = what]
For(c, asked)  == [c EXCEPT !.cycles = asked]
FromFile(c, v) == [c EXCEPT !.file = v]
Kept(c)        == [c EXCEPT !.keepFile = TRUE]
AllOfIt(c)     == [c EXCEPT !.allowLarge = TRUE]

TwoHomes == (r1 :> n1) @@ (r2 :> n2) @@ (s1 :> n2)

(* One table: weekly updates, and a removal that keeps the download. *)
OneTable == [split |-> FALSE, large |-> FALSE, children |-> << {}, {} >>]
Weekly   == [dump |-> OneTable, plans |->
    (r1 :> {Cmd("restore"), Cmd("import"), Cmd("update"), Kept(Cmd("remove")), Cmd("index")}) @@ (r2 :> {})]

(* A large split dump: two commands at once, and a cycle that the first     *)
(* archive does not have.                                                   *)
Halves == [split |-> TRUE, large |-> TRUE, children |-> << {2022}, {2022, 2024} >>]
AtOnce == [dump |-> Halves, plans |->
    (r1 :> {AllOfIt(Cmd("restore"))})
    @@ (r2 :> {Cmd("import"), Cmd("remove")})]
Files  == [dump |-> Halves, plans |->
    (r1 :> {For(Cmd("import"), {2022})})
    @@ (r2 :> {Cmd("update"), FromFile(For(Cmd("restore"), {2022}), 1)})]

All == {Weekly, AtOnce, Files}
=============================================================================
