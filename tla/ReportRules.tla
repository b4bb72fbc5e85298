---------------------------- MODULE ReportRules ----------------------------
(***************************************************************************)
(* The rule tables of parser::reconcile: for each line of the summary page *)
(* of Forms 3X, 3 and 3P and each column, whether it is typed in, the sum  *)
(* of a schedule's records, or a formula of other lines of the column.     *)
(***************************************************************************)
EXTENDS Integers, Sequences, FiniteSets

ReportForms == {"F3X", "F3", "F3P"}
Columns     == {"A", "B"}

(* A formula adds some lines and takes others off.                          *)
Total(line, plus)       == [line |-> line, plus |-> plus, minus |-> {}]
Less(line, plus, minus) == [line |-> line, plus |-> plus, minus |-> minus]

(* A line is the sum of the records with a token, or, where small amounts   *)
(* need not be itemized, at least that.                                     *)
Sum(line, tokens)      == [line |-> line, relation |-> "equal", tokens |-> tokens, field |-> "amount"]
Floor(line, tokens)    == [line |-> line, relation |-> "atLeast", tokens |-> tokens, field |-> "amount"]
Share(line, tok, part) == [line |-> line, relation |-> "equal", tokens |-> {tok}, field |-> part]

-----------------------------------------------------------------------------
(* Form 3X. Its column B starts from the cash on hand on January 1, line    *)
(* 6(a), where column A has line 6(b).                                      *)
F3XFormulas(cash) ==
    { Total("11(a)(iii)", {"11(a)(i)", "11(a)(ii)"}),
      Total("11(d)", {"11(a)(iii)", "11(b)", "11(c)"}),
      Total("18(c)", {"18(a)", "18(b)"}),
      Total("19", {"11(d)", "12", "13", "14", "15", "16", "17", "18(c)"}),
      Less("20", {"19"}, {"18(c)"}),
      Total("21(c)", {"21(a)(i)", "21(a)(ii)", "21(b)"}),
      Total("28(d)", {"28(a)", "28(b)", "28(c)"}),
      Total("30(c)", {"30(a)(i)", "30(a)(ii)", "30(b)"}),
      Total("31", {"21(c)", "22", "23", "24", "25", "26", "27", "28(d)", "29", "30(c)"}),
      Less("32", {"31"}, {"21(a)(ii)", "30(a)(ii)"}),
      Total("33", {"11(d)"}), Total("34", {"28(d)"}), Less("35", {"33"}, {"34"}),
      Total("36", {"21(a)(i)", "21(b)"}), Total("37", {"15"}), Less("38", {"36"}, {"37"}),
      Total("6(c)", {"19"}), Total("6(d)", {cash, "6(c)"}),
      Total("7", {"31"}), Less("8", {"6(d)"}, {"7"}) }

F3XSchedules ==
    { Sum("9", {"SC/9", "SD9"}), Sum("10", {"SC/10", "SD10"}),
      Sum("11(a)(i)", {"SA11AI", "SA11A1"}), Sum("11(b)", {"SA11B"}), Sum("11(c)", {"SA11C"}),
      Sum("12", {"SA12"}), Sum("13", {"SA13"}), Sum("14", {"SA14"}),
      Floor("15", {"SA15"}), Sum("16", {"SA16"}), Floor("17", {"SA17"}),
      Share("18(a)", "H3", "transferred"), Share("18(b)", "H5", "total"),
      Share("21(a)(i)", "H4", "federal"), Share("21(a)(ii)", "H4", "other"),
      Floor("21(b)", {"SB21B"}), Sum("22", {"SB22"}), Sum("23", {"SB23"}),
      Floor("24", {"SE"}), Sum("25", {"SF"}), Sum("26", {"SB26"}), Sum("27", {"SB27"}),
      Floor("28(a)", {"SB28A"}), Sum("28(b)", {"SB28B"}), Sum("28(c)", {"SB28C"}),
      Floor("29", {"SB29"}),
      Share("30(a)(i)", "H6", "federal"), Share("30(a)(ii)", "H6", "other"),
      Floor("30(b)", {"SB30B"}) }

(* Form 3: both columns have the same receipts, disbursements and nets; the *)
(* cash is in column A alone.                                               *)
F3Formulas ==
    { Total("11(a)(iii)", {"11(a)(i)", "11(a)(ii)"}),
      Total("11(e)", {"11(a)(iii)", "11(b)", "11(c)", "11(d)"}),
      Total("13(c)", {"13(a)", "13(b)"}),
      Total("16", {"11(e)", "12", "13(c)", "14", "15"}),
      Total("19(c)", {"19(a)", "19(b)"}),
      Total("20(d)", {"20(a)", "20(b)", "20(c)"}),
      Total("22", {"17", "18", "19(c)", "20(d)", "21"}),
      Total("6(a)", {"11(e)"}), Total("6(b)", {"20(d)"}), Less("6(c)", {"6(a)"}, {"6(b)"}),
      Total("7(a)", {"17"}), Total("7(b)", {"14"}), Less("7(c)", {"7(a)"}, {"7(b)"}) }

F3Cash ==
    { Total("24", {"16"}), Total("25", {"23", "24"}), Total("26", {"22"}),
      Less("27", {"25"}, {"26"}), Total("8", {"27"}) }

F3Schedules ==
    { Sum("9", {"SC/9", "SD9"}), Sum("10", {"SC/10", "SD10"}),
      Sum("11(a)(i)", {"SA11AI", "SA11A1"}), Sum("11(b)", {"SA11B"}), Sum("11(c)", {"SA11C"}),
      Floor("11(d)", {"SA11D"}), Sum("12", {"SA12"}), Sum("13(a)", {"SA13A"}),
      Sum("13(b)", {"SA13B"}), Floor("14", {"SA14"}), Floor("15", {"SA15"}),
      Floor("17", {"SB17"}), Sum("18", {"SB18"}), Sum("19(a)", {"SB19A"}),
      Sum("19(b)", {"SB19B"}), Floor("20(a)", {"SB20A"}), Sum("20(b)", {"SB20B"}),
      Sum("20(c)", {"SB20C"}), Floor("21", {"SB21"}) }

(* Form 3P. *)
F3PFormulas ==
    { Total("17(a)(iii)", {"17(a)(i)", "17(a)(ii)"}),
      Total("17(e)", {"17(a)(iii)", "17(b)", "17(c)", "17(d)"}),
      Total("19(c)", {"19(a)", "19(b)"}),
      Total("20(d)", {"20(a)", "20(b)", "20(c)"}),
      Total("22", {"16", "17(e)", "18", "19(c)", "20(d)", "21"}),
      Total("27(c)", {"27(a)", "27(b)"}),
      Total("28(d)", {"28(a)", "28(b)", "28(c)"}),
      Total("30", {"23", "24", "25", "26", "27(c)", "28(d)", "29"}) }

F3PCash ==
    { Total("7", {"22"}), Total("8", {"6", "7"}), Total("9", {"30"}), Less("10", {"8"}, {"9"}) }

F3PSchedules ==
    { Sum("11", {"SC/11", "SD11"}), Sum("12", {"SC/12", "SD12"}), Sum("16", {"SA16"}),
      Sum("17(a)(i)", {"SA17A"}), Sum("17(b)", {"SA17B"}), Sum("17(c)", {"SA17C"}),
      Floor("17(d)", {"SA17D"}), Sum("18", {"SA18"}), Sum("19(a)", {"SA19A"}),
      Sum("19(b)", {"SA19B"}), Floor("20(a)", {"SA20A"}), Floor("20(b)", {"SA20B"}),
      Floor("20(c)", {"SA20C"}), Floor("21", {"SA21"}), Floor("23", {"SB23"}),
      Sum("24", {"SB24"}), Floor("25", {"SB25"}), Floor("26", {"SB26"}),
      Sum("27(a)", {"SB27A"}), Sum("27(b)", {"SB27B"}), Floor("28(a)", {"SB28A"}),
      Sum("28(b)", {"SB28B"}), Sum("28(c)", {"SB28C"}), Floor("29", {"SB29"}) }

-----------------------------------------------------------------------------
(* rules_for, table by table. *)
FormulaTable ==
    [form \in ReportForms, column \in Columns |->
        IF form = "F3X" THEN F3XFormulas(IF column = "A" THEN "6(b)" ELSE "6(a)")
        ELSE IF form = "F3" THEN F3Formulas \cup (IF column = "A" THEN F3Cash ELSE {})
        ELSE F3PFormulas \cup (IF column = "A" THEN F3PCash ELSE {})]

ScheduleTable ==
    [form \in ReportForms |->
        IF form = "F3X" THEN F3XSchedules ELSE IF form = "F3" THEN F3Schedules ELSE F3PSchedules]

Formulas(form, column) == FormulaTable[form, column]
Schedules(form)        == ScheduleTable[form]

(* cash_lines: the lines with the cash at the beginning, at the close, and  *)
(* at the start of the year.                                                *)
CashLines(form) ==
    CASE form = "F3X" -> [beginning |-> "6(b)", close |-> "8", yearStart |-> "6(a)"]
      [] form = "F3"  -> [beginning |-> "23", close |-> "27", yearStart |-> "none"]
      [] form = "F3P" -> [beginning |-> "6", close |-> "10", yearStart |-> "none"]

(* The debts have no column B; its other schedule lines are typed in.       *)
Debts(form) == IF form = "F3P" THEN {"11", "12"} ELSE {"9", "10"}

Unitemized(form) == IF form = "F3P" THEN "17(a)(ii)" ELSE "11(a)(ii)"

Inputs(form, column) ==
    IF column = "A" THEN {Unitemized(form), CashLines(form).beginning}
    ELSE {Unitemized(form)} \cup ({s.line : s \in Schedules(form)} \ Debts(form))
         \cup (IF form = "F3X" THEN {"6(a)"} ELSE {})

LineTable ==
    [form \in ReportForms, column \in Columns |->
        Inputs(form, column) \cup {f.line : f \in Formulas(form, column)}
        \cup (IF column = "A" THEN {s.line : s \in Schedules(form)} ELSE {})]

LinesOf(form, column) == LineTable[form, column]
=============================================================================
