---------------------------- MODULE OpenFecPages ----------------------------
(***************************************************************************)
(* openFEC's paged results (fec::openfec): FilingsIter, which hands out a  *)
(* row at a time, and operations_log_all, which collects them, over the    *)
(* request with its bounded retry of 429 answers (get_json), while the FEC *)
(* adds filings in front of those already there.                           *)
(***************************************************************************)
EXTENDS Integers, Sequences

CONSTANTS PerPage, MaxRetries, MaxWait,
          Waits,        \* the Retry-After a server may ask for; 0: none
          MaxRows       \* bound: rows the server ever has

ASSUME PagesAssumption == PerPage \in Nat \ {0} /\ MaxRows \in Nat
ASSUME RetryAssumption == MaxRetries \in Nat /\ MaxWait \in Nat /\ Waits \subseteq Nat

VARIABLES
    rows,         \* the matching rows, newest first, numbered by age
    atStart,      \* how many there were at the first request (history)
    page, buffered, pagesDone,
    attempt,      \* of the request at hand
    slept,        \* seconds slept for it (history)
    got,          \* the rows handed out or collected
    result        \* "running", "end" or "error"

pagesVars == <<rows, atStart, page, buffered, pagesDone, attempt, slept, got, result>>

PagesInit ==
    /\ atStart \in 0..MaxRows /\ rows = [i \in 1..atStart |-> atStart + 1 - i]
    /\ page = 1 /\ buffered = << >> /\ pagesDone = FALSE
    /\ attempt = 0 /\ slept = 0 /\ got = << >> /\ result = "running"

-----------------------------------------------------------------------------
AddRow ==
    /\ Len(rows) < MaxRows
    /\ rows' = <<Len(rows) + 1>> \o rows
    /\ UNCHANGED <<atStart, page, buffered, pagesDone, attempt, slept, got, result>>

Pages == (Len(rows) + PerPage - 1) \div PerPage

(* A page: a request past the last one gets no rows. *)
Results(p) ==
    LET from == (p - 1) * PerPage
    IN  [i \in 1..(IF Len(rows) - from < PerPage
                   THEN (IF Len(rows) > from THEN Len(rows) - from ELSE 0)
                   ELSE PerPage) |-> rows[from + i]]

(* Mutant of HasMore: counted from zero. *)
HasMoreFromZero(p) == p + 1 < Pages

HasMore(p) == p < Pages

(* The iterator asks when it has nothing left to hand out. *)
Asking == result = "running" /\ buffered = << >> /\ ~pagesDone

LastPage(p) == Results(p) = << >> \/ ~HasMore(p)

Answer ==
    /\ Asking
    /\ pagesDone' = LastPage(page)
    /\ buffered' = Results(page)
    /\ page' = page + 1
    /\ result' = IF Results(page) = << >> THEN "end" ELSE result
    /\ attempt' = 0 /\ slept' = 0
    /\ UNCHANGED <<rows, atStart, got>>

Backoff(n) == <<1, 2, 4, 8, 16, 32, 64>>[(IF n < 6 THEN n ELSE 6) + 1]

Retried(wait) == attempt < MaxRetries /\ wait <= MaxWait

(* 429. *)
RateLimited ==
    /\ Asking
    /\ \E after \in Waits :
         LET wait == IF after = 0 THEN Backoff(attempt) ELSE after
         IN  IF Retried(wait)
             THEN /\ attempt' = attempt + 1 /\ slept' = slept + wait
                  /\ UNCHANGED <<pagesDone, result>>
             ELSE pagesDone' = TRUE /\ result' = "error" /\ UNCHANGED <<attempt, slept>>
    /\ UNCHANGED <<rows, atStart, page, buffered, got>>

RequestFails ==
    /\ Asking
    /\ pagesDone' = TRUE /\ result' = "error"
    /\ UNCHANGED <<rows, atStart, page, buffered, attempt, slept, got>>

HandOut ==
    /\ result = "running"
    /\ IF buffered # << >>
       THEN got' = Append(got, buffered[1]) /\ buffered' = Tail(buffered) /\ UNCHANGED result
       ELSE pagesDone /\ result' = "end" /\ UNCHANGED <<got, buffered>>
    /\ UNCHANGED <<rows, atStart, page, pagesDone, attempt, slept>>

PagesNext == AddRow \/ Answer \/ RateLimited \/ RequestFails \/ HandOut

PagesSpec == PagesInit /\ [][PagesNext]_pagesVars

-----------------------------------------------------------------------------
GotRows == {got[i] : i \in DOMAIN got}

(* A listing that ends without an error has every row that was there when  *)
(* it began, though rows were added while it was paged through, and no row *)
(* more than once for each that was added.                                 *)
NoRowMissed ==
    result = "end" =>
        /\ 1..atStart \subseteq GotRows
        /\ Len(got) <= Len(rows)

(* A request is retried a bounded number of times, for a bounded time.     *)
RetriesAreBounded == attempt <= MaxRetries /\ slept <= MaxRetries * MaxWait

(* What a listing is trusted for while it changes and the server refuses.   *)
ListingIsRead == NoRowMissed /\ RetriesAreBounded
=============================================================================
