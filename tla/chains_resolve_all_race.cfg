SPECIFICATION Spec
CONSTANTS
    Filings = {1, 2, 3}
    Procs = {p1, p2}
    NoProc = NoProc
    MaxJobs = 2
    Loaded <- OneReport
    Jobs <- DuringResolveAll
INVARIANTS DerivedCurrent
