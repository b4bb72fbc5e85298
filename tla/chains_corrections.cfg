SPECIFICATION Spec
CONSTANTS
    Filings = {1, 2, 3}
    Procs = {p1, p2}
    NoProc = NoProc
    MaxJobs = 4
    Loaded <- TwoReports
    Jobs <- Corrections
SYMMETRY Callers
INVARIANTS DerivedCurrent TwoPhase
