SPECIFICATION Spec
CONSTANTS
    Filings = {1, 2, 3}
    Procs = {p1}
    NoProc = NoProc
    MaxJobs = 4
    Loaded <- Nothing
    Jobs <- Batch
PROPERTIES ResolvingAgrees
