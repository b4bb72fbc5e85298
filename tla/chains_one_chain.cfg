SPECIFICATION FairSpec
CONSTANTS
    Filings = {1, 2, 3}
    Procs = {p1, p2, p3}
    NoProc = NoProc
    MaxJobs = 3
    Loaded <- Nothing
    Jobs <- OneChain
INVARIANTS OneCurrentPerChain
PROPERTIES ImplementsIndex EveryCallEnds
