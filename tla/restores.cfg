SPECIFICATION RestoreSpec
CONSTANTS
    r1 = r1
    r2 = r2
    s1 = s1
    n1 = n1
    n2 = n2
    Restorers = {r1, r2}
    Servers = {s1}
    Namespaces = {n1, n2}
    Public = NoProc
    Home <- TwoHomes
    Workloads <- All
    Cycles = {2022, 2024}
    ThisCycle = 2024
    ByDate = FALSE
    NoVersion = 0
    NoProc = NoProc
    MaxRuns = 3
INVARIANTS NobodyWaitsForEver ViewsComeBack UpToDateIsTrue RecordedIsRestored
PROPERTIES NothingGoesForGood
CHECK_DEADLOCK FALSE
