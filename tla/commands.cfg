SPECIFICATION AllSpec
CONSTANTS
    l1 = l1
    l2 = l2
    Loaders = {l1, l2}
    Workloads <- Mixed
    Lines <- Weeks
    Tag <- Tags
    Date <- Dates
    None = None
    LongLinesPass = TRUE
    Threshold = 1
    MaxLoads = 3
    Exported <- SomeExported
    ExportJobs <- SomeExportJobs
    AllTables <- Everything
    BatchRows = 2
    MaxExports = 3
    Letters <- SomeLetters
    Reports <- SomeReports
    EvalPage = 2
    SampleSize = 2
    Stride = 1
    MaxRequests = 9
    Unlisted = 2
    Dumps <- TheDumps
    Machines <- SomeMachines
    Kept0 <- SomeKept
    GuidedJobs <- SomeGuided
    ThisYear = 8
    MaxCommands = 2
    MaxMeddling = 1
    Stored <- SomeStored
    Entities <- SomeEntities
    PageRows = 2
    TheKey = "k"
    NoKey = "none"
    OtherKey = "o"
    Sessions <- SomeSessions
    ToolFiles <- SomeToolFiles
    Catalog <- SomeCatalog
    SpecRows <- SomeSpecRows
    Bundled <- BundledText
    AskedNames <- SomeNames
    AskedTexts <- SomeTexts
    NoVersion = NoVersion
    TableOf <- SomeTokens
    WithRules = {"F3X"}
    BodyCap = 8
    Slots = 1
    Chunk = 4
    Null = Null
    NotAString = NotAString
    ToolsSessions <- SomeToolsSessions
    Known <- SomeKnown
    FecLists <- SomeListing
    Archive <- SomeArchive
    RunJobs <- SomeRunJobs
    YearDays = 6
    MaxRuns = 2
    MaxFaults = 1
    MaxClears = 1
    BulkSources <- ThreeSources
    NoValue = NoValue
    Ingested <- SomeIngested
    Processed <- SomeProcessed
    ComparedFiling = 1
    MaxRestores = 1
INVARIANTS
    UnconfirmedDeletesLittle
    ExportsAreWhole SamplesAreComparable GuideKeepsItsWord ReadersMissNothing ToolsKeepTheirWord RunsAccountForAll BulkRunsTellAll
PROPERTIES ImplementsTable SkipsOnlyWhatIsThere
CHECK_DEADLOCK FALSE
