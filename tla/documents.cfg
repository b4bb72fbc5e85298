SPECIFICATION Spec
CONSTANTS
    Readings <- SomeReadings
    MaxCalls = 2
    PerPage = 2
    MaxRetries = 2
    MaxWait = 4
    Waits = {0, 1, 9}
    MaxRows = 5
    None = None
    ProcessingBatch = 2
    Fecs <- SomeFecs
    FilingIds <- FirstThree
    Today = 70
    Committees = {1}
    CycleYears = {23, 24}
    RawFilings <- SomeRaw
    Tallies <- SomeTallies
    MaxAsked = 3
    YearLength = 2
    BookForms <- Forms
    Schedule <- ReportBodies
    Slack = {1}
    MaxReports = 3
    Sheets <- SomeSheets
    Drafts <- SomeDrafts
    MoreLines <- SomeLines
    MaxDraft = 2
    Receipts <- SomeReceipts
    Reviewed <- SomeReviewed
    FirstDayOfBooks = 4048
    MaxLines = 3
    MaxBooks = 3
    Found <- SomeFound
    Told <- SomeTold
    MaxFound = 3
    Filings <- SomeFilings
    LineNos = {2, 3, 4}
    Texts = {"x", "y"}
    Needle = "x"
    MaxOpened = 2
    MaxEdits = 2
    Wires <- SomeWires
    SetValues <- SomeValues
    MaxSets = 1
    FeedEntries <- SomeEntries
    Digits = {"1", "2"}
    NotGiven = NotGiven
    MaxListed = 2
INVARIANTS
    StreamIsParse ListingIsRead LagIsTold
    BooksTellRight AcceptanceIsOfItsLines
    ReviewAsOneReport EveryFindingIsSettled
    PageIsOfTheFiling
    WrittenReadsTheSame FeedReadsBack
CHECK_DEADLOCK FALSE
