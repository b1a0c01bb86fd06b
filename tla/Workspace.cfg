\* Calculations over posted amounts, and what the clients keep and show, one at a time.
CONSTANTS
    FiscalStarts = {101, 229, 230, 831, 515}
    Cadences = {"monthly", "quarterly", "yearly"}
    FirstDay = 20231115
    LastDay = 20241231
    HorizonDays = 120
    TimelineLimit = 8
    Extractions <- MCExtractions
    Edits <- MCEdits
    NoEdit = NoEdit
    Absent = Absent
    NotADay = NotADay
    LastDecisionDay = 2
    Templates <- MCTemplates
    PostingDays = {215, 431, 501, 601}
    ReportMonth = 5
    SeriesLength = 3
    MaxDrivers = 1
    MaxVouchers = 7
    Histories <- MCHistories
    Suppliers = {1}
    DueIn = {3, 20}
    MinHistory = 4
    SpikeFloor = 100
    ObservationLimit = 2
    VerLines <- MCVerLines
    TransLines <- MCTransLines
    NoNumber = 0
    NotANumber = NotANumber
    MaxLines = 5
    MaxMoreLines = 2
    MaxSieVouchers = 2
    MaxSieLines = 3
    Payloads <- MCPayloads
    MaxChain = 4
    MaxDamage = 3
    Mints = {m1, m2, m3}
    Lifetime = 5
    Margin = 1
    SasExpiry = 3
    MaxDelay = 1
    LastMinute = 9
    Stores = {"memory", "postgres"}
    Refreshers = {c1, c2}
    StaleDays = 0
    AlertCap = 1
    MaxVoucher = 1
    LastAlertDay = 1
    Checkouts <- MCCheckouts
    Bundled = 1
    Ingestions = {i1, i2}
    Questions <- MCQuestions
    Stopwords = {"hej"}
    EmbedBatchSize = 1
    RetrievalTopK = 2
    MinSimilarity = 1
    Captures = 2
    Relinks = 1
    WidgetIds <- MCWidgetIds
    ForeignRaws <- MCForeignRaws
    LayoutTabs = {"t1", "t2"}
    MaxWrites = 3
    Shares <- MCShares
    Intakes <- MCIntakes
    MaxShareFiles = 2
    MaxReloads = 1
    QueueReviews = {"v1", "v2"}
    Browsers = {"b1"}
    NoReviewOpen = "none"
    MaxElsewhere = 1
    MaxClicks = 2
    MaxFetches = 1
    MaxCalls = 2
SPECIFICATION MCSpec
INVARIANTS
    PostedAsDecided FilesSurvive ReportIsRight MintedUrlWorks CorpusAnswers VouchersKeepTheirLink ShareIsTakenOnce QueueTellsTheTruth
PROPERTIES
    DeadlinesFollowPeriods ReportsAgree ObservationsAreFair AlertsAreKept LayoutSurvives
CHECK_DEADLOCK FALSE
