\* Migrations, the API process, advisor turns and a sign-out, one at a time.
CONSTANTS
    Runners = {n1, n2}
    NoRunner = NoRunner
    Directories <- MCDirectories
    PreTooling <- MCPreTooling
    Provides = {1, 2}
    UrlA = UrlA
    UrlB = UrlB
    NoUrl = NoUrl
    Urls = {UrlA, UrlB}
    Environments <- MCEnvironments
    Requests = {r1, r2}
    Subjects = {s1, s2}
    s1 = s1
    s2 = s2
    Traffic <- MCTraffic
    NoSubject = NoSubject
    NoFetch = NoFetch
    NoEnvironment = NoEnvironment
    Ttl = 1
    MaxFlight = 1
    Window = 2
    Limit = 1
    MaxTime = 3
    MaxKeys = 2
    Reviews = {w1}
    Turns = {t1, t2}
    NoTurn = NoTurn
    NoReview = NoReview
    MaxMessages = 2
    MaxSuggestions = 2
    DeviceTabs = {"t1", "t2"}
    WrittenAgain = {"assistantThreads", "captureDraftsDb"}
    Refusals <- MCRefusals
    MaxRewrites = 1
SPECIFICATION MCSpec
INVARIANTS
    MigrationsAreOrderly PostureHolds TokensAreChecked LimitedByOwnRequests CleanExit HumansDecide RemainsForAReason
PROPERTIES
    EverythingEnds
CHECK_DEADLOCK FALSE
