SPECIFICATION Spec
CONSTANTS
    Services = {sv1, sv2}
    Jobs = {j1, j2, j3}
    MaxRestarts = 2
    RestartWindow = 2
    Delay = 1
    CanStop = TRUE
    CanFail = TRUE
    MaxErrors = 1
    Strategies = {"s1", "s2"}
    Instruments = {"EURUSD"}
    Snapshots <- MCSnapshots
    Sharpe <- MCSharpe
    MaxTradesPerDay = 2
    MinInterval = 1
    Cooldown = 2
    LossLimit = 2
    MaxOpen = 2
    MaxCount = 2
    MaxGuardClock = 4
    Contexts = {"c1"}
    PatternThreshold = 2
    PatternWindow = 1
    ResolutionStreak = 2
    MaxLosses = 4
    MaxTrades = 8
    MaxStops = 1
    MaxLearnDay = 2
    Traders = {t1, t2}
    Pnls = {0, 2}
    DrawdownLimit = 2
    DrawdownDays = 1
    MaxDeals = 2
    MaxReports = 2
    MaxDays = 2
    Listing <- MCListing
    Stats <- MCStats
    MinTrackDays = 90
    MinWinRate = 55
    MaxTraderDrawdown = 20
    MinPoolSize = 1
    MaxCopied = 3
    MaxSharePct = 33
    MinSharePct = 10
    CopierEquity = 9999
    MaxReconnectAttempts = 2
    StaleAfter = 2
    MaxTasks = 4
    MaxAge = 2
    Topics = {"top", "fx"}
    DefaultTopics = {"top"}
    BloombergAttempts = 2
    MaxFeeds = 3
    TwitterAttempts = 2
    MaxRateLimited = 2
    Articles <- MCArticles
    Sources = {"reuters", "twitter", "bloomberg"}
    DedupCache = 4
    CrisisThreshold = 2
    CrisisWindow = 1
    Persistence = 1
    MaxNewsClock = 2
    MaxNewsArticles = 5
    Callers = {"c1", "c2"}
    Providers <- MCProviders
    CheckInterval = 2
    BlockBefore = 3
    BlockAfter = 2
    MaxSafetyClock = 3
    Schedule <- MCSchedule
    AdjustAhead = 2
    Day = 4
    MaxCalendarClock = 7
CHECK_DEADLOCK FALSE
INVARIANTS RestartBudget PatternsAgree BooksOfCopiesAgree FeedsRecover PipelineBooksAgree NearEventsBlocked EachEventOnce
PROPERTIES CooldownIsWhole PoolKeepsTheBest
