SPECIFICATION FairRiskSpec
CONSTANTS
    Tasks = {t1, t2}
    Readings <- MCReadings
    MinActive = 1
    HasPublisher = TRUE
    MaxTime = 2
    MaxTriggers = 2
    Signals <- MCSignals
    Notional <- MCNotional
    AssetClass <- MCClass
    Region <- MCRegion
    Atr <- MCAtr
    Equities = {85, 90}
    Pnls <- MCPnls
    AssumedEquity = 100
    DailyMaxLoss = 3
    ReduceAt = 10
    KillAt = 15
    MaxPerClass = 30
    MaxTotal = 70
    DayLength = 2
    MaxTrades = 2
INVARIANT TrailAgrees
PROPERTIES TriggersAreRecorded ApprovedWithinLimits
