SPECIFICATION Spec
CONSTANTS
    Epics = {e1, e2}
    Clients = {c1, c2}
    SubscribeAttempts = 2
    MaxTables = 3
    MaxSessions = 2
    Period = 2
    MaxCandles = 1
    MinCandles = 1
    TickTimes = {0, 1, 2, 4}
    Prices = {1, 3}
    MaxTicks = 4
    Shapes <- MCShapes
    SweepQuotes = {4, 6}
    MinSweepCandles = 2
    MaxSweepCandles = 5
    MaxSweepDays = 3
    NewsHandlers = {"n1", "n2"}
    Entry = 20
    HalfATR = 2
    StopMultiplier = 3
    MarketPrices = {15, 20, 25, 29}
    Callers = {k1, k2}
    PipeQuotes <- MCQuotes
    BatchWindow = 1
    PipeRateWindow = 2
    PipeMaxOrderRate = 2
    MaxQuotes = 2
    MaxSwitches = 3
    MaxClock = 3
    Orders = {o1, o2, o3}
    Cost = 2
    Rate = 1
    Capacity = 3
    StaleAfter = 2
    CanStop = TRUE
    MaxTime = 6
    Instruments = {i1, i2}
    MaxOrderRate = 2
    MaxInstrumentRate = 1
    RateWindow = 2
    RejectWindow = 2
    PnlWindow = 2
    LossThreshold <- MCThreshold
    Pnls <- LossesAndGain
    Halt = 2
    EscalationWindow = 5
    MaxActivations = 3
    MaxRejections = 1
    MaxUpdates = 1
SYMMETRY Symmetry
CHECK_DEADLOCK FALSE
INVARIANTS EachSignalOnce TicksReachTheirInstrument CandlesMatchTicks RiskNeverGrows SweepIsExact NextOpenIsFirst
PROPERTIES LimiterHolds HftIsLimited
