SPECIFICATION FairSpec
CONSTANTS
    Instruments <- OneInstrument
    Base <- MCBase
    Quote <- MCQuote
    MaxOpen = 1
    MaxDaily = 2
    Cooldown = 1
    DayLength = 1
    LossCap = 2
    Pnls <- Losses
    Markets = {TRUE}
    Faults = {"positions", "lag", "db", "history", "close", "confirm", "place", "level", "expiry"}
    MaxFailures = 2
    MaxDeals = 1
    MaxClock = 1
PROPERTY BrokerCloseIsPersisted
