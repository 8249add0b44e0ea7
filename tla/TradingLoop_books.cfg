SPECIFICATION Spec
CONSTANTS
    Instruments <- OneInstrument
    Base <- MCBase
    Quote <- MCQuote
    MaxOpen = 1
    MaxDaily = 3
    Cooldown = 1
    DayLength = 1
    LossCap = 2
    Pnls <- Losses
    Markets = {TRUE}
    Faults = {"lag", "db", "history", "close", "confirm", "restart"}
    MaxFailures = 1
    MaxDeals = 2
    MaxClock = 1
INVARIANT BookedOnce
PROPERTY BooksAreTrueAndObeyed
