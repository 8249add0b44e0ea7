SPECIFICATION Spec
CONSTANTS
    Instruments <- MCInstruments
    Base <- MCBase
    Quote <- MCQuote
    MaxOpen = 1
    MaxDaily = 1
    Cooldown = 2
    DayLength = 2
    LossCap = 1
    Pnls <- Losses
    Markets = {TRUE, FALSE}
    Faults = {"place", "level"}
    MaxFailures = 1
    MaxDeals = 3
    MaxClock = 2
INVARIANTS EntriesAreLimited CooldownKept OneFillInFlight
