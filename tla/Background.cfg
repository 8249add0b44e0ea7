SPECIFICATION Spec
CONSTANTS
    Stoppers = {s1}
    MaxLoops = 2
    Sockets = {w1, w2, w3}
    MaxBroadcasts = 3
    BusChannels = {"tick"}
    Handlers = {"h1", "h2"}
    MaxEvents = 2
    MaxLists = 3
    Channels <- MCChannels
    Configured <- MCConfigured
    Webhooks = {"discord"}
    MaxRetries = 2
    WebhookRetries = 2
    TradeDeadline = 2
    DefaultThreshold = 65
    ElevatedThreshold = 80
    MaxDegradationClock = 1
    AllStrategies = {"s1"}
    SuspensionDays = 1
    MaxEvaluations = 4
    MaxDay = 1
    NewsSources <- MCNewsSources
    FailoverAfter = 2
    MaxSwings = 3
    MaxLives = 2
CHECK_DEADLOCK FALSE
INVARIANTS HandlersHearAll TriesAreExact
PROPERTIES StopEndsAll ClientsAreServed FailureNeverReassures DisabledIsFlattened ModeFollowsSources
