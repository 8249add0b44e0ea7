SPECIFICATION Spec
CONSTANTS
    Sides = {"BUY"}
    OrderSize = 2
    PartialSize = 1
    Entry = 10
    Spread = 1
    StopDistance = 3
    Distance = 1
    Prices <- MCPrices
    MaxRetries = 1
    OrderFaults = {"refused", "lost"}
    MaxOrders = 3
    MaxDeals = 3
    MaxPermits = 2
    MaxPosts = 3
    Reads = 3
    GuardedSize = 5
    GuardedFaults = {"lost", "garbled", "confirm", "slow", "read", "refuse", "update", "late", "lag", "restart"}
CHECK_DEADLOCK FALSE
INVARIANTS DealsAreAccounted StopsAgree
PROPERTIES ProgressIsKept TakenIsVerified ImplementsContract
