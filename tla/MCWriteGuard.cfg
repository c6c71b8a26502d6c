SPECIFICATION Spec
CONSTANTS
    speed = speed
    start = start
    level = level
    ghost = ghost
    None = None
    Tags <- MCTags
    Unknown = {ghost}
    Writable <- MCWritable
    Bits <- MCBits
    Lowest <- MCLowest
    Highest <- MCHighest
    Requests <- MCRequests
    Policies <- MCPolicies
    AllowLists <- MCAllowLists
    MaxWrites = 2
    Window = 1
    TokenTTL = 1
    HistoryDepth = 2
    AuditLimit = 1
    MaxTime = 2
    MaxTokens = 1
INVARIANTS TypeOK RateHeld RefusedOnlyWhenFull ConfirmedOnce NumbersAreClamped AuditTellsAttempt
