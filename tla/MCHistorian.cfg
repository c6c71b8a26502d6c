SPECIFICATION Spec
CONSTANTS
    t1 = t1
    None = None
    Tags = {t1}
    Values = {0, 1, 4}
    Settings <- MCSettings
    Ages = {2}
    MaxTime = 3
    MaxUpsets = 1
INVARIANTS TypeOK ErrorIsBounded HeartbeatKept FlushedIsSaved
PROPERTIES TrendRunsForward
