SPECIFICATION FairSpec
CONSTANTS
    None = None
    Count = 2
    Latched = {1}
    Workers = {w1, w2}
INVARIANTS OwedIsShown
PROPERTIES HealsItself
