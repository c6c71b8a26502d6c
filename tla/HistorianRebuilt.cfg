SPECIFICATION Spec
CONSTANTS
    t1 = t1
    None = None
    Tags = {t1}
    Values = {0, 1, 4}
    Settings <- MCResting
    Ages = {2}
    MaxTime = 4
    MaxUpsets = 1
INVARIANTS DroppedIsRebuilt
