SPECIFICATION Spec
CONSTANTS
    None = None
    ByteBits = 1
    MaxGap = 1
    MaxCount <- MCMaxCount
    Maps <- MCMaps
    Sizes <- MCSizes
    Values <- MCValues
    Signalled <- MCSignalled
    MaxEvents = 2
INVARIANTS TypeOK FewestRequests
PROPERTIES ReadsWhatIsThere WritesLand
