SPECIFICATION FairSpec
CONSTANTS
    None = None
    Groups = {1, 2}
    Devices = {1, 2}
    DevicesOf <- MCDevicesOf
    Period <- MCPeriod
    Stagger = TRUE
    Drivers = {1}
    BaseBackoff = 1
    MaxBackoff = 2
    Durations = {3}
    MaxChanges = 2
    MaxTime = 3
INVARIANTS SilenceIsNoted
