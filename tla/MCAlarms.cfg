SPECIFICATION Spec
CONSTANTS
    a1 = a1
    measured = measured
    setpoint = setpoint
    None = None
    Alarms <- MCAlarmNames
    Tags <- MCTags
    Readings <- MCReadings
    Configs <- MCConfigs
    Durations = {1}
    FloodCount = 1
    FloodWindow = 2
    RaiseDepth = 2
    SampleDepth = 3
    MaxTime = 3
INVARIANTS TypeOK AckIsForThisActivation TrailTellsState TimersAreSound EveryShelfEnds
PROPERTIES OnDelayHeld OffDelayHeld NoAlarmMissed KeepsLifecycle
