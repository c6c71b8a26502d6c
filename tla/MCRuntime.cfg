SPECIFICATION FairSpec
CONSTANTS
    None = None
    IdealCycleTime = 1
    Schedules <- MCSchedules
    Durations = {1}
    MaxTime = 5
    MaxCommands = 2
    MaxMade = 2
INVARIANTS TypeOK ReportAddsUp
PROPERTIES DowntimeIsRecorded CountsWhatWasSeen TimedFaultEnds
CHECK_DEADLOCK FALSE
