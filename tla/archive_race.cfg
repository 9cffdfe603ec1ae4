SPECIFICATION Spec
CONSTANTS
    s1 = s1
    s2 = s2
    Serial <- MCSerial
    DayStart <- MCDayStart
    MeterValue <- MCMeterValue
    SlotsPerHour = 2
    FullDay = 1
    Lookback = 2
    MaxDays = 2
    MaxCalls = 2
    MaxMoves = 1
CHECK_DEADLOCK FALSE
CONSTRAINT ReadsApart
INVARIANT ImportedSumsContinuous
