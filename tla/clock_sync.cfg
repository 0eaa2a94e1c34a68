CONSTANTS
    TicksPerSecond = 2
    TickWidth = 2
    DayLength = 5
    Zone = 2
    NtpTimeout = 1
    FirstDelay = 0
    Period = 1
    DefaultTime = 3
    BootTimes = {21}
    BootTicks = {1}
    Garbage <- MCGarbage
    Horizon = 8
SPECIFICATION Spec
INVARIANTS TypeOK   DayLostAtMidnightOnly
CHECK_DEADLOCK FALSE
