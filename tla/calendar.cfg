CONSTANTS
    PerMinute = 2
    PerHour = 3
    PerDay = 4
    MaxYear = 2110
SPECIFICATION Spec
INVARIANTS GmtimeIsCalendar FieldsReplaced
CHECK_DEADLOCK FALSE
