SPECIFICATION CronSpec
CONSTANTS
    Junk = Junk
    Minutes = 3
    Hours = 2
    DaysIn <- MCDaysIn
    Week = 2
    MaxAttempts = 36
    MaxFrom = 59
    Expressions <- TestExpressions
INVARIANT NeverThrows
