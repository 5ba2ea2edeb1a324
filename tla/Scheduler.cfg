SPECIFICATION SchedulingSpec
CONSTANTS
    Junk = Junk
    Minutes = 3
    Hours = 2
    DaysIn <- MCDaysIn
    Week = 2
    MaxAttempts = 36
    MaxFrom = 59
    Expressions <- MCExpressions
    Ids = {a, b}
    a = a  b = b  NoId = NoId
    Crons <- MCCrons
    Ticks = 2
    StartTime <- MCStartTime
    MaxTime <- MCMaxTime
    Horizon = 5
    MaxTasks = 2
INVARIANTS SearchIsExact OnceAfterCancel
PROPERTIES OncePerInstant StopEnds OverdueIsServed
