------------------------------ MODULE CronTime ------------------------------
(***************************************************************************)
(* The calendar that cron expressions are matched against, and what        *)
(* nextFire (core/scheduler/cron.cpp) answers.  The lengths of the hour,   *)
(* the day, the months and the week are parameters, so that TLC can go     *)
(* through whole years; an instant is a number of minutes.  Local time has *)
(* no daylight-saving jumps here, and no leap years.                       *)
(***************************************************************************)
EXTENDS Integers, Sequences, FiniteSetsExt

CONSTANTS Minutes,    \* in an hour: 60
          Hours,      \* in a day: 24
          DaysIn,     \* days of each month: <<31, 28, ...>>
          Week,       \* days in a week: 7
          MaxAttempts \* bound of the search loop: 366 * 24 * 60

ASSUME CalendarAssumption == /\ {Minutes, Hours, Week, MaxAttempts} \subseteq Nat \ {0}
                             /\ DaysIn \in Seq(Nat \ {0}) /\ DaysIn # <<>>

\* Answers of nextFire that are not an instant.
None == -1
Throws == -2

Months == Len(DaysIn)
LongestMonth == Max({DaysIn[m] : m \in 1..Months})

\* Days of the year before month m, counted from 0 like tm_mon.
DaysBefore[m \in 0..Months] == IF m = 0 THEN 0 ELSE DaysBefore[m - 1] + DaysIn[m]
DayOfYear(day) == day % DaysBefore[Months]

\* localtime of an instant, and the fields of struct tm that are read.  An
\* hour is counted from the start of the calendar.
LocalTime(t) == [hour |-> t \div Minutes, min |-> t % Minutes]
Mktime(local) == local.hour * Minutes + local.min
Day(local) == local.hour \div Hours
tm_hour(local) == local.hour % Hours
tm_mon(local) == CHOOSE m \in 0..(Months - 1) :
                   DaysBefore[m] <= DayOfYear(Day(local)) /\ DayOfYear(Day(local)) < DaysBefore[m + 1]
tm_mday(local) == DayOfYear(Day(local)) - DaysBefore[tm_mon(local)] + 1
tm_wday(local) == Day(local) % Week

\* The tests of nextFire before the one of the minute.  Day d of a month and
\* month m of the year have the bits d and m in an expression, and are looked
\* up here at d - 1 and m - 1, as the code does.
HourMatches(expr, local) == /\ tm_mon(local) \in expr.months
                            /\ tm_mday(local) - 1 \in expr.daysOfMonth
                            /\ tm_wday(local) \in expr.daysOfWeek
                            /\ tm_hour(local) \in expr.hours
Matches(expr, t) == /\ HourMatches(expr, LocalTime(t))
                    /\ t % Minutes \in expr.minutes

\* The instants that nextFire looks at, which are not all that follow: in the
\* last minute of an hour tm_min is 60 and not normalised, and the minute that
\* begins the next hour is passed over.
LastOfHour(t) == t % Minutes = Minutes - 1
Examined(from) == IF LastOfHour(from) THEN (from + 2)..(from + MaxAttempts)
                                      ELSE (from + 1)..(from + MaxAttempts)

\* The code's answer, right or not; bitset<60>::test(60) throws std::out_of_range.
NextFire(expr, from) ==
    LET found == {t \in Examined(from) : Matches(expr, t)}
    IN  CASE LastOfHour(from) /\ HourMatches(expr, LocalTime(from)) -> Throws
          [] OTHER -> IF found = {} THEN None ELSE Min(found)
=============================================================================
