------------------------------- MODULE MCCron -------------------------------
(* A year of two months, of two and three days of two hours of three       *)
(* minutes, and a week of two days: date and weekday meet again after two  *)
(* years.                                                                  *)
EXTENDS Cron

MCDaysIn == <<2, 3>>

Every == {Star(NoStep)}
MinuteFields == {Every, {Star(2)}, {Single(0, NoStep)}, {Single(2, NoStep)}, {Single(9, NoStep)}, {Star(Junk)}}
HourFields == {Every, {Single(1, NoStep)}, {FromTo(1, 0, NoStep)}}
DayFields == {Every, {FromTo(1, 2, NoStep)}, {Single(3, NoStep)}, {Single(1, NoStep), Single(2, NoStep)}}
MonthFields == {Every, {Single(1, NoStep)}, {}}
WeekFields == {Every, {Single(1, NoStep)}, {Star(0)}}

\* Numbers that are not numbers, in every place the parser reads one.
JunkExpressions == {<<f, Every, Every, Every, Every>> :
                       f \in {{Single(Junk, NoStep)}, {FromTo(Junk, 2, NoStep)}, {Star(Junk)}, {Single(0, Junk)}}}

MCExpressions == {<<m, h, d, mo, w>> : m \in MinuteFields, h \in HourFields, d \in DayFields,
                                       mo \in MonthFields, w \in WeekFields}
                 \cup {<<Every, Every, Every, Every>>} \cup JunkExpressions

\* The two expressions of test_cron.cpp, "* * * * *" and "0 3 * * 0".
TestExpressions == {<<Every, Every, Every, Every, Every>>,
                    <<{Single(0, NoStep)}, {Single(1, NoStep)}, Every, Every, {Single(0, NoStep)}>>}
=============================================================================
