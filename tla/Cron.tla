-------------------------------- MODULE Cron --------------------------------
(***************************************************************************)
(* parseCron and nextFire (core/scheduler/cron.cpp), loop by loop.  An     *)
(* expression is a sequence of fields, a field a set of the parts that     *)
(* commas separate.  A number that from_chars does not read (no digits, or *)
(* too large for an int) is Junk.                                          *)
(***************************************************************************)
EXTENDS CronTime

CONSTANTS Expressions, \* the expressions parsed
          Junk,        \* text where a number should be
          MaxFrom      \* bound on the instant nextFire starts from

ASSUME FromAssumption == MaxFrom \in Nat

VARIABLES fields,  \* the expression
          expr,    \* the CronExpression, or a failure
          from,    \* the argument of nextFire
          local,   \* struct tm, with tm_min perhaps not normalised
          attempt, \* the loop counter
          status,  \* where the caller is
          fire     \* the answer of nextFire

cronVars == <<fields, expr, from, local, attempt, status, fire>>

InvalidArgument == [error |-> "InvalidArgument"]

\* The parts of a field.  NoStep is a part without a slash.
Star(step) == [kind |-> "star", lo |-> Junk, hi |-> Junk, step |-> step]
FromTo(lo, hi, step) == [kind |-> "range", lo |-> lo, hi |-> hi, step |-> step]
Single(v, step) == [kind |-> "single", lo |-> v, hi |-> v, step |-> step]
NoStep == 1
-----------------------------------------------------------------------------
(* parseCron                                                               *)

\* from_chars leaves its target alone when it reads no number.
FromChars(text, target) == IF text = Junk THEN target ELSE text

Lo(part, minValue) == IF part.kind = "star" THEN minValue ELSE FromChars(part.lo, minValue)
Hi(part, minValue, maxValue) == CASE part.kind = "star" -> maxValue
                                  [] part.kind = "range" -> FromChars(part.hi, maxValue)
                                  [] part.kind = "single" -> Lo(part, minValue)

PartOK(part, minValue, maxValue) ==
    /\ part.step # Junk
    /\ part.step >= 1
    /\ minValue <= Lo(part, minValue)
    /\ Lo(part, minValue) <= Hi(part, minValue, maxValue)
    /\ Hi(part, minValue, maxValue) <= maxValue

Values(part, minValue, maxValue) ==
    {v \in Lo(part, minValue)..Hi(part, minValue, maxValue) :
        (v - Lo(part, minValue)) % part.step = 0}

FieldOK(field, minValue, maxValue) == \A part \in field : PartOK(part, minValue, maxValue)
ParseField(field, minValue, maxValue) == UNION {Values(part, minValue, maxValue) : part \in field}

\* fillField: the bitset has N bits, and a value of N or more sets none.
FillField(field, minValue, maxValue, N) == {v \in ParseField(field, minValue, maxValue) : v < N}

ParseCron(parts) ==
    IF /\ Len(parts) = 5
       /\ FieldOK(parts[1], 0, Minutes - 1)
       /\ FieldOK(parts[2], 0, Hours - 1)
       /\ FieldOK(parts[3], 1, LongestMonth)
       /\ FieldOK(parts[4], 1, Months)
       /\ FieldOK(parts[5], 0, Week - 1)
    THEN [minutes     |-> FillField(parts[1], 0, Minutes - 1, Minutes),
          hours       |-> FillField(parts[2], 0, Hours - 1, Hours),
          daysOfMonth |-> FillField(parts[3], 1, LongestMonth, LongestMonth),
          months      |-> FillField(parts[4], 1, Months, Months),
          daysOfWeek  |-> FillField(parts[5], 0, Week - 1, Week)]
    ELSE InvalidArgument
-----------------------------------------------------------------------------
CronInit ==
    /\ fields \in Expressions
    /\ from \in 0..MaxFrom
    /\ expr = InvalidArgument
    /\ local = LocalTime(from)
    /\ attempt = 0
    /\ status = "text"
    /\ fire = None

Parse == /\ status = "text"
         /\ expr' = ParseCron(fields)
         /\ status' = IF expr' = InvalidArgument THEN "refused" ELSE "parsed"
         /\ UNCHANGED <<fields, from, local, attempt, fire>>

(* nextFire                                                                *)

\* Mutant: the search begins at the minute it is called in.
StartAtFrom == /\ status = "parsed"
               /\ local' = LocalTime(from)
               /\ status' = "search"
               /\ UNCHANGED <<fields, expr, from, attempt, fire>>

\* localtime, then ++tm_min without mktime.
StartSearch ==
    /\ status = "parsed"
    /\ local' = [LocalTime(from) EXCEPT !.min = @ + 1]
    /\ status' = "search"
    /\ UNCHANGED <<fields, expr, from, attempt, fire>>

\* bitset::test beyond the last bit throws; && has not reached it otherwise.
Throw == /\ status = "search" /\ attempt < MaxAttempts
         /\ HourMatches(expr, local)
         /\ local.min >= Minutes
         /\ status' = "thrown"
         /\ fire' = Throws
         /\ UNCHANGED <<fields, expr, from, local, attempt>>

Found == /\ status = "search" /\ attempt < MaxAttempts
         /\ HourMatches(expr, local)
         /\ local.min \in expr.minutes
         /\ status' = "answered"
         /\ fire' = Mktime(local)
         /\ UNCHANGED <<fields, expr, from, local, attempt>>

\* mktime also normalises the struct.
Normalised(tm) == LocalTime(Mktime(tm))

Advance(tm) == Normalised([tm EXCEPT !.min = @ + 1])

Skip == /\ status = "search" /\ attempt < MaxAttempts
        /\ ~(HourMatches(expr, local) /\ local.min >= Minutes)
        /\ ~(HourMatches(expr, local) /\ local.min \in expr.minutes)
        /\ local' = Advance(local)
        /\ attempt' = attempt + 1
        /\ UNCHANGED <<fields, expr, from, status, fire>>

GiveUp == /\ status = "search" /\ attempt = MaxAttempts
          /\ status' = "answered"
          /\ UNCHANGED <<fields, expr, from, local, attempt, fire>>

Done == status \in {"refused", "thrown", "answered"} /\ UNCHANGED cronVars

CronNext == Parse \/ StartSearch \/ Throw \/ Found \/ Skip \/ GiveUp \/ Done

CronSpec == CronInit /\ [][CronNext]_cronVars
-----------------------------------------------------------------------------
(* Properties                                                              *)

\* The variables have their types: only the minute is ever out of its range,
\* by one, before the first mktime.
CronTypeOK ==
    /\ fields \in Expressions
    /\ from \in 0..MaxFrom
    /\ expr = InvalidArgument \/
       expr \in [minutes : SUBSET (0..(Minutes - 1)), hours : SUBSET (0..(Hours - 1)),
                 daysOfMonth : SUBSET (0..(LongestMonth - 1)), months : SUBSET (0..(Months - 1)),
                 daysOfWeek : SUBSET (0..(Week - 1))]
    /\ local \in [hour : 0..((MaxFrom + MaxAttempts) \div Minutes + 1), min : 0..Minutes]
    /\ attempt \in 0..MaxAttempts
    /\ status \in {"text", "parsed", "refused", "search", "thrown", "answered"}
    /\ fire \in {None, Throws} \cup 0..(MaxFrom + MaxAttempts)

\* The minutes to come, as far as the search may go, whose bits are all set.
\* What nextFire should answer is the first of them.
Upcoming == {t \in (from + 1)..(from + MaxAttempts) : Matches(expr, t)}

IsNext(t) == IF Upcoming = {} THEN t = None
                              ELSE t \in Upcoming /\ \A u \in Upcoming : t <= u

\* Called in any minute but the last of an hour, nextFire answers with the
\* first minute to come whose bits are set: none is jumped over when hours,
\* days, months and years roll over, none is reported early, and it gives up
\* only when there is none.  Called in the last minute of an hour it throws,
\* or jumps over the minute that follows and no other.
SearchIsExact ==
    status = "answered" =>
      IF ~LastOfHour(from)
      THEN IsNext(fire)
      ELSE /\ fire # None => fire \in Upcoming
           /\ \A t \in Upcoming \ {from + 1} : fire # None /\ fire <= t

\* The test "cron computes next fire": an answer is the next instant that the
\* expression matches, in whatever minute nextFire is called.
NothingPassedOver == status = "answered" => IsNext(fire)

\* The minutes that the text of the expression means: days and months are
\* counted from 1 where it is parsed.
Written(t) == LET tm == LocalTime(t)
              IN  /\ tm.min \in ParseField(fields[1], 0, Minutes - 1)
                  /\ tm_hour(tm) \in ParseField(fields[2], 0, Hours - 1)
                  /\ tm_mday(tm) \in ParseField(fields[3], 1, LongestMonth)
                  /\ tm_mon(tm) + 1 \in ParseField(fields[4], 1, Months)
                  /\ tm_wday(tm) \in ParseField(fields[5], 0, Week - 1)

\* A rule that is to run on cron runs when its expression says: no minute that
\* the five fields name goes by between the call and the answer, the last
\* minute of an hour, from which nextFire may jump, aside.
FiresAsWritten ==
    status = "answered" /\ ~LastOfHour(from) /\ fire # None =>
      \A t \in (from + 1)..(fire - 1) : ~Written(t)

\* nextFire answers; it does not leave by an exception.
NeverThrows == status # "thrown"
=============================================================================
