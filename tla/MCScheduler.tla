---------------------------- MODULE MCScheduler ----------------------------
(* The cron search and the scheduler, each on its own, in the calendar of  *)
(* MCCron with two ticks a minute.  The scheduler's clock starts in the    *)
(* second hour of the second day of the second month, where "*" fields     *)
(* match.                                                                  *)
EXTENDS Scheduler, MCCron

CONSTANTS Horizon, \* ticks that the clock runs
          a, b     \* two identifiers

VARIABLE part

\* Every minute of the day's second hour, the first minute of each hour, and
\* never ("0 0 3 * *": the last day number sets no bit).
At(minutes, hours, days) == [minutes |-> minutes, hours |-> hours, daysOfMonth |-> days,
                             months |-> {1}, daysOfWeek |-> {0, 1}]
MCCrons == {At({0, 1, 2}, {1}, {1, 2}), At({0}, {0, 1}, {1, 2}), At({0}, {0}, {})}

\* The second day of the second month begins after three days; its second
\* hour, in whose last minute nextFire throws, an hour later.  Of its first
\* minute one tick is left.
MCStartTime == 3 * Hours * Minutes * Ticks + Minutes * Ticks + 1
MCMaxTime == MCStartTime + Horizon

schedulingVars == <<part, vars, cronVars>>

SchedulingInit ==
    /\ part \in {"scheduler", "cron"}
    /\ Init /\ CronInit
    /\ part # "cron" => fields = <<Every, Every, Every, Every>> /\ from = 0

InScheduler(action) == part = "scheduler" /\ action /\ UNCHANGED <<part, cronVars>>
InCron(action)      == part = "cron" /\ action /\ UNCHANGED <<part, vars>>

SchedulingNext == InScheduler(Next) \/ InCron(CronNext)

\* The fairness of the scheduler.
SchedulingSpec ==
    /\ SchedulingInit /\ [][SchedulingNext]_schedulingVars
    /\ WF_schedulingVars(InScheduler(WorkerStep))
    /\ WF_schedulingVars(InScheduler(StopNotify)) /\ WF_schedulingVars(InScheduler(StopJoin))
    /\ WF_schedulingVars(InScheduler(Tick))
=============================================================================
