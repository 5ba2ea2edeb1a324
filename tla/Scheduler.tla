----------------------------- MODULE Scheduler -----------------------------
(***************************************************************************)
(* The cron scheduler (core/scheduler/scheduler.cpp): an owner that starts *)
(* and stops it, clients that schedule and cancel tasks, and the worker    *)
(* thread of loop().  stop() does not take the mutex, so it can come       *)
(* between any two steps of the worker; schedule() and cancel() do, and    *)
(* cannot while the worker holds it.  What nextFire answers is taken from  *)
(* CronTime.  An exception of nextFire leaves schedule() with nothing      *)
(* changed, which is no step here; in the worker it ends the process.      *)
(***************************************************************************)
EXTENDS CronTime, FiniteSets

CONSTANTS Ids,        \* task identifiers
          NoId,       \* none of them
          Crons,      \* cron expressions, as parseCron returns them
          Ticks,      \* clock ticks in a minute
          StartTime,  \* the clock when the scheduler is made
          MaxTime,    \* bound on the clock
          MaxTasks    \* bound on the calls of schedule

ASSUME SchedulerAssumption == /\ NoId \notin Ids
                              /\ {Ticks, StartTime, MaxTime, MaxTasks} \subseteq Nat
                              /\ Ticks > 1 /\ StartTime <= MaxTime

VARIABLES tasks,     \* the vector, in order
          running,   \* the atomic flag
          worker,    \* control state of the worker thread
          owner,     \* control state of the owner's call
          slept,     \* sleepUntil, id and action of this turn of the loop
          firedAt,   \* the worker's now when it fires
          now,       \* the system clock
          made,      \* calls of schedule so far: a task's action is its number
          shadowed,  \* history: the actions scheduled while another task had their identifier
          cancelled, \* history: the actions of the tasks cancelled
          log        \* history: the actions run

vars == <<tasks, running, worker, owner, slept, firedAt, now, made, shadowed, cancelled, log>>

Task == [id : Ids, cron : Crons, action : 1..MaxTasks, nextRun : Nat]
Sleep == [id : Ids \cup {NoId}, action : 0..MaxTasks, until : Nat]
Awake == [id |-> NoId, action |-> 0, until |-> 0]

WorkerLabels == {"none", "while", "lock", "waitAny", "predicate", "block", "waitUntil", "notified",
                 "expired", "act", "reschedule", "exited", "terminated"}

OneMinute == Ticks
Hours24 == Hours * Minutes * Ticks

\* nextFire(cron, at).value_or(else)
NextRun(cron, at, else) ==
    LET fire == NextFire(cron, at \div Ticks)
    IN  IF fire = None THEN else ELSE fire * Ticks

Alive == worker # "terminated"

\* The worker holds the mutex from choosing a task until it blocks.
MutexFree == worker \notin {"predicate", "block"}

\* signal.notify_all()
Notified == CASE worker = "waitAny" -> "while"
              [] worker = "waitUntil" -> "notified"
              [] OTHER -> worker

\* A timed wait ends when its time has come.  What lies beyond MaxTime comes at
\* MaxTime: to the worker that is a wait that ended too early.
TimedOut(until) == now >= until \/ now = MaxTime

Init == /\ tasks = <<>>
        /\ running = FALSE
        /\ worker = "none"
        /\ owner = "ready"
        /\ slept = Awake
        /\ firedAt = 0
        /\ now = StartTime
        /\ made = 0
        /\ shadowed = {}
        /\ cancelled = {}
        /\ log = {}
-----------------------------------------------------------------------------
(* schedule and cancel                                                     *)

HasId(id) == {i \in DOMAIN tasks : tasks[i].id = id}

\* push_back, whether or not a task has the identifier already.
Schedule(id, cron) ==
    /\ Alive /\ MutexFree
    /\ made < MaxTasks
    /\ NextFire(cron, now \div Ticks) # Throws
    /\ made' = made + 1
    /\ tasks' = Append(tasks, [id |-> id, cron |-> cron, action |-> made + 1,
                               nextRun |-> NextRun(cron, now, now + Hours24)])
    /\ shadowed' = IF HasId(id) = {} THEN shadowed ELSE shadowed \cup {made + 1}
    /\ worker' = Notified
    /\ UNCHANGED <<running, owner, slept, firedAt, now, cancelled, log>>

\* Mutant: the tasks stay in the vector.
Unchanged(id) == {tasks}

\* remove_if and erase: the tasks that do not have the identifier, in their
\* order.  There is one such sequence.
Kept(id) == DOMAIN tasks \ HasId(id)
Without(id) ==
    LET left == 1..Cardinality(Kept(id))
    IN  {[k \in left |-> tasks[f[k]]] :
            f \in {g \in [left -> Kept(id)] : \A j, k \in left : j < k => g[j] < g[k]}}

Cancel(id) ==
    /\ Alive /\ MutexFree
    /\ tasks' \in Without(id)
    /\ cancelled' = cancelled \cup {tasks[i].action : i \in HasId(id)}
    /\ worker' = Notified
    /\ UNCHANGED <<running, owner, slept, firedAt, now, made, shadowed, log>>
-----------------------------------------------------------------------------
(* start and stop, called by the owner                                     *)

Start == /\ Alive
         /\ owner = "ready"
         /\ ~running
         /\ running' = TRUE
         /\ worker' = "while"
         /\ UNCHANGED <<tasks, owner, slept, firedAt, now, made, shadowed, cancelled, log>>

Stop == /\ Alive
        /\ owner = "ready"
        /\ running
        /\ running' = FALSE
        /\ owner' = "notify"
        /\ UNCHANGED <<tasks, worker, slept, firedAt, now, made, shadowed, cancelled, log>>

StopNotify == /\ Alive
              /\ owner = "notify"
              /\ owner' = "join"
              /\ worker' = Notified
              /\ UNCHANGED <<tasks, running, slept, firedAt, now, made, shadowed, cancelled, log>>

StopJoin == /\ owner = "join"
            /\ worker = "exited"
            /\ owner' = "ready"
            /\ UNCHANGED <<tasks, running, worker, slept, firedAt, now, made, shadowed, cancelled, log>>
-----------------------------------------------------------------------------
(* loop                                                                    *)

\* Mutant: the worker does not look at running here.
WhileTrue == /\ worker = "while"
             /\ worker' = "lock"
             /\ slept' = Awake /\ firedAt' = 0
             /\ UNCHANGED <<tasks, running, owner, now, made, shadowed, cancelled, log>>

WhileRunning == /\ worker = "while"
                /\ worker' = IF running THEN "lock" ELSE "exited"
                /\ slept' = Awake /\ firedAt' = 0
                /\ UNCHANGED <<tasks, running, owner, now, made, shadowed, cancelled, log>>

NoTask == /\ worker = "lock"
          /\ tasks = <<>>
          /\ worker' = "waitAny"
          /\ slept' = [Awake EXCEPT !.until = now + OneMinute]
          /\ UNCHANGED <<tasks, running, owner, firedAt, now, made, shadowed, cancelled, log>>

\* Mutant: the last of the tasks to run.
IsLatest(i) == \A j \in DOMAIN tasks : tasks[j].nextRun <= tasks[i].nextRun

\* min_element: the first of the tasks that run soonest.
IsSoonest(i) == \A j \in DOMAIN tasks :
                   \/ tasks[i].nextRun < tasks[j].nextRun
                   \/ tasks[i].nextRun = tasks[j].nextRun /\ i <= j

Choose == /\ worker = "lock"
          /\ \E i \in DOMAIN tasks :
               /\ IsSoonest(i)
               /\ slept' = [id |-> tasks[i].id, action |-> tasks[i].action, until |-> tasks[i].nextRun]
          /\ worker' = "predicate"
          /\ UNCHANGED <<tasks, running, owner, firedAt, now, made, shadowed, cancelled, log>>

\* wait_until looks at its predicate first and after each notification, and
\* waits no more when its time has come.
Predicate == /\ worker \in {"predicate", "notified"}
             /\ worker' = CASE ~running -> "exited"
                            [] running /\ worker = "notified" /\ TimedOut(slept.until) -> "expired"
                            [] OTHER -> "block"
             /\ UNCHANGED <<tasks, running, owner, slept, firedAt, now, made, shadowed, cancelled, log>>

Block == /\ worker = "block"
         /\ worker' = "waitUntil"
         /\ UNCHANGED <<tasks, running, owner, slept, firedAt, now, made, shadowed, cancelled, log>>

Timeout == /\ worker \in {"waitAny", "waitUntil"}
           /\ TimedOut(slept.until)
           /\ worker' = IF worker = "waitAny" THEN "while" ELSE "expired"
           /\ UNCHANGED <<tasks, running, owner, slept, firedAt, now, made, shadowed, cancelled, log>>

Expired == /\ worker = "expired"
           /\ worker' = CASE ~running -> "exited"
                          [] running /\ now >= slept.until -> "act"
                          [] OTHER -> "while"
           /\ firedAt' = now
           /\ UNCHANGED <<tasks, running, owner, slept, now, made, shadowed, cancelled, log>>

\* action(), without the mutex
Act == /\ worker = "act"
       /\ worker' = "reschedule"
       /\ log' = log \cup {[action |-> slept.action, due |-> slept.until,
                            late |-> slept.action \in cancelled]}
       /\ UNCHANGED <<tasks, running, owner, slept, firedAt, now, made, shadowed, cancelled>>

\* now + std::chrono::seconds { 1 }
OneSecondAfter(at) == at + 1

\* Mutant: the task keeps the time it has just run at.
NotMoved(task) == task

Moved(task) == [task EXCEPT !.nextRun = NextRun(task.cron, OneSecondAfter(firedAt), firedAt + Hours24)]

\* find_if by identifier: the first task that has it.  The one that ran may
\* have been cancelled, and another scheduled, meanwhile; a task that shares
\* the identifier of an earlier one is not found.
IsFound(i) == i \in HasId(slept.id) /\ \A j \in HasId(slept.id) : i <= j

MoveThrows(task) == NextFire(task.cron, OneSecondAfter(firedAt) \div Ticks) = Throws

Reschedule ==
    /\ worker = "reschedule"
    /\ \A i \in DOMAIN tasks : IsFound(i) => ~MoveThrows(tasks[i])
    /\ tasks' = [i \in DOMAIN tasks |-> IF IsFound(i) THEN Moved(tasks[i]) ELSE tasks[i]]
    /\ worker' = "while"
    /\ UNCHANGED <<running, owner, slept, firedAt, now, made, shadowed, cancelled, log>>

\* An exception in a std::thread ends the process.
RescheduleThrows ==
    /\ worker = "reschedule"
    /\ \E i \in DOMAIN tasks : IsFound(i) /\ MoveThrows(tasks[i])
    /\ worker' = "terminated"
    /\ UNCHANGED <<tasks, running, owner, slept, firedAt, now, made, shadowed, cancelled, log>>
-----------------------------------------------------------------------------
Tick == /\ Alive
        /\ now < MaxTime
        /\ now' = now + 1
        /\ UNCHANGED <<tasks, running, worker, owner, slept, firedAt, made, shadowed, cancelled, log>>

Terminated == ~Alive /\ UNCHANGED vars

WorkerStep == \/ WhileRunning \/ NoTask \/ Choose \/ Predicate \/ Block \/ Timeout
              \/ Expired \/ Act \/ Reschedule \/ RescheduleThrows

Next == \/ \E id \in Ids : Cancel(id) \/ \E cron \in Crons : Schedule(id, cron)
        \/ Start \/ Stop \/ StopNotify \/ StopJoin
        \/ WorkerStep
        \/ Tick \/ Terminated

\* Threads that can run do, actions return, and the clock goes on.
Fairness == WF_vars(WorkerStep) /\ WF_vars(StopNotify) /\ WF_vars(StopJoin) /\ WF_vars(Tick)

Spec == Init /\ [][Next]_vars /\ Fairness
-----------------------------------------------------------------------------
(* Properties                                                              *)

\* The variables have their types; a task always has an instant to run at.
TypeOK == /\ tasks \in Seq(Task)
          /\ running \in BOOLEAN
          /\ worker \in WorkerLabels
          /\ owner \in {"ready", "notify", "join"}
          /\ slept \in Sleep
          /\ firedAt \in 0..MaxTime
          /\ now \in StartTime..MaxTime
          /\ made \in 0..MaxTasks
          /\ shadowed \subseteq 1..MaxTasks
          /\ cancelled \subseteq 1..MaxTasks
          /\ log \subseteq [action : 1..MaxTasks, due : Nat, late : BOOLEAN]

\* An action is not run twice for the same instant: when a task has fired,
\* loop() moves it on before it chooses again, although it finds the task by
\* identifier and others may have cancelled and scheduled it meanwhile.  That
\* takes an identifier of its own, or the first use of a shared one: find_if
\* moves the first task of an identifier, whichever of them has fired.
OncePerInstant ==
    [][worker = "act" => \/ slept.action \in shadowed
                         \/ \A e \in log : e.action # slept.action \/ e.due # slept.until]_vars

\* cancel() does not recall a task that the worker sleeps for or is about to
\* run, but that is the only run it lets pass: a cancelled action runs at most
\* once more, and so nothing that loop() keeps can make it run again.
OnceAfterCancel ==
    \A e, f \in log : e.late /\ f.late /\ e.action = f.action => e = f

\* stop() returns: a notification that comes before the worker waits is lost,
\* but no wait is longer than the next run or a minute.
StopEnds == owner = "join" ~> owner = "ready" \/ ~Alive

Overdue(n) == running /\ Alive /\ \E i \in DOMAIN tasks : tasks[i].action = n /\ tasks[i].nextRun <= now

\* A task that find_if does not reach has to run.
UnreachedIsDue == \E i, j \in DOMAIN tasks : i < j /\ tasks[i].id = tasks[j].id /\ tasks[j].nextRun <= now

\* No task stays overdue for ever: whatever else is scheduled, a task whose
\* time has come is run and moved on, or cancelled, unless the scheduler stops
\* or a task behind another one with its identifier has to run too: that one is
\* never moved, and the worker may run it again and again before all others.
OverdueIsServed == \A n \in 1..MaxTasks : Overdue(n) ~> ~Overdue(n) \/ UnreachedIsDue
=============================================================================
