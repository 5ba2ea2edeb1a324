-------------------------- MODULE SchedulerProofs --------------------------
(***************************************************************************)
(* Proofs about the scheduler: which tasks the worker may still run when   *)
(* others schedule, cancel, start and stop between its steps, that no task *)
(* is run twice for an instant, and that the search of nextFire finds the  *)
(* instant it is asked for.                                                *)
(***************************************************************************)
EXTENDS Scheduler, Cron, SequenceTheorems, FiniteSetTheorems, WellFoundedInduction, TLAPS

\* The worker has chosen a task and not run it yet.
Sleeping == {"predicate", "block", "waitUntil", "notified", "expired", "act"}

\* Every call of schedule has an action of its own, which is not used again.
\* Tasks may share an identifier: all but the first of them came when it was
\* in use.
Numbered ==
    /\ \A i \in DOMAIN tasks : tasks[i].action <= made /\ tasks[i].action \notin cancelled
    /\ \A n \in cancelled : n <= made
    /\ \A e \in log : e.action <= made
    /\ \A i, j \in DOMAIN tasks : tasks[i].action = tasks[j].action => i = j
    /\ \A i, j \in DOMAIN tasks : i < j /\ tasks[i].id = tasks[j].id => tasks[j].action \in shadowed

\* What the worker has taken from the task it chose. A task with its
\* identifier may be another one by now.
Chosen ==
    worker \in Sleeping \cup {"reschedule"} =>
      /\ slept.action \in 1 .. made
      /\ \A i \in DOMAIN tasks : tasks[i].action = slept.action => tasks[i].id = slept.id

\* A cancelled action that has run is not chosen again.
Late ==
    /\ \A e \in log : e.late => e.action \in cancelled
    /\ worker \in Sleeping => \A e \in log : e.action = slept.action => ~e.late

\* What has run was due; when a task fires, by the worker's own reading of the
\* clock too.
Past ==
    /\ firedAt <= now
    /\ \A e \in log : e.due <= now
    /\ worker \in {"act", "reschedule"} =>
         slept.until <= firedAt /\ \A e \in log : e.due <= firedAt

\* What a task has yet to run at comes after everything it has run at, but for
\* the one that has just run and is not moved yet, and for those that find_if
\* may never reach.
Ahead ==
    /\ \A i \in DOMAIN tasks, e \in log :
         e.action = tasks[i].action =>
           \/ e.due < tasks[i].nextRun
           \/ worker \in {"reschedule", "terminated"} /\ tasks[i].action = slept.action
           \/ tasks[i].action \in shadowed
    /\ worker \in Sleeping /\ slept.action \notin shadowed =>
         \A e \in log : e.action = slept.action => e.due < slept.until

\* The owner can start the worker again only when it is gone.
Stopped == owner = "ready" /\ ~running => worker \in {"none", "exited", "terminated"}

IInv == TypeOK /\ Numbered /\ Chosen /\ Late /\ Past /\ Ahead /\ Stopped /\ OnceAfterCancel
-----------------------------------------------------------------------------
(* The next instant of a cron expression                                   *)

\* A set of instants that is not empty has a first one, which is what the
\* search of nextFire stops at.
LEMMA FirstInstant ==
    ASSUME NEW T, T \subseteq Nat, T # {}
    PROVE  Min(T) \in T /\ \A t \in T : Min(T) <= t
<1>1. IsWellFoundedOn(OpToRel(<, Nat), Nat)
  BY NatLessThanWellFounded
<1>2. PICK x \in T : \A y \in T : ~(<<y, x>> \in OpToRel(<, Nat))
  BY <1>1, WFMin
<1>3. \A y \in T : ~(y < x)
  BY <1>2 DEF OpToRel
<1>4. \A y \in T : x <= y
  BY <1>3
<1> QED
  BY <1>2, <1>4, Zenon DEF Min

\* nextFire answers with an instant after the one it is asked about.
LEMMA NextFireIsLater ==
    ASSUME NEW cron, NEW asked \in Nat
    PROVE  \/ NextFire(cron, asked) \in {None, Throws}
           \/ NextFire(cron, asked) \in Nat /\ NextFire(cron, asked) > asked
<1> DEFINE found == {t \in Examined(asked) : Matches(cron, t)}
<1>1. found \subseteq Nat /\ \A t \in found : t > asked
  BY CalendarAssumption DEF Examined
<1>2. CASE LastOfHour(asked) /\ HourMatches(cron, LocalTime(asked))
  <2>1. NextFire(cron, asked) = Throws
    BY <1>2 DEF NextFire
  <2> QED
    BY <2>1
<1>3. CASE ~(LastOfHour(asked) /\ HourMatches(cron, LocalTime(asked)))
  <2>1. NextFire(cron, asked) = IF found = {} THEN None ELSE Min(found)
    BY <1>3 DEF NextFire
  <2>2. found # {} => Min(found) \in found
    BY <1>1, FirstInstant
  <2> HIDE DEF found
  <2>3. found # {} => NextFire(cron, asked) \in Nat /\ NextFire(cron, asked) > asked
    BY <2>1, <2>2, <1>1
  <2> QED
    BY <2>1, <2>3
<1> QED
  BY <1>2, <1>3

\* A minute that comes after the minute of a tick begins after that tick.
LEMMA MinuteBegins ==
    ASSUME NEW at \in Nat, NEW t \in Nat, t > at \div Ticks
    PROVE  t * Ticks \in Nat /\ t * Ticks > at
<1>1. Ticks \in Nat \ {0}
  BY SchedulerAssumption
<1>2. PICK q \in Nat : q = at \div Ticks
  BY <1>1
<1>3. at < (q + 1) * Ticks
  BY <1>1, <1>2
<1>4. t * Ticks >= (q + 1) * Ticks
  BY <1>1, <1>2
<1> QED
  BY <1>1, <1>3, <1>4

\* The next run is later than the instant it is computed from.
LEMMA NextRunIsLater ==
    ASSUME NEW cron, NEW at \in Nat, NEW else \in Nat, NextFire(cron, at \div Ticks) # Throws
    PROVE  /\ NextRun(cron, at, else) \in Nat
           /\ (NextRun(cron, at, else) = else \/ NextRun(cron, at, else) > at)
<1>1. at \div Ticks \in Nat
  BY SchedulerAssumption
<1>2. PICK next : next = NextFire(cron, at \div Ticks)
  OBVIOUS
<1>3. next = None \/ (next \in Nat /\ next > at \div Ticks)
  BY <1>1, <1>2, NextFireIsLater
<1>4. next # None => next * Ticks \in Nat /\ next * Ticks > at
  BY <1>3, MinuteBegins
<1> QED
  BY <1>2, <1>4 DEF NextRun

\* A day has ticks.
LEMMA DayHasTicks == Hours24 \in Nat /\ Hours24 > 0
<1>1. Hours \in Nat \ {0} /\ Minutes \in Nat \ {0} /\ Ticks \in Nat \ {0}
  BY CalendarAssumption, SchedulerAssumption
<1>2. Hours * Minutes \in Nat \ {0}
  BY <1>1
<1> QED
  BY <1>1, <1>2 DEF Hours24
-----------------------------------------------------------------------------
(* The vector of tasks                                                     *)

\* What cancel leaves: the tasks with other identifiers, in their order.
LEMMA WithoutId ==
    ASSUME tasks \in Seq(Task), NEW id, NEW left \in Without(id)
    PROVE  /\ left \in Seq(Task) /\ DOMAIN left \subseteq Nat
           /\ \E f \in [DOMAIN left -> Kept(id)] :
                /\ \A k \in DOMAIN left : left[k] = tasks[f[k]]
                /\ \A j, k \in DOMAIN left : j < k => f[j] < f[k]
<1>1. DOMAIN tasks = 1 .. Len(tasks) /\ Len(tasks) \in Nat /\ Kept(id) \subseteq DOMAIN tasks
  BY DEF Kept
<1>2. IsFiniteSet(Kept(id))
  <2>1. IsFiniteSet(1 .. Len(tasks))
    BY <1>1, FS_Interval
  <2> QED
    BY <1>1, <2>1, FS_Subset
<1>3. PICK n \in Nat : n = Cardinality(Kept(id))
  BY <1>2, FS_CardinalityType
<1>4. PICK f \in [1 .. n -> Kept(id)] : /\ \A j, k \in 1 .. n : j < k => f[j] < f[k]
                                        /\ left = [k \in 1 .. n |-> tasks[f[k]]]
  BY <1>3 DEF Without
<1>5. ASSUME NEW k \in 1 .. n PROVE tasks[f[k]] \in Task
  <2>1. f[k] \in 1 .. Len(tasks)
    BY <1>1, <1>4
  <2> QED
    BY <2>1, ElementOfSeq
<1>6. DOMAIN left = 1 .. n /\ left \in Seq(Task)
  BY <1>3, <1>4, <1>5
<1>7. f \in [DOMAIN left -> Kept(id)] /\ DOMAIN left \subseteq Nat
  BY <1>3, <1>4, <1>6
<1>8. \A k \in DOMAIN left : left[k] = tasks[f[k]]
  BY <1>4, <1>6
<1>9. \A j, k \in DOMAIN left : j < k => f[j] < f[k]
  BY <1>4, <1>6
<1> QED
  BY <1>6, <1>7, <1>8, <1>9
-----------------------------------------------------------------------------
(* The inductive invariant                                                 *)

\* The scheduler starts with nothing scheduled and no worker.
LEMMA InitInv == Init => IInv
<1> SUFFICES ASSUME Init PROVE IInv
  OBVIOUS
<1>1. tasks = <<>> /\ DOMAIN tasks = {} /\ log = {} /\ cancelled = {}
  BY DEF Init
<1>2. TypeOK
  <2>1. {Ticks, StartTime, MaxTime, MaxTasks} \subseteq Nat /\ StartTime <= MaxTime
    BY SchedulerAssumption
  <2>2. Awake \in Sleep
    BY <2>1 DEF Awake, Sleep
  <2>3. tasks \in Seq(Task)
    BY <1>1
  <2>4. running \in BOOLEAN /\ worker \in WorkerLabels /\ owner \in {"ready", "notify", "join"}
    BY DEF Init, WorkerLabels
  <2>5. firedAt \in 0 .. MaxTime /\ now \in StartTime .. MaxTime /\ made \in 0 .. MaxTasks
    BY <2>1 DEF Init
  <2>6. slept \in Sleep /\ shadowed \subseteq 1 .. MaxTasks /\ cancelled \subseteq 1 .. MaxTasks
        /\ log \subseteq [action : 1 .. MaxTasks, due : Nat, late : BOOLEAN]
    BY <1>1, <2>2 DEF Init
  <2> QED
    BY <2>3, <2>4, <2>5, <2>6 DEF TypeOK
<1>3. Numbered /\ Late /\ Ahead /\ OnceAfterCancel
  BY <1>1 DEF Numbered, Late, Ahead, OnceAfterCancel
<1>4. Chosen /\ Past /\ Stopped
  BY <1>1, SchedulerAssumption DEF Init, Chosen, Past, Stopped, Sleeping
<1> QED
  BY <1>2, <1>3, <1>4 DEF IInv

\* schedule adds a task whose action has not been seen before.
LEMMA ScheduleStep ==
    ASSUME IInv, NEW id \in Ids, NEW cron \in Crons, Schedule(id, cron)
    PROVE  IInv'
<1> USE SchedulerAssumption DEF IInv, Schedule
<1> DEFINE task == [id |-> id, cron |-> cron, action |-> made + 1,
                    nextRun |-> NextRun(cron, now, now + Hours24)]
<1>1. now \in Nat /\ made \in 0 .. MaxTasks - 1 /\ tasks \in Seq(Task) /\ MaxTasks \in Nat
  BY DEF TypeOK
<1>2. NextRun(cron, now, now + Hours24) \in Nat
  <2>1. now + Hours24 \in Nat /\ NextFire(cron, now \div Ticks) # Throws
    BY <1>1, DayHasTicks
  <2> QED
    BY <1>1, <2>1, NextRunIsLater
<1>3. task \in Task
  BY <1>1, <1>2 DEF Task
<1>4. /\ tasks' = Append(tasks, task) /\ tasks' \in Seq(Task)
      /\ DOMAIN tasks = 1 .. Len(tasks) /\ Len(tasks) \in Nat
      /\ DOMAIN tasks' = 1 .. Len(tasks) + 1
      /\ tasks'[Len(tasks) + 1] = task
      /\ \A i \in DOMAIN tasks : tasks'[i] = tasks[i]
  BY <1>1, <1>3, AppendProperties
<1>5. task.id = id /\ task.action = made + 1 /\ task.nextRun \in Nat
  BY <1>2
<1> HIDE DEF task
<1>6. \A i \in DOMAIN tasks' : i \in DOMAIN tasks \/ (i = Len(tasks) + 1 /\ tasks'[i] = task)
  BY <1>4
<1>7. /\ worker' \in Sleeping <=> worker \in Sleeping
      /\ \A l \in {"act", "reschedule", "terminated"} : worker' = l <=> worker = l
      /\ worker \in {"none", "exited", "terminated"} => worker' = worker
      /\ worker' \in WorkerLabels
  BY DEF Notified, Sleeping, TypeOK, WorkerLabels
<1>8. TypeOK'
  <2>1. shadowed' \subseteq 1 .. MaxTasks /\ made + 1 \in 1 .. MaxTasks
    BY <1>1 DEF TypeOK
  <2> QED
    BY <2>1, <1>1, <1>4, <1>7 DEF TypeOK
<1>9. /\ \A i \in DOMAIN tasks : tasks[i].action \in Nat /\ tasks[i].action <= made
      /\ \A n \in cancelled : n \in Nat /\ n <= made
      /\ \A e \in log : e.action \in Nat /\ e.action <= made
  <2>1. \A i \in 1 .. Len(tasks) : tasks[i] \in Task
    BY <1>1, ElementOfSeq
  <2>2. \A i \in DOMAIN tasks : tasks[i].action \in Nat
    BY <2>1, <1>4 DEF Task
  <2>3. \A e \in log : e.action \in Nat
    BY DEF TypeOK
  <2>4. \A n \in cancelled : n \in Nat
    BY DEF TypeOK
  <2> QED
    BY <2>2, <2>3, <2>4 DEF Numbered
<1>10. Numbered'
  <2>1. \A i \in DOMAIN tasks' : tasks'[i].action <= made' /\ tasks'[i].action \notin cancelled'
    BY <1>1, <1>4, <1>5, <1>6, <1>9 DEF Numbered
  <2>2. (\A n \in cancelled' : n <= made') /\ (\A e \in log' : e.action <= made')
    BY <1>1, <1>9
  <2>3. ASSUME NEW i \in DOMAIN tasks', NEW j \in DOMAIN tasks', tasks'[i].action = tasks'[j].action
        PROVE  i = j
    <3>1. CASE i \in DOMAIN tasks /\ j \in DOMAIN tasks
      BY <2>3, <3>1, <1>4 DEF Numbered
    <3>2. \A m \in DOMAIN tasks : tasks[m].action # made + 1
      BY <1>1, <1>9
    <3> QED
      BY <2>3, <3>1, <3>2, <1>4, <1>5, <1>6
  <2>4. ASSUME NEW i \in DOMAIN tasks', NEW j \in DOMAIN tasks', i < j, tasks'[i].id = tasks'[j].id
        PROVE  tasks'[j].action \in shadowed'
    <3>1. i \in DOMAIN tasks
      BY <2>4, <1>4
    <3>2. CASE j \in DOMAIN tasks
      BY <2>4, <3>1, <3>2, <1>4 DEF Numbered
    <3>3. CASE j = Len(tasks) + 1
      <4>1. i \in HasId(id)
        BY <2>4, <3>1, <3>3, <1>4, <1>5 DEF HasId
      <4> QED
        BY <4>1, <3>3, <1>4, <1>5
    <3> QED
      BY <3>2, <3>3, <1>6
  <2> QED
    BY <2>1, <2>2, <2>3, <2>4 DEF Numbered
<1>11. Chosen'
  BY <1>1, <1>4, <1>5, <1>6, <1>7 DEF Chosen
<1>12. Late' /\ Past' /\ Stopped' /\ OnceAfterCancel'
  BY <1>7 DEF Late, Past, Stopped, OnceAfterCancel
<1>13. Ahead'
  <2>1. \A e \in log : e.action # made + 1
    BY <1>1, <1>9
  <2> QED
    BY <2>1, <1>4, <1>5, <1>6, <1>7 DEF Ahead
<1> QED
  BY <1>8, <1>10, <1>11, <1>12, <1>13

\* cancel takes the tasks of an identifier away, whose actions are not
\* scheduled again; the order of the others stays.
LEMMA CancelStep ==
    ASSUME IInv, NEW id \in Ids, Cancel(id)
    PROVE  IInv'
<1> USE DEF IInv, Cancel
<1>1. /\ tasks' \in Without(id) /\ UNCHANGED <<running, owner, slept, firedAt, now, made, shadowed, log>>
      /\ cancelled' = cancelled \cup {tasks[i].action : i \in HasId(id)}
  OBVIOUS
<1>2. tasks \in Seq(Task) /\ DOMAIN tasks = 1 .. Len(tasks) /\ Len(tasks) \in Nat
  BY DEF TypeOK
<1>3. \A i \in DOMAIN tasks : tasks[i].action \in 1 .. MaxTasks
  <2>1. \A i \in DOMAIN tasks : tasks[i] \in Task
    BY <1>2, ElementOfSeq
  <2> QED
    BY <2>1 DEF Task
<1>4. tasks' \in Seq(Task) /\ DOMAIN tasks' \subseteq Nat
  BY <1>1, <1>2, WithoutId
<1>5. PICK f \in [DOMAIN tasks' -> Kept(id)] : /\ \A k \in DOMAIN tasks' : tasks'[k] = tasks[f[k]]
                                              /\ \A j, k \in DOMAIN tasks' : j < k => f[j] < f[k]
  BY <1>1, <1>2, WithoutId
<1>6. \A k \in DOMAIN tasks' : f[k] \in DOMAIN tasks /\ tasks[f[k]].id # id /\ tasks'[k] = tasks[f[k]]
  BY <1>5 DEF Kept, HasId
<1>7. /\ worker' \in Sleeping <=> worker \in Sleeping
      /\ \A l \in {"act", "reschedule", "terminated"} : worker' = l <=> worker = l
      /\ worker \in {"none", "exited", "terminated"} => worker' = worker
      /\ worker' \in WorkerLabels
  BY DEF Notified, Sleeping, TypeOK, WorkerLabels
<1>8. cancelled' \subseteq 1 .. MaxTasks
  BY <1>1, <1>3 DEF TypeOK, HasId
<1>9. TypeOK'
  BY <1>1, <1>4, <1>7, <1>8 DEF TypeOK
<1>10. Numbered'
  <2>1. \A i \in DOMAIN tasks' : tasks'[i].action <= made'
    BY <1>1, <1>6 DEF Numbered
  <2>2. ASSUME NEW k \in DOMAIN tasks', tasks'[k].action \in cancelled' PROVE FALSE
    <3>1. PICK m \in HasId(id) : tasks'[k].action = tasks[m].action
      BY <2>2, <1>1, <1>6 DEF Numbered
    <3>2. m = f[k]
      BY <3>1, <1>6 DEF Numbered, HasId
    <3> QED
      BY <3>2, <1>6 DEF HasId
  <2>3. (\A n \in cancelled' : n <= made') /\ (\A e \in log' : e.action <= made')
    BY <1>1 DEF Numbered, HasId
  <2>4. ASSUME NEW i \in DOMAIN tasks', NEW j \in DOMAIN tasks', tasks'[i].action = tasks'[j].action
        PROVE  i = j
    <3>1. f[i] = f[j]
      BY <2>4, <1>6 DEF Numbered
    <3>2. f[i] \in Nat /\ i \in Nat /\ j \in Nat
      BY <1>2, <1>4, <1>6
    <3>3. ~(i < j) /\ ~(j < i)
      BY <3>1, <3>2, <1>5
    <3> QED
      BY <3>2, <3>3
  <2>5. ASSUME NEW i \in DOMAIN tasks', NEW j \in DOMAIN tasks', i < j, tasks'[i].id = tasks'[j].id
        PROVE  tasks'[j].action \in shadowed'
    <3>1. f[i] < f[j] /\ f[i] \in DOMAIN tasks /\ f[j] \in DOMAIN tasks /\ tasks[f[i]].id = tasks[f[j]].id
      BY <2>5, <1>5, <1>6
    <3> QED
      BY <3>1, <1>1, <1>6 DEF Numbered
  <2> QED
    BY <2>1, <2>2, <2>3, <2>4, <2>5 DEF Numbered
<1>11. Chosen'
  BY <1>1, <1>6, <1>7 DEF Chosen
<1>12. Late' /\ Past' /\ Stopped' /\ OnceAfterCancel'
  BY <1>1, <1>7 DEF Late, Past, Stopped, OnceAfterCancel
<1>13. Ahead'
  BY <1>1, <1>6, <1>7 DEF Ahead
<1> QED
  BY <1>9, <1>10, <1>11, <1>12, <1>13

\* The owner's calls change the worker's place only: stop wakes it, and start
\* makes a new one when the last is gone.
LEMMA OwnerStep ==
    ASSUME IInv, Start \/ Stop \/ StopNotify \/ StopJoin
    PROVE  IInv'
<1> USE DEF IInv
<1>1. /\ UNCHANGED <<tasks, slept, firedAt, now, made, shadowed, cancelled, log>>
      /\ worker' \in {worker, "while", "notified"}
      /\ worker' = "notified" => worker \in Sleeping
      /\ worker' = "while" => worker # "reschedule" /\ worker # "terminated"
      /\ worker' \in WorkerLabels
      /\ running' \in BOOLEAN /\ owner' \in {"ready", "notify", "join"}
      /\ Stopped'
  BY DEF Start, Stop, StopNotify, StopJoin, Notified, Alive, TypeOK, Sleeping, Stopped, WorkerLabels
<1>2. /\ worker' \in Sleeping => worker \in Sleeping
      /\ \A l \in {"act", "reschedule"} : worker' = l => worker = l
      /\ worker \in {"reschedule", "terminated"} => worker' = worker
  BY <1>1 DEF Sleeping
<1>3. TypeOK'
  BY <1>1 DEF TypeOK
<1>4. Numbered' /\ OnceAfterCancel'
  BY <1>1 DEF Numbered, OnceAfterCancel
<1>5. Chosen' /\ Late' /\ Past' /\ Ahead'
  BY <1>1, <1>2 DEF Chosen, Late, Past, Ahead
<1> QED
  BY <1>1, <1>3, <1>4, <1>5

\* The worker chooses the task to run next: it is not cancelled, so it has not
\* run late, and what it runs at lies ahead.
LEMMA ChooseStep ==
    ASSUME IInv, Choose
    PROVE  IInv'
<1> USE DEF IInv, Choose
<1>1. PICK i \in DOMAIN tasks :
        slept' = [id |-> tasks[i].id, action |-> tasks[i].action, until |-> tasks[i].nextRun]
  OBVIOUS
<1>2. tasks[i] \in Task
  BY ElementOfSeq DEF TypeOK
<1>3. slept' \in Sleep
  BY <1>1, <1>2 DEF Task, Sleep
<1>4. TypeOK'
  BY <1>3 DEF TypeOK, WorkerLabels
<1>5. Numbered' /\ OnceAfterCancel' /\ Stopped'
  BY DEF Numbered, OnceAfterCancel, Stopped
<1>6. Chosen'
  BY <1>1, <1>2 DEF Chosen, Numbered, Task
<1>7. Late'
  BY <1>1 DEF Late, Numbered
<1>8. Past'
  BY DEF Past
<1>9. Ahead'
  BY <1>1 DEF Ahead
<1> QED
  BY <1>4, <1>5, <1>6, <1>7, <1>8, <1>9

\* The steps that wait, wake and look at the flag and the clock.
LEMMA WaitStep ==
    ASSUME IInv, WhileRunning \/ NoTask \/ Predicate \/ Block \/ Timeout \/ Expired
    PROVE  IInv'
<1> USE SchedulerAssumption DEF IInv
<1>1. /\ UNCHANGED <<tasks, running, owner, now, made, shadowed, cancelled, log>>
      /\ worker \notin {"none", "exited", "reschedule", "terminated", "act"}
  BY DEF WhileRunning, NoTask, Predicate, Block, Timeout, Expired
<1>2. /\ worker' \in WorkerLabels \ {"none", "reschedule", "terminated"}
      /\ worker' \in Sleeping => worker \in Sleeping /\ slept' = slept
      /\ worker' = "act" => now >= slept.until /\ firedAt' = now
      /\ firedAt' \in {0, firedAt, now}
  BY DEF WhileRunning, NoTask, Predicate, Block, Timeout, Expired, Sleeping, WorkerLabels
<1>3. slept' \in Sleep
  <2>1. MaxTasks \in Nat /\ now \in Nat /\ Ticks \in Nat
    BY DEF TypeOK
  <2>2. Awake \in Sleep /\ [Awake EXCEPT !.until = now + OneMinute] \in Sleep
    BY <2>1 DEF Awake, Sleep, OneMinute
  <2> QED
    BY <2>2 DEF WhileRunning, NoTask, Predicate, Block, Timeout, Expired, TypeOK
<1>4. TypeOK'
  BY <1>1, <1>2, <1>3 DEF TypeOK
<1>5. Numbered' /\ OnceAfterCancel' /\ Stopped'
  BY <1>1 DEF Numbered, OnceAfterCancel, Stopped
<1>6. Chosen' /\ Late'
  BY <1>1, <1>2 DEF Chosen, Late
<1>7. Past'
  BY <1>1, <1>2 DEF Past, TypeOK, Sleeping, Sleep
<1>8. Ahead'
  BY <1>1, <1>2 DEF Ahead
<1> QED
  BY <1>4, <1>5, <1>6, <1>7, <1>8

\* The action runs, once more at most when it is cancelled.
LEMMA ActStep ==
    ASSUME IInv, Act
    PROVE  IInv'
<1> USE DEF IInv, Act
<1> DEFINE run == [action |-> slept.action, due |-> slept.until, late |-> slept.action \in cancelled]
<1>1. /\ worker = "act" /\ worker \in Sleeping /\ worker' = "reschedule" /\ worker' \notin Sleeping
      /\ UNCHANGED <<tasks, running, owner, slept, firedAt, now, made, shadowed, cancelled>>
      /\ log' = log \cup {run}
  BY DEF Sleeping
<1>2. /\ slept.until \in Nat /\ slept.action \in 1 .. MaxTasks
      /\ slept.action <= made /\ slept.action >= 1
      /\ \A i \in DOMAIN tasks : tasks[i].action = slept.action => tasks[i].id = slept.id
  BY <1>1 DEF Chosen, TypeOK, Sleep
<1>3. /\ run.action = slept.action /\ run.due = slept.until
      /\ run.late <=> slept.action \in cancelled
      /\ run \in [action : 1 .. MaxTasks, due : Nat, late : BOOLEAN]
  <2>1. PICK late \in BOOLEAN : late <=> slept.action \in cancelled
    OBVIOUS
  <2>2. run = [action |-> slept.action, due |-> slept.until, late |-> late]
    BY <2>1, Zenon
  <2> HIDE DEF run
  <2> QED
    BY <2>1, <2>2, <1>2
<1> HIDE DEF run
<1>4. TypeOK'
  BY <1>1, <1>3 DEF TypeOK, WorkerLabels
<1>5. Numbered'
  BY <1>1, <1>2, <1>3 DEF Numbered
<1>6. Chosen'
  BY <1>1 DEF Chosen
<1>7. Late'
  BY <1>1, <1>3 DEF Late
<1>8. Past'
  BY <1>1, <1>2, <1>3 DEF Past, TypeOK
<1>9. Ahead'
  BY <1>1, <1>2, <1>3 DEF Ahead
<1>10. Stopped'
  BY <1>1 DEF Stopped
<1>11. OnceAfterCancel'
  BY <1>1, <1>3 DEF OnceAfterCancel, Late
<1> QED
  BY <1>4, <1>5, <1>6, <1>7, <1>8, <1>9, <1>10, <1>11

\* The first task that has the identifier now is moved beyond the clock that was
\* read, and so beyond everything that has run.  It is the one that has just
\* run, unless that one is cancelled or shares an older identifier.
LEMMA RescheduleStep ==
    ASSUME IInv, Reschedule
    PROVE  IInv'
<1> USE DEF IInv, Reschedule
<1>1. /\ worker = "reschedule" /\ worker' = "while"
      /\ UNCHANGED <<running, owner, slept, firedAt, now, made, shadowed, cancelled, log>>
      /\ tasks \in Seq(Task) /\ DOMAIN tasks = 1 .. Len(tasks) /\ Len(tasks) \in Nat
      /\ DOMAIN tasks' = DOMAIN tasks
      /\ \A i \in DOMAIN tasks :
           tasks'[i] = IF IsFound(i) THEN Moved(tasks[i]) ELSE tasks[i]
  BY DEF TypeOK
<1>2. firedAt \in Nat /\ firedAt + 1 \in Nat /\ firedAt + Hours24 \in Nat /\ firedAt + Hours24 > firedAt
  BY DayHasTicks, SchedulerAssumption DEF TypeOK
<1>3. ASSUME NEW i \in DOMAIN tasks
      PROVE  /\ tasks[i] \in Task /\ tasks'[i] \in Task
             /\ tasks'[i].id = tasks[i].id /\ tasks'[i].action = tasks[i].action
             /\ ~IsFound(i) => tasks'[i] = tasks[i]
             /\ IsFound(i) => tasks'[i].nextRun \in Nat /\ tasks'[i].nextRun > firedAt
  <2>1. tasks[i] \in Task
    BY <1>1, ElementOfSeq
  <2>2. CASE ~IsFound(i)
    BY <2>1, <2>2, <1>1
  <2>3. CASE IsFound(i)
    <3>1. PICK next : next = NextRun(tasks[i].cron, OneSecondAfter(firedAt), firedAt + Hours24)
      OBVIOUS
    <3>2. NextFire(tasks[i].cron, OneSecondAfter(firedAt) \div Ticks) # Throws
      BY <2>3 DEF MoveThrows
    <3>3. next \in Nat /\ (next = firedAt + Hours24 \/ next > firedAt + 1)
      BY <3>1, <3>2, <1>2, NextRunIsLater DEF OneSecondAfter
    <3>4. tasks'[i] = [tasks[i] EXCEPT !.nextRun = next]
      BY <2>3, <3>1, <1>1 DEF Moved
    <3> QED
      BY <2>1, <2>3, <3>3, <3>4, <1>2 DEF Task
  <2> QED
    BY <2>2, <2>3
<1>4. tasks' \in Seq(Task)
  BY <1>1, <1>3
<1>5. TypeOK'
  BY <1>1, <1>4 DEF TypeOK, WorkerLabels
<1>6. Numbered'
  BY <1>1, <1>3 DEF Numbered
<1>7. Chosen' /\ Late' /\ Past'
  BY <1>1 DEF Chosen, Late, Past, Sleeping
<1>8. Ahead'
  <2>1. \A e \in log : e.due \in Nat /\ e.due <= firedAt
    BY <1>1 DEF Past, TypeOK
  <2>2. ASSUME NEW i \in DOMAIN tasks, tasks[i].action = slept.action, tasks[i].action \notin shadowed
        PROVE  IsFound(i)
    <3>1. i \in HasId(slept.id)
      BY <2>2, <1>1 DEF Chosen, HasId
    <3>2. ASSUME NEW j \in HasId(slept.id) PROVE ~(j < i)
      BY <2>2, <3>1 DEF Numbered, HasId
    <3> QED
      BY <3>1, <3>2, <1>1 DEF IsFound, HasId
  <2>3. ASSUME NEW i \in DOMAIN tasks, NEW e \in log, e.action = tasks[i].action,
               tasks[i].action \notin shadowed
        PROVE  e.due < tasks'[i].nextRun
    <3>1. CASE IsFound(i)
      BY <3>1, <2>1, <1>2, <1>3
    <3>2. CASE ~IsFound(i)
      BY <2>2, <2>3, <3>2, <1>3 DEF Ahead
    <3> QED
      BY <3>1, <3>2
  <2> QED
    BY <2>3, <1>1, <1>3 DEF Ahead, Sleeping
<1>9. Stopped' /\ OnceAfterCancel'
  BY <1>1 DEF Stopped, OnceAfterCancel
<1> QED
  BY <1>5, <1>6, <1>7, <1>8, <1>9

\* Every step of the scheduler, its clients, its owner and the clock keeps it.
LEMMA NextInv == IInv /\ [Next]_vars => IInv'
<1> SUFFICES ASSUME IInv, [Next]_vars PROVE IInv'
  OBVIOUS
<1>1. ASSUME NEW id \in Ids, Cancel(id) PROVE IInv'
  BY <1>1, CancelStep
<1>2. ASSUME NEW id \in Ids, NEW cron \in Crons, Schedule(id, cron) PROVE IInv'
  BY <1>2, ScheduleStep
<1>3. CASE Start \/ Stop \/ StopNotify \/ StopJoin
  BY <1>3, OwnerStep
<1>4. CASE Choose
  BY <1>4, ChooseStep
<1>5. CASE WhileRunning \/ NoTask \/ Predicate \/ Block \/ Timeout \/ Expired
  BY <1>5, WaitStep
<1>6. CASE Act
  BY <1>6, ActStep
<1>7. CASE Reschedule
  BY <1>7, RescheduleStep
<1>8. CASE RescheduleThrows
  <2> USE <1>8 DEF RescheduleThrows, IInv
  <2>1. TypeOK'
    BY DEF TypeOK, WorkerLabels
  <2>2. Numbered' /\ OnceAfterCancel' /\ Stopped'
    BY DEF Numbered, OnceAfterCancel, Stopped
  <2>3. Chosen' /\ Late' /\ Past' /\ Ahead'
    BY DEF Chosen, Late, Past, Ahead, Sleeping
  <2> QED
    BY <2>1, <2>2, <2>3
<1>9. CASE Tick
  <2> USE <1>9 DEF Tick, IInv
  <2>1. TypeOK'
    BY SchedulerAssumption DEF TypeOK
  <2>2. Numbered' /\ OnceAfterCancel' /\ Stopped' /\ Chosen' /\ Late' /\ Ahead'
    BY DEF Numbered, OnceAfterCancel, Stopped, Chosen, Late, Ahead
  <2>3. Past'
    BY SchedulerAssumption DEF Past, TypeOK
  <2> QED
    BY <2>1, <2>2, <2>3
<1>10. CASE UNCHANGED vars
  <2> USE <1>10 DEF vars, IInv
  <2>1. TypeOK' /\ Numbered'
    BY DEF TypeOK, Numbered
  <2>2. OnceAfterCancel' /\ Stopped' /\ Chosen' /\ Late' /\ Past' /\ Ahead'
    BY DEF OnceAfterCancel, Stopped, Chosen, Late, Past, Ahead
  <2> QED
    BY <2>1, <2>2
<1> QED
  BY <1>1, <1>2, <1>3, <1>4, <1>5, <1>6, <1>7, <1>8, <1>9, <1>10 DEF Next, WorkerStep, Terminated

\* The scheduler's variables have their types: a task always has an instant to
\* run at, also after nextFire has found none within its bound.
THEOREM SchedulerIsTyped == Spec => []TypeOK
<1>1. IInv => TypeOK
  BY DEF IInv
<1> QED  BY <1>1, InitInv, NextInv, PTL DEF Spec

\* A cancelled action runs at most once more, whatever the tasks, the expressions
\* and the order in which clients, owner and worker take their steps.
THEOREM CancelIsRespected == Spec => []OnceAfterCancel
<1>1. IInv => OnceAfterCancel
  BY DEF IInv
<1> QED  BY <1>1, InitInv, NextInv, PTL DEF Spec

\* loop() does not run an action twice for the same instant, unless it was
\* scheduled under an identifier that another task had.
THEOREM InstantsRunOnce == Spec => OncePerInstant
<1>1. IInv /\ [Next]_vars =>
        [worker = "act" => \/ slept.action \in shadowed
                           \/ \A e \in log : e.action # slept.action \/ e.due # slept.until]_vars
  <2> SUFFICES ASSUME IInv, worker = "act", slept.action \notin shadowed,
                      NEW e \in log, e.action = slept.action
               PROVE  e.due # slept.until
    OBVIOUS
  <2>1. e.due < slept.until
    BY DEF IInv, Ahead, Sleeping
  <2>2. e.due \in Nat /\ slept.until \in Nat
    BY DEF IInv, TypeOK, Sleep
  <2> QED
    BY <2>1, <2>2
<1> QED  BY <1>1, InitInv, NextInv, PTL DEF Spec, OncePerInstant

-----------------------------------------------------------------------------
(* The search of nextFire                                                  *)

\* Only the hour of a struct tm decides whether its hour matches.
LEMMA SameHour ==
    ASSUME NEW e, NEW a, NEW b, a.hour = b.hour
    PROVE  HourMatches(e, a) <=> HourMatches(e, b)
BY DEF HourMatches, tm_mon, tm_mday, tm_wday, tm_hour, DayOfYear, Day

\* An instant is its hours and minutes,
LEMMA Divided ==
    ASSUME NEW t \in Nat
    PROVE  /\ t \div Minutes \in Nat /\ t % Minutes \in 0 .. Minutes - 1
           /\ t = (t \div Minutes) * Minutes + (t % Minutes)
<1>1. Minutes \in Nat \ {0}
  BY CalendarAssumption
<1> QED
  BY <1>1

\* in one way.
LEMMA DividedOnce ==
    ASSUME NEW h \in Nat, NEW m \in 0 .. Minutes - 1
    PROVE  (h * Minutes + m) \div Minutes = h /\ (h * Minutes + m) % Minutes = m
<1>1. Minutes \in Nat \ {0}
  BY CalendarAssumption
<1> QED
  BY <1>1

\* So the struct tm of an instant is that of no other,
LEMMA LocalTimes ==
    ASSUME NEW t \in Nat
    PROVE  /\ Mktime(LocalTime(t)) = t /\ LocalTime(t).hour = t \div Minutes
           /\ LocalTime(t).min = t % Minutes /\ LocalTime(t).min \in 0 .. Minutes - 1
           /\ ~LastOfHour(t) => [LocalTime(t) EXCEPT !.min = @ + 1] = LocalTime(t + 1)
           /\ Advance(LocalTime(t)) = LocalTime(t + 1)
<1>1. Minutes \in Nat \ {0}
  BY CalendarAssumption
<1>2. PICK h \in Nat, m \in 0 .. Minutes - 1 : h = t \div Minutes /\ m = t % Minutes /\ t = h * Minutes + m
  BY Divided
<1>3. LocalTime(t) = [hour |-> h, min |-> m]
  BY <1>2 DEF LocalTime
<1>4. [LocalTime(t) EXCEPT !.min = @ + 1] = [hour |-> h, min |-> m + 1]
  BY <1>3
<1>5. Advance(LocalTime(t)) = LocalTime(t + 1)
  <2>1. h * Minutes + (m + 1) = t + 1
    BY <1>1, <1>2
  <2> QED
    BY <1>4, <2>1 DEF Advance, Normalised, Mktime
<1>6. ASSUME ~LastOfHour(t) PROVE [hour |-> h, min |-> m + 1] = LocalTime(t + 1)
  <2>1. m + 1 \in 0 .. Minutes - 1
    BY <1>1, <1>2, <1>6 DEF LastOfHour
  <2>2. h * Minutes + (m + 1) = t + 1
    BY <1>1, <1>2
  <2> QED
    BY <2>1, <2>2, DividedOnce DEF LocalTime
<1> QED
  BY <1>2, <1>3, <1>4, <1>5, <1>6 DEF Mktime

\* The struct tm the loop looks at: that of the instant, but for the first
\* one of a call in the last minute of an hour, which mktime has not seen.
Looked == IF attempt = 0 /\ LastOfHour(from)
          THEN local = [hour |-> from \div Minutes, min |-> Minutes]
          ELSE local = LocalTime(from + 1 + attempt)

\* Nothing before it matches.
Searched ==
    /\ fire = None /\ Looked
    /\ attempt > 0 /\ LastOfHour(from) => ~HourMatches(expr, LocalTime(from))
    /\ \A t \in Examined(from) : t <= from + attempt => ~Matches(expr, t)

\* The loop answers what CronTime says of it, which is what the scheduler gets.
Answers == status \in {"thrown", "answered"} => fire = NextFire(expr, from)

CronInv ==
    /\ from \in Nat /\ attempt \in 0 .. MaxAttempts
    /\ status \in {"text", "parsed", "refused", "search", "thrown", "answered"}
    /\ status \in {"text", "parsed"} => attempt = 0 /\ fire = None
    /\ status \in {"parsed", "search"} => \A m \in expr.minutes : m < Minutes
    /\ status = "search" => Searched
    /\ Answers /\ (status = "answered" => fire # Throws)

\* What the search begins with.
LEMMA StartKeeps ==
    ASSUME CronInv, StartSearch
    PROVE  CronInv'
<1>1. /\ status = "parsed" /\ status' = "search" /\ UNCHANGED <<expr, from, attempt, fire>>
      /\ local' = [LocalTime(from) EXCEPT !.min = @ + 1] /\ from \in Nat /\ attempt = 0 /\ fire = None
  BY DEF StartSearch, CronInv
<1>2. Looked'
  <2>1. CASE LastOfHour(from)
    <3>1. from % Minutes = Minutes - 1 /\ Minutes \in Nat \ {0}
      BY <2>1, CalendarAssumption DEF LastOfHour
    <3>2. local' = [hour |-> from \div Minutes, min |-> Minutes]
      BY <1>1, <3>1 DEF LocalTime
    <3> QED
      BY <1>1, <2>1, <3>2 DEF Looked, LastOfHour
  <2>2. CASE ~LastOfHour(from)
    <3>1. local' = LocalTime(from + 1)
      BY <1>1, <2>2, LocalTimes
    <3>2. from + 1 + 0 = from + 1
      BY <1>1
    <3> QED
      BY <1>1, <2>2, <3>1, <3>2 DEF Looked, LastOfHour, LocalTime
  <2> QED
    BY <2>1, <2>2
<1>3. \A t \in Examined(from) : t > from
  BY <1>1 DEF Examined
<1>4. \A t \in Examined(from) : ~(t <= from + 0)
  BY <1>1, <1>3 DEF Examined
<1>5. Searched'
  BY <1>1, <1>2, <1>4 DEF Searched, Examined, LastOfHour
<1> QED
  BY <1>1, <1>5 DEF CronInv, Answers

\* At the unnormalised minute the search throws, if the hour matches.
LEMMA ThrowKeeps ==
    ASSUME CronInv, Throw
    PROVE  CronInv'
<1>1. /\ status = "search" /\ status' = "thrown" /\ UNCHANGED <<expr, from, attempt>>
      /\ HourMatches(expr, local) /\ local.min >= Minutes /\ fire' = Throws
      /\ from \in Nat /\ attempt \in Nat /\ Looked
  BY DEF Throw, CronInv, Searched
<1>2. attempt = 0 /\ LastOfHour(from)
  <2> SUFFICES ASSUME ~(attempt = 0 /\ LastOfHour(from)) PROVE FALSE
    OBVIOUS
  <2>1. PICK t \in Nat : t = from + 1 + attempt
    BY <1>1
  <2>2. local = LocalTime(t)
    BY <1>1, <2>1 DEF Looked
  <2>3. local.min \in 0 .. Minutes - 1
    BY <2>2, LocalTimes
  <2> QED
    BY <1>1, <2>3, CalendarAssumption
<1>3. HourMatches(expr, LocalTime(from))
  <2>1. local.hour = LocalTime(from).hour
    BY <1>1, <1>2 DEF Looked, LocalTime
  <2> QED
    BY <1>1, <2>1, SameHour
<1>4. NextFire(expr, from) = Throws
  BY <1>2, <1>3 DEF NextFire
<1> QED
  BY <1>1, <1>4 DEF CronInv, Answers

\* A minute that matches is the first.
LEMMA FoundKeeps ==
    ASSUME CronInv, Found
    PROVE  CronInv'
<1>1. /\ status = "search" /\ status' = "answered" /\ UNCHANGED <<expr, from, attempt>>
      /\ HourMatches(expr, local) /\ local.min \in expr.minutes /\ fire' = Mktime(local)
      /\ from \in Nat /\ attempt \in Nat /\ attempt < MaxAttempts /\ Searched
      /\ local.min < Minutes
  BY DEF Found, CronInv
<1>2. PICK t \in Nat : t = from + 1 + attempt
  BY <1>1
<1>3. ~(attempt = 0 /\ LastOfHour(from)) /\ local = LocalTime(t)
  BY <1>1, <1>2, CalendarAssumption DEF Searched, Looked
<1>4. Matches(expr, t) /\ fire' = t
  <2>1. Mktime(LocalTime(t)) = t /\ LocalTime(t).min = t % Minutes
    BY LocalTimes
  <2> QED
    BY <1>1, <1>3, <2>1 DEF Matches
<1>5. t \in Examined(from) /\ Examined(from) \subseteq Nat
  <2>1. MaxAttempts \in Nat
    BY CalendarAssumption
  <2>2. CASE LastOfHour(from)
    BY <1>1, <1>2, <1>3, <2>1, <2>2 DEF Examined
  <2>3. CASE ~LastOfHour(from)
    BY <1>1, <1>2, <2>1, <2>3 DEF Examined
  <2> QED
    BY <2>2, <2>3
<1>6. ~(LastOfHour(from) /\ HourMatches(expr, LocalTime(from)))
  <2>1. LastOfHour(from) => attempt > 0
    BY <1>1, <1>3
  <2> QED
    BY <1>1, <2>1 DEF Searched
<1>7. PICK found \in SUBSET Nat : found = {u \in Examined(from) : Matches(expr, u)}
  BY <1>5
<1>8. t \in found /\ \A u \in found : t <= u
  BY <1>1, <1>2, <1>4, <1>5, <1>7 DEF Searched
<1>9. Min(found) = t
  <2>1. Min(found) \in found /\ \A u \in found : Min(found) <= u
    BY <1>8, Zenon DEF Min
  <2>2. PICK m \in Nat : m = Min(found)
    BY <1>7, <2>1
  <2> QED
    BY <1>8, <2>1, <2>2
<1>10. NextFire(expr, from) = t
  BY <1>6, <1>7, <1>8, <1>9 DEF NextFire
<1> QED
  BY <1>1, <1>2, <1>4, <1>10 DEF CronInv, Answers, Throws

\* One that does not is passed, and the next is a minute later.
LEMMA SkipKeeps ==
    ASSUME CronInv, Skip
    PROVE  CronInv'
<1>1. /\ status = "search" /\ UNCHANGED <<expr, from, status, fire>>
      /\ attempt' = attempt + 1 /\ local' = Advance(local)
      /\ ~(HourMatches(expr, local) /\ local.min >= Minutes)
      /\ ~(HourMatches(expr, local) /\ local.min \in expr.minutes)
      /\ from \in Nat /\ attempt \in Nat /\ attempt < MaxAttempts /\ Searched
  BY DEF Skip, CronInv
<1>2. PICK t \in Nat : t = from + 1 + attempt
  BY <1>1
<1>3. from + 1 + (attempt + 1) = t + 1 /\ from + (attempt + 1) = t /\ attempt + 1 # 0
      /\ attempt + 1 \in 0 .. MaxAttempts
  BY <1>1, <1>2, CalendarAssumption
<1>4. CASE attempt = 0 /\ LastOfHour(from)
  <2>1. PICK h \in Nat : h = from \div Minutes /\ local = [hour |-> h, min |-> Minutes]
    BY <1>1, <1>4, Divided DEF Searched, Looked
  <2>2. h * Minutes + (Minutes + 1) = t + 1 /\ Minutes \in Nat
    <3>1. from = h * Minutes + (Minutes - 1) /\ Minutes \in Nat
      BY <1>1, <1>4, <2>1, Divided, CalendarAssumption DEF LastOfHour
    <3> QED
      BY <1>1, <1>2, <1>4, <3>1
  <2>3. local' = LocalTime(t + 1)
    <3>1. [local EXCEPT !.min = @ + 1] = [hour |-> h, min |-> Minutes + 1]
      BY <2>1
    <3> QED
      BY <1>1, <2>2, <3>1 DEF Advance, Normalised, Mktime
  <2>4. Looked'
    BY <1>1, <1>3, <2>3 DEF Looked, LocalTime
  <2>5. ~HourMatches(expr, LocalTime(from))
    <3>1. local.hour = LocalTime(from).hour /\ local.min >= Minutes
      BY <1>1, <2>1, <2>2 DEF LocalTime
    <3> QED
      BY <1>1, <3>1, SameHour
  <2>6. \A u \in Examined(from) : ~(u <= t)
    BY <1>1, <1>2, <1>4 DEF Examined
  <2>7. Searched'
    BY <1>1, <1>3, <2>4, <2>5, <2>6 DEF Searched, Examined, LastOfHour, LocalTime
  <2> QED
    BY <1>1, <1>3, <2>7 DEF CronInv, Answers
<1>5. CASE ~(attempt = 0 /\ LastOfHour(from))
  <2>1. local = LocalTime(t)
    BY <1>1, <1>2, <1>5 DEF Searched, Looked
  <2>2. local' = LocalTime(t + 1)
    BY <1>1, <2>1, LocalTimes
  <2>3. Looked'
    BY <1>1, <1>3, <2>2 DEF Looked, LocalTime
  <2>4. ~Matches(expr, t)
    BY <1>1, <2>1, LocalTimes DEF Matches
  <2>5. \A u \in Examined(from) : u <= t => u <= from + attempt \/ u = t
    BY <1>1, <1>2 DEF Examined
  <2>6. \A u \in Examined(from) : u <= t => ~Matches(expr, u)
    BY <1>1, <2>4, <2>5 DEF Searched
  <2>7. LastOfHour(from) => ~HourMatches(expr, LocalTime(from))
    BY <1>1, <1>5 DEF Searched
  <2>8. Searched'
    BY <1>1, <1>3, <2>3, <2>6, <2>7 DEF Searched
  <2> QED
    BY <1>1, <1>3, <2>8 DEF CronInv, Answers
<1> QED
  BY <1>4, <1>5

\* After the last attempt nothing that was examined matches.
LEMMA GiveUpKeeps ==
    ASSUME CronInv, GiveUp
    PROVE  CronInv'
<1>1. /\ status = "search" /\ status' = "answered" /\ UNCHANGED <<expr, from, attempt, fire>>
      /\ attempt = MaxAttempts /\ from \in Nat /\ Searched /\ MaxAttempts \in Nat \ {0}
  BY CalendarAssumption DEF GiveUp, CronInv
<1>2. \A t \in Examined(from) : t <= from + MaxAttempts
  BY <1>1 DEF Examined
<1>3. {t \in Examined(from) : Matches(expr, t)} = {}
  BY <1>1, <1>2 DEF Searched
<1>4. ~(LastOfHour(from) /\ HourMatches(expr, LocalTime(from)))
  BY <1>1 DEF Searched
<1>5. NextFire(expr, from) = None
  BY <1>3, <1>4 DEF NextFire
<1> QED
  BY <1>1, <1>5 DEF CronInv, Answers, Searched, None, Throws

\* Every step of a search keeps it.
LEMMA CronInvariant == CronSpec => []CronInv
<1>1. CronInit => CronInv
  BY FromAssumption, CalendarAssumption DEF CronInit, CronInv, Answers
<1>2. CronInv /\ [CronNext]_cronVars => CronInv'
  <2> SUFFICES ASSUME CronInv, [CronNext]_cronVars PROVE CronInv'
    OBVIOUS
  <2>1. CASE Parse
    <3>1. /\ status = "text" /\ expr' = ParseCron(fields) /\ UNCHANGED <<from, attempt, fire>>
          /\ status' = IF expr' = InvalidArgument THEN "refused" ELSE "parsed"
      BY <2>1 DEF Parse
    <3>2. status' = "parsed" => \A m \in expr'.minutes : m < Minutes
      BY <3>1 DEF ParseCron, FillField
    <3> QED
      BY <3>1, <3>2 DEF CronInv, Answers
  <2>2. CASE UNCHANGED cronVars
    BY <2>2 DEF CronInv, Answers, Searched, Looked, cronVars, Examined, LastOfHour, LocalTime
  <2> QED
    BY <2>1, <2>2, StartKeeps, ThrowKeeps, FoundKeeps, SkipKeeps, GiveUpKeeps DEF CronNext, Done
<1> QED
  BY <1>1, <1>2, PTL DEF CronSpec

\* The loop of nextFire computes the function that the scheduler's model calls,
\* for every calendar, expression and instant.
THEOREM LoopIsNextFire == CronSpec => []Answers
<1>1. CronInv => Answers
  BY DEF CronInv
<1> QED
  BY <1>1, CronInvariant, PTL

\* A search that answers has not thrown: it has found the first instant it
\* looked at that matches, or none.
LEMMA FirstExamined ==
    ASSUME CronInv, status = "answered"
    PROVE  /\ fire = None \/ (fire \in Examined(from) /\ Matches(expr, fire))
           /\ \A t \in Examined(from) : Matches(expr, t) => fire # None /\ fire <= t
<1>1. from \in Nat /\ fire = NextFire(expr, from) /\ fire # Throws
  BY DEF CronInv, Answers
<1>2. Examined(from) \subseteq Nat
  BY <1>1, CalendarAssumption DEF Examined
<1>3. PICK found \in SUBSET Nat : found = {t \in Examined(from) : Matches(expr, t)}
  BY <1>2
<1>4. fire = IF found = {} THEN None ELSE Min(found)
  BY <1>1, <1>3 DEF NextFire
<1>5. found # {} => Min(found) \in found /\ \A t \in found : Min(found) <= t
  BY <1>3, FirstInstant
<1>6. CASE found = {}
  BY <1>3, <1>4, <1>6
<1>7. CASE found # {}
  <2>1. fire \in found /\ \A t \in found : fire <= t
    BY <1>4, <1>5, <1>7
  <2>2. fire # None
    BY <2>1, <1>3 DEF None
  <2> QED
    BY <2>1, <2>2, <1>3
<1> QED
  BY <1>6, <1>7

\* nextFire answers with the first minute to come whose bits are set, or with
\* nothing when there is none; called in the last minute of an hour it jumps
\* over the next minute and over no other.  For every calendar and expression.
THEOREM SearchesAreExact == CronSpec => []SearchIsExact
<1>1. CronInv => SearchIsExact
  <2> SUFFICES ASSUME CronInv, status = "answered"
               PROVE  IF ~LastOfHour(from)
                      THEN IsNext(fire)
                      ELSE /\ fire # None => fire \in Upcoming
                           /\ \A t \in Upcoming \ {from + 1} : fire # None /\ fire <= t
    BY DEF SearchIsExact
  <2>1. PICK E : E = Examined(from)
    OBVIOUS
  <2>2. /\ fire = None \/ (fire \in E /\ Matches(expr, fire))
        /\ \A t \in E : Matches(expr, t) => fire # None /\ fire <= t
    BY <2>1, FirstExamined
  <2>3. from \in Nat /\ MaxAttempts \in Nat
    BY CalendarAssumption DEF CronInv
  <2>4. CASE ~LastOfHour(from)
    <3>1. Upcoming = {t \in E : Matches(expr, t)}
      BY <2>1, <2>4 DEF Upcoming, Examined
    <3> QED
      BY <2>2, <2>4, <3>1 DEF IsNext
  <2>5. CASE LastOfHour(from)
    <3>1. E = (from + 2) .. (from + MaxAttempts)
      BY <2>1, <2>5 DEF Examined
    <3>2. E = ((from + 1) .. (from + MaxAttempts)) \ {from + 1}
      BY <3>1, <2>3
    <3>3. Upcoming \ {from + 1} = {t \in E : Matches(expr, t)}
      BY <3>2 DEF Upcoming
    <3> QED
      BY <2>2, <2>5, <3>3
  <2> QED
    BY <2>4, <2>5
<1> QED
  BY <1>1, CronInvariant, PTL
=============================================================================
