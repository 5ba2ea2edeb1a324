----------------------------- MODULE ThreadPool -----------------------------
(***************************************************************************)
(* The priority thread pool (core/util/thread_pool.{hpp,cpp}).  A critical *)
(* section of the pool's mutex is one step: inside it the only shared      *)
(* state that another thread can touch is the atomic activeWorkers, which  *)
(* each section reads or writes once.  What the code does outside the      *)
(* mutex (notify_one after submit, the job itself, fetch_sub, notify_all   *)
(* of the destructor, the joins) are steps of their own.                   *)
(***************************************************************************)
EXTENDS Integers, FiniteSets

CONSTANTS Workers,    \* pool threads
          Clients,    \* threads that submit jobs and wait
          Owner,      \* the client that destroys the pool
          Priorities, \* JobPriority, 0 is the most urgent
          MaxJobs     \* bound on the jobs submitted

ASSUME OwnerIsClient == Owner \in Clients
\* The constructor makes at least one thread.
ASSUME WorkersAssumption == IsFiniteSet(Workers) /\ Workers # {}
ASSUME PrioritiesAreNat == Priorities \subseteq Nat
ASSUME ThreadsDisjoint == Workers \cap Clients = {}
ASSUME MaxJobsIsNat == MaxJobs \in Nat

VARIABLES queue,         \* jobs waiting to be taken
          nextSequence,  \* sequence number of the next job
          stopFlag,      \* the destructor has begun
          activeWorkers, \* the atomic counter
          pc,            \* control state of every thread
          job,           \* the job a worker holds
          finished,      \* jobs whose function has returned
          since          \* nextSequence when a client called waitIdle

vars == <<queue, nextSequence, stopFlag, activeWorkers, pc, job, finished, since>>

NoJob == [sequence |-> -1, priority |-> -1]
Job == [sequence : 0..(MaxJobs - 1), priority : Priorities]

WorkerLabels == {"lock", "notEmpty", "run", "count", "signal", "exited"}
ClientLabels == {"ready", "notify", "waitIdle", "idle", "notifyAll", "join", "gone"}

Goto(t, label) == pc' = [pc EXCEPT ![t] = label]

\* Everyone of these threads blocked on a condition variable goes back to
\* lock the mutex and look at its predicate again.
NotifyAll(label, next) == [t \in DOMAIN pc |-> IF pc[t] = label THEN next ELSE pc[t]]

\* priority_queue::top under Job::operator<: most urgent, then oldest.
IsTop(j) == \A k \in queue : \/ j.priority < k.priority
                             \/ j.priority = k.priority /\ j.sequence <= k.sequence

Init == /\ queue = {}
        /\ nextSequence = 0
        /\ stopFlag = FALSE
        /\ activeWorkers = 0
        /\ pc = [t \in Workers \cup Clients |-> IF t \in Workers THEN "lock" ELSE "ready"]
        /\ job = [w \in Workers |-> NoJob]
        /\ finished = {}
        /\ since = [c \in Clients |-> 0]
-----------------------------------------------------------------------------
(* submit                                                                  *)

Submit(c, prio) ==
    /\ pc[c] = "ready"
    /\ nextSequence < MaxJobs
    /\ queue' = queue \cup {[sequence |-> nextSequence, priority |-> prio]}
    /\ nextSequence' = nextSequence + 1
    /\ Goto(c, "notify")
    /\ UNCHANGED <<stopFlag, activeWorkers, job, finished, since>>

\* Mutant: nobody is woken.
NotifyNone(c, next) == Goto(c, next)

\* notEmpty.notify_one(): one waiting worker, if there is any.
NotifyOne(c, next) ==
    LET waiting == {w \in Workers : pc[w] = "notEmpty"}
    IN  \/ waiting = {} /\ Goto(c, next)
        \/ \E w \in waiting : pc' = [pc EXCEPT ![c] = next, ![w] = "lock"]

SubmitNotify(c) ==
    /\ pc[c] = "notify"
    /\ NotifyOne(c, "ready")
    /\ UNCHANGED <<queue, nextSequence, stopFlag, activeWorkers, job, finished, since>>
-----------------------------------------------------------------------------
(* waitIdle                                                                *)

WaitIdle(c) ==
    /\ pc[c] = "ready"
    /\ since' = [since EXCEPT ![c] = nextSequence]
    /\ Goto(c, "waitIdle")
    /\ UNCHANGED <<queue, nextSequence, stopFlag, activeWorkers, job, finished>>

\* Mutant: jobs that are still running are not looked at.
NothingQueued == queue = {}

NothingToDo == queue = {} /\ activeWorkers = 0

WaitIdleReturns(c) ==
    /\ pc[c] = "waitIdle"
    /\ NothingToDo
    /\ Goto(c, "ready")
    /\ UNCHANGED <<queue, nextSequence, stopFlag, activeWorkers, job, finished, since>>

WaitIdleBlocks(c) ==
    /\ pc[c] = "waitIdle"
    /\ ~NothingToDo
    /\ Goto(c, "idle")
    /\ UNCHANGED <<queue, nextSequence, stopFlag, activeWorkers, job, finished, since>>
-----------------------------------------------------------------------------
(* workerLoop                                                              *)

Pop(j) == queue \ {j}
OneMoreActive == activeWorkers + 1

Take(w) ==
    /\ pc[w] = "lock"
    /\ \E j \in queue : /\ IsTop(j)
                        /\ queue' = Pop(j)
                        /\ job' = [job EXCEPT ![w] = j]
    /\ activeWorkers' = OneMoreActive
    /\ Goto(w, "run")
    /\ UNCHANGED <<nextSequence, stopFlag, finished, since>>

Block(w) ==
    /\ pc[w] = "lock"
    /\ queue = {} /\ ~stopFlag
    /\ Goto(w, "notEmpty")
    /\ UNCHANGED <<queue, nextSequence, stopFlag, activeWorkers, job, finished, since>>

\* Mutant: stopFlag alone makes a worker leave.
Stopping == stopFlag

StoppingAndDrained == stopFlag /\ queue = {}

Leave(w) ==
    /\ pc[w] = "lock"
    /\ StoppingAndDrained
    /\ Goto(w, "exited")
    /\ UNCHANGED <<queue, nextSequence, stopFlag, activeWorkers, job, finished, since>>

Run(w) ==
    /\ pc[w] = "run"
    /\ finished' = finished \cup {job[w]}
    /\ job' = [job EXCEPT ![w] = NoJob]
    /\ Goto(w, "count")
    /\ UNCHANGED <<queue, nextSequence, stopFlag, activeWorkers, since>>

\* Mutant: a worker tells the waiting clients if others are active.
NotLast == activeWorkers > 1

\* activeWorkers.fetch_sub(1) == 1
WasLast == activeWorkers = 1

Count(w) ==
    /\ pc[w] = "count"
    /\ activeWorkers' = activeWorkers - 1
    /\ Goto(w, IF WasLast THEN "signal" ELSE "lock")
    /\ UNCHANGED <<queue, nextSequence, stopFlag, job, finished, since>>

\* The last active worker signals idle, unless new jobs have come in.
Signal(w) ==
    /\ pc[w] = "signal"
    /\ pc' = [(IF queue = {} THEN NotifyAll("idle", "waitIdle") ELSE pc) EXCEPT ![w] = "lock"]
    /\ UNCHANGED <<queue, nextSequence, stopFlag, activeWorkers, job, finished, since>>

\* A condition variable may wake without being notified.
SpuriousWakeup(t) ==
    /\ pc[t] \in {"notEmpty", "idle"}
    /\ Goto(t, IF pc[t] = "idle" THEN "waitIdle" ELSE "lock")
    /\ UNCHANGED <<queue, nextSequence, stopFlag, activeWorkers, job, finished, since>>
-----------------------------------------------------------------------------
(* ~ThreadPool, when no other client uses the pool any more                *)

Retire(c) ==
    /\ c # Owner
    /\ pc[c] = "ready"
    /\ Goto(c, "gone")
    /\ UNCHANGED <<queue, nextSequence, stopFlag, activeWorkers, job, finished, since>>

Destroy ==
    /\ pc[Owner] = "ready"
    /\ \A c \in Clients \ {Owner} : pc[c] = "gone"
    /\ stopFlag' = TRUE
    /\ Goto(Owner, "notifyAll")
    /\ UNCHANGED <<queue, nextSequence, activeWorkers, job, finished, since>>

\* Mutant: a single worker is woken.
WakeOne == NotifyOne(Owner, "join")

WakeAll == pc' = [NotifyAll("notEmpty", "lock") EXCEPT ![Owner] = "join"]

DestroyNotifies ==
    /\ pc[Owner] = "notifyAll"
    /\ WakeAll
    /\ UNCHANGED <<queue, nextSequence, stopFlag, activeWorkers, job, finished, since>>

Join ==
    /\ pc[Owner] = "join"
    /\ \A w \in Workers : pc[w] = "exited"
    /\ Goto(Owner, "gone")
    /\ UNCHANGED <<queue, nextSequence, stopFlag, activeWorkers, job, finished, since>>

Destroyed == pc[Owner] = "gone" /\ UNCHANGED vars
-----------------------------------------------------------------------------
WorkerStep(w) == Take(w) \/ Block(w) \/ Leave(w) \/ Run(w) \/ Count(w) \/ Signal(w)

\* What a client's call does after it was made.
ClientStep(c) == SubmitNotify(c) \/ WaitIdleReturns(c) \/ WaitIdleBlocks(c)

Next == \/ \E c \in Clients : \/ \E prio \in Priorities : Submit(c, prio)
                              \/ WaitIdle(c) \/ ClientStep(c) \/ Retire(c)
        \/ \E w \in Workers : WorkerStep(w)
        \/ \E t \in Workers \cup Clients : SpuriousWakeup(t)
        \/ Destroy \/ DestroyNotifies \/ Join \/ Destroyed

\* The operating system runs every thread that can run; a call once made goes
\* on.  Nobody has to call anything, and wakeups need not be spurious.
Fairness == /\ \A w \in Workers : WF_vars(WorkerStep(w))
            /\ \A c \in Clients : WF_vars(ClientStep(c))
            /\ WF_vars(DestroyNotifies) /\ WF_vars(Join)

Spec == Init /\ [][Next]_vars /\ Fairness
-----------------------------------------------------------------------------
(* Properties                                                              *)

\* The variables have their types; in particular fetch_sub never takes the
\* unsigned counter below zero.
TypeOK == /\ queue \subseteq Job
          /\ nextSequence \in 0..MaxJobs
          /\ stopFlag \in BOOLEAN
          /\ activeWorkers \in 0..Cardinality(Workers)
          /\ pc \in [Workers \cup Clients -> WorkerLabels \cup ClientLabels]
          /\ job \in [Workers -> Job \cup {NoJob}]
          /\ finished \subseteq Job
          /\ since \in [Clients -> 0..MaxJobs]

Held == {w \in Workers : job[w] # NoJob}
Submitted == queue \cup {job[w] : w \in Held} \cup finished

\* Every job ever submitted is in the queue, in the hands of one worker, or
\* finished, and in one of these only: none is lost and none runs twice. And
\* the destructor lets the workers drain the queue before it joins them.
ExactlyOnce ==
    /\ {j.sequence : j \in Submitted} = 0..(nextSequence - 1)
    /\ Cardinality(queue) + Cardinality(Held) + Cardinality(finished) = nextSequence
    /\ pc[Owner] = "gone" => Cardinality(finished) = nextSequence

\* waitIdle returns only when every job submitted before the call is finished,
\* whichever thread submitted it (test_thread_pool.cpp relies on this).
WaitIdleComplete ==
    [][\A c \in Clients : pc[c] = "waitIdle" /\ pc'[c] = "ready"
          => 0..(since[c] - 1) \subseteq {j.sequence : j \in finished}]_vars

\* submit loses no wakeup: every job submitted is run at last, with or without
\* a worker waiting on notEmpty when notify_one was called.
EveryJobRuns == \A n \in 0..(MaxJobs - 1) :
                   nextSequence > n ~> \E j \in finished : j.sequence = n

\* idle loses no wakeup: a client in waitIdle returns, although activeWorkers
\* reaches zero outside the mutex and jobs may come in before idle is signalled.
WaitIdleEnds == \A c \in Clients : pc[c] \in {"waitIdle", "idle"} ~> pc[c] = "ready"

\* The destructor's joins end, wherever the workers were when it began.
DestructorEnds == stopFlag ~> pc[Owner] = "gone"
=============================================================================
