-------------------------- MODULE ThreadPoolProofs --------------------------
(* Proofs about the thread pool: where its jobs are, what the counter of   *)
(* active workers counts, and what holds once the destructor has begun.    *)
EXTENDS ThreadPool, FiniteSetTheorems, TLAPS

Active == {w \in Workers : pc[w] \in {"run", "count"}}

\* Workers and clients each have their own control states.
Labels ==
    /\ \A w \in Workers : pc[w] \in WorkerLabels
    /\ \A c \in Clients : pc[c] \in ClientLabels /\ since[c] <= nextSequence

\* No job is in two places, and each number has been given to one.
Jobs ==
    /\ IsFiniteSet(queue) /\ IsFiniteSet(finished)
    /\ queue \cap finished = {}
    /\ \A w \in Held : job[w] \notin queue \cup finished
    /\ \A v, w \in Held : job[v] = job[w] => v = w
    /\ {j.sequence : j \in Submitted} = 0 .. nextSequence - 1
    /\ Cardinality(queue) + Cardinality(Held) + Cardinality(finished) = nextSequence

\* A worker that runs holds a job, and the counter counts those that run
\* or have yet to count themselves out.
Counted ==
    /\ \A w \in Workers : pc[w] = "run" <=> w \in Held
    /\ activeWorkers = Cardinality(Active)

\* After the destructor has begun nobody submits, and a worker leaves only
\* when nothing is left.
Ending ==
    /\ stopFlag <=> pc[Owner] \in {"notifyAll", "join", "gone"}
    /\ stopFlag => \A c \in Clients \ {Owner} : pc[c] = "gone"
    /\ \A w \in Workers : pc[w] = "exited" => stopFlag /\ queue = {}
    /\ pc[Owner] = "gone" => \A w \in Workers : pc[w] = "exited"

IInv == TypeOK /\ Labels /\ Jobs /\ Counted /\ Ending
-----------------------------------------------------------------------------
\* At first there is no job.
LEMMA InitInv == Init => IInv
<1> SUFFICES ASSUME Init PROVE IInv
  OBVIOUS
<1>1. Held = {} /\ Active = {} /\ Submitted = {} /\ queue = {} /\ finished = {}
  BY DEF Init, Held, Active, Submitted
<1>2. IsFiniteSet({}) /\ Cardinality({}) = 0 /\ Cardinality(Workers) \in Nat
  BY FS_EmptySet, FS_CardinalityType, WorkersAssumption
<1>3. TypeOK
  <2>1. /\ pc \in [Workers \cup Clients -> WorkerLabels \cup ClientLabels]
        /\ job \in [Workers -> Job \cup {NoJob}]
    BY DEF Init, WorkerLabels, ClientLabels
  <2>2. since \in [Clients -> 0 .. MaxJobs] /\ nextSequence \in 0 .. MaxJobs
    BY MaxJobsIsNat DEF Init
  <2>3. activeWorkers \in 0 .. Cardinality(Workers)
    BY <1>2 DEF Init
  <2>4. stopFlag \in BOOLEAN
    BY DEF Init
  <2> QED  BY <1>1, <2>1, <2>2, <2>3, <2>4 DEF TypeOK
<1>4. Labels
  BY ThreadsDisjoint DEF Init, Labels, WorkerLabels, ClientLabels
<1>5. Jobs
  BY <1>1, <1>2 DEF Init, Jobs
<1>6. Counted
  BY <1>1, <1>2 DEF Init, Counted
<1>7. Ending
  BY OwnerIsClient, ThreadsDisjoint DEF Init, Ending
<1> QED  BY <1>3, <1>4, <1>5, <1>6, <1>7 DEF IInv

\* Held and Active are finite, and their sizes are numbers.
LEMMA Sizes ==
    ASSUME IInv
    PROVE  /\ IsFiniteSet(Held) /\ IsFiniteSet(Active)
           /\ Cardinality(Held) \in Nat /\ Cardinality(Active) \in Nat
           /\ Cardinality(queue) \in Nat /\ Cardinality(finished) \in Nat
           /\ nextSequence \in Nat
<1>1. Held \subseteq Workers /\ Active \subseteq Workers
  BY DEF Held, Active
<1>2. IsFiniteSet(Held) /\ IsFiniteSet(Active)
  BY <1>1, FS_Subset, WorkersAssumption
<1> QED  BY <1>2, FS_CardinalityType, MaxJobsIsNat DEF IInv, TypeOK, Jobs

\* A step that moves control states alone, none of them into or out of a
\* job, keeps where the jobs are and how many workers are active.
LEMMA QuietStep ==
    ASSUME IInv, UNCHANGED <<queue, nextSequence, activeWorkers, job, finished>>,
           \A w \in Workers : /\ pc'[w] = "run" <=> pc[w] = "run"
                              /\ pc'[w] = "count" <=> pc[w] = "count"
    PROVE  Jobs' /\ Counted'
<1>1. Held' = Held /\ Active' = Active
  BY DEF Held, Active
<1>2. Submitted' = Submitted
  BY <1>1 DEF Submitted
<1> QED  BY <1>1, <1>2 DEF IInv, Jobs, Counted

\* submit gives the job a number of its own.
LEMMA SubmitKeeps ==
    ASSUME IInv, NEW c \in Clients, NEW prio \in Priorities, Submit(c, prio)
    PROVE  IInv'
<1> DEFINE new == [sequence |-> nextSequence, priority |-> prio]
<1>1. /\ pc[c] = "ready" /\ nextSequence < MaxJobs /\ queue' = queue \cup {new}
      /\ nextSequence' = nextSequence + 1 /\ pc' = [pc EXCEPT ![c] = "notify"]
      /\ UNCHANGED <<stopFlag, activeWorkers, job, finished, since>>
  BY DEF Submit, Goto
<1>2. /\ TypeOK /\ Labels /\ Jobs /\ Counted /\ Ending /\ nextSequence \in Nat
      /\ new \in Job /\ new.sequence = nextSequence
  BY <1>1, Sizes, MaxJobsIsNat DEF IInv, TypeOK, Job
<1>3. /\ \A t \in Workers \cup Clients : t # c => pc'[t] = pc[t]
      /\ pc'[c] = "notify" /\ c \notin Workers
  BY <1>1, <1>2, ThreadsDisjoint DEF TypeOK
<1>4. TypeOK'
  BY <1>1, <1>2, MaxJobsIsNat DEF TypeOK, ClientLabels
<1>5. Labels'
  <2>1. \A d \in Clients : since[d] \in Nat /\ since[d] <= nextSequence + 1
    BY <1>2, MaxJobsIsNat DEF Labels, TypeOK
  <2> QED  BY <1>1, <1>2, <1>3, <2>1 DEF Labels, ClientLabels
<1>6. /\ Held' = Held /\ Active' = Active /\ Submitted' = Submitted \cup {new}
  <2>1. Held' = Held /\ Active' = Active
    BY <1>1, <1>3 DEF Held, Active
  <2> QED  BY <1>1, <2>1 DEF Submitted
<1>7. new \notin Submitted
  <2>1. \A j \in Submitted : j.sequence \in 0 .. nextSequence - 1
    BY <1>2 DEF Jobs
  <2> QED  BY <1>2, <2>1
<1>8. Jobs'
  <2>1. IsFiniteSet(queue') /\ Cardinality(queue') = Cardinality(queue) + 1
    BY <1>1, <1>2, <1>7, FS_AddElement DEF Jobs, Submitted
  <2>2. queue' \cap finished' = {} /\ \A w \in Held : job[w] \notin queue' \cup finished
    BY <1>1, <1>2, <1>7 DEF Jobs, Submitted
  <2>3. {j.sequence : j \in Submitted'} = 0 .. nextSequence' - 1
    <3>1. {j.sequence : j \in Submitted'} = {j.sequence : j \in Submitted} \cup {nextSequence}
      BY <1>2, <1>6
    <3>2. 0 .. nextSequence' - 1 = (0 .. nextSequence - 1) \cup {nextSequence}
      BY <1>1, <1>2
    <3> QED  BY <1>2, <3>1, <3>2 DEF Jobs
  <2>4. Cardinality(queue') + Cardinality(Held) + Cardinality(finished) = nextSequence'
    BY <1>1, <1>2, <2>1, Sizes DEF Jobs
  <2> QED  BY <1>1, <1>2, <1>6, <2>1, <2>2, <2>3, <2>4 DEF Jobs
<1>9. Counted'
  BY <1>1, <1>2, <1>3, <1>6 DEF Counted
<1>10. Ending'
  BY <1>1, <1>2, <1>3, OwnerIsClient, ThreadsDisjoint DEF Ending
<1> QED  BY <1>4, <1>5, <1>8, <1>9, <1>10 DEF IInv

\* A worker takes a job out of the queue and counts itself in.
LEMMA TakeKeeps ==
    ASSUME IInv, NEW w \in Workers, Take(w)
    PROVE  IInv'
<1>1. PICK j \in queue : queue' = queue \ {j} /\ job' = [job EXCEPT ![w] = j]
  BY DEF Take, Pop
<1>2. /\ pc[w] = "lock" /\ activeWorkers' = activeWorkers + 1
      /\ pc' = [pc EXCEPT ![w] = "run"]
      /\ UNCHANGED <<nextSequence, stopFlag, finished, since>>
  BY DEF Take, Goto, OneMoreActive
<1>3. TypeOK /\ Labels /\ Jobs /\ Counted /\ Ending
  BY DEF IInv
<1>4. j \in Job /\ j # NoJob /\ w \notin Held /\ w \notin Active
  BY <1>1, <1>2, <1>3 DEF TypeOK, Job, NoJob, Counted, Active
<1>5. /\ \A t \in Workers \cup Clients : t # w => pc'[t] = pc[t]
      /\ pc'[w] = "run" /\ w \notin Clients
      /\ \A v \in Workers : v # w => job'[v] = job[v]
      /\ job'[w] = j
  BY <1>1, <1>2, <1>3, ThreadsDisjoint DEF TypeOK
<1>6. Held' = Held \cup {w} /\ Active' = Active \cup {w}
  BY <1>4, <1>5 DEF Held, Active
<1>7. /\ IsFiniteSet(queue') /\ Cardinality(queue') = Cardinality(queue) - 1
      /\ Cardinality(Held') = Cardinality(Held) + 1
      /\ Cardinality(Active') = Cardinality(Active) + 1
  BY <1>1, <1>3, <1>4, <1>6, Sizes, FS_AddElement, FS_RemoveElement DEF Jobs
<1>8. TypeOK'
  <2>1. Active' \subseteq Workers /\ Cardinality(Active') <= Cardinality(Workers)
    BY FS_Subset, WorkersAssumption DEF Active
  <2>2. activeWorkers' \in 0 .. Cardinality(Workers)
    BY <1>2, <1>3, <1>7, <2>1, Sizes, FS_CardinalityType, WorkersAssumption DEF Counted
  <2> QED  BY <1>1, <1>2, <1>3, <1>4, <2>2 DEF TypeOK, WorkerLabels
<1>9. Labels'
  BY <1>2, <1>3, <1>5 DEF Labels, WorkerLabels
<1>10. Jobs'
  <2>1. Submitted' = Submitted
    <3>1. {job'[v] : v \in Held'} = {job[v] : v \in Held} \cup {j}
      BY <1>4, <1>5, <1>6 DEF Held
    <3> QED  BY <1>1, <1>2, <3>1 DEF Submitted
  <2>2. \A v \in Held' : job'[v] \notin queue' \cup finished'
    BY <1>1, <1>2, <1>3, <1>5, <1>6 DEF Jobs, Held
  <2>3. \A u, v \in Held' : job'[u] = job'[v] => u = v
    BY <1>1, <1>3, <1>4, <1>5, <1>6 DEF Jobs, Held
  <2>4. Cardinality(queue') + Cardinality(Held') + Cardinality(finished) = nextSequence
    BY <1>3, <1>7, Sizes DEF Jobs
  <2> QED  BY <1>1, <1>2, <1>3, <1>7, <2>1, <2>2, <2>3, <2>4 DEF Jobs
<1>11. Counted'
  BY <1>2, <1>3, <1>5, <1>6, <1>7 DEF Counted, Held
<1>12. Ending'
  BY <1>1, <1>2, <1>3, <1>5, OwnerIsClient DEF Ending
<1> QED  BY <1>8, <1>9, <1>10, <1>11, <1>12 DEF IInv

\* A job that was run is finished, and its worker holds none.
LEMMA RunKeeps ==
    ASSUME IInv, NEW w \in Workers, Run(w)
    PROVE  IInv'
<1>1. /\ pc[w] = "run" /\ finished' = finished \cup {job[w]}
      /\ job' = [job EXCEPT ![w] = NoJob] /\ pc' = [pc EXCEPT ![w] = "count"]
      /\ UNCHANGED <<queue, nextSequence, stopFlag, activeWorkers, since>>
  BY DEF Run, Goto
<1>2. TypeOK /\ Labels /\ Jobs /\ Counted /\ Ending
  BY DEF IInv
<1>3. w \in Held /\ job[w] \in Job
  BY <1>1, <1>2 DEF TypeOK, Counted, Held
<1>4. /\ \A t \in Workers \cup Clients : t # w => pc'[t] = pc[t]
      /\ pc'[w] = "count" /\ w \notin Clients
      /\ \A v \in Workers : v # w => job'[v] = job[v]
      /\ job'[w] = NoJob
  BY <1>1, <1>2, ThreadsDisjoint DEF TypeOK
<1>5. Held' = Held \ {w} /\ Active' = Active
  BY <1>1, <1>4 DEF Held, Active
<1>6. /\ IsFiniteSet(finished') /\ Cardinality(finished') = Cardinality(finished) + 1
      /\ Cardinality(Held') = Cardinality(Held) - 1
  BY <1>1, <1>2, <1>3, <1>5, Sizes, FS_AddElement, FS_RemoveElement DEF Jobs
<1>7. TypeOK'
  BY <1>1, <1>2, <1>3 DEF TypeOK, WorkerLabels
<1>8. Labels'
  BY <1>1, <1>2, <1>4 DEF Labels, WorkerLabels
<1>9. Jobs'
  <2>1. Submitted' = Submitted
    <3>1. {job'[v] : v \in Held'} \cup {job[w]} = {job[v] : v \in Held}
      BY <1>3, <1>4, <1>5 DEF Held
    <3> QED  BY <1>1, <3>1 DEF Submitted
  <2>2. \A v \in Held' : job'[v] \notin queue' \cup finished'
    BY <1>1, <1>2, <1>3, <1>4, <1>5 DEF Jobs, Held
  <2>3. \A u, v \in Held' : job'[u] = job'[v] => u = v
    BY <1>2, <1>4, <1>5 DEF Jobs, Held
  <2>4. Cardinality(queue) + Cardinality(Held') + Cardinality(finished') = nextSequence
    BY <1>2, <1>6, Sizes DEF Jobs
  <2>5. queue' \cap finished' = {}
    BY <1>1, <1>2, <1>3 DEF Jobs
  <2> QED  BY <1>1, <1>2, <1>6, <2>1, <2>2, <2>3, <2>4, <2>5 DEF Jobs
<1>10. Counted'
  BY <1>1, <1>2, <1>4, <1>5 DEF Counted, Held
<1>11. Ending'
  BY <1>1, <1>2, <1>4, OwnerIsClient DEF Ending
<1> QED  BY <1>7, <1>8, <1>9, <1>10, <1>11 DEF IInv

\* A worker counts itself out, and the counter was not zero.
LEMMA CountKeeps ==
    ASSUME IInv, NEW w \in Workers, Count(w)
    PROVE  IInv'
<1>1. /\ pc[w] = "count" /\ activeWorkers' = activeWorkers - 1
      /\ pc' = [pc EXCEPT ![w] = IF WasLast THEN "signal" ELSE "lock"]
      /\ UNCHANGED <<queue, nextSequence, stopFlag, job, finished, since>>
  BY DEF Count, Goto
<1>2. TypeOK /\ Labels /\ Jobs /\ Counted /\ Ending
  BY DEF IInv
<1>3. /\ \A t \in Workers \cup Clients : t # w => pc'[t] = pc[t]
      /\ pc'[w] \in {"signal", "lock"} /\ w \notin Clients /\ w \in Active
  BY <1>1, <1>2, ThreadsDisjoint DEF TypeOK, Active
<1>4. Held' = Held /\ Active' = Active \ {w} /\ Submitted' = Submitted
  BY <1>1, <1>3 DEF Held, Active, Submitted
<1>5. Cardinality(Active') = Cardinality(Active) - 1 /\ Cardinality(Active) # 0
  BY <1>3, <1>4, Sizes, FS_RemoveElement, FS_EmptySet
<1>6. TypeOK'
  <2>1. activeWorkers' \in 0 .. Cardinality(Workers)
    BY <1>1, <1>2, <1>5, Sizes, FS_CardinalityType, WorkersAssumption DEF Counted, TypeOK
  <2> QED  BY <1>1, <1>2, <2>1 DEF TypeOK, WorkerLabels
<1>7. Labels'
  BY <1>1, <1>2, <1>3 DEF Labels, WorkerLabels
<1>8. Jobs'
  BY <1>1, <1>2, <1>4 DEF Jobs
<1>9. Counted'
  BY <1>1, <1>2, <1>3, <1>4, <1>5 DEF Counted
<1>10. Ending'
  BY <1>1, <1>2, <1>3, OwnerIsClient DEF Ending
<1> QED  BY <1>6, <1>7, <1>8, <1>9, <1>10 DEF IInv

\* What is left to show of a step that moves control states alone.
LEMMA ControlStep ==
    ASSUME IInv, UNCHANGED <<queue, nextSequence, activeWorkers, job, finished>>,
           stopFlag' \in BOOLEAN, since' \in [Clients -> 0 .. MaxJobs],
           pc' \in [Workers \cup Clients -> WorkerLabels \cup ClientLabels],
           \A w \in Workers : /\ pc'[w] = "run" <=> pc[w] = "run"
                              /\ pc'[w] = "count" <=> pc[w] = "count",
           Labels', Ending'
    PROVE  IInv'
<1>1. TypeOK'
  BY DEF IInv, TypeOK
<1> QED  BY <1>1, QuietStep DEF IInv

\* A client's own step: from one of its control states to another, which
\* is neither the end of it nor one of the destructor's.
LEMMA ClientKeeps ==
    ASSUME IInv, NEW c \in Clients,
           SubmitNotify(c) \/ WaitIdle(c) \/ WaitIdleReturns(c) \/ WaitIdleBlocks(c) \/ Retire(c)
    PROVE  IInv'
<1>1. TypeOK /\ Labels /\ Ending /\ c \notin Workers
  BY ThreadsDisjoint DEF IInv
<1>2. CASE SubmitNotify(c)
  <2>1. /\ pc[c] = "notify"
        /\ UNCHANGED <<queue, nextSequence, stopFlag, activeWorkers, job, finished, since>>
    BY <1>2 DEF SubmitNotify
  <2>2. \/ pc' = [pc EXCEPT ![c] = "ready"]
        \/ \E w \in Workers : pc[w] = "notEmpty" /\ pc' = [pc EXCEPT ![c] = "ready", ![w] = "lock"]
    BY <1>2 DEF SubmitNotify, NotifyOne, Goto
  <2>3. /\ pc' \in [Workers \cup Clients -> WorkerLabels \cup ClientLabels]
        /\ pc'[c] = "ready" /\ \A d \in Clients : d # c => pc'[d] = pc[d]
        /\ \A w \in Workers : pc'[w] = pc[w] \/ (pc[w] = "notEmpty" /\ pc'[w] = "lock")
    <3>1. /\ pc \in [Workers \cup Clients -> WorkerLabels \cup ClientLabels]
          /\ "ready" \in WorkerLabels \cup ClientLabels /\ "lock" \in WorkerLabels \cup ClientLabels
      BY <1>1 DEF TypeOK, WorkerLabels, ClientLabels
    <3>2. CASE pc' = [pc EXCEPT ![c] = "ready"]
      BY <1>1, <3>1, <3>2
    <3>3. ASSUME NEW w \in Workers, pc[w] = "notEmpty", pc' = [pc EXCEPT ![c] = "ready", ![w] = "lock"]
          PROVE  /\ pc' \in [Workers \cup Clients -> WorkerLabels \cup ClientLabels]
                 /\ pc'[c] = "ready" /\ \A d \in Clients : d # c => pc'[d] = pc[d]
                 /\ \A v \in Workers : pc'[v] = pc[v] \/ (pc[v] = "notEmpty" /\ pc'[v] = "lock")
      <4>1. w # c /\ w \notin Clients
        BY ThreadsDisjoint
      <4> QED  BY <1>1, <3>1, <3>3, <4>1
    <3> QED  BY <2>2, <3>2, <3>3
  <2>4. Labels'
    BY <1>1, <2>1, <2>3 DEF Labels, WorkerLabels, ClientLabels
  <2>5. Ending'
    BY <1>1, <2>1, <2>3, OwnerIsClient DEF Ending
  <2> QED  BY <1>1, <2>1, <2>3, <2>4, <2>5, ControlStep DEF TypeOK
<1>3. ASSUME NEW label \in {"waitIdle", "ready", "idle", "gone"}, pc' = [pc EXCEPT ![c] = label],
             pc[c] \in {"ready", "waitIdle"}, label = "gone" => c # Owner,
             UNCHANGED <<queue, nextSequence, stopFlag, activeWorkers, job, finished>>,
             since' \in [Clients -> 0 .. MaxJobs], \A d \in Clients : since'[d] <= nextSequence
      PROVE  IInv'
  <2>1. /\ pc' \in [Workers \cup Clients -> WorkerLabels \cup ClientLabels]
        /\ pc'[c] = label /\ \A t \in Workers \cup Clients : t # c => pc'[t] = pc[t]
    BY <1>1, <1>3 DEF TypeOK, ClientLabels
  <2>2. Labels'
    BY <1>1, <1>3, <2>1 DEF Labels, ClientLabels
  <2>3. Ending'
    BY <1>1, <1>3, <2>1, OwnerIsClient DEF Ending
  <2> QED  BY <1>1, <1>3, <2>1, <2>2, <2>3, ControlStep DEF TypeOK
<1>4. CASE WaitIdle(c)
  <2>1. since' \in [Clients -> 0 .. MaxJobs] /\ \A d \in Clients : since'[d] <= nextSequence
    BY <1>1, <1>4, Sizes DEF WaitIdle, TypeOK, Labels
  <2> QED  BY <1>3, <1>4, <2>1 DEF WaitIdle, Goto
<1>5. CASE WaitIdleReturns(c) \/ WaitIdleBlocks(c) \/ Retire(c)
  <2>1. since' \in [Clients -> 0 .. MaxJobs] /\ \A d \in Clients : since'[d] <= nextSequence
    BY <1>1, <1>5 DEF WaitIdleReturns, WaitIdleBlocks, Retire, TypeOK, Labels
  <2> QED  BY <1>3, <1>5, <2>1 DEF WaitIdleReturns, WaitIdleBlocks, Retire, Goto
<1> QED  BY <1>2, <1>4, <1>5

\* A worker waits, leaves, or tells the clients that wait for idle.
LEMMA WorkerKeeps ==
    ASSUME IInv, NEW w \in Workers, Block(w) \/ Leave(w) \/ Signal(w)
    PROVE  IInv'
<1>1. TypeOK /\ Labels /\ Ending /\ w \notin Clients
  BY ThreadsDisjoint DEF IInv
<1>2. /\ UNCHANGED <<queue, nextSequence, stopFlag, activeWorkers, job, finished, since>>
      /\ pc[w] \in {"lock", "signal"}
  BY DEF Block, Leave, Signal
<1>3. /\ pc' \in [Workers \cup Clients -> WorkerLabels \cup ClientLabels]
      /\ pc'[w] \in {"notEmpty", "exited", "lock"}
      /\ pc'[w] = "exited" => stopFlag /\ queue = {}
      /\ \A v \in Workers : v # w => pc'[v] = pc[v]
      /\ \A c \in Clients : pc'[c] = pc[c] \/ (pc[c] = "idle" /\ pc'[c] = "waitIdle")
  <2>1. /\ pc \in [Workers \cup Clients -> WorkerLabels \cup ClientLabels]
        /\ {"notEmpty", "exited", "lock", "waitIdle"} \subseteq WorkerLabels \cup ClientLabels
        /\ \A c \in Clients : c # w
    BY <1>1 DEF TypeOK, WorkerLabels, ClientLabels
  <2>2. CASE Block(w)
    BY <2>1, <2>2 DEF Block, Goto
  <2>3. CASE Leave(w)
    BY <2>1, <2>3 DEF Leave, StoppingAndDrained, Goto
  <2>4. CASE Signal(w)
    <3> DEFINE told == IF queue = {} THEN NotifyAll("idle", "waitIdle") ELSE pc
    <3>1. \A v \in Workers : pc[v] # "idle"
      BY <1>1 DEF Labels, WorkerLabels
    <3>2. /\ told \in [Workers \cup Clients -> WorkerLabels \cup ClientLabels]
          /\ \A v \in Workers : told[v] = pc[v]
          /\ \A c \in Clients : told[c] = pc[c] \/ (pc[c] = "idle" /\ told[c] = "waitIdle")
      BY <2>1, <3>1 DEF NotifyAll
    <3>3. pc' = [told EXCEPT ![w] = "lock"]
      BY <2>4 DEF Signal
    <3> HIDE DEF told
    <3> QED  BY <2>1, <3>2, <3>3
  <2> QED  BY <2>2, <2>3, <2>4
<1>4. Labels'
  BY <1>1, <1>2, <1>3 DEF Labels, WorkerLabels, ClientLabels
<1>5. Ending'
  BY <1>1, <1>2, <1>3, OwnerIsClient DEF Ending
<1> QED  BY <1>1, <1>2, <1>3, <1>4, <1>5, ControlStep DEF TypeOK

\* A thread that wakes by itself looks at its predicate again.
LEMMA WakeupKeeps ==
    ASSUME IInv, NEW t \in Workers \cup Clients, SpuriousWakeup(t)
    PROVE  IInv'
<1>1. TypeOK /\ Labels /\ Ending
  BY DEF IInv
<1>2. /\ UNCHANGED <<queue, nextSequence, stopFlag, activeWorkers, job, finished, since>>
      /\ \/ pc[t] = "idle" /\ pc' = [pc EXCEPT ![t] = "waitIdle"]
         \/ pc[t] = "notEmpty" /\ pc' = [pc EXCEPT ![t] = "lock"]
  BY DEF SpuriousWakeup, Goto
<1>3. \/ t \in Clients /\ pc[t] = "idle" /\ pc'[t] = "waitIdle"
      \/ t \in Workers /\ pc[t] = "notEmpty" /\ pc'[t] = "lock"
  BY <1>1, <1>2 DEF Labels, TypeOK, WorkerLabels, ClientLabels
<1>4. /\ pc' \in [Workers \cup Clients -> WorkerLabels \cup ClientLabels]
      /\ \A u \in Workers \cup Clients : u # t => pc'[u] = pc[u]
  BY <1>1, <1>2 DEF TypeOK, WorkerLabels, ClientLabels
<1>5. Labels'
  BY <1>1, <1>2, <1>3, <1>4, ThreadsDisjoint DEF Labels, WorkerLabels, ClientLabels
<1>6. Ending'
  BY <1>1, <1>2, <1>3, <1>4, OwnerIsClient, ThreadsDisjoint DEF Ending
<1> QED  BY <1>1, <1>2, <1>3, <1>4, <1>5, <1>6, ControlStep, ThreadsDisjoint DEF TypeOK

\* The destructor's own steps.
LEMMA DestructorKeeps ==
    ASSUME IInv, Destroy \/ DestroyNotifies \/ Join
    PROVE  IInv'
<1>1. TypeOK /\ Labels /\ Ending /\ Owner \in Clients /\ Owner \notin Workers
  BY OwnerIsClient, ThreadsDisjoint DEF IInv
<1>2. UNCHANGED <<queue, nextSequence, activeWorkers, job, finished, since>>
  BY DEF Destroy, DestroyNotifies, Join
<1>3. ASSUME pc' \in [Workers \cup Clients -> WorkerLabels \cup ClientLabels],
             stopFlag' = TRUE, pc'[Owner] \in {"notifyAll", "join", "gone"},
             \A c \in Clients \ {Owner} : pc'[c] = "gone",
             \A w \in Workers : pc'[w] = pc[w] \/ (pc[w] = "notEmpty" /\ pc'[w] = "lock"),
             pc'[Owner] = "gone" => \A w \in Workers : pc'[w] = "exited"
      PROVE  IInv'
  <2>1. Labels'
    BY <1>1, <1>2, <1>3 DEF Labels, WorkerLabels, ClientLabels
  <2>2. Ending'
    BY <1>1, <1>2, <1>3 DEF Ending
  <2> QED  BY <1>1, <1>2, <1>3, <2>1, <2>2, ControlStep DEF TypeOK
<1>4. CASE Destroy
  <2>1. /\ stopFlag' = TRUE /\ pc' = [pc EXCEPT ![Owner] = "notifyAll"]
        /\ \A c \in Clients \ {Owner} : pc[c] = "gone"
    BY <1>4 DEF Destroy, Goto
  <2>2. /\ pc' \in [Workers \cup Clients -> WorkerLabels \cup ClientLabels]
        /\ pc'[Owner] = "notifyAll" /\ \A t \in Workers \cup Clients : t # Owner => pc'[t] = pc[t]
    BY <1>1, <2>1 DEF TypeOK, ClientLabels
  <2>3. /\ \A c \in Clients \ {Owner} : pc'[c] = "gone"
        /\ \A w \in Workers : pc'[w] = pc[w]
    BY <1>1, <2>1, <2>2
  <2> QED  BY <1>3, <2>1, <2>2, <2>3
<1>5. CASE DestroyNotifies
  <2>1. /\ pc[Owner] = "notifyAll" /\ UNCHANGED stopFlag
        /\ pc' = [[t \in DOMAIN pc |-> IF pc[t] = "notEmpty" THEN "lock" ELSE pc[t]]
                    EXCEPT ![Owner] = "join"]
    BY <1>5 DEF DestroyNotifies, WakeAll, NotifyAll
  <2>2. stopFlag = TRUE /\ \A c \in Clients \ {Owner} : pc[c] = "gone"
    BY <1>1, <2>1 DEF Ending, TypeOK
  <2>3. /\ pc' \in [Workers \cup Clients -> WorkerLabels \cup ClientLabels]
        /\ pc'[Owner] = "join"
        /\ \A t \in Workers \cup Clients : t # Owner =>
             pc'[t] = IF pc[t] = "notEmpty" THEN "lock" ELSE pc[t]
    BY <1>1, <2>1 DEF TypeOK, WorkerLabels, ClientLabels
  <2>4. \A c \in Clients \ {Owner} : pc'[c] = "gone"
    BY <2>2, <2>3
  <2>5. ASSUME NEW w \in Workers
        PROVE  pc'[w] = pc[w] \/ (pc[w] = "notEmpty" /\ pc'[w] = "lock")
    <3>1. w # Owner
      BY <1>1
    <3> QED  BY <2>3, <3>1
  <2> QED  BY <1>3, <2>1, <2>2, <2>3, <2>4, <2>5
<1>6. CASE Join
  <2>1. /\ pc[Owner] = "join" /\ \A w \in Workers : pc[w] = "exited"
        /\ pc' = [pc EXCEPT ![Owner] = "gone"] /\ UNCHANGED stopFlag
    BY <1>6 DEF Join, Goto
  <2>2. stopFlag = TRUE /\ \A c \in Clients \ {Owner} : pc[c] = "gone"
    BY <1>1, <2>1 DEF Ending, TypeOK
  <2>3. /\ pc' \in [Workers \cup Clients -> WorkerLabels \cup ClientLabels]
        /\ pc'[Owner] = "gone" /\ \A t \in Workers \cup Clients : t # Owner => pc'[t] = pc[t]
    BY <1>1, <2>1 DEF TypeOK, ClientLabels
  <2>4. /\ \A c \in Clients \ {Owner} : pc'[c] = "gone"
        /\ \A w \in Workers : pc'[w] = pc[w]
    BY <1>1, <2>2, <2>3
  <2> QED  BY <1>3, <2>1, <2>2, <2>3, <2>4
<1> QED  BY <1>4, <1>5, <1>6
-----------------------------------------------------------------------------
\* The invariant of the pool holds in every state.
LEMMA PoolInvariant == Spec => []IInv
<1>1. IInv /\ [Next]_vars => IInv'
  <2> SUFFICES ASSUME IInv, [Next]_vars PROVE IInv'
    OBVIOUS
  <2>1. ASSUME NEW c \in Clients,
               \/ \E prio \in Priorities : Submit(c, prio)
               \/ WaitIdle(c) \/ ClientStep(c) \/ Retire(c)
        PROVE  IInv'
    BY <2>1, SubmitKeeps, ClientKeeps DEF ClientStep
  <2>2. ASSUME NEW w \in Workers, WorkerStep(w) PROVE IInv'
    BY <2>2, TakeKeeps, RunKeeps, CountKeeps, WorkerKeeps DEF WorkerStep
  <2>3. ASSUME NEW t \in Workers \cup Clients, SpuriousWakeup(t) PROVE IInv'
    BY <2>3, WakeupKeeps
  <2>4. CASE Destroy \/ DestroyNotifies \/ Join
    BY <2>4, DestructorKeeps
  <2>5. CASE Destroyed \/ UNCHANGED vars
    <3>1. UNCHANGED <<queue, nextSequence, stopFlag, activeWorkers, pc, job, finished, since>>
      BY <2>5 DEF Destroyed, vars
    <3>2. Labels' /\ Ending'
      BY <3>1 DEF IInv, Labels, Ending
    <3> QED  BY <3>1, <3>2, ControlStep DEF IInv, TypeOK
  <2> QED  BY <2>1, <2>2, <2>3, <2>4, <2>5 DEF Next
<1> QED  BY <1>1, InitInv, PTL DEF Spec

\* The counter of active workers stays within the number of workers, and so
\* fetch_sub never takes it below zero.
THEOREM PoolIsTyped == Spec => []TypeOK
<1>1. IInv => TypeOK
  BY DEF IInv
<1> QED  BY <1>1, PoolInvariant, PTL

\* For any number of workers, clients and jobs, no job is lost and none is
\* run twice, and the destructor leaves none behind.
THEOREM JobsRunOnce == Spec => []ExactlyOnce
<1>1. IInv => ExactlyOnce
  <2> SUFFICES ASSUME IInv PROVE ExactlyOnce
    OBVIOUS
  <2>1. ASSUME pc[Owner] = "gone" PROVE Cardinality(finished) = nextSequence
    <3>1. queue = {} /\ Held = {}
      BY <2>1, WorkersAssumption DEF IInv, Ending, Counted, Held
    <3> QED  BY <3>1, Sizes, FS_EmptySet DEF IInv, Jobs
  <2> QED  BY <2>1 DEF IInv, Jobs, ExactlyOnce
<1> QED  BY <1>1, PoolInvariant, PTL

\* waitIdle returns only when what was submitted before it is finished.
THEOREM WaitIdleIsComplete == Spec => WaitIdleComplete
<1>1. ASSUME IInv, [Next]_vars, NEW c \in Clients, pc[c] = "waitIdle", pc'[c] = "ready"
      PROVE  0 .. since[c] - 1 \subseteq {j.sequence : j \in finished}
  <2>1. TypeOK /\ Labels /\ c \notin Workers /\ c \in DOMAIN pc
    BY <1>1, ThreadsDisjoint DEF IInv, TypeOK
  <2>2. WaitIdleReturns(c)
    <3>1. ASSUME NEW d \in Clients, d # c,
                 \/ \E prio \in Priorities : Submit(d, prio)
                 \/ WaitIdle(d) \/ ClientStep(d) \/ Retire(d)
          PROVE  pc'[c] = pc[c]
      BY <2>1, <3>1 DEF Submit, WaitIdle, ClientStep, Retire, SubmitNotify, NotifyOne,
           WaitIdleReturns, WaitIdleBlocks, Goto, TypeOK
    <3>2. ASSUME \/ \E prio \in Priorities : Submit(c, prio)
                 \/ WaitIdle(c) \/ ClientStep(c) \/ Retire(c)
          PROVE  WaitIdleReturns(c)
      BY <1>1, <2>1, <3>2 DEF Submit, WaitIdle, ClientStep, Retire, SubmitNotify,
           WaitIdleReturns, WaitIdleBlocks, Goto, TypeOK
    <3>3. ASSUME NEW w \in Workers, WorkerStep(w) PROVE pc'[c] \in {pc[c], "waitIdle"}
      BY <2>1, <3>3 DEF WorkerStep, Take, Block, Leave, Run, Count, Signal, NotifyAll, Goto, TypeOK
    <3>4. ASSUME NEW t \in Workers \cup Clients, SpuriousWakeup(t)
          PROVE  pc'[c] \in {pc[c], "waitIdle", "lock"}
      BY <2>1, <3>4 DEF SpuriousWakeup, Goto, TypeOK
    <3>5. CASE Destroy \/ DestroyNotifies \/ Join
      BY <1>1, <2>1, <3>5, OwnerIsClient
         DEF Destroy, DestroyNotifies, WakeAll, NotifyAll, Join, Goto, TypeOK
    <3>6. CASE Destroyed \/ UNCHANGED vars
      BY <1>1, <3>6 DEF Destroyed, vars
    <3> QED  BY <1>1, <3>1, <3>2, <3>3, <3>4, <3>5, <3>6 DEF Next
  <2>3. queue = {} /\ Held = {}
    <3>1. queue = {} /\ activeWorkers = 0
      BY <2>2 DEF WaitIdleReturns, NothingToDo
    <3>2. Active = {}
      BY <1>1, <3>1, Sizes, FS_EmptySet DEF IInv, Counted
    <3> QED  BY <1>1, <3>1, <3>2 DEF IInv, Counted, Active, Held
  <2>4. Submitted = finished
    BY <2>3 DEF Submitted
  <2>5. 0 .. since[c] - 1 \subseteq 0 .. nextSequence - 1
    BY <1>1, <2>1, Sizes, MaxJobsIsNat DEF Labels, TypeOK
  <2> QED  BY <1>1, <2>4, <2>5 DEF IInv, Jobs
<1>2. IInv /\ [Next]_vars =>
        [\A c \in Clients : pc[c] = "waitIdle" /\ pc'[c] = "ready"
           => 0 .. (since[c] - 1) \subseteq {j.sequence : j \in finished}]_vars
  BY <1>1
<1> QED  BY <1>2, PoolInvariant, PTL DEF Spec, WaitIdleComplete
=============================================================================
