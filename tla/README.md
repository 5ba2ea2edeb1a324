# Vaulkeeper: verification project

TLA+ models of Vaulkeeper (a storage manager for Windows, C++23), with TLC runs
on small instances and TLAPS proofs for every instance. `PROJECT.json` lists
components, runs, mutants, the map from definitions to source lines, findings,
hazards and theorems. Paths below are relative to the repository's `src/`.

## The system

Four programs share one core library: the desktop application
(`app/`, Qt), the command line `vk` (`cli/`), an elevated agent (`agent/`) and
an updater (`updater/`); a shell extension (`shellext/`) starts the first.

| Component | State | Operations | What is hard | What makes it correct |
|---|---|---|---|---|
| Quarantine store (`core/quarantine`) | a directory per item, `index.json`, each process's list and byte total | initialize, capture, restore, discard, purgeExpired | several processes without a lock, crashes, failing calls | no content lost or doubled; restored where it was; listed until it expires |
| Thread pool (`core/util/thread_pool`) | priority queue, counter of active workers, stop flag | submit, waitIdle, destructor, workerLoop | lost wakeups, counter outside the mutex | each job once; waitIdle and destructor wait for all and return |
| Cron (`core/scheduler/cron`) | bit sets of five fields | parseCron, nextFire | roll-over of minutes, hours, days, months | the first minute to come that the expression names |
| Scheduler (`core/scheduler/scheduler`) | vector of tasks, running flag, worker | schedule, cancel, start, stop, loop | stop without the mutex, id and action kept over a sleep | once per instant, cancel sticks, stop returns |
| MPSC queue (`core/util/mpsc_queue`) | linked nodes, head, tail | push, tryPop, destructor | half-done pushes, deletion under producers | order, no use after free, nothing lost |
| IPC and agent (`core/ipc`, `agent/`) | acceptor thread, running flag, one pipe instance | start, stop, runLoop, handler, request | stop against a blocked acceptor; clients that die; messages that are dropped | answers belong to requests; a failure means nothing was done; stop and requests end |
| Scan (`core/scan`, `ScanViewModel`) | cancel and busy flags, posted callbacks, tree | scanRoots, cancel, run, TreeBuilder | cancel before run; results behind progress; roots inside roots | busy until the last callback; totals; every scan ends |
| MFT and change journal (`platform/windows/mft`) | boot sector, batch, offset in a record | stream, readUsnJournal | data of a live disk: lengths, torn sectors, a journal that moves | reads stay inside; no torn record; no gap |
| Duplicates (`core/duplicates`, `core/hash`, its page and command) | files by size, by digest, clusters shown | findDuplicates, search, page | searches overlap while files change | exact classes; page shows one search |
| Cleaners (`core/cleaners`, residue scan) | one error code, a report | scan of seven cleaners | a call that fails or throws in a walk | the total is the sum of candidates, disjoint for each root |
| Rules and journal (`core/rules`, `core/journal`) | rules, matches, SQLite table | load, save, evaluate, execute, record | files change between match and action | the report tells what was done |
| Uninstaller (`core/uninstall`, its page) | list of programs, sorted copy | enumerateInstalled, sort, execute | keys come and go under an index | every program is listed, in order |
| Updater (`updater/`) | binary and its backup, handles | check, apply | kill between rename and copy | a whole binary remains; versions in order; handles closed |
| ETW (`platform/windows/etw`) | current context, detached threads | start, stop, callback | contexts deleted by threads | the current context is alive |
| Shell extension (`shellext/`) | reference counts | QueryInterface, AddRef, Release, LockServer, DllCanUnloadNow | counts of object and module apart | no unloading under a pointer |
| Configuration (`core/config`, `ApplicationViewModel`) | file, settings in memory | load, save, setLocale, commitFirstRun | truncation in place, signed integers | no setting lost |
| COM queries (`platform/windows/wmi`, `tasks`, `shortcuts`) | open interfaces, apartment | queryWmi, enumerateScheduledTasks, enumerateShortcuts | a release list for each failing call | the thread is left as it was found |
| Secure deletion (`core/fs/secure_delete`) | stream, pass, remaining bytes | secureDeleteFile | flushes that fail late; a growing file | overwritten when it says so |
| Event bus, interner, other utilities, plugins, privacy, health, other Windows queries, views | see "Not modelled" | | | |

The quarantine is used by the application's view models and by `vk
quarantine`, each with an object of its own on the same directory. Only the
rule engine captures; the command line lists, restores, discards and purges.
Rules and the uninstaller write the journal. Scans and searches for duplicates
run on QtConcurrent threads and post to the event loop. The scheduler uses cron.

## Modules

* `Custody` is the abstract specification of the quarantine: who has a piece of
  content, until when, and the three ways in which it may leave the disk.
* `Quarantine` is `quarantine.cpp`. The disk is `live` (content by user path),
  `store` (content by item directory) and `index` (the items that `index.json`
  parses to). Each process has `items`, `storedBytes` and a control state. A
  step is one file-system call with the bookkeeping that follows it, so a
  capture is `CaptureBegin`, `CaptureRename` (or `CaptureRenameFails`), and
  `PersistOpen`, `WriteItem`..., `PersistDone`. `Exit` in any state is a crash.
  `IoFault` is a failing call; its errors are dropped where the code drops them.
  `home`, `due`, `fate`, `acked` and `used` are history variables.
* The modules `*Proofs` have the theorems, each about the modules it extends:
  `QuarantineProofs`, `ThreadPoolProofs`, `SchedulerProofs` (scheduler and
  cron search), `MpscProofs`, `AgentProofs`, `ReaderProofs` (scan session and
  its tree, file table, change journal, duplicates), `MaintenanceProofs` (rules,
  list of programs, cleaners) and `HostProofs` (updater, trace sessions,
  configuration, secure deletion, COM queries, shell extension).
* `ThreadPool` is `thread_pool.cpp`, with a step per critical section and one
  for each thing done outside the mutex. Condition variables are control states
  that notifications leave; spurious wakeups are steps without fairness.
* `CronTime` has the calendar (with parameters for its sizes) and `NextFire`,
  what `nextFire` answers, right or not, for `Scheduler`. `Cron` is the parser
  and the search loop itself. Its properties do not use `NextFire`: they say
  what should be answered (`Upcoming`, `Written`).
* `Scheduler` extends `CronTime`: owner, clients, the worker's `loop()`. The
  worker holds the mutex between choosing a task and blocking; `stop()` does not
  take it. `made`, `shadowed`, `cancelled` and `log` number and record the
  actions; `shadowed` are those whose tasks came second to their identifier.
* `MpscQueue` is `mpsc_queue.hpp`, with a step per shared access and addresses
  that are reused after deletion.
* `AgentPipe` composes `elevated_service.cpp`, `pipe_server.cpp`,
  `pipe_client.cpp` and `ipc_message.cpp`: the agent's main thread, the acceptor
  and any number of client processes around the one pipe instance that exists
  at a time. A step is one Win32 call. A message is what `deserialize` looks at:
  length, version, and the key it was authenticated with.
* `ScanSession` composes `ScanViewModel`, `ScanEngine::run`, the posted
  callbacks and `TreeBuilder`. A step of the scanning thread is one entry, with
  the counters, the tree node and the progress report that belong to it.
  `propagateTotals` is a recursive function over the nodes. Bytes do not wrap.
* `Mft` is `NtfsMftReader::stream`: boot sector, batches, `applyUpdateSequence`
  and one step per attribute. Sums and differences of 32 bits wrap at `Wrap`;
  `outside` records that a read left its record.
* `UsnJournal` is `readUsnJournal` against a volume that appends and trims.
* `Duplicates` is `findDuplicates` with its page and its command: any number of
  searches, with a step for each file that is collected, measured or hashed.
  `bySize` and `byDigest` are the two hash tables, from keys to lists.
* `Cleaners` describes the seven cleaners and the residue scan by what differs
  in them (roots, what is wanted, what is reported) and has one walk for all.
  A candidate has the number of the root it was found in.
* `Journal` is `open`, `close` and `record` of the journal; `Rules` (with the
  parser and writer of `rules.yaml`, `evaluate` and `execute`) and `Uninstall`
  (registry, enumeration, page, `execute`) extend it.
* `Updater` is both commands of the updater, which may be killed at any step.
* `EtwSession` is `start`, `stop`, the callback and the detached trace threads.
* `ComServer` is the class factory, the context menu and the module's count,
  with threads of the shell between any two interlocked operations.
* `ConfigStore` is the configuration over starts, saves, kills and hand edits.
* `ComQueries` has the three COM queries as stacks of what is open; each call
  may fail, and each error path releases what its line in the code releases.
* `SecureDelete` is the passes over a file, the stream that holds writes back,
  and a program that appends.
* `MC*` modules hold model values, symmetry and inputs for the runs.
  `MCUtilities`, `MCScheduler`, `MCScan`, `MCMaintenance` and `MCHost` join
  modules that do not interact: `part` is chosen at the start of a behaviour,
  and the other modules' variables stay as they are. Their runs are the union
  of the runs of the parts.

An operator under a comment that begins with "Mutant" is a plausible bug in the
operator below it. The runs do not use it; exchanged for that operator it makes
TLC violate the property it is listed with in `PROJECT.json`.

## Runs

| Run | Shows | Bounds |
|---|---|---|
| `QuarantineSingle` | list, index and directories agree between operations; byte total | one process, no failures |
| `QuarantineShared` | `OnePlace`, `BackHome`, `RecordsAgree`; implements `Custody` | two processes, two paths, one crash or one failing call |
| `QuarantineLostUpdate` | violation of `Restorable` | two processes |
| `Utilities` | `ExactlyOnce`, `WaitIdleComplete`, `EveryJobRuns`, `WaitIdleEnds`, `DestructorEnds`; `MemoryIsSafe`, `FirstInFirstOut`, `Delivered` | 2 workers, 2 clients, 3 jobs, 2 priorities; 3 producers, 4 addresses, 4 pushes (0.33 million) |
| `CronThrow` | violation of `NeverThrows` | a 5-day calendar, the expressions of `test_cron.cpp` |
| `CronSkip` | violation of `NothingPassedOver` | same |
| `CronDays` | violation of `FiresAsWritten` | same |
| `Scheduler` | `SearchIsExact`: the answer is the first match to come, but for one minute after the last of an hour; once per instant, at most once after cancel; `stop` returns, overdue tasks are served | two years of the 5-day calendar, 652 expressions; 2 tasks, of 2 identifiers or one, 5 ticks over the last minute of an hour (0.57 million) |
| `Scan` | `TreeAgrees`, `BusyCoversTheScan`, `ScanEnds`; `ReadsStayInside`, `NoTornRecord`, `WalkIsBounded`; `ChangesAreComplete`; `ClustersAreExact` | 2 scans of nested roots; records of 16 units in 2 sectors, or in sectors of one unit or none; 5 journal records; 2 searches over 3 files with one disturbance (0.58 million) |
| `Agent` | `AnswersMatch`, `FailureMeansNotHandled`, `StopReturns`, `RequestsEnd` | 2 clients, 4 kinds of request, 2 requests a client (0.19 million) |
| `Maintenance` | `ReportIsExact`; `RunAccounts`; `ListIsComplete` | 7 entries in 2 roots, one of them listed twice or with a root inside, and every set of failing calls; 3 files, one execution, one edit; 2 registry views, 3 keys, 2 changes (3.1 million) |
| `Host` | `Recoverable`, `CheckIsRight`; `CurrentIsAlive`; `UnloadIsSafe`; `SettingsKept`; `ThreadsLeftAsFound`; `OverwrittenWhenDone` | 4 applies, versions of up to 4 numbers; 2 sessions, 3 contexts; 2 threads, 3 objects; 3 settings of 2 bits, 4 turns; 2 threads with nested apartments; a file of 3 units, buffer of 2 (0.34 million) |

Two processes, two contents and one crash are enough for each race on the index:
the code has no step that depends on a third list. The calendar is small enough
for TLC to go through the period after which date and weekday meet again, and
still has hours, days, months and years that roll over. There are fewer
addresses than nodes made (the stub and one per push), so the queue reuses them.
A second client is enough for the agent, which serves one at a time: it finds
the pipe absent, busy or free, and connects where the other has just left. A
second scan, search, session, apply or save is what meets the remains of the
first. In `Mft` the lengths are nothing, one that fits, one that does not and
one that wraps, and a record has two sectors to be torn between. The version
texts include longer and shorter ones than the current. A buffer that does not
divide the file makes the last chunk a short one.

`Agent`, `Scan`, `Maintenance` and `Host` do not check for deadlock: their
programs end (an agent that is shut down, a command of the updater, the last of
the bounded scans, edits or starts), and a part is left with nothing to do then.
That nobody waits for ever is stated by `StopReturns`, `RequestsEnd` and
`ScanEnds` instead.

Fairness: `ThreadPool` and `Scheduler` assume that the operating system runs
every thread that can run (weak fairness of a worker's steps and of a call once
made), that jobs and actions return and, in `Scheduler`, that the clock goes on.
Nobody has to make a call. Spurious wakeups are never needed. In `Scheduler` the
clock stops at `MaxTime`; a wait that ends later ends there, and the worker then
sees that its time has not come. `MpscQueue` assumes that a push that has begun
ends, and that the consumer polls. `AgentPipe` assumes that main thread and
acceptor run, and that a client that has begun opens, writes and reads or dies; no
client has to ask, and nobody has to shut the agent down. `Scan` assumes that
the scanning thread and the event loop run. The other modules have no
liveness property: nothing in the code calls their operations by itself.

## Findings

* `Restorable` (README.md:23) fails when two processes rewrite the index from
  their own lists. It fails as well when one process dies between truncating
  and rewriting the index (the run's cfg with `MaxCrashes = 1` and one process).
* `NeverThrows` (tests/unit/scheduler/test_cron.cpp:23): in the last minute of a
  matching hour `nextFire` tests bit 60 of a `bitset<60>`. In the scheduler's
  thread the exception ends the process.
* `NothingPassedOver` (tests/unit/scheduler/test_cron.cpp:20): called in a
  minute :59 whose hour does not match, `nextFire` passes over the :00 after it
  (cron.cpp:94). `SearchIsExact` says that it passes over nothing else.
* `FiresAsWritten` (README.md:25): days and months are stored from 1 and looked
  up from 0 (cron.cpp:98). "1" is the second day, the first of a month and
  January match nothing, and day 31 and December have no bit.

The models do the following as the code does; the properties leave room for it:

* A restore replaces a new file at the path (`Custody` has a way out for it).
* `schedule` takes an identifier that is in use, and `find_if` then finds the
  first of the tasks only (scheduler.cpp:68). The second is never moved: once its
  time has come it runs again and again for the same instant, before all tasks
  that are due later. `OncePerInstant` leaves out the actions that came second
  (`shadowed`), and `OverdueIsServed` the time at which one of them is due.
* `PipeServer::stop` wakes the acceptor once. Between its test of `running` and
  `CreateNamedPipe` it misses that (`missed`), and the join waits for a client.
* The MFT walk goes back when a length near 2^32 wraps `offset + length`.
* A boot sector that gives a sector less than two bytes makes the end of a
  sector wrap (ntfs_mft.cpp:110), and the fix-up reads and writes outside of the
  record: it may succeed, fail or end the process (`Strays`). A record of less
  than four bytes is shorter than its mark. `ReadsStayInside` is about the other
  boot sectors (`SoundBoot`).
* `TempCleaner` walks context.temp and localAppData/Temp (temp_cleaner.cpp:38),
  which are usually one directory. Its files are then in the report twice, and
  twice in the total; any two roots that overlap do the same. `ReportIsExact`
  is about the files of each root.
* A registry key that goes away during the enumeration shifts the positions.
* A root of `vk duplicates` inside another makes a file its own duplicate, and a
  `ReadFile` that fails gives the digest of the part that was read.
* A second update that is cut short moves the remains of the first over the
  backup; a version with more numbers is compared beyond a vector's end.
* The callback of one trace may hold the context of another, which the other's
  thread deletes.
* A save of the configuration that is cut short leaves none; a running
  application writes over hand edits.
* The last flush of a secure deletion may fail unnoticed. A buffer of size 0
  would never end a pass (`BufferAssumption`).
* A directory iterator that throws in `enumerateShortcuts` leaves COM
  initialised. `queryWmi` succeeds once per process, since the second
  `CoInitializeSecurity` fails.
* A size that cannot be read is 2^64 - 1 and passes any minimum of a rule.

## Proofs

Every safety property of the passing runs is proved: it holds for every value of
the constants that meets the named `ASSUME`s, so for any number of threads,
clients, files or objects, and any bound on the number of calls. Every proof has
an inductive invariant, which TLC checked as an invariant of the component
before it was proved, and one step per action.

`QuarantineProofs` proves, for any number of crashes and failing calls and any
retention, `TypeCorrect`, `ContentConserved`, `RestoredWhereItWas`,
`RecordsNeverLie` (the invariants of `QuarantineShared`), `DirectoriesOwned` (a
directory inside capture or restore has one user) and `CustodyKept`:
`Quarantine` implements `Custody`. None of the invariants is inductive alone.
That a restored file is back home needs that records agree with the content of
their directories; that a rename cannot move content into a directory someone
is removing needs ownership; that content is in one place needs both. `IInv` is
their conjunction with `TypeOK` and `ClockOK` (a purge's time is not in the
future, without which a purge could precede the expiry). Steps fall into six
kinds (`StepKinds`): those that move content are treated one by one, those that
remove the directory of a record together (`RemoveStep`), and those that only
change memory or rewrite the index from existing records together
(`QuietStep`). The refinement uses `IInv` before and after a step.

`TotalsAreRight` says of every process that its byte total is the sum over its
list, whatever others do and whatever fails. The sum is the number of bytes of
the list, a byte being a pair of an item's place and a place in the item
(`Bytes`): erasing an item is then a bijection that moves the pairs behind it
down (`RemoveTotal`), and no induction over lists is needed.
`StoreIsConsistent` (the invariant of `QuarantineSingle`) has the hypotheses of
that run, one process and no failures, and nothing else is bounded. Its
invariant, `Synchronised`, says for each place in an operation which of index,
list and directories agree, but for the one directory that is open.

`ThreadPoolProofs`: `JobsRunOnce` and `WaitIdleIsComplete`. A job is where its
number says (`Jobs`: the jobs queued, held and finished are different and are
all the numbers so far), the counter of active workers is the number of workers
between taking a job and counting down (`Counted`), and a worker exits only when
the pool stops with an empty queue (`Ending`), which stays so because nobody
submits to a pool that stops. `waitIdle` then returns at a time at which no job
is queued or held.

`SchedulerProofs`: `InstantsRunOnce` and `CancelIsRespected`. Tasks are numbered
by their actions (`Numbered`); what the worker sleeps for was chosen from the
vector (`Chosen`); everything in the log is before the next run of its task
(`Past`) and before what the worker holds (`Ahead`), unless the task was
scheduled under an identifier in use: a task that was not is the first with its
identifier as long as it is there, so that `find_if` finds it. An action the
worker still holds after its cancellation has not run since (`Late`).

`LoopIsNextFire`: the loop of `nextFire` computes `NextFire`, which is what the
scheduler's module takes it for, for every calendar and expression. Its
invariant (`Searched`) says that nothing up to the minute looked at matches, and
that the `struct tm` is that minute's (`Looked`), except in the first turn of a
call in the last minute of an hour, when it has a minute that `mktime` has not
carried into the hour yet. That the loop goes on by a minute as the calendar
does rests on the division of an instant into hours and minutes
(`DividedOnce`). `SearchesAreExact` compares the answer with all minutes to
come: it is the first that matches, and after the last minute of an hour the one
minute that begins the next is the only one that may be missed.

`MpscProofs`: `QueueIsMemorySafe` and `QueueIsFifo`. The invariant says that
there is a chain, `place[0..Last]`, of the nodes in the order of their
exchanges, from the tail (`k`) to the head; each `next` is set or will be set by
the one producer that is between exchange and store there (`Linked`,
`Linking`); nodes in the chain and those that producers hold are different and
allocated (`Own`, `Uses`), although addresses are used again.

`AgentProofs`: `AnswersBelong` and `FailuresAreClean`. Messages carry the number
of their request (`Numbered`); what is in the pipe belongs to the client that
is connected (`Instance`, `Peer`), because a pipe instance serves one client;
and the agent's place in its loop says whether the request was handled
(`Accounted`), which makes a disconnection before the answer visible as one.

`ReaderProofs`: `ReadsAreInside`, `RecordsAreWhole` and `WalksAreBounded` need
that the record being walked passed the fix-up and that `offset` is what the
tests before it left, modulo `Wrap`; with sectors of two bytes or more the ends
of the sectors do not wrap and lie in the record; `JournalIsComplete` that the
next read starts behind the last change; `BusyIsTruthful` that the end of a scan
is the last of its callbacks and the only one of its kind.

`TreeIsRight`: any entries, any roots, visited in any order and cut short
anywhere. While a scan goes on (`TreeInv`), each node holds its own files and
their bytes, with every node there are those above it (`Grows`), and the bytes
of files, counters and volumes are the same (`Counts`). That `propagateTotals`
turns this into the totals below each node takes two facts. The totals, defined
by what is below a node and without recursion (`Totals`), satisfy the equation
of the recursion (`TotalsAdd`): what is below a node is its own, its children,
and what is below them, and these do not overlap (`FilesSplit`, `NodesSplit`).
And nothing else satisfies it (`TotalsOnly`): of the nodes where a solution
differs, one has the fewest nodes below it (`LeastNumber`), its children have
fewer (`FewerBelow`) and so are right, and then it is right itself. This
replaces the induction over trees, and it also gives that the recursive function
is well defined (`PropagateIsRight`).

`ClassesAreExact`: any number of searches over any files and contents. Of a
search that nothing has disturbed, the invariant (`DupInv`) says at each stage
what is done and what is still to come: every file that exists is collected or
ahead (`Collecting`), and those measured are in `bySize` under their sizes
(`Measuring`), each once. The clusters are the classes of the sizes that are
done (`Grouping`), while those of one group are in `byDigest` (`Hashing`). The
searches do not interfere; a rewrite ends the claim on all that are under way.
That the total is the spare bytes joins a bijection for each cluster, between
its numbers and the bytes of all its files but one, to one bijection (`Glue`).

`MaintenanceProofs`: `ReportsAreTrue`. The counters of a run are the
cardinalities of the paths gone through so far (`Tallied`), and what this run
moved comes from those of its matches it has come to (`Noted`, `Taken`).
`ListsAreComplete`: until a key is lost, every program that was there at the
start has been read, or its key is in a later view, or at a position in this one
that is not below the index (`NobodyPassed`). Installers add keys, which moves
positions up (`PositionGrows`); removing keys moves them down, and is what
`disturbed` excludes. Sorting keeps the programs (`SortKeeps`), and joining
neighbours leaves somebody of each identifier (`UniqueKeeps`), wherever the sort
puts equals. `ReportsAreExact`: for every tree, every cleaner with any roots and
whatever fails, the candidates of a root are apart from each other and from what
its walk has yet to come to (`Belongs`), which is what leaving a reported
directory, or the error code kept for the next entry, could break; the total is
what the candidates add up to (`Adds`); and as long as nothing has failed, every
byte the cleaner is for in a root that has begun is reported for it, summed for
the current root, or still to come (`Complete`, `Summed`).

`HostProofs`:

* `BinaryIsKept`: where a whole binary is at each phase of an apply;
* `ChecksAreRight`: which handles are open, and that comparing versions number
  by number gives the order in which the first number that is unlike decides
  (`NewerIsGreater`, `FirstDecides`);
* `ContextsAlive`: a context has a thread as long as it is not deleted, and its
  thread takes it out of the current place before that;
* `NoSettingLost`: writing and reading a setting are inverse for all 64-bit
  values, the signed half included (`Width` stands for 2^64);
* `DeletedIsOverwritten`: what the current pass has gone over is in the stream
  or on the disk (a pass of any length, any buffer);
* `QueriesCleanUp`: the open interfaces of a thread are the stack its next call
  releases, and its initialisations are balanced by that stack;
* `UnloadsAreSafe`: an object's count is the number of the shell's pointers and
  of threads that are making it, and the module's count the number of locks and
  of objects that have not been counted out. The sums over threads are
  cardinalities of sets of pairs (`Each`), so that no induction is needed.

Assumptions: the named `ASSUME`s, each about what a constant is (sizes are
natural numbers, markers such as `NoContext` are not members of the sets they
are added to, sets of threads are finite, a boot sector and a record are within
the widths of their fields, a secure deletion's buffer is not empty, paths are
sequences of names, sizes and contents of files are finite); that nothing lies
below a regular file and a disk holds less than 2^64 bytes (`TreeAssumption`);
that `makeItemId` never repeats an identifier, and that the clock does not go
back.

The library's induction theorems are of no use to the installed provers, since
they take an operator. Where a property is about a sum, the sum is a number of
pairs (a file and one of its bytes), and bijections take the place of induction
over lists; where it is about a recursion, a least counterexample does.

Checked by TLC only: all liveness, with the fairness above (`EveryJobRuns`,
`WaitIdleEnds`, `DestructorEnds`, `StopEnds`, `OverdueIsServed`, `Delivered`,
`ScanEnds`, `StopReturns`, `RequestsEnd`), which the provers do not reach. The
four violations are counterexamples of TLC.

## What the models leave out

The text of `index.json` (the last write decides what it parses to; two writers
do not interleave inside a record), names and their code pages, copying across
volumes, users who delete or change files at captured paths, jobs that throw or
call `waitIdle`, `pendingJobs` and futures, daylight saving and leap years,
overflow of a cron step near `INT_MAX`, several owners of a scheduler, memory
orders weaker than the code's. A file is hashed in one step, and digests do not
collide. The authentication code of a message is its key. Nobody truncates a
file that is securely deleted. In `Rules` the quarantine is what `capture` does
to one file; its index is in `Quarantine`.

## Not modelled

* The event bus: no code publishes or subscribes.
* The string interner: a set under a mutex. The views it returns may dangle when
  the vector of strings grows (a hazard without a property, since names are
  values in `ScanSession`).
* Value types, formatting, logging, paths, volumes and compression: functions of
  their arguments, or one system call each.
* Hash functions and perceptual hashes: arithmetic without control.
* Plugins and Lua: libraries loaded in sequence, entry points called in order.
* Privacy and health: patterns and thresholds over data.
* Registry, SMART, service and BitLocker queries: one handle, read and closed.
* The scan cache (opened, not used by scans), the journal's queries and vacuum
  (single SQL statements), registration of the shell extension (constants).
* Views and the view models that pass one call on.

## Plan

1. Done: quarantine with proofs, thread pool, cron and scheduler, MPSC queue.
2. Done: agent and pipes, scans, MFT, change journal, duplicates, cleaners, rules
   and journal, uninstaller, updater, ETW, shell extension, configuration, COM
   queries, secure deletion.
3. Done: proofs of the safety properties of all of these: `ReportIsExact`,
   `ClustersAreExact` and `TreeAgrees` were the last.
4. Possible next: the scan cache and plugins, once scans use the one and
   something loads the others.
