----------------------------- MODULE Quarantine -----------------------------
(***************************************************************************)
(* The quarantine store (core/quarantine/quarantine.cpp): a directory that *)
(* holds one sub-directory per captured item and an index.json.  Every     *)
(* process that uses it (the desktop application, each run of the vk       *)
(* command line) keeps its own list of items, read once by initialize and  *)
(* written back in full by every operation that changes it.  There is no   *)
(* lock: the file-system calls of two processes interleave, and a process  *)
(* may die between any two of them.                                        *)
(*                                                                         *)
(* A step is one file-system call together with the private bookkeeping    *)
(* that follows it.  A file or directory tree is one content token.        *)
(***************************************************************************)
EXTENDS Integers, Sequences, SequencesExt, FiniteSets

CONSTANTS Procs,           \* processes that open the store
          Paths,           \* original locations of user files
          Contents,        \* pieces of user data
          Ids,             \* item identifiers drawn by makeItemId
          Size,            \* size of each piece of content
          Retention,       \* retention each process was initialized with
          IgnoreInitError, \* processes that go on after initialize failed
          Capturers,       \* processes that capture (the command line does not)
          MaxIoFaults,     \* bound on the failing file-system calls
          MaxCrashes,      \* bound on the processes that die in an operation
          Absent,          \* no file or directory at this place
          EmptyDir,        \* an item directory without its content
          NoItem,          \* no item is being worked on
          MaxTime          \* bound on the clock

ASSUME MarkersDistinct ==
    /\ Absent \notin Contents /\ EmptyDir \notin Contents /\ Absent # EmptyDir
    /\ Absent \notin Paths
ASSUME SizesAreNat == Size \in [Contents -> Nat]
ASSUME RetentionsAreNat == Retention \in [Procs -> Nat]
ASSUME BoundsAreNat == MaxIoFaults \in Nat /\ MaxCrashes \in Nat /\ MaxTime \in Nat
ASSUME RolesAreProcs == IgnoreInitError \subseteq Procs /\ Capturers \subseteq Procs

VARIABLES live,        \* content at each user path
          store,       \* content of each item directory
          index,       \* items that parsing index.json yields
          now,         \* system clock
          pc,          \* where each process is inside an operation
          items,       \* Quarantine::items of each process
          storedBytes, \* Quarantine::storedBytes of each process
          job,         \* the item a capture or a restore is working on
          cursor,      \* position of the purge or of the index writer
          at,          \* the time purgeExpired was called with
          ioFaults,    \* file-system calls that failed so far
          crashes      \* processes that died in an operation so far

\* History of the user's data, read by no action.
VARIABLES used,        \* identifiers drawn so far
          acked,       \* identifiers whose capture returned success
          home,        \* path each content was created at
          due,         \* expiry of the last capture of each content
          fate         \* why a content left the disk

disk == <<live, store, index>>
memory == <<pc, items, storedBytes, job, cursor, at>>
failures == <<ioFaults, crashes>>
history == <<used, acked, home, due, fate>>
vars == <<live, store, index, now, pc, items, storedBytes, job, cursor, at,
          ioFaults, crashes, used, acked, home, due, fate>>

Item == [id : Ids, original : Paths, size : Nat, expires : Nat]

Labels == {"off", "idle", "rename", "clean", "purge", "persist", "write"}
Alive == {"idle", "rename", "clean", "purge", "persist", "write"}

\* The bytes of a list, each by its item and its place in it; their number is
\* the sum of the sizes.
Bytes(s) == UNION {{i} \X (1 .. s[i].size) : i \in DOMAIN s}
TotalSize(s) == Cardinality(Bytes(s))

\* Mutant: the id is not compared, the newest item is taken.
NewestAt(s, i, id) == i = Len(s)

\* std::find_if: the first item with this id.
FoundAt(s, i, id) == /\ i \in DOMAIN s
                     /\ s[i].id = id
                     /\ \A j \in 1..(i - 1) : s[j].id # id

\* storedBytes -= std::min(storedBytes, item.storedSizeBytes); items.erase(it)
Forget(p, i) ==
    LET n == items[p][i].size
    IN  /\ storedBytes' = [storedBytes EXCEPT ![p] = IF @ <= n THEN 0 ELSE @ - n]
        /\ items' = [items EXCEPT ![p] = RemoveAt(@, i)]

\* A file-system call fails.
IoFault == ioFaults < MaxIoFaults /\ ioFaults' = ioFaults + 1

\* Mutant: the directory is left behind.
LeaveBehind(id, reason) == UNCHANGED <<store, fate, ioFaults>>

\* remove_all(storagePath, ec) with ec ignored: without effect if it fails.
\* What is lost is lost for this reason.
RemoveAll(id, reason) ==
    \/ /\ store' = [store EXCEPT ![id] = Absent]
       /\ fate' = [c \in Contents |-> IF store[id] = c THEN reason ELSE fate[c]]
       /\ UNCHANGED ioFaults
    \/ /\ IoFault
       /\ UNCHANGED <<store, fate>>

\* Mutant: the source is copied.
CopyFrom(x) == live

\* std::filesystem::rename takes the source away.
MoveFrom(x) == [live EXCEPT ![x] = Absent]

\* Mutant: identifiers repeat.
AnyId(id) == TRUE

\* makeItemId: 128 random bits are taken never to repeat.
FreshId(id) == id \notin used

Goto(p, label) == pc' = [pc EXCEPT ![p] = label]
-----------------------------------------------------------------------------
Init == /\ live = [x \in Paths |-> Absent]
        /\ store = [id \in Ids |-> Absent]
        /\ index = <<>>
        /\ now = 0
        /\ pc = [p \in Procs |-> "off"]
        /\ items = [p \in Procs |-> <<>>]
        /\ storedBytes = [p \in Procs |-> 0]
        /\ job = [p \in Procs |-> NoItem]
        /\ cursor = [p \in Procs |-> 0]
        /\ at = [p \in Procs |-> 0]
        /\ ioFaults = 0
        /\ crashes = 0
        /\ used = {}
        /\ acked = {}
        /\ home = [c \in Contents |-> Absent]
        /\ due = [c \in Contents |-> 0]
        /\ fate = [c \in Contents |-> "none"]
-----------------------------------------------------------------------------
(* Environment: the user saves new data at a free path, time passes.       *)

UserCreates(x, c) ==
    /\ live[x] = Absent
    /\ home[c] = Absent
    /\ live' = [live EXCEPT ![x] = c]
    /\ home' = [home EXCEPT ![c] = x]
    /\ UNCHANGED <<store, index, now, memory, used, acked, due, fate, failures>>

Tick == /\ now < MaxTime
        /\ now' = now + 1
        /\ UNCHANGED <<disk, memory, history, failures>>
-----------------------------------------------------------------------------
(* A process starts, and loadIndex keeps every record of the index that    *)
(* parses; a file that is missing or just truncated yields none.           *)

Initialize(p) ==
    /\ pc[p] = "off"
    /\ Goto(p, "idle")
    /\ items' = [items EXCEPT ![p] = index]
    /\ storedBytes' = [storedBytes EXCEPT ![p] = TotalSize(index)]
    /\ UNCHANGED <<disk, now, job, cursor, at, history, failures>>

\* The directory or the index cannot be opened: the application ignores the
\* error and works on an empty list, the command line gives up.
InitializeFails(p) ==
    /\ IoFault
    /\ pc[p] = "off"
    /\ p \in IgnoreInitError
    /\ Goto(p, "idle")
    /\ UNCHANGED <<disk, now, items, storedBytes, job, cursor, at, history, crashes>>

\* The process ends, between two operations or in the middle of one.
Exit(p) ==
    /\ pc[p] # "off"
    /\ IF pc[p] = "idle" THEN UNCHANGED crashes
       ELSE crashes < MaxCrashes /\ crashes' = crashes + 1
    /\ Goto(p, "off")
    /\ items' = [items EXCEPT ![p] = <<>>]
    /\ storedBytes' = [storedBytes EXCEPT ![p] = 0]
    /\ job' = [job EXCEPT ![p] = NoItem]
    /\ cursor' = [cursor EXCEPT ![p] = 0]
    /\ at' = [at EXCEPT ![p] = 0]
    /\ UNCHANGED <<disk, now, history, ioFaults>>
-----------------------------------------------------------------------------
(* capture: draw an id, create its directory, measure the source ...       *)

CaptureBegin(p, x, id) ==
    /\ p \in Capturers
    /\ pc[p] = "idle"
    /\ live[x] # Absent
    /\ FreshId(id)
    /\ used' = used \cup {id}
    /\ store' = [store EXCEPT ![id] = EmptyDir]
    /\ job' = [job EXCEPT ![p] = [id |-> id, original |-> x,
                                  size |-> Size[live[x]], expires |-> 0]]
    /\ Goto(p, "rename")
    /\ UNCHANGED <<live, index, now, items, storedBytes, cursor, at, acked, home, due, fate, failures>>

\* ... move it into the directory, and list it.
CaptureRename(p) ==
    LET x == job[p].original
        item == [job[p] EXCEPT !.expires = now + Retention[p]]
    IN  /\ pc[p] = "rename"
        /\ live[x] # Absent
        /\ store' = [store EXCEPT ![item.id] = live[x]]
        /\ live' = MoveFrom(x)
        /\ due' = [due EXCEPT ![live[x]] = item.expires]
        /\ job' = [job EXCEPT ![p] = item]
        /\ items' = [items EXCEPT ![p] = Append(@, item)]
        /\ storedBytes' = [storedBytes EXCEPT ![p] = @ + item.size]
        /\ Goto(p, "persist")
        /\ UNCHANGED <<index, now, cursor, at, used, acked, home, fate, failures>>

\* The source is gone or cannot be moved: the directory is removed again, or
\* that fails too and an exception leaves capture.
CaptureRenameFails(p) ==
    /\ pc[p] = "rename"
    /\ \/ /\ live[job[p].original] = Absent
          /\ store' = [store EXCEPT ![job[p].id] = Absent]
          /\ UNCHANGED ioFaults
       \/ /\ IoFault
          /\ store' \in {[store EXCEPT ![job[p].id] = Absent], store}
    /\ job' = [job EXCEPT ![p] = NoItem]
    /\ Goto(p, "idle")
    /\ UNCHANGED <<live, index, now, items, storedBytes, cursor, at, history, crashes>>
-----------------------------------------------------------------------------
(* restore: move the content back; rename replaces a file found there.     *)

Restore(p, id) ==
    \E i \in DOMAIN items[p] :
        LET item == items[p][i]
            victim == live[item.original]
        IN  /\ pc[p] = "idle"
            /\ FoundAt(items[p], i, id)
            /\ store[id] \in Contents
            /\ live' = [live EXCEPT ![item.original] = store[id]]
            /\ store' = [store EXCEPT ![id] = EmptyDir]
            /\ fate' = [c \in Contents |-> IF victim = c THEN "overwritten" ELSE fate[c]]
            /\ job' = [job EXCEPT ![p] = item]
            /\ Goto(p, "clean")
            /\ UNCHANGED <<index, now, items, storedBytes, cursor, at, used, acked, home, due, failures>>

\* The directory is removed (a failure is ignored) and the item forgotten.
RestoreClean(p) ==
    \E i \in DOMAIN items[p] :
        /\ pc[p] = "clean"
        /\ FoundAt(items[p], i, job[p].id)
        /\ RemoveAll(job[p].id, "restored")
        /\ Forget(p, i)
        /\ job' = [job EXCEPT ![p] = NoItem]
        /\ Goto(p, "persist")
        /\ UNCHANGED <<live, index, now, cursor, at, used, acked, home, due, crashes>>

Discard(p, id) ==
    \E i \in DOMAIN items[p] :
        /\ pc[p] = "idle"
        /\ FoundAt(items[p], i, id)
        /\ RemoveAll(id, "discarded")
        /\ Forget(p, i)
        /\ Goto(p, "persist")
        /\ UNCHANGED <<live, index, now, job, cursor, at, used, acked, home, due, crashes>>
-----------------------------------------------------------------------------
(* purgeExpired walks the list, then rewrites the index in any case.       *)

PurgeBegin(p) ==
    /\ pc[p] = "idle"
    /\ cursor' = [cursor EXCEPT ![p] = 1]
    /\ at' = [at EXCEPT ![p] = now]
    /\ Goto(p, "purge")
    /\ UNCHANGED <<disk, now, items, storedBytes, job, history, failures>>

\* Mutant: one tick too early.
IsExpiredEarly(item, time) == time + 1 >= item.expires

IsExpired(item, time) == time >= item.expires

PurgeItem(p) ==
    LET item == items[p][cursor[p]]
    IN  /\ pc[p] = "purge"
        /\ cursor[p] <= Len(items[p])
        /\ \/ /\ IsExpired(item, at[p])
              /\ RemoveAll(item.id, "expired")
              /\ Forget(p, cursor[p])
              /\ UNCHANGED cursor
           \/ /\ ~IsExpired(item, at[p])
              /\ cursor' = [cursor EXCEPT ![p] = @ + 1]
              /\ UNCHANGED <<store, fate, items, storedBytes, ioFaults>>
        /\ UNCHANGED <<live, index, now, pc, job, at, used, acked, home, due, crashes>>

PurgeEnd(p) ==
    /\ pc[p] = "purge"
    /\ cursor[p] > Len(items[p])
    /\ Goto(p, "persist")
    /\ cursor' = [cursor EXCEPT ![p] = 0]
    /\ at' = [at EXCEPT ![p] = 0]
    /\ UNCHANGED <<disk, now, items, storedBytes, job, history, failures>>
-----------------------------------------------------------------------------
(* persistIndex: open the index truncated, then write every item.  The     *)
(* last flush decides what the file parses to.                             *)

PersistOpen(p) ==
    /\ pc[p] = "persist"
    /\ index' = <<>>
    /\ cursor' = [cursor EXCEPT ![p] = 0]
    /\ Goto(p, "write")
    /\ UNCHANGED <<live, store, now, items, storedBytes, job, at, history, failures>>

PersistOpenFails(p) ==
    /\ IoFault
    /\ pc[p] = "persist"
    /\ job' = [job EXCEPT ![p] = NoItem]
    /\ Goto(p, "idle")
    /\ UNCHANGED <<disk, now, items, storedBytes, cursor, at, history, crashes>>

WriteItem(p) ==
    /\ pc[p] = "write"
    /\ cursor[p] < Len(items[p])
    /\ cursor' = [cursor EXCEPT ![p] = @ + 1]
    /\ index' = SubSeq(items[p], 1, cursor[p] + 1)
    /\ UNCHANGED <<live, store, now, pc, items, storedBytes, job, at, history, failures>>

\* The stream's state is never looked at again: ok() is returned also when
\* only a prefix of the list reached the disk.
PersistDone(p) ==
    /\ pc[p] = "write"
    /\ \/ cursor[p] = Len(items[p]) /\ UNCHANGED ioFaults
       \/ IoFault
    /\ acked' = IF job[p] = NoItem THEN acked ELSE acked \cup {job[p].id}
    /\ job' = [job EXCEPT ![p] = NoItem]
    /\ cursor' = [cursor EXCEPT ![p] = 0]
    /\ Goto(p, "idle")
    /\ UNCHANGED <<disk, now, items, storedBytes, at, used, home, due, fate, crashes>>
-----------------------------------------------------------------------------
Next ==
    \/ Tick
    \/ \E x \in Paths, c \in Contents : UserCreates(x, c)
    \/ \E p \in Procs :
          \/ Initialize(p) \/ InitializeFails(p) \/ Exit(p)
          \/ \E x \in Paths, id \in Ids : CaptureBegin(p, x, id)
          \/ CaptureRename(p) \/ CaptureRenameFails(p)
          \/ \E id \in Ids : Restore(p, id) \/ Discard(p, id)
          \/ RestoreClean(p)
          \/ PurgeBegin(p) \/ PurgeItem(p) \/ PurgeEnd(p)
          \/ PersistOpen(p) \/ PersistOpenFails(p) \/ WriteItem(p) \/ PersistDone(p)

Spec == Init /\ [][Next]_vars
-----------------------------------------------------------------------------
(* Properties                                                              *)

\* The variables have their types; a process inside capture or restore works
\* on an item, and the cursor stays within the list it walks.
TypeOK ==
    /\ live \in [Paths -> Contents \cup {Absent}]
    /\ store \in [Ids -> Contents \cup {Absent, EmptyDir}]
    /\ index \in Seq(Item)
    /\ now \in Nat
    /\ pc \in [Procs -> Labels]
    /\ items \in [Procs -> Seq(Item)]
    /\ job \in [Procs -> Item \cup {NoItem}]
    /\ cursor \in [Procs -> Nat]
    /\ at \in [Procs -> Nat]
    /\ ioFaults \in Nat /\ crashes \in Nat
    /\ used \subseteq Ids
    /\ acked \subseteq Ids
    /\ home \in [Contents -> Paths \cup {Absent}]
    /\ due \in [Contents -> Nat]
    /\ fate \in [Contents -> {"none", "discarded", "expired", "overwritten", "restored"}]
    /\ \A p \in Procs :
          /\ pc[p] \in {"rename", "clean"} => job[p] \in Item
          /\ pc[p] = "purge" => cursor[p] \in 1..(Len(items[p]) + 1)

OnDisk(c) == (\E x \in Paths : live[x] = c) \/ (\E i \in Ids : store[i] = c)

Placed(c) ==
    /\ \A x, y \in Paths : live[x] = c /\ live[y] = c => x = y
    /\ \A i, j \in Ids : store[i] = c /\ store[j] = c => i = j
    /\ \A x \in Paths, i \in Ids : ~(live[x] = c /\ store[i] = c)
    /\ OnDisk(c) <=> home[c] # Absent /\ fate[c] = "none"
    /\ home[c] = Absent => fate[c] = "none"

\* A piece of content is at one user path or in one item directory, never in
\* two places, and what the user created is on the disk until a discard, a
\* purge or a restored file on top of it has accounted for its loss.
OnePlace == \A c \in Contents : Placed(c)

\* A restored file is back where it came from: content is found at the path
\* it was created at and at no other, through any capture, index rewrite,
\* reload and restore by any process.
BackHome == \A x \in Paths : live[x] \in Contents => home[live[x]] = x

\* Records of an item that processes and the index hold.
Records == ToSet(index) \cup UNION {ToSet(items[p]) : p \in Procs}

\* However stale a record is, it never describes other content than the one
\* its directory holds: path and expiry are those of that content's capture.
RecordsAgree ==
    \A r \in Records :
        /\ r.id \in used
        /\ store[r.id] \in Contents =>
              r.original = home[store[r.id]] /\ r.expires = due[store[r.id]]

\* A directory that a capture is filling, or that a restore is about to
\* remove, is touched by nobody else: no record names the first, and no
\* content can come back into the second.
Ownership ==
    /\ \A id \in Ids : id \notin used => store[id] = Absent
    /\ \A p \in Procs : pc[p] = "rename" =>
          /\ job[p].id \in used
          /\ store[job[p].id] = EmptyDir
          /\ \A r \in Records : r.id # job[p].id
          /\ \A q \in Procs : pc[q] = "rename" /\ job[q].id = job[p].id => p = q
    /\ \A p \in Procs : pc[p] = "clean" =>
          job[p] \in ToSet(items[p]) /\ store[job[p].id] \notin Contents

\* No process is inside an operation.
Quiet == \A p \in Procs : pc[p] \in {"off", "idle"}

IndexIds == {index[i].id : i \in DOMAIN index}

\* In a single process without failures, what the list command prints as the
\* total is the sum over the list at every point, however items were loaded,
\* captured, restored, discarded and purged; and between operations the index
\* on disk, the list in memory and the item directories say the same.
Consistent ==
    /\ \A p \in Procs : storedBytes[p] = TotalSize(items[p])
    /\ Quiet =>
             /\ \A id \in Ids : store[id] # Absent <=> id \in IndexIds
             /\ \A id \in IndexIds : store[id] \in Contents
             /\ \A p \in Procs : pc[p] = "idle" => items[p] = index

\* README.md:23 promises a one-click restore until the retention is over: a
\* capture that returned success stays listed while its content is stored.
Restorable ==
    Quiet => \A id \in acked : store[id] \in Contents => id \in IndexIds

\* Who has a piece of content, for the abstract specification.
Where == [c \in Contents |->
            IF home[c] = Absent THEN "unborn"
            ELSE IF \E i \in Ids : store[i] = c THEN "vault"
            ELSE IF fate[c] # "none" THEN fate[c] ELSE "user"]

Vault == INSTANCE Custody WITH where <- Where, deadline <- due,
                               Retentions <- {Retention[p] : p \in Procs}

\* Content leaves the disk only by a discard, by a purge after its expiry or
\* under a restored file, whatever processes, crashes and failures do.
CustodySpec == Vault!Spec
=============================================================================
