----------------------------- MODULE UsnJournal -----------------------------
(* readUsnJournal: the change journal of a volume is read from a given     *)
(* number on, block by block, while the volume appends to it and deletes   *)
(* its oldest records.  A record is its update sequence number.            *)
EXTENDS Naturals, Sequences

CONSTANTS MaxUsn,   \* bound: the last number the volume hands out
          Block     \* records that fit one read buffer

ASSUME BlockAssumption == Block \in Nat

VARIABLES oldest, newest,                 \* the journal holds oldest .. newest
          upc, since, startUsn, changes,  \* readUsnJournal
          newestAtCall                    \* history

usnVars == <<oldest, newest, upc, since, startUsn, changes, newestAtCall>>

UsnInit ==
    /\ oldest = 1 /\ newest = 0
    /\ upc = "idle" /\ since = 0 /\ startUsn = 0 /\ changes = <<>> /\ newestAtCall = 0

VolumeAppends ==
    /\ newest < MaxUsn
    /\ newest' = newest + 1
    /\ UNCHANGED <<oldest, upc, since, startUsn, changes, newestAtCall>>

VolumeTrims ==
    /\ oldest <= newest
    /\ oldest' = oldest + 1
    /\ UNCHANGED <<newest, upc, since, startUsn, changes, newestAtCall>>

\* The volume is opened and the journal queried; either may fail.
UsnCall ==
    /\ upc = "idle"
    /\ since' \in 0 .. newest
    /\ startUsn' = since'
    /\ upc' \in {"read", "failed"}
    /\ newestAtCall' = newest
    /\ UNCHANGED <<oldest, newest, changes>>

\* FSCTL_READ_USN_JOURNAL starts at the oldest record when it is given 0,
\* and fails when the record at the start has been deleted.
StartsAt == IF startUsn = 0 THEN oldest ELSE startUsn

\* Mutant: the next read starts at the last record of this one.
NextUsnRepeats(n) == StartsAt + n - 1

\* The number at the head of the buffer: where the next read starts.
NextUsn(n) == StartsAt + n

\* A read that brings records: each becomes a change.
UsnRead ==
    /\ upc = "read" /\ StartsAt >= oldest /\ StartsAt <= newest
    /\ \E n \in 1 .. Block :
         /\ StartsAt + n - 1 <= newest
         /\ changes' = changes \o [i \in 1 .. n |-> StartsAt + i - 1]
         /\ startUsn' = NextUsn(n)
    /\ UNCHANGED <<oldest, newest, upc, since, newestAtCall>>

\* A read that brings nothing ends the loop.
UsnReadEmpty ==
    /\ upc = "read" /\ StartsAt > newest
    /\ upc' = "complete"
    /\ UNCHANGED <<oldest, newest, since, startUsn, changes, newestAtCall>>

\* So does a read that fails, and the call returns what it has as if it
\* were all.
UsnReadFails ==
    /\ upc = "read"
    /\ upc' = "cut"
    /\ UNCHANGED <<oldest, newest, since, startUsn, changes, newestAtCall>>

UsnNext ==
    VolumeAppends \/ VolumeTrims \/ UsnCall \/ UsnRead \/ UsnReadEmpty \/ UsnReadFails

UsnSpec == UsnInit /\ [][UsnNext]_usnVars

\* The changes are the consecutive records from the requested one on, each
\* once and in order, although the journal moves between two reads; and
\* when no read failed, everything the journal held at the call is there.
ChangesAreComplete ==
    /\ \A i \in 2 .. Len(changes) : changes[i] = changes[i - 1] + 1
    /\ since > 0 /\ changes # <<>> => changes[1] = since
    /\ upc = "complete" /\ changes # <<>> => changes[Len(changes)] >= newestAtCall
    /\ upc = "complete" /\ changes = <<>> => oldest > newestAtCall
=============================================================================
