------------------------------ MODULE Updater ------------------------------
(* The updater, a program of one command a run: "check" fetches a manifest *)
(* and compares versions, "apply" verifies a downloaded binary, moves the  *)
(* installed one aside, and copies the new one into its place. Any run may *)
(* be interrupted.                                                         *)
EXTENDS Naturals, Sequences, FiniteSets, FiniteSetsExt

CONSTANTS Versions,   \* version texts, as the sequences of their numbers
          Current,    \* the version that runs the check
          MaxApplies    \* bound: applies in a behaviour

ASSUME VersionsAssumption == Versions \subseteq Seq(Nat) /\ Current \in Seq(Nat)

VARIABLES phase,           \* where the program is
          target, backup,  \* the binary, and the one moved aside
          unfinished,      \* applies that were cut short since one succeeded (history)
          applies,
          handles,         \* the WinHTTP handles that are open
          manifest, newer  \* the version found, and the answer

updaterVars == <<phase, target, backup, unfinished, applies, handles, manifest, newer>>

\* Contents of a file: a whole binary is a number above these.
Absent == 0
Partial == 1
Whole(content) == content > Partial

UpdaterInit ==
    /\ phase = "idle" /\ target = 2 /\ backup = Absent /\ unfinished = 0 /\ applies = 0
    /\ handles = {} /\ manifest = <<>> /\ newer = FALSE

-----------------------------------------------------------------------------
(* apply                                                                   *)

binaries == <<target, backup>>
check  == <<handles, manifest, newer>>

\* verifyAuthenticode, and the hash that is printed: an unsigned file ends it.
ApplyBegins ==
    /\ phase = "idle" /\ applies < MaxApplies /\ applies' = applies + 1
    /\ phase' \in {"idle", "signed"}
    /\ UNCHANGED <<binaries, unfinished, check>>

\* Mutant: the installed binary is not moved away before the copy.
LeftInPlace == target' = target /\ backup' = backup

\* rename(target, backup) replaces an older backup.
MovedAside == target' = Absent /\ backup' = target

\* The installed binary is moved aside, if there is one; failing ends it.
MoveAside ==
    /\ phase = "signed"
    /\ \/ target # Absent /\ MovedAside /\ phase' = "copy"
       \/ target = Absent /\ phase' = "copy" /\ UNCHANGED binaries
       \/ phase' = "idle" /\ UNCHANGED binaries
    /\ UNCHANGED <<unfinished, applies, check>>

\* copy_file begins to write, and completes or fails, leaving what it wrote.
CopyBegins ==
    /\ phase = "copy" /\ phase' = "copying" /\ target' = Partial
    /\ UNCHANGED <<backup, unfinished, applies, check>>

CopyEnds ==
    /\ phase = "copying" /\ phase' = "idle" /\ target' = 2 + applies /\ unfinished' = 0
    /\ UNCHANGED <<backup, applies, check>>

ApplyFails ==
    /\ phase \in {"copy", "copying"} /\ phase' = "idle" /\ unfinished' = unfinished + 1
    /\ UNCHANGED <<binaries, applies, check>>

-----------------------------------------------------------------------------
(* check                                                                   *)

\* httpGet opens three handles in turn, and reads.
Ladder == <<"session", "connection", "request">>

Opens ==
    /\ phase \in {"idle", "fetch"} /\ Cardinality(handles) < 3
    /\ handles' = handles \cup {Ladder[Cardinality(handles) + 1]} /\ phase' = "fetch"
    /\ UNCHANGED <<binaries, unfinished, applies, manifest, newer>>

\* Mutant: a failing call closes the last handle only.
CloseLast == handles' = handles \ {Ladder[Cardinality(handles)]}

\* Every exit of httpGet closes what is open.
CloseAll == handles' = {}

\* An open, the request or the answer fails, or the body lacks a field.
FetchFails ==
    /\ phase = "fetch" /\ CloseAll /\ phase' = "failed"
    /\ UNCHANGED <<binaries, unfinished, applies, manifest, newer>>

\* splitVersion: three numbers at least.
Split(v) == v \o [i \in 1 .. 3 - Min({3, Len(v)}) |-> 0]

\* newerThanCurrent walks over the numbers of the candidate; beyond those of
\* the current version it reads what happens to lie there.
NewerThanCurrent(candidate, current, beyond) ==
    LET a == Split(candidate)
        b == Split(current) \o beyond
    IN  \E i \in 1 .. Len(a) : a[i] > b[i] /\ \A j \in 1 .. i - 1 : a[j] = b[j]

FetchEnds(v) ==
    /\ phase = "fetch" /\ Cardinality(handles) = 3 /\ CloseAll /\ phase' = "checked" /\ manifest' = v
    /\ \E beyond \in [1 .. Len(v) -> {0, 9}] : newer' = NewerThanCurrent(v, Current, beyond)
    /\ UNCHANGED <<binaries, unfinished, applies>>

\* The program exits, which ends every phase but those that changed a file
\* as they are; it may be killed at any point.
Exits ==
    /\ phase \in {"checked", "failed"} /\ phase' = "idle" /\ manifest' = <<>> /\ newer' = FALSE
    /\ UNCHANGED <<binaries, unfinished, applies, handles>>

Killed ==
    /\ phase # "idle" /\ phase' = "idle" /\ handles' = {} /\ manifest' = <<>> /\ newer' = FALSE
    /\ unfinished' = IF phase \in {"copy", "copying"} THEN unfinished + 1 ELSE unfinished
    /\ UNCHANGED <<binaries, applies>>

UpdaterNext ==
    \/ ApplyBegins \/ MoveAside \/ CopyBegins \/ CopyEnds \/ ApplyFails
    \/ Opens \/ FetchFails \/ Exits \/ Killed
    \/ \E v \in Versions : FetchEnds(v)

UpdaterSpec == UpdaterInit /\ [][UpdaterNext]_updaterVars

-----------------------------------------------------------------------------
\* A whole binary is in its place or beside it, while an update runs and
\* whenever the last one was cut short; a second apply that is cut short in
\* a row moves the remains of the first over the backup.
Recoverable ==
    unfinished + (IF phase \in {"copy", "copying"} THEN 1 ELSE 0) <= 1
      => Whole(target) \/ Whole(backup)

\* A check gives back the handles it opened, whichever call failed, and its
\* answer is the order of the versions, when the candidate has no more numbers
\* than the current version: the first number in which they are unlike decides,
\* and a missing number counts as zero.
CheckIsRight ==
    /\ phase \in {"checked", "failed"} => handles = {}
    /\ phase = "checked" /\ Len(manifest) <= Max({3, Len(Current)}) =>
         LET At(v, i) == IF i <= Len(v) THEN v[i] ELSE 0
             unlike == {i \in 1 .. Max({3, Len(Current)}) : At(manifest, i) # At(Current, i)}
         IN  newer = (unlike # {} /\ At(manifest, Min(unlike)) > At(Current, Min(unlike)))
=============================================================================
