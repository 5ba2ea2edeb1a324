-------------------------- MODULE QuarantineProofs --------------------------
(***************************************************************************)
(* Proofs about the quarantine for any set of processes, paths, contents   *)
(* and identifiers, and any number of crashes and failing calls; and about *)
(* one process without failures, which keeps its records exact.            *)
(***************************************************************************)
EXTENDS Quarantine, FiniteSetTheorems, FunctionTheorems, SequenceTheorems, TLAPS

(* Lists of items                                                          *)

\* items.erase(it) keeps the other items and shortens the list by one.
LEMMA RemoveAtFacts ==
    ASSUME NEW S, NEW s \in Seq(S), NEW i \in 1..Len(s)
    PROVE  /\ RemoveAt(s, i) \in Seq(S)
           /\ Len(RemoveAt(s, i)) = Len(s) - 1
           /\ ToSet(RemoveAt(s, i)) \subseteq ToSet(s)
<1> DEFINE a == SubSeq(s, 1, i - 1)
           b == SubSeq(s, i + 1, Len(s))
<1>1. /\ a \in Seq(S) /\ Len(a) = i - 1
      /\ \A j \in 1..(i - 1) : a[j] = s[j]
  BY SMT
<1>2. /\ b \in Seq(S) /\ Len(b) = Len(s) - i
      /\ \A j \in 1..(Len(s) - i) : b[j] = s[i + j]
  BY SMT
<1> HIDE DEF a, b
<1>3. /\ a \o b \in Seq(S) /\ Len(a \o b) = Len(s) - 1
      /\ \A j \in 1..(Len(s) - 1) : (a \o b)[j] = IF j <= i - 1 THEN a[j] ELSE b[j - (i - 1)]
  BY <1>1, <1>2, SMT
<1>4. ASSUME NEW j \in 1..(Len(s) - 1)
      PROVE  (a \o b)[j] \in ToSet(s)
  <2>1. \E k \in 1..Len(s) : (a \o b)[j] = s[k]
    <3>1. CASE j <= i - 1
      BY <1>1, <1>3, <3>1
    <3>2. CASE ~(j <= i - 1)
      <4>1. j - (i - 1) \in 1..(Len(s) - i) /\ j + 1 \in 1..Len(s)
        BY <3>2
      <4>2. b[j - (i - 1)] = s[i + (j - (i - 1))]
        BY <1>2, <4>1
      <4> QED  BY <1>3, <3>2, <4>1, <4>2
    <3> QED  BY <3>1, <3>2
  <2> QED  BY <2>1 DEF ToSet
<1>5. DOMAIN (a \o b) = 1..(Len(s) - 1)
  BY <1>3
<1>6. RemoveAt(s, i) = a \o b
  BY DEF RemoveAt, a, b
<1> QED  BY <1>3, <1>4, <1>5, <1>6 DEF ToSet

\* What WriteItem puts into the index is part of the list.
LEMMA PrefixFacts ==
    ASSUME NEW S, NEW s \in Seq(S), NEW n \in 0..Len(s)
    PROVE  /\ SubSeq(s, 1, n) \in Seq(S)
           /\ ToSet(SubSeq(s, 1, n)) \subseteq ToSet(s)
<1>1. /\ SubSeq(s, 1, n) \in Seq(S) /\ Len(SubSeq(s, 1, n)) = n
      /\ \A j \in 1..n : SubSeq(s, 1, n)[j] = s[j]
  BY SMT
<1>2. DOMAIN SubSeq(s, 1, n) = 1..n /\ DOMAIN s = 1..Len(s)
  BY <1>1
<1> QED  BY <1>1, <1>2 DEF ToSet

\* push_back adds one item and keeps the others.
LEMMA AppendFacts ==
    ASSUME NEW S, NEW s \in Seq(S), NEW e \in S
    PROVE  /\ Append(s, e) \in Seq(S)
           /\ ToSet(Append(s, e)) = ToSet(s) \cup {e}
<1>1. /\ Append(s, e) \in Seq(S) /\ Len(Append(s, e)) = Len(s) + 1
      /\ \A j \in 1..Len(s) : Append(s, e)[j] = s[j]
      /\ Append(s, e)[Len(s) + 1] = e
  BY SMT
<1>2. DOMAIN Append(s, e) = 1..(Len(s) + 1) /\ DOMAIN s = 1..Len(s) /\ Len(s) \in Nat
  BY <1>1
<1>3. 1..(Len(s) + 1) = 1..Len(s) \cup {Len(s) + 1}
  BY <1>2
<1> QED  BY <1>1, <1>2, <1>3 DEF ToSet

\* The fields of an item, and the item a capture lists once it knows when
\* the content expires.
LEMMA ItemFacts ==
    ASSUME NEW r \in Item, NEW n \in Nat
    PROVE  /\ r.id \in Ids /\ r.original \in Paths /\ r.expires \in Nat
           /\ [r EXCEPT !.expires = n] \in Item
           /\ [r EXCEPT !.expires = n].id = r.id
           /\ [r EXCEPT !.expires = n].original = r.original
           /\ [r EXCEPT !.expires = n].expires = n
BY DEF Item

Fates == {"none", "discarded", "expired", "overwritten", "restored"}

\* remove_all, successful or not, keeps the store and the losses well formed.
LEMMA RemoveAllType ==
    ASSUME store \in [Ids -> Contents \cup {Absent, EmptyDir}],
           fate \in [Contents -> Fates], ioFaults \in Nat,
           NEW id \in Ids, NEW reason \in Fates, RemoveAll(id, reason)
    PROVE  /\ store' \in [Ids -> Contents \cup {Absent, EmptyDir}]
           /\ fate' \in [Contents -> Fates]
           /\ ioFaults' \in Nat
BY DEF RemoveAll, IoFault

\* Erasing an item shortens the list of that process only.
LEMMA ForgetFacts ==
    ASSUME items \in [Procs -> Seq(Item)], NEW p \in Procs,
           NEW i \in 1..Len(items[p]), Forget(p, i)
    PROVE  /\ items' \in [Procs -> Seq(Item)]
           /\ Len(items'[p]) = Len(items[p]) - 1
           /\ ToSet(items'[p]) \subseteq ToSet(items[p])
           /\ \A q \in Procs \ {p} : items'[q] = items[q]
<1>1. items' = [items EXCEPT ![p] = RemoveAt(items[p], i)]
  BY DEF Forget
<1>2. /\ RemoveAt(items[p], i) \in Seq(Item)
      /\ Len(RemoveAt(items[p], i)) = Len(items[p]) - 1
      /\ ToSet(RemoveAt(items[p], i)) \subseteq ToSet(items[p])
  BY RemoveAtFacts
<1> QED  BY <1>1, <1>2
-----------------------------------------------------------------------------
(* Type correctness                                                        *)

\* Every step of every process, and every failure of a call, keeps TypeOK.
LEMMA TypeStep == TypeOK /\ [Next]_vars => TypeOK'
<1> SUFFICES ASSUME TypeOK, [Next]_vars PROVE TypeOK'
  OBVIOUS
<1> USE DEF TypeOK, Labels, disk, memory, history, failures, Goto
<1>1. CASE Tick
  BY <1>1 DEF Tick
<1>2. ASSUME NEW x \in Paths, NEW c \in Contents, UserCreates(x, c) PROVE TypeOK'
  BY <1>2 DEF UserCreates
<1>3. ASSUME NEW p \in Procs, Initialize(p) PROVE TypeOK'
  BY <1>3 DEF Initialize
<1>4. ASSUME NEW p \in Procs, InitializeFails(p) PROVE TypeOK'
  BY <1>4 DEF InitializeFails, IoFault
<1>5. ASSUME NEW p \in Procs, Exit(p) PROVE TypeOK'
  BY <1>5 DEF Exit
<1>6. ASSUME NEW p \in Procs, NEW x \in Paths, NEW id \in Ids, CaptureBegin(p, x, id)
      PROVE TypeOK'
  BY <1>6, SizesAreNat DEF CaptureBegin, Item
<1>7. ASSUME NEW p \in Procs, CaptureRename(p) PROVE TypeOK'
  <2> DEFINE item == [job[p] EXCEPT !.expires = now + Retention[p]]
  <2>1. job[p] \in Item /\ job[p].original \in Paths
    BY <1>7 DEF CaptureRename, Item
  <2>2. item \in Item /\ item.id \in Ids /\ item.expires \in Nat
    <3>1. now + Retention[p] \in Nat
      BY RetentionsAreNat
    <3> QED  BY <2>1, <3>1, ItemFacts
  <2>3. live[job[p].original] \in Contents
    BY <1>7, <2>1 DEF CaptureRename
  <2>4. Append(items[p], item) \in Seq(Item)
    BY <2>2
  <2> HIDE DEF item
  <2>5. /\ store' = [store EXCEPT ![item.id] = live[job[p].original]]
        /\ live' = [live EXCEPT ![job[p].original] = Absent]
        /\ due' = [due EXCEPT ![live[job[p].original]] = item.expires]
        /\ job' = [job EXCEPT ![p] = item]
        /\ items' = [items EXCEPT ![p] = Append(items[p], item)]
        /\ pc' = [pc EXCEPT ![p] = "persist"]
        /\ UNCHANGED <<index, now, cursor, at, used, acked, home, fate, failures>>
    BY <1>7 DEF CaptureRename, MoveFrom, item
  <2> QED  BY <2>1, <2>2, <2>3, <2>4, <2>5
<1>8. ASSUME NEW p \in Procs, CaptureRenameFails(p) PROVE TypeOK'
  <2>1. job[p].id \in Ids
    BY <1>8 DEF CaptureRenameFails, Item
  <2>2. store' = [store EXCEPT ![job[p].id] = Absent] \/ store' = store
    BY <1>8 DEF CaptureRenameFails
  <2>3. store' \in [Ids -> Contents \cup {Absent, EmptyDir}]
    BY <2>1, <2>2
  <2>4. ioFaults' \in Nat
    BY <1>8 DEF CaptureRenameFails, IoFault
  <2> QED  BY <1>8, <2>3, <2>4 DEF CaptureRenameFails
<1>9. ASSUME NEW p \in Procs, NEW id \in Ids, Restore(p, id) PROVE TypeOK'
  <2> PICK i \in DOMAIN items[p] :
          /\ store[id] \in Contents
          /\ live' = [live EXCEPT ![items[p][i].original] = store[id]]
          /\ store' = [store EXCEPT ![id] = EmptyDir]
          /\ fate' = [c \in Contents |->
                IF live[items[p][i].original] = c THEN "overwritten" ELSE fate[c]]
          /\ job' = [job EXCEPT ![p] = items[p][i]]
          /\ pc' = [pc EXCEPT ![p] = "clean"]
          /\ UNCHANGED <<index, now, items, storedBytes, cursor, at, used, acked, home, due, failures>>
    BY <1>9 DEF Restore
  <2>1. items[p][i] \in Item
    OBVIOUS
  <2>2. items[p][i].original \in Paths
    BY <2>1 DEF Item
  <2> QED  BY <2>1, <2>2
<1>10. ASSUME NEW p \in Procs, RestoreClean(p) PROVE TypeOK'
  <2> PICK i \in DOMAIN items[p] : RemoveAll(job[p].id, "restored") /\ Forget(p, i)
    BY <1>10 DEF RestoreClean
  <2>1. items' \in [Procs -> Seq(Item)] /\ \A q \in Procs \ {p} : items'[q] = items[q]
    BY ForgetFacts
  <2>2. job[p].id \in Ids
    BY <1>10, ItemFacts DEF RestoreClean
  <2>3. /\ store' \in [Ids -> Contents \cup {Absent, EmptyDir}]
        /\ fate' \in [Contents -> Fates]
        /\ ioFaults' \in Nat
    BY <2>2, RemoveAllType DEF Fates
  <2> QED  BY <1>10, <2>1, <2>3 DEF RestoreClean, Fates
<1>11. ASSUME NEW p \in Procs, NEW id \in Ids, Discard(p, id) PROVE TypeOK'
  <2> PICK i \in DOMAIN items[p] : RemoveAll(id, "discarded") /\ Forget(p, i)
    BY <1>11 DEF Discard
  <2>1. items' \in [Procs -> Seq(Item)] /\ \A q \in Procs \ {p} : items'[q] = items[q]
    BY ForgetFacts
  <2>2. /\ store' \in [Ids -> Contents \cup {Absent, EmptyDir}]
        /\ fate' \in [Contents -> Fates]
        /\ ioFaults' \in Nat
    BY RemoveAllType DEF Fates
  <2> QED  BY <1>11, <2>1, <2>2 DEF Discard, Fates
<1>12. ASSUME NEW p \in Procs, PurgeBegin(p) PROVE TypeOK'
  BY <1>12 DEF PurgeBegin
<1>13. ASSUME NEW p \in Procs, PurgeItem(p) PROVE TypeOK'
  <2>1. CASE IsExpired(items[p][cursor[p]], at[p])
    <3>1. cursor[p] \in 1..Len(items[p])
      BY <1>13 DEF PurgeItem
    <3>2. items[p][cursor[p]].id \in Ids
      BY <3>1, items[p][cursor[p]] \in Item, ItemFacts
    <3>3. /\ RemoveAll(items[p][cursor[p]].id, "expired")
          /\ Forget(p, cursor[p])
          /\ UNCHANGED <<cursor, live, index, now, pc, job, at, used, acked, home, due, crashes>>
      BY <1>13, <2>1 DEF PurgeItem
    <3>4. /\ items' \in [Procs -> Seq(Item)]
          /\ Len(items'[p]) = Len(items[p]) - 1
          /\ \A q \in Procs \ {p} : items'[q] = items[q]
      BY <3>1, <3>3, ForgetFacts
    <3>5. /\ store' \in [Ids -> Contents \cup {Absent, EmptyDir}]
          /\ fate' \in [Contents -> Fates]
          /\ ioFaults' \in Nat
      BY <3>2, <3>3, RemoveAllType DEF Fates
    <3>6. \A q \in Procs : pc[q] = "purge" => cursor[q] \in 1..(Len(items'[q]) + 1)
      <4> SUFFICES ASSUME NEW q \in Procs, pc[q] = "purge"
                   PROVE  cursor[q] \in 1..(Len(items'[q]) + 1)
        OBVIOUS
      <4>1. CASE q = p
        <5>1. Len(items[p]) \in Nat
          OBVIOUS
        <5> QED  BY <3>1, <3>4, <4>1, <5>1
      <4>2. CASE q # p
        BY <3>4, <4>2
      <4> QED  BY <4>1, <4>2
    <3> QED  BY <3>3, <3>4, <3>5, <3>6 DEF Fates
  <2>2. CASE ~IsExpired(items[p][cursor[p]], at[p])
    <3>1. /\ cursor[p] \in 1..Len(items[p])
          /\ cursor' = [cursor EXCEPT ![p] = cursor[p] + 1]
          /\ UNCHANGED <<store, fate, items, ioFaults, live, index, now, pc, job, at,
                         used, acked, home, due, crashes>>
      BY <1>13, <2>2 DEF PurgeItem
    <3> QED  BY <3>1
  <2> QED  BY <2>1, <2>2
<1>14. ASSUME NEW p \in Procs, PurgeEnd(p) PROVE TypeOK'
  BY <1>14 DEF PurgeEnd
<1>15. ASSUME NEW p \in Procs, PersistOpen(p) PROVE TypeOK'
  BY <1>15 DEF PersistOpen
<1>16. ASSUME NEW p \in Procs, PersistOpenFails(p) PROVE TypeOK'
  BY <1>16 DEF PersistOpenFails, IoFault
<1>17. ASSUME NEW p \in Procs, WriteItem(p) PROVE TypeOK'
  BY <1>17, PrefixFacts DEF WriteItem
<1>18. ASSUME NEW p \in Procs, PersistDone(p) PROVE TypeOK'
  <2>1. job[p] = NoItem \/ job[p].id \in Ids
    BY DEF Item
  <2> QED  BY <1>18, <2>1 DEF PersistDone, IoFault
<1>19. CASE UNCHANGED vars
  BY <1>19 DEF vars
<1> QED  BY <1>1, <1>2, <1>3, <1>4, <1>5, <1>6, <1>7, <1>8, <1>9, <1>10, <1>11, <1>12,
            <1>13, <1>14, <1>15, <1>16, <1>17, <1>18, <1>19 DEF Next

\* The model's variables keep their types in every instance.
THEOREM TypeCorrect == Spec => []TypeOK
<1>1. Init => TypeOK
  BY DEF Init, TypeOK, Item, Labels
<1> QED  BY <1>1, TypeStep, PTL DEF Spec
-----------------------------------------------------------------------------
(* The inductive invariant: each part needs the others.  OnePlace and      *)
(* BackHome rest on RecordsAgree when a restore moves content back, which  *)
(* rests on Ownership when a capture fills its directory.                  *)

\* purgeExpired works with a time that is not in the future.
ClockOK == \A p \in Procs : at[p] <= now

IInv == TypeOK /\ OnePlace /\ BackHome /\ RecordsAgree /\ Ownership /\ ClockOK

\* Records are items, and a list's items are records.
LEMMA RecordFacts ==
    ASSUME TypeOK
    PROVE  /\ Records \subseteq Item
           /\ \A p \in Procs : ToSet(items[p]) \subseteq Records
           /\ \A p \in Procs : \A i \in DOMAIN items[p] : items[p][i] \in Records
           /\ ToSet(index) \subseteq Records
<1>1. \A q \in Seq(Item) : ToSet(q) \subseteq Item
  BY DEF ToSet
<1> QED  BY <1>1 DEF TypeOK, Records, ToSet

\* Rewriting the index and the lists from records makes no new record.
LEMMA RecordsShrink ==
    ASSUME ToSet(index') \subseteq Records,
           \A q \in Procs : ToSet(items'[q]) \subseteq Records
    PROVE  Records' \subseteq Records
BY DEF Records

\* What a step leaves alone for the processes inside capture or restore.
Undisturbed == \A q \in Procs : pc'[q] \in {"rename", "clean"} =>
                  pc'[q] = pc[q] /\ job'[q] = job[q] /\ items'[q] = items[q]

\* A step that moves no content keeps the invariant.
LEMMA QuietStep ==
    ASSUME IInv, TypeOK', ClockOK', UNCHANGED <<live, store, used, home, due, fate>>,
           Records' \subseteq Records, Undisturbed
    PROVE  IInv'
<1>1. OnePlace'
  BY DEF IInv, OnePlace, Placed, OnDisk
<1>2. BackHome'
  BY DEF IInv, BackHome
<1>3. RecordsAgree'
  BY DEF IInv, RecordsAgree
<1>4. Ownership'
  BY DEF IInv, Ownership, Undisturbed
<1> QED  BY <1>1, <1>2, <1>3, <1>4 DEF IInv

\* Removing the directory of a listed item, or failing to, keeps it too.
LEMMA RemoveStep ==
    ASSUME IInv, TypeOK', ClockOK', UNCHANGED <<live, used, home, due>>,
           Records' \subseteq Records, Undisturbed,
           NEW r \in Records, NEW reason, reason # "none", RemoveAll(r.id, reason)
    PROVE  IInv'
<1>1. r.id \in Ids
  BY RecordFacts, ItemFacts, 0 \in Nat DEF IInv
<1>2. CASE UNCHANGED <<store, fate>>
  BY <1>2, QuietStep
<1>3. CASE /\ store' = [store EXCEPT ![r.id] = Absent]
           /\ fate' = [c \in Contents |-> IF store[r.id] = c THEN reason ELSE fate[c]]
  <2> USE MarkersDistinct DEF IInv, TypeOK
  <2>1. \A i \in Ids : store'[i] = IF i = r.id THEN Absent ELSE store[i]
    BY <1>1, <1>3
  <2>2. \A c \in Contents : fate'[c] = IF store[r.id] = c THEN reason ELSE fate[c]
    BY <1>3
  <2>3. OnePlace'
    <3> SUFFICES ASSUME NEW c \in Contents PROVE Placed(c)'
      BY DEF OnePlace
    <3>1. Placed(c)
      BY DEF OnePlace
    <3>2. \A i \in Ids : store'[i] = c <=> i # r.id /\ store[i] = c
      BY <2>1
    <3>3. CASE store[r.id] = c
      <4>1. ~OnDisk(c)'
        BY <1>1, <3>1, <3>2, <3>3 DEF OnDisk, Placed
      <4>2. fate'[c] = reason
        BY <2>2, <3>3
      <4>3. home[c] # Absent
        BY <1>1, <3>1, <3>3 DEF OnDisk, Placed
      <4> QED  BY <3>1, <3>2, <4>1, <4>2, <4>3 DEF Placed
    <3>4. CASE store[r.id] # c
      <4>1. OnDisk(c)' <=> OnDisk(c)
        BY <3>2, <3>4 DEF OnDisk
      <4>2. fate'[c] = fate[c]
        BY <2>2, <3>4
      <4> QED  BY <3>1, <3>2, <4>1, <4>2 DEF Placed
    <3> QED  BY <3>3, <3>4
  <2>4. BackHome'
    BY DEF BackHome
  <2>5. RecordsAgree'
    <3> SUFFICES ASSUME NEW s \in Records
                 PROVE  /\ s.id \in used
                        /\ store'[s.id] \in Contents =>
                              s.original = home[store'[s.id]] /\ s.expires = due[store'[s.id]]
      BY DEF RecordsAgree
    <3>1. s.id \in used /\ s.id \in Ids
      BY DEF RecordsAgree
    <3> QED  BY <2>1, <3>1 DEF RecordsAgree
  <2>6. Ownership'
    <3>1. \A id \in Ids : id \notin used => store'[id] = Absent
      BY <2>1 DEF Ownership
    <3>2. ASSUME NEW p \in Procs, pc'[p] = "rename"
          PROVE  /\ job'[p].id \in used
                 /\ store'[job'[p].id] = EmptyDir
                 /\ \A s \in Records' : s.id # job'[p].id
                 /\ \A q \in Procs : pc'[q] = "rename" /\ job'[q].id = job'[p].id => p = q
      BY <2>1, <3>2 DEF Ownership, Undisturbed
    <3>3. ASSUME NEW p \in Procs, pc'[p] = "clean"
          PROVE  job'[p] \in ToSet(items'[p]) /\ store'[job'[p].id] \notin Contents
      <4>1. pc[p] = "clean" /\ job'[p] = job[p] /\ items'[p] = items[p] /\ job[p] \in Item
        BY <3>3 DEF Undisturbed
      <4>2. job[p].id \in Ids
        BY <4>1, ItemFacts, 0 \in Nat
      <4>3. job[p] \in ToSet(items[p]) /\ store[job[p].id] \notin Contents
        BY <4>1 DEF Ownership
      <4>4. store'[job[p].id] \in {Absent, store[job[p].id]}
        BY <2>1, <4>2
      <4> QED  BY <4>1, <4>3, <4>4
    <3> QED  BY <3>1, <3>2, <3>3 DEF Ownership
  <2> QED  BY <2>3, <2>4, <2>5, <2>6
<1> QED  BY <1>2, <1>3 DEF RemoveAll

\* The user's new file is new content at its own path.
LEMMA UserCreatesStep ==
    ASSUME IInv, TypeOK', NEW x \in Paths, NEW c \in Contents, UserCreates(x, c)
    PROVE  IInv'
<1> USE MarkersDistinct DEF IInv, TypeOK
<1>1. /\ live[x] = Absent /\ home[c] = Absent
      /\ \A y \in Paths : live'[y] = IF y = x THEN c ELSE live[y]
      /\ \A d \in Contents : home'[d] = IF d = c THEN x ELSE home[d]
      /\ UNCHANGED <<store, index, now, pc, items, storedBytes, job, cursor, at, used, due, fate>>
  BY DEF UserCreates, memory
<1>2. /\ \A i \in Ids : store[i] # c
      /\ \A y \in Paths : live[y] # c
      /\ fate[c] = "none"
  BY <1>1 DEF OnePlace, Placed, OnDisk
<1>3. OnePlace'
  <2> SUFFICES ASSUME NEW d \in Contents PROVE Placed(d)'
    BY DEF OnePlace
  <2>1. CASE d = c
    BY <1>1, <1>2, <2>1 DEF Placed, OnDisk
  <2>2. CASE d # c
    <3>1. \A y \in Paths : live'[y] = d <=> live[y] = d
      BY <1>1, <2>2
    <3>2. OnDisk(d)' <=> OnDisk(d)
      BY <1>1, <3>1 DEF OnDisk
    <3>3. Placed(d) /\ home'[d] = home[d]
      BY <1>1, <2>2 DEF OnePlace
    <3> QED  BY <1>1, <3>1, <3>2, <3>3 DEF Placed
  <2> QED  BY <2>1, <2>2
<1>6. BackHome'
  <2> SUFFICES ASSUME NEW y \in Paths, live'[y] \in Contents PROVE home'[live'[y]] = y
    BY DEF BackHome
  <2>1. CASE y = x
    BY <1>1, <2>1
  <2>2. CASE y # x
    <3>1. live'[y] = live[y] /\ live[y] # c
      BY <1>1, <1>2, <2>2
    <3>2. home[live[y]] = y
      BY <3>1 DEF BackHome
    <3> QED  BY <1>1, <3>1, <3>2
  <2> QED  BY <2>1, <2>2
<1>7. Records' = Records
  BY <1>1 DEF Records
<1>8. RecordsAgree'
  BY <1>1, <1>2, <1>7, RecordFacts, ItemFacts DEF RecordsAgree
<1>9. Ownership'
  BY <1>1, <1>7 DEF Ownership
<1>10. ClockOK'
  BY <1>1 DEF ClockOK
<1> QED  BY <1>3, <1>6, <1>8, <1>9, <1>10

\* A capture starts with a directory nobody knows.
LEMMA CaptureBeginStep ==
    ASSUME IInv, TypeOK', NEW p \in Procs, NEW x \in Paths, NEW id \in Ids,
           CaptureBegin(p, x, id)
    PROVE  IInv'
<1> USE MarkersDistinct DEF IInv, TypeOK
<1>1. /\ pc[p] = "idle" /\ id \notin used /\ used' = used \cup {id}
      /\ \A i \in Ids : store'[i] = IF i = id THEN EmptyDir ELSE store[i]
      /\ pc'[p] = "rename" /\ job'[p].id = id
      /\ \A q \in Procs \ {p} : pc'[q] = pc[q] /\ job'[q] = job[q]
      /\ UNCHANGED <<live, index, now, items, at, home, due, fate>>
  BY DEF CaptureBegin, FreshId, Goto
<1>2. store[id] = Absent
  BY <1>1 DEF Ownership
<1>3. \A i \in Ids, c \in Contents : store'[i] = c <=> store[i] = c
  BY <1>1, <1>2
<1>4. OnePlace'
  <2> SUFFICES ASSUME NEW d \in Contents PROVE Placed(d)'
    BY DEF OnePlace
  <2>1. Placed(d)
    BY DEF OnePlace
  <2>2. \A i \in Ids : store'[i] = d <=> store[i] = d
    BY <1>3
  <2>3. OnDisk(d)' <=> OnDisk(d)
    BY <1>1, <2>2 DEF OnDisk
  <2> QED  BY <1>1, <2>1, <2>2, <2>3 DEF Placed
<1>5. BackHome'
  BY <1>1 DEF BackHome
<1>6. Records' = Records /\ \A r \in Records : r.id \in used /\ r.id \in Ids
  BY <1>1 DEF Records, RecordsAgree
<1>7. RecordsAgree'
  BY <1>1, <1>6 DEF RecordsAgree
<1>8. Ownership'
  <2>1. \A q \in Procs \ {p} : pc[q] = "rename" => job[q].id \in used /\ job[q].id # id
    BY <1>1 DEF Ownership
  <2>2. \A q \in Procs : pc[q] = "clean" => q # p /\ job[q] \in Records
    BY <1>1, RecordFacts DEF Ownership
  <2>3. \A i \in Ids : i \notin used' => store'[i] = Absent
    BY <1>1 DEF Ownership
  <2>4. ASSUME NEW q \in Procs, pc'[q] = "rename"
        PROVE  /\ job'[q].id \in used'
               /\ store'[job'[q].id] = EmptyDir
               /\ \A r \in Records' : r.id # job'[q].id
               /\ \A o \in Procs : pc'[o] = "rename" /\ job'[o].id = job'[q].id => q = o
    <3>1. CASE q = p
      BY <1>1, <1>6, <2>1, <3>1
    <3>2. CASE q # p
      <4>1. pc[q] = "rename" /\ job'[q] = job[q] /\ job[q].id # id
        BY <1>1, <2>1, <2>4, <3>2
      <4>2. /\ job[q].id \in used /\ job[q].id \in Ids
            /\ store[job[q].id] = EmptyDir
            /\ \A r \in Records : r.id # job[q].id
            /\ \A o \in Procs : pc[o] = "rename" /\ job[o].id = job[q].id => q = o
        BY <4>1 DEF Ownership
      <4>3. \A o \in Procs : pc'[o] = "rename" /\ job'[o].id = job[q].id => q = o
        <5>1. \A o \in Procs : pc'[o] = "rename" /\ job'[o].id = job[q].id => o # p
          BY <1>1, <4>1
        <5>2. \A o \in Procs : o # p => pc'[o] = pc[o] /\ job'[o] = job[o]
          BY <1>1
        <5> QED  BY <4>2, <5>1, <5>2
      <4> QED  BY <1>1, <1>6, <4>1, <4>2, <4>3
    <3> QED  BY <3>1, <3>2
  <2>5. ASSUME NEW q \in Procs, pc'[q] = "clean"
        PROVE  job'[q] \in ToSet(items'[q]) /\ store'[job'[q].id] \notin Contents
    <3>1. q # p /\ pc[q] = "clean" /\ job'[q] = job[q]
      BY <1>1, <2>5
    <3>2. job[q] \in ToSet(items[q]) /\ store[job[q].id] \notin Contents
      BY <3>1 DEF Ownership
    <3>3. job[q].id \in used /\ job[q].id \in Ids
      BY <1>6, <2>2, <3>1
    <3> QED  BY <1>1, <3>1, <3>2, <3>3
  <2> QED  BY <2>3, <2>4, <2>5 DEF Ownership
<1>9. ClockOK'
  BY <1>1 DEF ClockOK
<1> QED  BY <1>4, <1>5, <1>7, <1>8, <1>9

\* The move hands the content over, and the new record describes it.
LEMMA CaptureRenameStep ==
    ASSUME IInv, TypeOK', NEW p \in Procs, CaptureRename(p)
    PROVE  IInv'
<1> DEFINE x == job[p].original
           id == job[p].id
           c == live[x]
           item == [job[p] EXCEPT !.expires = now + Retention[p]]
<1> USE MarkersDistinct DEF IInv, TypeOK
<1>1. /\ job[p] \in Item /\ x \in Paths /\ id \in Ids /\ c \in Contents
      /\ item \in Item /\ item.id = id /\ item.original = x
  <2>1. now + Retention[p] \in Nat /\ job[p] \in Item
    BY RetentionsAreNat DEF CaptureRename
  <2>2. x \in Paths
    BY <2>1, ItemFacts
  <2> QED  BY <2>1, <2>2, ItemFacts DEF CaptureRename
<1>2. /\ pc[p] = "rename" /\ pc'[p] = "persist"
      /\ \A q \in Procs \ {p} : pc'[q] = pc[q] /\ job'[q] = job[q] /\ items'[q] = items[q]
      /\ items'[p] = Append(items[p], item)
      /\ UNCHANGED <<index, now, at, used, home, fate>>
  BY DEF CaptureRename, Goto
<1>3. /\ \A i \in Ids : store'[i] = IF i = id THEN c ELSE store[i]
      /\ \A y \in Paths : live'[y] = IF y = x THEN Absent ELSE live[y]
      /\ \A d \in Contents : due'[d] = IF d = c THEN item.expires ELSE due[d]
  BY <1>1 DEF CaptureRename, MoveFrom
<1> HIDE DEF x, id, c, item
<1>4. /\ store[id] = EmptyDir /\ id \in used /\ live[x] = c
      /\ \A r \in Records : r.id # id
      /\ \A q \in Procs : pc[q] = "rename" /\ job[q].id = id => q = p
  BY <1>1, <1>2 DEF Ownership, id, c
<1>5. /\ \A y \in Paths : live[y] = c => y = x
      /\ \A i \in Ids : store[i] # c
      /\ home[c] = x
  BY <1>1, <1>4 DEF OnePlace, Placed, BackHome
<1>6. OnePlace'
  <2> SUFFICES ASSUME NEW d \in Contents PROVE Placed(d)'
    BY DEF OnePlace
  <2>0. Placed(d)
    BY DEF OnePlace
  <2>1. CASE d = c
    <3>1. ASSUME NEW y \in Paths PROVE live'[y] # d
      <4>1. CASE y = x
        BY <1>3, <4>1
      <4>2. CASE y # x
        BY <1>3, <1>5, <2>1, <4>2
      <4> QED  BY <4>1, <4>2
    <3>2. \A i \in Ids : store'[i] = d <=> i = id
      BY <1>3, <1>5, <2>1
    <3>3. OnDisk(d) /\ OnDisk(d)'
      BY <1>1, <1>4, <2>1, <3>2 DEF OnDisk
    <3> QED  BY <1>2, <2>0, <3>1, <3>2, <3>3 DEF Placed
  <2>2. CASE d # c
    <3>1. /\ \A y \in Paths : live'[y] = d <=> live[y] = d
          /\ \A i \in Ids : store'[i] = d <=> store[i] = d
      BY <1>1, <1>3, <1>4, <2>2
    <3>2. OnDisk(d)' <=> OnDisk(d)
      BY <3>1 DEF OnDisk
    <3> QED  BY <1>2, <2>0, <3>1, <3>2 DEF Placed
  <2> QED  BY <2>1, <2>2
<1>7. BackHome'
  BY <1>2, <1>3 DEF BackHome
<1>8. Records' \subseteq Records \cup {item}
  <2>1. ToSet(items'[p]) = ToSet(items[p]) \cup {item}
    BY <1>1, <1>2, AppendFacts
  <2>2. \A q \in Procs : ToSet(items'[q]) \subseteq ToSet(items[q]) \cup {item}
    BY <1>2, <2>1
  <2> QED  BY <1>2, <2>2 DEF Records
<1>9. RecordsAgree'
  <2> SUFFICES ASSUME NEW r \in Records'
               PROVE  /\ r.id \in used'
                      /\ store'[r.id] \in Contents =>
                            r.original = home'[store'[r.id]] /\ r.expires = due'[store'[r.id]]
    BY DEF RecordsAgree
  <2>1. CASE r = item
    BY <1>1, <1>2, <1>3, <1>4, <1>5, <2>1
  <2>2. CASE r # item
    <3>1. r \in Records /\ r.id # id /\ r.id \in used /\ r.id \in Ids
      BY <1>4, <1>8, <2>2 DEF RecordsAgree
    <3>2. store'[r.id] = store[r.id] /\ store[r.id] # c
      BY <1>3, <1>5, <3>1
    <3> QED  BY <1>2, <1>3, <3>1, <3>2 DEF RecordsAgree
  <2> QED  BY <2>1, <2>2
<1>10. Ownership'
  <2>1. \A i \in Ids : i \notin used' => store'[i] = Absent
    BY <1>2, <1>3, <1>4 DEF Ownership
  <2>2. ASSUME NEW q \in Procs, pc'[q] = "rename"
        PROVE  /\ job'[q].id \in used'
               /\ store'[job'[q].id] = EmptyDir
               /\ \A r \in Records' : r.id # job'[q].id
               /\ \A o \in Procs : pc'[o] = "rename" /\ job'[o].id = job'[q].id => q = o
    <3>1. q # p /\ pc[q] = "rename" /\ job'[q] = job[q] /\ job[q].id # id
      BY <1>2, <1>4, <2>2
    <3>2. /\ job[q].id \in used /\ job[q].id \in Ids
          /\ store[job[q].id] = EmptyDir
          /\ \A r \in Records : r.id # job[q].id
          /\ \A o \in Procs : pc[o] = "rename" /\ job[o].id = job[q].id => q = o
      BY <3>1 DEF Ownership
    <3>3. store'[job[q].id] = EmptyDir
      BY <1>3, <3>1, <3>2
    <3>4. \A r \in Records' : r.id # job[q].id
      BY <1>1, <1>8, <3>1, <3>2
    <3>5. \A o \in Procs : pc'[o] = "rename" /\ job'[o].id = job[q].id => q = o
      <4>1. \A o \in Procs : pc'[o] = "rename" => o # p
        BY <1>2
      <4>2. \A o \in Procs : o # p => pc'[o] = pc[o] /\ job'[o] = job[o]
        BY <1>2
      <4> QED  BY <3>2, <4>1, <4>2
    <3> QED  BY <1>2, <3>1, <3>2, <3>3, <3>4, <3>5
  <2>3. ASSUME NEW q \in Procs, pc'[q] = "clean"
        PROVE  job'[q] \in ToSet(items'[q]) /\ store'[job'[q].id] \notin Contents
    <3>1. q # p /\ pc[q] = "clean" /\ job'[q] = job[q] /\ items'[q] = items[q]
      BY <1>2, <2>3
    <3>2. job[q] \in ToSet(items[q]) /\ store[job[q].id] \notin Contents /\ job[q] \in Records
      BY <3>1, RecordFacts DEF Ownership
    <3>3. job[q].id # id /\ job[q].id \in Ids
      BY <1>4, <3>2 DEF RecordsAgree
    <3> QED  BY <1>3, <3>1, <3>2, <3>3
  <2> QED  BY <2>1, <2>2, <2>3 DEF Ownership
<1>11. ClockOK'
  BY <1>2 DEF ClockOK
<1> QED  BY <1>6, <1>7, <1>9, <1>10, <1>11

\* A capture that cannot move the source gives its empty directory up.
LEMMA CaptureRenameFailsStep ==
    ASSUME IInv, TypeOK', NEW p \in Procs, CaptureRenameFails(p)
    PROVE  IInv'
<1> DEFINE id == job[p].id
<1> USE MarkersDistinct DEF IInv, TypeOK
<1>1. /\ pc[p] = "rename" /\ pc'[p] = "idle" /\ id \in Ids
      /\ \A q \in Procs \ {p} : pc'[q] = pc[q] /\ job'[q] = job[q]
      /\ store' = [store EXCEPT ![id] = Absent] \/ store' = store
      /\ UNCHANGED <<live, index, now, items, at, used, home, due, fate>>
  <2>1. job[p] \in Item
    BY DEF CaptureRenameFails
  <2>2. id \in Ids
    BY <2>1, ItemFacts, 0 \in Nat
  <2> QED  BY <2>2 DEF CaptureRenameFails, Goto, history
<1> HIDE DEF id
<1>2. /\ store[id] = EmptyDir /\ id \in used
      /\ \A q \in Procs : pc[q] = "rename" /\ job[q].id = id => q = p
  BY <1>1 DEF Ownership, id
<1>3. \A i \in Ids : store'[i] = store[i] \/ (i = id /\ store'[i] = Absent)
  BY <1>1
<1>4. \A i \in Ids, c \in Contents : store'[i] = c <=> store[i] = c
  BY <1>2, <1>3
<1>5. OnePlace'
  <2> SUFFICES ASSUME NEW d \in Contents PROVE Placed(d)'
    BY DEF OnePlace
  <2>1. Placed(d)
    BY DEF OnePlace
  <2>2. \A i \in Ids : store'[i] = d <=> store[i] = d
    BY <1>4
  <2>3. OnDisk(d)' <=> OnDisk(d)
    BY <1>1, <2>2 DEF OnDisk
  <2> QED  BY <1>1, <2>1, <2>2, <2>3 DEF Placed
<1>6. BackHome'
  BY <1>1 DEF BackHome
<1>7. Records' = Records /\ \A r \in Records : r.id \in used /\ r.id \in Ids
  BY <1>1 DEF Records, RecordsAgree
<1>8. RecordsAgree'
  BY <1>1, <1>3, <1>7 DEF RecordsAgree
<1>9. Ownership'
  <2>1. \A i \in Ids : i \notin used' => store'[i] = Absent
    BY <1>1, <1>3 DEF Ownership
  <2>2. ASSUME NEW q \in Procs, pc'[q] = "rename"
        PROVE  /\ job'[q].id \in used'
               /\ store'[job'[q].id] = EmptyDir
               /\ \A r \in Records' : r.id # job'[q].id
               /\ \A o \in Procs : pc'[o] = "rename" /\ job'[o].id = job'[q].id => q = o
    <3>1. q # p /\ pc[q] = "rename" /\ job'[q] = job[q] /\ job[q].id # id
      BY <1>1, <1>2, <2>2
    <3>2. /\ job[q].id \in used /\ job[q].id \in Ids
          /\ store[job[q].id] = EmptyDir
          /\ \A r \in Records : r.id # job[q].id
          /\ \A o \in Procs : pc[o] = "rename" /\ job[o].id = job[q].id => q = o
      BY <3>1 DEF Ownership
    <3>3. \A o \in Procs : pc'[o] = "rename" => pc[o] = "rename" /\ job'[o] = job[o]
      BY <1>1
    <3> QED  BY <1>1, <1>3, <1>7, <3>1, <3>2, <3>3
  <2>3. ASSUME NEW q \in Procs, pc'[q] = "clean"
        PROVE  job'[q] \in ToSet(items'[q]) /\ store'[job'[q].id] \notin Contents
    <3>1. pc[q] = "clean" /\ job'[q] = job[q] /\ items'[q] = items[q]
      BY <1>1, <2>3
    <3>2. job[q] \in ToSet(items[q]) /\ store[job[q].id] \notin Contents /\ job[q] \in Records
      BY <3>1, RecordFacts DEF Ownership
    <3>3. job[q].id \in Ids
      BY <1>7, <3>2
    <3>4. store'[job[q].id] \in {Absent, store[job[q].id]}
      BY <1>3, <3>3
    <3> QED  BY <3>1, <3>2, <3>4
  <2> QED  BY <2>1, <2>2, <2>3 DEF Ownership
<1>10. ClockOK'
  BY <1>1 DEF ClockOK
<1> QED  BY <1>5, <1>6, <1>8, <1>9, <1>10

\* What Restore(p, id) of the item at position i does to the disk.
RestoreEffect(p, id, i) ==
    /\ items[p][i].id = id /\ items[p][i] \in Records
    /\ items[p][i] \in ToSet(items[p])
    /\ items[p][i].original \in Paths
    /\ store[id] \in Contents
    /\ home[store[id]] = items[p][i].original
    /\ \A y \in Paths : live'[y] = IF y = items[p][i].original THEN store[id] ELSE live[y]
    /\ \A j \in Ids : store'[j] = IF j = id THEN EmptyDir ELSE store[j]
    /\ \A c \in Contents : fate'[c] =
          IF live[items[p][i].original] = c THEN "overwritten" ELSE fate[c]
    /\ pc[p] = "idle" /\ pc'[p] = "clean" /\ job'[p] = items[p][i]
    /\ \A q \in Procs \ {p} : pc'[q] = pc[q] /\ job'[q] = job[q]
    /\ UNCHANGED <<index, now, items, at, used, home, due>>

\* The record a restore finds is that of the content it moves.
LEMMA RestoreFacts ==
    ASSUME IInv, NEW p \in Procs, NEW id \in Ids, Restore(p, id)
    PROVE  \E i \in DOMAIN items[p] : RestoreEffect(p, id, i)
<1> USE DEF IInv, TypeOK
<1> PICK i \in DOMAIN items[p] :
        /\ pc[p] = "idle"
        /\ FoundAt(items[p], i, id)
        /\ store[id] \in Contents
        /\ live' = [live EXCEPT ![items[p][i].original] = store[id]]
        /\ store' = [store EXCEPT ![id] = EmptyDir]
        /\ fate' = [c \in Contents |->
              IF live[items[p][i].original] = c THEN "overwritten" ELSE fate[c]]
        /\ job' = [job EXCEPT ![p] = items[p][i]]
        /\ pc' = [pc EXCEPT ![p] = "clean"]
        /\ UNCHANGED <<index, now, items, at, used, home, due>>
  BY DEF Restore, Goto
<1>1. items[p][i] \in Item /\ items[p][i].id = id /\ items[p][i] \in Records
  BY RecordFacts DEF FoundAt
<1>2. items[p][i].original \in Paths
  BY <1>1, ItemFacts, 0 \in Nat
<1>3. home[store[id]] = items[p][i].original
  BY <1>1 DEF RecordsAgree
<1>4. items[p][i] \in ToSet(items[p])
  BY DEF ToSet
<1>5. /\ \A y \in Paths : live'[y] = IF y = items[p][i].original THEN store[id] ELSE live[y]
      /\ \A j \in Ids : store'[j] = IF j = id THEN EmptyDir ELSE store[j]
      /\ \A c \in Contents : fate'[c] =
            IF live[items[p][i].original] = c THEN "overwritten" ELSE fate[c]
      /\ pc'[p] = "clean" /\ job'[p] = items[p][i]
      /\ \A q \in Procs \ {p} : pc'[q] = pc[q] /\ job'[q] = job[q]
  BY <1>2
<1> QED  BY <1>1, <1>2, <1>3, <1>4, <1>5 DEF RestoreEffect

\* The content goes home; what lay there is accounted for.
LEMMA RestoreStep ==
    ASSUME IInv, TypeOK', NEW p \in Procs, NEW id \in Ids, Restore(p, id)
    PROVE  IInv'
<1> PICK k \in DOMAIN items[p] : RestoreEffect(p, id, k)
  BY RestoreFacts
<1> DEFINE item == items[p][k]
           x == item.original
           c == store[id]
<1>1. /\ item.id = id /\ item \in Records /\ item \in ToSet(items[p])
      /\ x \in Paths /\ c \in Contents /\ home[c] = x
      /\ \A y \in Paths : live'[y] = IF y = x THEN c ELSE live[y]
      /\ \A j \in Ids : store'[j] = IF j = id THEN EmptyDir ELSE store[j]
      /\ \A d \in Contents : fate'[d] = IF live[x] = d THEN "overwritten" ELSE fate[d]
      /\ store[id] = c
  BY DEF RestoreEffect
<1>2. /\ pc[p] = "idle" /\ pc'[p] = "clean" /\ job'[p] = item
      /\ \A q \in Procs \ {p} : pc'[q] = pc[q] /\ job'[q] = job[q]
      /\ UNCHANGED <<index, now, items, at, used, home, due>>
  BY DEF RestoreEffect
<1> HIDE DEF item, x, c
<1> USE MarkersDistinct DEF IInv, TypeOK
<1>3. /\ \A y \in Paths : live[y] # c
      /\ \A j \in Ids : store[j] = c => j = id
  BY <1>1 DEF OnePlace, Placed
<1>4. OnePlace'
  <2> SUFFICES ASSUME NEW d \in Contents PROVE Placed(d)'
    BY DEF OnePlace
  <2>0. Placed(d)
    BY DEF OnePlace
  <2>1. CASE d = c
    <3>1. \A y \in Paths : live'[y] = d <=> y = x
      BY <1>1, <1>3, <2>1
    <3>2. ASSUME NEW j \in Ids PROVE store'[j] # d
      <4>1. CASE j = id
        BY <1>1, <4>1
      <4>2. CASE j # id
        BY <1>1, <1>3, <2>1, <4>2
      <4> QED  BY <4>1, <4>2
    <3>3. OnDisk(d) /\ OnDisk(d)' /\ fate'[d] = fate[d]
      BY <1>1, <1>3, <2>1, <3>1 DEF OnDisk
    <3> QED  BY <1>2, <2>0, <3>1, <3>2, <3>3 DEF Placed
  <2>2. CASE d # c /\ live[x] = d
    <3>1. ASSUME NEW y \in Paths PROVE live'[y] # d
      <4>1. live[y] = d => y = x
        BY <1>1, <2>0, <2>2 DEF Placed
      <4> QED  BY <1>1, <2>2, <4>1
    <3>2. ASSUME NEW j \in Ids PROVE store'[j] # d
      <4>1. store[j] # d
        BY <1>1, <2>0, <2>2 DEF Placed
      <4> QED  BY <1>1, <4>1
    <3>3. fate'[d] = "overwritten" /\ OnDisk(d) /\ ~OnDisk(d)'
      BY <1>1, <2>2, <3>1, <3>2 DEF OnDisk
    <3> QED  BY <1>2, <2>0, <3>1, <3>2, <3>3 DEF Placed
  <2>3. CASE d # c /\ live[x] # d
    <3>1. \A y \in Paths : live'[y] = d <=> live[y] = d
      BY <1>1, <2>3
    <3>2. \A j \in Ids : store'[j] = d <=> store[j] = d
      BY <1>1, <2>3
    <3>3. fate'[d] = fate[d] /\ (OnDisk(d)' <=> OnDisk(d))
      BY <1>1, <2>3, <3>1, <3>2 DEF OnDisk
    <3> QED  BY <1>2, <2>0, <3>1, <3>2, <3>3 DEF Placed
  <2> QED  BY <2>1, <2>2, <2>3
<1>5. BackHome'
  <2> SUFFICES ASSUME NEW y \in Paths, live'[y] \in Contents PROVE home[live'[y]] = y
    BY <1>2 DEF BackHome
  <2>1. CASE y = x
    BY <1>1, <2>1
  <2>2. CASE y # x
    BY <1>1, <2>2 DEF BackHome
  <2> QED  BY <2>1, <2>2
<1>6. Records' = Records /\ \A r \in Records : r.id \in used /\ r.id \in Ids
  BY <1>2 DEF Records, RecordsAgree
<1>7. RecordsAgree'
  <2>1. \A r \in Records : store'[r.id] \in Contents => store'[r.id] = store[r.id]
    BY <1>1, <1>6
  <2> QED  BY <1>2, <1>6, <2>1 DEF RecordsAgree
<1>8. Ownership'
  <2>1. \A i \in Ids : i \notin used' => store'[i] = Absent
    BY <1>1, <1>2, <1>6 DEF Ownership
  <2>2. ASSUME NEW q \in Procs, pc'[q] = "rename"
        PROVE  /\ job'[q].id \in used'
               /\ store'[job'[q].id] = EmptyDir
               /\ \A r \in Records' : r.id # job'[q].id
               /\ \A o \in Procs : pc'[o] = "rename" /\ job'[o].id = job'[q].id => q = o
    <3>1. q # p /\ pc[q] = "rename" /\ job'[q] = job[q]
      BY <1>2, <2>2
    <3>2. /\ job[q].id \in used /\ job[q].id \in Ids
          /\ store[job[q].id] = EmptyDir
          /\ \A r \in Records : r.id # job[q].id
          /\ \A o \in Procs : pc[o] = "rename" /\ job[o].id = job[q].id => q = o
      BY <3>1 DEF Ownership
    <3>3. \A o \in Procs : pc'[o] = "rename" => pc[o] = "rename" /\ job'[o] = job[o]
      BY <1>2
    <3> QED  BY <1>1, <1>2, <1>6, <3>1, <3>2, <3>3
  <2>3. ASSUME NEW q \in Procs, pc'[q] = "clean"
        PROVE  job'[q] \in ToSet(items'[q]) /\ store'[job'[q].id] \notin Contents
    <3>1. CASE q = p
      BY <1>1, <1>2, <3>1
    <3>2. CASE q # p
      <4>1. pc[q] = "clean" /\ job'[q] = job[q] /\ items'[q] = items[q]
        BY <1>2, <2>3, <3>2
      <4>2. job[q] \in ToSet(items[q]) /\ store[job[q].id] \notin Contents /\ job[q] \in Records
        BY <4>1, RecordFacts DEF Ownership
      <4>3. job[q].id \in Ids
        BY <1>6, <4>2
      <4>4. store'[job[q].id] \in {EmptyDir, store[job[q].id]}
        BY <1>1, <4>3
      <4> QED  BY <4>1, <4>2, <4>4
    <3> QED  BY <3>1, <3>2
  <2> QED  BY <2>1, <2>2, <2>3 DEF Ownership
<1>9. ClockOK'
  BY <1>2 DEF ClockOK
<1> QED  BY <1>4, <1>5, <1>7, <1>8, <1>9
-----------------------------------------------------------------------------
(* The actions that remove a directory, and the ones that move nothing.    *)

\* Discard, the tail of Restore and a purged item remove the directory of
\* a record; the other processes' captures and restores go on undisturbed.
RemovesRecord(reason) ==
    /\ \E r \in Records : RemoveAll(r.id, reason)
          /\ (reason = "expired" => r.expires <= now)
          /\ (reason = "restored" => store[r.id] \notin Contents)
    /\ UNCHANGED <<live, used, home, due, now>>
    /\ Records' \subseteq Records
    /\ Undisturbed
    /\ ClockOK'

MovesNothing ==
    /\ UNCHANGED <<live, store, used, home, due, fate>>
    /\ now' \in {now, now + 1}
    /\ Records' \subseteq Records
    /\ Undisturbed
    /\ ClockOK'

\* The three removing actions.
LEMMA RemovingSteps ==
    ASSUME IInv, NEW p \in Procs
    PROVE  /\ \A id \in Ids : Discard(p, id) => RemovesRecord("discarded")
           /\ RestoreClean(p) => RemovesRecord("restored")
           /\ PurgeItem(p) => RemovesRecord("expired") \/ MovesNothing
<1> USE DEF IInv, TypeOK
<1>0. ASSUME NEW i \in 1..Len(items[p]), Forget(p, i), UNCHANGED index
      PROVE  Records' \subseteq Records /\ \A q \in Procs \ {p} : items'[q] = items[q]
  <2>1. /\ ToSet(items'[p]) \subseteq ToSet(items[p])
        /\ \A q \in Procs \ {p} : items'[q] = items[q]
    BY <1>0, ForgetFacts
  <2>2. \A q \in Procs : ToSet(items'[q]) \subseteq Records
    BY <2>1, RecordFacts
  <2> QED  BY <1>0, <2>1, <2>2, RecordFacts, RecordsShrink
<1>1. ASSUME NEW id \in Ids, Discard(p, id) PROVE RemovesRecord("discarded")
  <2> PICK i \in DOMAIN items[p] :
          /\ FoundAt(items[p], i, id) /\ RemoveAll(id, "discarded") /\ Forget(p, i)
          /\ pc' = [pc EXCEPT ![p] = "persist"]
          /\ UNCHANGED <<live, index, now, job, at, used, home, due>>
    BY <1>1 DEF Discard, Goto
  <2>1. items[p][i] \in Records /\ items[p][i].id = id
    BY RecordFacts DEF FoundAt
  <2>2. Records' \subseteq Records /\ \A q \in Procs \ {p} : items'[q] = items[q]
    <3>1. i \in 1..Len(items[p]) /\ UNCHANGED index
      OBVIOUS
    <3> QED  BY <1>0, <3>1
  <2>4. Undisturbed
    BY <2>2 DEF Undisturbed
  <2>3. ClockOK'
    BY DEF ClockOK
  <2> QED  BY <2>1, <2>2, <2>3, <2>4 DEF RemovesRecord
<1>2. ASSUME RestoreClean(p) PROVE RemovesRecord("restored")
  <2> PICK i \in DOMAIN items[p] :
          /\ pc[p] = "clean"
          /\ FoundAt(items[p], i, job[p].id) /\ RemoveAll(job[p].id, "restored") /\ Forget(p, i)
          /\ pc' = [pc EXCEPT ![p] = "persist"] /\ job' = [job EXCEPT ![p] = NoItem]
          /\ UNCHANGED <<live, index, now, at, used, home, due>>
    BY <1>2 DEF RestoreClean, Goto
  <2>1. items[p][i] \in Records /\ items[p][i].id = job[p].id
    BY RecordFacts DEF FoundAt
  <2>2. Records' \subseteq Records /\ \A q \in Procs \ {p} : items'[q] = items[q]
    <3>1. i \in 1..Len(items[p]) /\ UNCHANGED index
      OBVIOUS
    <3> QED  BY <1>0, <3>1
  <2>4. Undisturbed
    BY <2>2 DEF Undisturbed
  <2>3. ClockOK' /\ store[job[p].id] \notin Contents
    BY DEF ClockOK, Ownership
  <2> QED  BY <2>1, <2>2, <2>3, <2>4 DEF RemovesRecord
<1>3. ASSUME PurgeItem(p) PROVE RemovesRecord("expired") \/ MovesNothing
  <2> DEFINE item == items[p][cursor[p]]
  <2>1. /\ pc[p] = "purge" /\ cursor[p] \in 1..Len(items[p])
        /\ UNCHANGED <<live, index, now, pc, job, at, used, home, due>>
    BY <1>3 DEF PurgeItem
  <2>2. item \in Records /\ item.expires \in Nat
    <3>1. item \in Item /\ item \in Records
      BY <2>1, RecordFacts
    <3> QED  BY <3>1, ItemFacts, 0 \in Nat
  <2>3. ClockOK'
    BY <2>1 DEF ClockOK
  <2>4. CASE IsExpired(item, at[p])
    <3>1. RemoveAll(item.id, "expired") /\ Forget(p, cursor[p])
      BY <1>3, <2>4 DEF PurgeItem
    <3>2. Records' \subseteq Records /\ Undisturbed
      BY <1>0, <2>1, <3>1 DEF Undisturbed
    <3>3. item.expires <= now
      BY <2>2, <2>4 DEF IsExpired, ClockOK
    <3> QED  BY <2>1, <2>2, <2>3, <3>1, <3>2, <3>3 DEF RemovesRecord
  <2>5. CASE ~IsExpired(item, at[p])
    <3>1. UNCHANGED <<store, fate, items>>
      BY <1>3, <2>5 DEF PurgeItem
    <3>2. Records' = Records
      BY <2>1, <3>1 DEF Records
    <3> QED  BY <2>1, <2>3, <3>1, <3>2 DEF MovesNothing, Undisturbed
  <2> QED  BY <2>4, <2>5
<1> QED  BY <1>1, <1>2, <1>3

\* The actions that only change memory or rewrite the index.
LEMMA StillSteps ==
    ASSUME IInv
    PROVE  /\ Tick \/ UNCHANGED vars => MovesNothing
           /\ \A p \in Procs :
                 \/ Initialize(p) \/ InitializeFails(p) \/ Exit(p) \/ PurgeBegin(p) \/ PurgeEnd(p)
                 \/ PersistOpen(p) \/ PersistOpenFails(p) \/ WriteItem(p) \/ PersistDone(p)
                 => MovesNothing
<1> USE DEF IInv, TypeOK
<1>1. ASSUME Tick \/ UNCHANGED vars PROVE MovesNothing
  <2>1. /\ UNCHANGED <<live, store, index, used, home, due, fate, pc, job, items, at>>
        /\ now' \in {now, now + 1}
    BY <1>1 DEF Tick, vars, disk, memory, history
  <2>2. Records' = Records
    BY <2>1 DEF Records
  <2> QED  BY <2>1, <2>2 DEF MovesNothing, Undisturbed, ClockOK
<1>2. ASSUME NEW p \in Procs,
             \/ Initialize(p) \/ InitializeFails(p) \/ Exit(p) \/ PurgeBegin(p) \/ PurgeEnd(p)
             \/ PersistOpen(p) \/ PersistOpenFails(p) \/ WriteItem(p) \/ PersistDone(p)
      PROVE  MovesNothing
  <2>1. /\ UNCHANGED <<live, store, now, used, home, due, fate>>
        /\ pc'[p] \notin {"rename", "clean"}
        /\ \A q \in Procs \ {p} : pc'[q] = pc[q] /\ job'[q] = job[q] /\ items'[q] = items[q]
    BY <1>2 DEF Initialize, InitializeFails, Exit, PurgeBegin, PurgeEnd, PersistOpen,
                PersistOpenFails, WriteItem, PersistDone, Goto, disk, history
  <2>2. \A q \in Procs : at'[q] <= now
    BY <1>2 DEF Initialize, InitializeFails, Exit, PurgeBegin, PurgeEnd, PersistOpen,
                PersistOpenFails, WriteItem, PersistDone, ClockOK
  <2>3. ToSet(<<>>) = {}
    BY DEF ToSet
  <2>4. \A q \in Procs : items'[q] \in {items[q], index, <<>>}
    BY <1>2 DEF Initialize, InitializeFails, Exit, PurgeBegin, PurgeEnd, PersistOpen,
                PersistOpenFails, WriteItem, PersistDone
  <2>5. \A q \in Procs : ToSet(items'[q]) \subseteq Records
    BY <2>3, <2>4, RecordFacts
  <2>6. ToSet(index') \subseteq Records
    <3>1. CASE WriteItem(p)
      <4>1. index' = SubSeq(items[p], 1, cursor[p] + 1) /\ cursor[p] + 1 \in 0..Len(items[p])
        BY <3>1 DEF WriteItem
      <4> QED  BY <4>1, PrefixFacts, RecordFacts
    <3>2. CASE ~WriteItem(p)
      <4>1. index' \in {index, <<>>}
        BY <1>2, <3>2 DEF Initialize, InitializeFails, Exit, PurgeBegin, PurgeEnd, PersistOpen,
                          PersistOpenFails, PersistDone, disk
      <4> QED  BY <2>3, <4>1, RecordFacts
    <3> QED  BY <3>1, <3>2
  <2> QED  BY <2>1, <2>2, <2>5, <2>6, RecordsShrink DEF MovesNothing, Undisturbed, ClockOK
<1> QED  BY <1>1, <1>2

\* Every step is one of six kinds.
LEMMA StepKinds ==
    ASSUME IInv, [Next]_vars
    PROVE  \/ \E x \in Paths, c \in Contents : UserCreates(x, c)
           \/ \E p \in Procs, x \in Paths, id \in Ids : CaptureBegin(p, x, id)
           \/ \E p \in Procs : CaptureRename(p) \/ CaptureRenameFails(p)
           \/ \E p \in Procs, id \in Ids : Restore(p, id)
           \/ \E reason \in {"discarded", "expired", "restored"} : RemovesRecord(reason)
           \/ MovesNothing
<1>1. ASSUME NEW p \in Procs,
             (\E id \in Ids : Discard(p, id)) \/ RestoreClean(p) \/ PurgeItem(p)
      PROVE  (\E reason \in {"discarded", "expired", "restored"} : RemovesRecord(reason))
             \/ MovesNothing
  BY <1>1, RemovingSteps
<1> QED  BY <1>1, StillSteps DEF Next

\* IInv is inductive.
LEMMA InvariantStep == IInv /\ [Next]_vars => IInv'
<1> SUFFICES ASSUME IInv, [Next]_vars PROVE IInv'
  OBVIOUS
<1>1. TypeOK'
  BY TypeStep DEF IInv
<1>2. ASSUME MovesNothing PROVE IInv'
  BY <1>1, <1>2, QuietStep DEF MovesNothing
<1>3. ASSUME NEW reason \in {"discarded", "expired", "restored"}, RemovesRecord(reason)
      PROVE  IInv'
  BY <1>1, <1>3, RemoveStep DEF RemovesRecord
<1> QED  BY <1>1, <1>2, <1>3, StepKinds, UserCreatesStep, CaptureBeginStep,
            CaptureRenameStep, CaptureRenameFailsStep, RestoreStep

\* IInv holds of a store nobody has opened yet.
LEMMA InvariantInit == Init => IInv
<1> SUFFICES ASSUME Init PROVE IInv
  OBVIOUS
<1> USE DEF Init
<1>1. TypeOK
  BY DEF TypeOK, Item, Labels
<1>2. Records = {}
  BY DEF Records, ToSet
<1>3. OnePlace
  BY MarkersDistinct DEF OnePlace, Placed, OnDisk
<1>4. BackHome /\ RecordsAgree /\ Ownership /\ ClockOK
  BY <1>2, MarkersDistinct DEF BackHome, RecordsAgree, Ownership, ClockOK
<1> QED  BY <1>1, <1>3, <1>4 DEF IInv

\* The inductive invariant holds in every behaviour.
LEMMA Invariant == Spec => []IInv
BY InvariantInit, InvariantStep, PTL DEF Spec

\* No interleaving of processes, no crash and no failing call puts a piece
\* of content in two places or makes it vanish unaccounted for (capture,
\* restore, discard and purgeExpired of quarantine.cpp).
THEOREM ContentConserved == Spec => []OnePlace
<1>1. IInv => OnePlace
  BY DEF IInv
<1> QED  BY <1>1, Invariant, PTL

\* Whatever process restores an item, from whatever stale list or index,
\* the content is only ever found at the path it was created at.
THEOREM RestoredWhereItWas == Spec => []BackHome
<1>1. IInv => BackHome
  BY DEF IInv
<1> QED  BY <1>1, Invariant, PTL

\* No stale record of an item describes other content than its directory's.
THEOREM RecordsNeverLie == Spec => []RecordsAgree
<1>1. IInv => RecordsAgree
  BY DEF IInv
<1> QED  BY <1>1, Invariant, PTL

\* No two processes work on the same directory inside capture, and no content
\* comes into a directory that a restore is about to remove.
THEOREM DirectoriesOwned == Spec => []Ownership
<1>1. IInv => Ownership
  BY DEF IInv
<1> QED  BY <1>1, Invariant, PTL
-----------------------------------------------------------------------------
(* The quarantine implements the custody specification.                    *)

\* Where of a content on the disk, of a new one and of a lost one.
LEMMA WhereFacts ==
    ASSUME IInv, NEW c \in Contents
    PROVE  /\ home[c] = Absent => Where[c] = "unborn"
           /\ \A i \in Ids : store[i] = c => Where[c] = "vault"
           /\ \A x \in Paths : live[x] = c => Where[c] = "user"
           /\ fate[c] # "none" => Where[c] = fate[c]
<1>1. Placed(c)
  BY DEF IInv, OnePlace
<1>2. Where[c] = IF home[c] = Absent THEN "unborn"
                 ELSE IF \E i \in Ids : store[i] = c THEN "vault"
                 ELSE IF fate[c] # "none" THEN fate[c] ELSE "user"
  BY DEF Where
<1> QED  BY <1>1, <1>2 DEF Placed, OnDisk

\* The same after a step.
LEMMA WhereFactsNext ==
    ASSUME IInv', NEW c \in Contents
    PROVE  /\ \A x \in Paths : live'[x] = c => Where'[c] = "user"
           /\ fate'[c] # "none" => Where'[c] = fate'[c]
<1>1. Placed(c)'
  BY DEF IInv, OnePlace
<1>2. Where'[c] = IF home'[c] = Absent THEN "unborn"
                  ELSE IF \E i \in Ids : store'[i] = c THEN "vault"
                  ELSE IF fate'[c] # "none" THEN fate'[c] ELSE "user"
  BY DEF Where
<1> QED  BY <1>1, <1>2 DEF Placed, OnDisk

\* A content that a step does not touch stays where it is.
LEMMA WhereFrame ==
    ASSUME NEW c \in Contents, home'[c] = home[c], fate'[c] = fate[c],
           \A i \in Ids : store'[i] = c <=> store[i] = c
    PROVE  Where'[c] = Where[c]
BY DEF Where

\* Where is a function on the contents, before and after a step.
LEMMA WhereChange ==
    /\ Where = [c \in Contents |-> Where[c]]
    /\ Where' = [c \in Contents |-> Where'[c]]
BY DEF Where

\* Every step is a step of the custody specification or leaves it alone.
LEMMA CustodyStep == IInv /\ IInv' /\ [Next]_vars => [Vault!Next]_(Vault!vars)
<1> SUFFICES ASSUME IInv, IInv', [Next]_vars PROVE [Vault!Next]_(Vault!vars)
  OBVIOUS
<1> USE MarkersDistinct
<1>1. CASE MovesNothing
  <2>1. ASSUME NEW c \in Contents PROVE Where'[c] = Where[c]
    BY <1>1, WhereFrame DEF MovesNothing
  <2>2. Where' = Where
    BY <2>1, WhereChange
  <2> QED  BY <1>1, <2>2 DEF MovesNothing, Vault!Next, Vault!Tick, Vault!vars
<1>2. ASSUME NEW x \in Paths, NEW c \in Contents, UserCreates(x, c)
      PROVE  Vault!Create(c)
  <2> USE DEF IInv, TypeOK
  <2>1. /\ home[c] = Absent /\ home' = [home EXCEPT ![c] = x]
        /\ live' = [live EXCEPT ![x] = c]
        /\ UNCHANGED <<store, now, due, fate>>
    BY <1>2 DEF UserCreates
  <2>2. Where[c] = "unborn" /\ Where'[c] = "user"
    BY <2>1, WhereFacts DEF Where, OnePlace, Placed, OnDisk
  <2>3. ASSUME NEW d \in Contents \ {c} PROVE Where'[d] = Where[d]
    BY <2>1, WhereFrame
  <2>4. Where' = [Where EXCEPT ![c] = "user"]
    BY <2>2, <2>3, WhereChange
  <2> QED  BY <2>1, <2>2, <2>4 DEF Vault!Create
<1>3. ASSUME NEW p \in Procs, NEW x \in Paths, NEW id \in Ids, CaptureBegin(p, x, id)
      PROVE  UNCHANGED Vault!vars
  <2>1. /\ store[id] = Absent /\ store' = [store EXCEPT ![id] = EmptyDir]
        /\ UNCHANGED <<home, fate, due, now>>
    BY <1>3 DEF CaptureBegin, FreshId, IInv, Ownership
  <2>2. ASSUME NEW c \in Contents PROVE \A i \in Ids : store'[i] = c <=> store[i] = c
    BY <2>1 DEF IInv, TypeOK
  <2>3. ASSUME NEW c \in Contents PROVE Where'[c] = Where[c]
    BY <2>1, <2>2, WhereFrame
  <2> QED  BY <2>1, <2>3, WhereChange DEF Vault!vars
<1>4. ASSUME NEW p \in Procs, CaptureRenameFails(p)
      PROVE  UNCHANGED Vault!vars
  <2>1. /\ store[job[p].id] = EmptyDir
        /\ store' = [store EXCEPT ![job[p].id] = Absent] \/ store' = store
        /\ UNCHANGED <<home, fate, due, now>>
    BY <1>4 DEF CaptureRenameFails, IInv, Ownership, history
  <2>2. ASSUME NEW c \in Contents PROVE \A i \in Ids : store'[i] = c <=> store[i] = c
    BY <2>1 DEF IInv, TypeOK
  <2>3. ASSUME NEW c \in Contents PROVE Where'[c] = Where[c]
    BY <2>1, <2>2, WhereFrame
  <2> QED  BY <2>1, <2>3, WhereChange DEF Vault!vars
<1>5. ASSUME NEW p \in Procs, CaptureRename(p)
      PROVE  \E c \in Contents : Vault!Capture(c)
  <2> DEFINE x == job[p].original
             id == job[p].id
             c == live[x]
  <2>1. job[p] \in Item /\ x \in Paths /\ id \in Ids
    <3>1. job[p] \in Item
      BY <1>5 DEF CaptureRename, IInv, TypeOK
    <3> QED  BY <3>1, ItemFacts, 0 \in Nat
  <2>2. /\ c \in Contents
        /\ store' = [store EXCEPT ![id] = c] /\ store[id] = EmptyDir
        /\ due' = [due EXCEPT ![c] = now + Retention[p]]
        /\ UNCHANGED <<home, fate, now>>
    <3>1. [job[p] EXCEPT !.expires = now + Retention[p]].id = id
      BY <2>1 DEF Item
    <3>2. [job[p] EXCEPT !.expires = now + Retention[p]].expires = now + Retention[p]
      BY <2>1 DEF Item
    <3> QED  BY <1>5, <2>1, <3>1, <3>2 DEF CaptureRename, IInv, TypeOK, Ownership
  <2> HIDE DEF x, id, c
  <2>3. Where[c] = "user"
    BY <2>1, <2>2, WhereFacts DEF c
  <2>4. store'[id] = c
    BY <2>1, <2>2 DEF IInv, TypeOK
  <2>5. Where'[c] = "vault"
    BY <2>1, <2>2, <2>4 DEF Where, IInv, OnePlace, Placed, OnDisk
  <2>6. ASSUME NEW d \in Contents \ {c} PROVE Where'[d] = Where[d]
    <3>1. \A i \in Ids : store'[i] = d <=> store[i] = d
      BY <2>1, <2>2 DEF IInv, TypeOK
    <3> QED  BY <2>2, <3>1, WhereFrame
  <2>7. Where' = [Where EXCEPT ![c] = "vault"]
    BY <2>2, <2>5, <2>6, WhereChange
  <2> QED  BY <2>2, <2>3, <2>7 DEF Vault!Capture
<1>6. ASSUME NEW p \in Procs, NEW id \in Ids, Restore(p, id)
      PROVE  Vault!Restore(store[id]) /\ store[id] \in Contents
  <2> PICK k \in DOMAIN items[p] : RestoreEffect(p, id, k)
    BY <1>6, RestoreFacts
  <2> DEFINE x == items[p][k].original
             c == store[id]
             v == live[x]
  <2>1. /\ x \in Paths /\ c \in Contents /\ store[id] = c
        /\ live'[x] = c
        /\ \A j \in Ids : store'[j] = IF j = id THEN EmptyDir ELSE store[j]
        /\ \A d \in Contents : fate'[d] = IF v = d THEN "overwritten" ELSE fate[d]
        /\ live[x] = v
        /\ UNCHANGED <<home, due, now>>
    BY DEF RestoreEffect
  <2> HIDE DEF x, c, v
  <2>2. Where[c] = "vault" /\ Where'[c] = "user"
    BY <2>1, WhereFacts, WhereFactsNext
  <2>3. ASSUME NEW d \in Contents, d # c, d # v PROVE Where'[d] = Where[d]
    <3>1. \A i \in Ids : store'[i] = d <=> store[i] = d
      BY <2>1, <2>3
    <3> QED  BY <2>1, <2>3, <3>1, WhereFrame
  <2>4. CASE v \in Contents
    <3>1. v # c
      <4>1. Placed(c)
        BY <2>1 DEF IInv, OnePlace
      <4> QED  BY <2>1, <4>1 DEF Placed
    <3>2. Where[v] = "user" /\ fate'[v] = "overwritten"
      BY <2>1, <2>4, WhereFacts
    <3>3. Where'[v] = "overwritten"
      BY <2>4, <3>2, WhereFactsNext
    <3>4. Where' = [Where EXCEPT ![c] = "user", ![v] = "overwritten"]
      BY <2>1, <2>2, <2>3, <2>4, <3>1, <3>3, WhereChange
    <3>5. \E d \in Contents \ {c} :
             Where[d] = "user" /\ Where' = [Where EXCEPT ![c] = "user", ![d] = "overwritten"]
      BY <2>4, <3>1, <3>2, <3>4
    <3> QED  BY <2>1, <2>2, <3>5 DEF Vault!Restore, c
  <2>5. CASE v \notin Contents
    <3>1. Where' = [Where EXCEPT ![c] = "user"]
      BY <2>1, <2>2, <2>3, <2>5, WhereChange
    <3> QED  BY <2>1, <2>2, <3>1 DEF Vault!Restore, c
  <2> QED  BY <2>4, <2>5
<1>7. ASSUME NEW reason \in {"discarded", "expired", "restored"}, RemovesRecord(reason)
      PROVE  (\E c \in Contents : Vault!Discard(c) \/ Vault!Expire(c)) \/ UNCHANGED Vault!vars
  <2> PICK r \in Records : /\ RemoveAll(r.id, reason)
                           /\ reason = "expired" => r.expires <= now
                           /\ reason = "restored" => store[r.id] \notin Contents
    BY <1>7 DEF RemovesRecord
  <2>1. r.id \in Ids /\ UNCHANGED <<home, due, now>>
    BY <1>7, RecordFacts, ItemFacts, 0 \in Nat DEF RemovesRecord, IInv
  <2>2. CASE store' = store /\ fate' = fate
    <3>1. ASSUME NEW c \in Contents PROVE Where'[c] = Where[c]
      BY <2>1, <2>2, WhereFrame
    <3> QED  BY <2>1, <3>1, WhereChange DEF Vault!vars
  <2>3. CASE /\ store' = [store EXCEPT ![r.id] = Absent]
             /\ fate' = [c \in Contents |-> IF store[r.id] = c THEN reason ELSE fate[c]]
    <3>1. \A i \in Ids : store'[i] = IF i = r.id THEN Absent ELSE store[i]
      BY <2>1, <2>3 DEF IInv, TypeOK
    <3>2. \A c \in Contents : fate'[c] = IF store[r.id] = c THEN reason ELSE fate[c]
      BY <2>3
    <3>3. ASSUME NEW d \in Contents, d # store[r.id] PROVE Where'[d] = Where[d]
      <4>1. \A i \in Ids : store'[i] = d <=> store[i] = d
        BY <3>1, <3>3
      <4> QED  BY <2>1, <3>2, <3>3, <4>1, WhereFrame
    <3>4. CASE store[r.id] \notin Contents
      BY <2>1, <3>3, <3>4, WhereChange DEF Vault!vars
    <3>5. CASE store[r.id] \in Contents
      <4> DEFINE c == store[r.id]
      <4>1. c \in Contents /\ Where[c] = "vault" /\ fate'[c] = reason
        BY <2>1, <3>2, <3>5, WhereFacts
      <4>2. reason \in {"discarded", "expired"} /\ (reason = "expired" => due[c] <= now)
        BY <3>5 DEF IInv, RecordsAgree
      <4>3. Where'[c] = reason
        BY <4>1, <4>2, WhereFactsNext
      <4> HIDE DEF c
      <4>4. Where' = [Where EXCEPT ![c] = reason]
        BY <3>3, <4>1, <4>3, WhereChange DEF c
      <4> QED  BY <2>1, <4>1, <4>2, <4>4 DEF Vault!Discard, Vault!Expire
    <3> QED  BY <3>4, <3>5
  <2> QED  BY <2>2, <2>3 DEF RemoveAll
<1> QED  BY <1>1, <1>2, <1>3, <1>4, <1>5, <1>6, <1>7, StepKinds DEF Vault!Next

\* Whatever the processes, the crashes and the failing calls, content leaves
\* the disk only by a discard, by a purge past its expiry, or under a file
\* that a restore puts in its place.
THEOREM CustodyKept == Spec => CustodySpec
<1>1. Init => Vault!Init
  BY DEF Init, Vault!Init, Where
<1> QED  BY <1>1, Invariant, CustodyStep, PTL DEF Spec, CustodySpec, Vault!Spec

-----------------------------------------------------------------------------
(* Byte totals                                                             *)

\* The items of a list have sizes.
LEMMA SizeFacts ==
    ASSUME NEW s \in Seq(Item), NEW i \in 1 .. Len(s)
    PROVE  s[i] \in Item /\ s[i].size \in Nat
<1>1. s[i] \in Item
  OBVIOUS
<1> QED
  BY <1>1 DEF Item

\* A byte has an item and a place in it,
LEMMA ByteOf ==
    ASSUME NEW s \in Seq(Item), NEW q \in Bytes(s)
    PROVE  \E i \in 1 .. Len(s), n \in Nat : n \in 1 .. s[i].size /\ q = <<i, n>>
<1>1. DOMAIN s = 1 .. Len(s)
  OBVIOUS
<1>2. PICK i \in 1 .. Len(s) : q \in {i} \X (1 .. s[i].size)
  BY <1>1 DEF Bytes
<1>3. PICK k \in Nat : k = s[i].size
  BY SizeFacts
<1>4. PICK n \in 1 .. k : q = <<i, n>>
  BY <1>2, <1>3
<1> QED
  BY <1>3, <1>4

\* and every place in an item is a byte.
LEMMA ByteIn ==
    ASSUME NEW s \in Seq(Item), NEW i \in 1 .. Len(s), NEW n \in 1 .. s[i].size
    PROVE  <<i, n>> \in Bytes(s)
<1>1. DOMAIN s = 1 .. Len(s)
  OBVIOUS
<1>2. <<i, n>> \in {i} \X (1 .. s[i].size)
  OBVIOUS
<1> QED
  BY <1>1, <1>2 DEF Bytes

\* The bytes of one item.
LEMMA OnePart ==
    ASSUME NEW i, NEW n \in Nat
    PROVE  IsFiniteSet({i} \X (1 .. n)) /\ Cardinality({i} \X (1 .. n)) = n
<1>1. IsFiniteSet({i}) /\ Cardinality({i}) = 1
  BY FS_Singleton
<1>2. IsFiniteSet(1 .. n) /\ Cardinality(1 .. n) = n
  <2>1. 1 \in Int /\ n \in Int
    OBVIOUS
  <2>2. IsFiniteSet(1 .. n) /\ Cardinality(1 .. n) = IF 1 > n THEN 0 ELSE n - 1 + 1
    BY <2>1, FS_Interval
  <2> QED
    BY <2>2
<1>3. IsFiniteSet({i} \X (1 .. n)) /\ Cardinality({i} \X (1 .. n)) = Cardinality({i}) * Cardinality(1 .. n)
  BY <1>1, <1>2, FS_Product
<1>4. PICK c, d, e : c = Cardinality({i}) /\ d = Cardinality(1 .. n) /\ e = Cardinality({i} \X (1 .. n))
  OBVIOUS
<1>5. e = 1 * n
  BY <1>1, <1>2, <1>3, <1>4, Zenon
<1>6. e = n
  BY <1>5
<1> QED
  BY <1>3, <1>4, <1>6

\* A list has finitely many bytes.
LEMMA ByteFacts ==
    ASSUME NEW s \in Seq(Item)
    PROVE  IsFiniteSet(Bytes(s)) /\ TotalSize(s) \in Nat /\ TotalSize(s) = Cardinality(Bytes(s))
<1>1. DOMAIN s = 1 .. Len(s) /\ Len(s) \in Nat
  OBVIOUS
<1>2. PICK parts : parts = {{i} \X (1 .. s[i].size) : i \in 1 .. Len(s)}
  OBVIOUS
<1>3. PICK f : f = [i \in 1 .. Len(s) |-> {i} \X (1 .. s[i].size)]
  OBVIOUS
<1>4. f \in Surjection(1 .. Len(s), parts)
  BY <1>2, <1>3 DEF Surjection
<1>5. IsFiniteSet(parts)
  BY <1>1, <1>4, FS_Interval, FS_Surjection
<1>6. \A i \in 1 .. Len(s) : IsFiniteSet({i} \X (1 .. s[i].size))
  BY SizeFacts, OnePart
<1>7. IsFiniteSet(UNION parts)
  BY <1>2, <1>5, <1>6, FS_UNION
<1>8. IsFiniteSet(Bytes(s))
  BY <1>1, <1>2, <1>7 DEF Bytes
<1> QED
  BY <1>8, FS_CardinalityType DEF TotalSize

\* Bytes of one item more.
LEMMA OneMore ==
    ASSUME NEW A, IsFiniteSet(A), NEW i, NEW n \in Nat, A \cap ({i} \X (1 .. n)) = {}
    PROVE  Cardinality(A \cup ({i} \X (1 .. n))) = Cardinality(A) + n
<1>1. PICK B : B = {i} \X (1 .. n)
  OBVIOUS
<1>2. IsFiniteSet(B) /\ Cardinality(B) = n
  BY <1>1, OnePart
<1>3. Cardinality(A) \in Nat /\ Cardinality(A \cap B) = 0
  BY <1>1, FS_CardinalityType, FS_EmptySet
<1> QED
  BY <1>1, <1>2, <1>3, FS_Union

\* storedBytes += item.storedSizeBytes
LEMMA AppendTotal ==
    ASSUME NEW s \in Seq(Item), NEW e \in Item
    PROVE  TotalSize(Append(s, e)) = TotalSize(s) + e.size
<1>1. PICK t \in Seq(Item), n \in Nat :
        /\ t = Append(s, e) /\ n = Len(s) /\ Len(t) = n + 1
        /\ (\A j \in 1 .. n : t[j] = s[j]) /\ t[n + 1] = e
  <2>1. /\ Append(s, e) \in Seq(Item) /\ Len(Append(s, e)) = Len(s) + 1 /\ Len(s) \in Nat
        /\ \A j \in 1 .. Len(s) : Append(s, e)[j] = s[j]
        /\ Append(s, e)[Len(s) + 1] = e
    BY SMT
  <2> QED
    BY <2>1
<1>2. e.size \in Nat
  BY DEF Item
<1>3. PICK B : B = {n + 1} \X (1 .. e.size)
  OBVIOUS
<1>4. \A q : q \in Bytes(t) <=> q \in Bytes(s) \cup B
  <2>1. ASSUME NEW q \in Bytes(t) PROVE q \in Bytes(s) \cup B
    <3>1. PICK i \in 1 .. n + 1, m \in Nat : m \in 1 .. t[i].size /\ q = <<i, m>>
      <4>1. \E i \in 1 .. Len(t), m \in Nat : m \in 1 .. t[i].size /\ q = <<i, m>>
        BY <2>1, ByteOf
      <4> QED
        BY <1>1, <4>1
    <3>2. CASE i \in 1 .. n
      BY <1>1, <3>1, <3>2, ByteIn
    <3>3. CASE i = n + 1
      BY <1>1, <1>3, <3>1, <3>3
    <3> QED
      BY <3>1, <3>2, <3>3
  <2>2. ASSUME NEW q \in Bytes(s) PROVE q \in Bytes(t)
    <3>1. PICK i \in 1 .. n, m \in Nat : m \in 1 .. s[i].size /\ q = <<i, m>>
      BY <1>1, <2>2, ByteOf
    <3>2. i \in 1 .. Len(t) /\ m \in 1 .. t[i].size
      BY <1>1, <3>1
    <3> QED
      BY <1>1, <3>1, <3>2, ByteIn
  <2>3. ASSUME NEW q \in B PROVE q \in Bytes(t)
    <3>1. PICK m \in Nat : m \in 1 .. e.size /\ q = <<n + 1, m>>
      BY <1>2, <1>3, <2>3
    <3>2. n + 1 \in 1 .. Len(t) /\ m \in 1 .. t[n + 1].size
      BY <1>1, <3>1
    <3> QED
      BY <1>1, <3>1, <3>2, ByteIn
  <2> QED
    BY <2>1, <2>2, <2>3
<1>5. Bytes(s) \cap B = {}
  <2> SUFFICES ASSUME NEW q \in Bytes(s), q \in B PROVE FALSE
    OBVIOUS
  <2>1. PICK i \in 1 .. n, m \in Nat : q = <<i, m>>
    BY <1>1, ByteOf
  <2> QED
    BY <1>1, <1>3, <2>1
<1>6. Bytes(t) = Bytes(s) \cup B
  BY <1>4
<1> QED
  <2>1. IsFiniteSet(Bytes(s)) /\ TotalSize(s) = Cardinality(Bytes(s)) /\ TotalSize(t) = Cardinality(Bytes(t))
    BY <1>1, ByteFacts
  <2>2. Cardinality(Bytes(s) \cup B) = Cardinality(Bytes(s)) + e.size
    BY <1>2, <1>3, <1>5, <2>1, OneMore
  <2> QED
    BY <1>1, <1>6, <2>1, <2>2

\* What is where after items.erase(it).
LEMMA RemoveAtPlaces ==
    ASSUME NEW S, NEW s \in Seq(S), NEW i \in 1 .. Len(s)
    PROVE  \A j \in 1 .. Len(s) - 1 : RemoveAt(s, i)[j] = IF j < i THEN s[j] ELSE s[j + 1]
<1> DEFINE a == SubSeq(s, 1, i - 1)
           b == SubSeq(s, i + 1, Len(s))
<1>1. /\ a \in Seq(S) /\ Len(a) = i - 1
      /\ \A j \in 1..(i - 1) : a[j] = s[j]
  BY SMT
<1>2. /\ b \in Seq(S) /\ Len(b) = Len(s) - i
      /\ \A j \in 1..(Len(s) - i) : b[j] = s[i + j]
  BY SMT
<1> HIDE DEF a, b
<1>3. \A j \in 1..(Len(s) - 1) : (a \o b)[j] = IF j <= i - 1 THEN a[j] ELSE b[j - (i - 1)]
  BY <1>1, <1>2, SMT
<1>4. RemoveAt(s, i) = a \o b
  BY DEF RemoveAt, a, b
<1> SUFFICES ASSUME NEW j \in 1 .. Len(s) - 1
             PROVE  (a \o b)[j] = IF j < i THEN s[j] ELSE s[j + 1]
  BY <1>4
<1>5. CASE j < i
  BY <1>1, <1>3, <1>5
<1>6. CASE ~(j < i)
  <2>1. j - (i - 1) \in 1..(Len(s) - i) /\ i + (j - (i - 1)) = j + 1 /\ ~(j <= i - 1)
    BY <1>6
  <2> QED
    BY <1>2, <1>3, <1>6, <2>1
<1> QED
  BY <1>5, <1>6

\* storedBytes -= item.storedSizeBytes: the items behind the one that goes keep
\* their bytes and move down by one.
LEMMA RemoveTotal ==
    ASSUME NEW s \in Seq(Item), NEW i \in 1 .. Len(s)
    PROVE  TotalSize(s) = TotalSize(RemoveAt(s, i)) + s[i].size
<1>1. PICK t \in Seq(Item), n \in Nat :
        /\ t = RemoveAt(s, i) /\ n = Len(s) /\ Len(t) = n - 1
        /\ \A j \in 1 .. n - 1 : t[j] = IF j < i THEN s[j] ELSE s[j + 1]
  BY RemoveAtFacts, RemoveAtPlaces
<1>2. s[i].size \in Nat /\ i \in 1 .. n
  BY <1>1, SizeFacts
<1>3. PICK B : B = {i} \X (1 .. s[i].size)
  OBVIOUS
<1>4. PICK A : A = {q \in Bytes(s) : q[1] # i}
  OBVIOUS
<1>5. Bytes(s) = A \cup B /\ A \cap B = {}
  <2>1. ASSUME NEW q \in B PROVE q \in Bytes(s) /\ q[1] = i
    <3>1. PICK m \in 1 .. s[i].size : q = <<i, m>>
      BY <1>2, <1>3, <2>1
    <3> QED
      BY <3>1, ByteIn
  <2>2. ASSUME NEW q \in Bytes(s), q[1] = i PROVE q \in B
    <3>1. PICK j \in 1 .. Len(s), m \in Nat : m \in 1 .. s[j].size /\ q = <<j, m>>
      BY <2>2, ByteOf
    <3> QED
      BY <1>3, <2>2, <3>1
  <2> QED
    BY <1>4, <2>1, <2>2
<1> DEFINE Moved(q) == <<IF q[1] < i THEN q[1] ELSE q[1] + 1, q[2]>>
<1>6. PICK f : f = [q \in Bytes(t) |-> Moved(q)]
  OBVIOUS
<1>7. ASSUME NEW q \in Bytes(t)
      PROVE  \E j \in 1 .. n - 1 : \E m \in Nat : /\ q = <<j, m>> /\ m \in 1 .. t[j].size
                                                 /\ Moved(q) = <<IF j < i THEN j ELSE j + 1, m>>
  <2>1. PICK j \in 1 .. n - 1, m \in Nat : m \in 1 .. t[j].size /\ q = <<j, m>>
    BY <1>1, ByteOf
  <2>2. q[1] = j /\ q[2] = m
    BY <2>1
  <2> QED
    BY <2>1, <2>2
<1>8. ASSUME NEW q \in Bytes(t) PROVE f[q] \in A
  <2>1. PICK j \in 1 .. n - 1, m \in Nat :
          q = <<j, m>> /\ m \in 1 .. t[j].size /\ Moved(q) = <<IF j < i THEN j ELSE j + 1, m>>
    BY <1>7
  <2>2. PICK k \in 1 .. n : k = (IF j < i THEN j ELSE j + 1) /\ k # i /\ t[j] = s[k]
    BY <1>1, <1>2, <2>1
  <2>3. f[q] = <<k, m>> /\ m \in 1 .. s[k].size
    BY <1>6, <2>1, <2>2
  <2> QED
    BY <1>1, <1>4, <2>2, <2>3, ByteIn
<1>9. ASSUME NEW q \in Bytes(t), NEW r \in Bytes(t), f[q] = f[r] PROVE q = r
  <2>1. PICK j \in 1 .. n - 1, m \in Nat :
          q = <<j, m>> /\ Moved(q) = <<IF j < i THEN j ELSE j + 1, m>>
    BY <1>7
  <2>2. PICK k \in 1 .. n - 1, l \in Nat :
          r = <<k, l>> /\ Moved(r) = <<IF k < i THEN k ELSE k + 1, l>>
    BY <1>7
  <2>3. f[q] = Moved(q) /\ f[r] = Moved(r)
    BY <1>6
  <2>4. m = l /\ (IF j < i THEN j ELSE j + 1) = (IF k < i THEN k ELSE k + 1)
    BY <1>9, <2>1, <2>2, <2>3
  <2>5. j = k
    BY <1>1, <2>1, <2>2, <2>4
  <2> QED
    BY <2>1, <2>2, <2>4, <2>5
<1>10. ASSUME NEW q \in A PROVE \E r \in Bytes(t) : f[r] = q
  <2>1. PICK k \in 1 .. n, m \in Nat : q = <<k, m>> /\ m \in 1 .. s[k].size /\ k # i
    <3>1. PICK k \in 1 .. n, m \in Nat : m \in 1 .. s[k].size /\ q = <<k, m>>
      BY <1>1, <1>4, <1>10, ByteOf
    <3> QED
      BY <1>4, <1>10, <3>1
  <2>2. PICK j \in 1 .. n - 1 : k = (IF j < i THEN j ELSE j + 1) /\ t[j] = s[k]
    <3>1. CASE k < i
      <4>1. k \in 1 .. n - 1
        BY <1>1, <1>2, <2>1, <3>1
      <4> QED
        BY <1>1, <3>1, <4>1
    <3>2. CASE k > i
      <4>1. PICK j \in 1 .. n - 1 : j = k - 1 /\ ~(j < i) /\ j + 1 = k
        BY <1>1, <1>2, <2>1, <3>2
      <4> QED
        BY <1>1, <4>1
    <3> QED
      BY <1>1, <1>2, <2>1, <3>1, <3>2
  <2>3. <<j, m>> \in Bytes(t)
    BY <1>1, <2>1, <2>2, ByteIn
  <2>4. Moved(<<j, m>>) = q
    BY <2>1, <2>2
  <2> QED
    BY <1>6, <2>3, <2>4
<1>11. f \in Bijection(Bytes(t), A)
  <2>1. f \in [Bytes(t) -> A]
    BY <1>6, <1>8
  <2>2. f \in Injection(Bytes(t), A) /\ f \in Surjection(Bytes(t), A)
    BY <1>9, <1>10, <2>1 DEF Injection, Surjection, IsInjective
  <2> QED
    BY <2>2 DEF Bijection
<1>12. IsFiniteSet(A) /\ Cardinality(A) = Cardinality(Bytes(t))
  BY <1>1, <1>11, ByteFacts, FS_Bijection DEF ExistsBijection
<1>13. Cardinality(A \cup B) = Cardinality(A) + s[i].size
  BY <1>2, <1>3, <1>5, <1>12, OneMore
<1> QED
  BY <1>1, <1>5, <1>12, <1>13 DEF TotalSize

\* An empty list has no bytes.
LEMMA NoBytes == TotalSize(<<>>) = 0
<1>1. Bytes(<<>>) = {}
  BY DEF Bytes
<1> QED
  BY <1>1, FS_EmptySet DEF TotalSize

\* Each process has the total of its list.
Totals ==
    /\ storedBytes \in [Procs -> Nat]
    /\ \A p \in Procs : storedBytes[p] = TotalSize(items[p])

\* A process gets a list with its total.
LEMMA NewList ==
    ASSUME TypeOK, Totals, NEW p \in Procs, NEW s \in Seq(Item), NEW n, n = TotalSize(s),
           items' = [items EXCEPT ![p] = s], storedBytes' = [storedBytes EXCEPT ![p] = n]
    PROVE  Totals'
<1>1. n \in Nat
  BY ByteFacts
<1>2. storedBytes' \in [Procs -> Nat]
  BY <1>1 DEF Totals
<1>3. ASSUME NEW q \in Procs PROVE storedBytes'[q] = TotalSize(items'[q])
  <2>1. CASE q = p
    BY <2>1 DEF Totals, TypeOK
  <2>2. CASE q # p
    BY <2>2 DEF Totals, TypeOK
  <2> QED
    BY <2>1, <2>2
<1> QED
  BY <1>2, <1>3 DEF Totals

\* An item is forgotten with its bytes.
LEMMA ForgetTotal ==
    ASSUME TypeOK, Totals, NEW p \in Procs, NEW i \in 1 .. Len(items[p]), Forget(p, i)
    PROVE  Totals'
<1>1. items[p] \in Seq(Item) /\ storedBytes[p] \in Nat /\ storedBytes[p] = TotalSize(items[p])
  BY DEF TypeOK, Totals
<1>2. PICK s \in Seq(Item) : s = RemoveAt(items[p], i)
  BY <1>1, RemoveAtFacts
<1>3. items[p][i].size \in Nat
  BY <1>1, SizeFacts
<1>4. TotalSize(s) \in Nat /\ storedBytes[p] = TotalSize(s) + items[p][i].size
  BY <1>1, <1>2, RemoveTotal, ByteFacts
<1>5. PICK n : n = (IF storedBytes[p] <= items[p][i].size THEN 0 ELSE storedBytes[p] - items[p][i].size)
  OBVIOUS
<1>6. n = TotalSize(s)
  BY <1>1, <1>3, <1>4, <1>5
<1>7. items' = [items EXCEPT ![p] = s] /\ storedBytes' = [storedBytes EXCEPT ![p] = n]
  BY <1>2, <1>5 DEF Forget
<1> QED
  BY <1>6, <1>7, NewList

\* The totals are right after every step, whichever process takes it and
\* whatever fails.
LEMMA TotalsStep == TypeOK /\ Totals /\ [Next]_vars => Totals'
<1> SUFFICES ASSUME TypeOK, Totals, [Next]_vars PROVE Totals'
  OBVIOUS
<1>1. CASE UNCHANGED <<items, storedBytes>>
  BY <1>1 DEF Totals
<1>2. ASSUME NEW p \in Procs, Initialize(p) PROVE Totals'
  <2>1. index \in Seq(Item)
    BY DEF TypeOK
  <2> QED
    BY <1>2, <2>1, NewList DEF Initialize
<1>3. ASSUME NEW p \in Procs, Exit(p) PROVE Totals'
  <2>1. <<>> \in Seq(Item)
    OBVIOUS
  <2> QED
    BY <1>3, <2>1, NoBytes, NewList DEF Exit
<1>4. ASSUME NEW p \in Procs, CaptureRename(p) PROVE Totals'
  <2>1. PICK item : /\ item = [job[p] EXCEPT !.expires = now + Retention[p]]
                    /\ items' = [items EXCEPT ![p] = Append(items[p], item)]
                    /\ storedBytes' = [storedBytes EXCEPT ![p] = storedBytes[p] + item.size]
    BY <1>4 DEF CaptureRename
  <2>2. item \in Item
    <3>1. job[p] \in Item
      BY <1>4 DEF CaptureRename, TypeOK
    <3>2. now + Retention[p] \in Nat
      BY RetentionsAreNat DEF TypeOK
    <3> QED
      BY <2>1, <3>1, <3>2, ItemFacts
  <2>3. items[p] \in Seq(Item) /\ storedBytes[p] = TotalSize(items[p])
    BY DEF TypeOK, Totals
  <2>4. Append(items[p], item) \in Seq(Item)
    BY <2>2, <2>3, AppendFacts
  <2>5. storedBytes[p] + item.size = TotalSize(Append(items[p], item))
    BY <2>2, <2>3, AppendTotal
  <2> QED
    BY <2>1, <2>4, <2>5, NewList
<1>5. ASSUME NEW p \in Procs, RestoreClean(p) \/ \E id \in Ids : Discard(p, id) PROVE Totals'
  <2>1. PICK i \in DOMAIN items[p] : Forget(p, i)
    BY <1>5 DEF RestoreClean, Discard
  <2>2. i \in 1 .. Len(items[p])
    BY <2>1 DEF TypeOK
  <2> QED
    BY <2>1, <2>2, ForgetTotal
<1>6. ASSUME NEW p \in Procs, PurgeItem(p) PROVE Totals'
  <2>1. CASE Forget(p, cursor[p])
    <3>1. cursor[p] \in 1 .. Len(items[p])
      BY <1>6 DEF PurgeItem, TypeOK
    <3> QED
      BY <2>1, <3>1, ForgetTotal
  <2> QED
    BY <1>1, <1>6, <2>1 DEF PurgeItem
<1>7. ASSUME NEW p \in Procs,
             \/ InitializeFails(p) \/ \E x \in Paths, id \in Ids : CaptureBegin(p, x, id)
             \/ CaptureRenameFails(p) \/ (\E id \in Ids : Restore(p, id)) \/ PurgeBegin(p) \/ PurgeEnd(p)
             \/ PersistOpen(p) \/ PersistOpenFails(p) \/ WriteItem(p) \/ PersistDone(p)
      PROVE  Totals'
  BY <1>1, <1>7 DEF InitializeFails, CaptureBegin, CaptureRenameFails, Restore, PurgeBegin, PurgeEnd,
     PersistOpen, PersistOpenFails, WriteItem, PersistDone
<1>8. CASE Tick \/ \E x \in Paths, c \in Contents : UserCreates(x, c)
  BY <1>1, <1>8 DEF Tick, UserCreates, memory
<1>9. CASE UNCHANGED vars
  BY <1>1, <1>9 DEF vars
<1> QED
  BY <1>2, <1>3, <1>4, <1>5, <1>6, <1>7, <1>8, <1>9 DEF Next

\* What the list command prints as the total is the sum over the list, for
\* every process, whatever the others do and whichever calls fail.
THEOREM TotalsAreRight == Spec => []Totals
<1>1. Init => Totals
  BY NoBytes DEF Init, Totals
<1> QED
  BY <1>1, TotalsStep, TypeCorrect, PTL DEF Spec

-----------------------------------------------------------------------------
(* One process without failures                                            *)

IdsOf(s) == {s[i].id : i \in DOMAIN s}

Distinct(s) == \A i, j \in DOMAIN s : s[i].id = s[j].id => i = j

\* The list names each directory there is once, and each has content, but for
\* one that an operation has open.
Agrees(s, open) ==
    /\ Distinct(s)
    /\ \A id \in Ids \ open : IF id \in IdsOf(s) THEN store[id] \in Contents ELSE store[id] = Absent

\* Where the only process is in an operation says which of the index, its
\* list and the directories agree.
Synchronised(p) ==
    /\ pc[p] = "off" => Agrees(index, {})
    /\ pc[p] \in {"idle", "rename"} => items[p] = index
    /\ pc[p] \in {"idle", "purge", "persist", "write"} => Agrees(items[p], {})
    /\ pc[p] \in {"rename", "clean"} => Agrees(items[p], {job[p].id})
    /\ pc[p] = "write" => cursor[p] <= Len(items[p]) /\ index = SubSeq(items[p], 1, cursor[p])

\* The identifiers of a list, when an item is erased from it
LEMMA RemoveIds ==
    ASSUME NEW s \in Seq(Item), NEW i \in 1 .. Len(s), Distinct(s)
    PROVE  Distinct(RemoveAt(s, i)) /\ IdsOf(RemoveAt(s, i)) = IdsOf(s) \ {s[i].id}
<1>1. PICK t \in Seq(Item), n \in Nat :
        /\ t = RemoveAt(s, i) /\ n = Len(s) /\ Len(t) = n - 1
        /\ \A j \in 1 .. n - 1 : t[j] = IF j < i THEN s[j] ELSE s[j + 1]
  BY RemoveAtFacts, RemoveAtPlaces
<1>2. i \in 1 .. n /\ DOMAIN s = 1 .. n /\ DOMAIN t = 1 .. n - 1
  BY <1>1
<1>3. ASSUME NEW j \in 1 .. n - 1
      PROVE  \E k \in 1 .. n : k # i /\ k = (IF j < i THEN j ELSE j + 1) /\ t[j] = s[k]
  BY <1>1, <1>2
<1>4. ASSUME NEW k \in 1 .. n, k # i PROVE \E j \in 1 .. n - 1 : t[j] = s[k]
  <2>1. CASE k < i
    BY <1>1, <1>2, <2>1
  <2>2. CASE k > i
    <3>1. PICK j \in 1 .. n - 1 : j = k - 1 /\ ~(j < i) /\ j + 1 = k
      BY <1>2, <2>2
    <3> QED
      BY <1>1, <3>1
  <2> QED
    BY <1>2, <1>4, <2>1, <2>2
<1>5. Distinct(t)
  <2> SUFFICES ASSUME NEW j \in 1 .. n - 1, NEW l \in 1 .. n - 1, t[j].id = t[l].id PROVE j = l
    BY <1>2 DEF Distinct
  <2>1. PICK k \in 1 .. n : k = (IF j < i THEN j ELSE j + 1) /\ t[j] = s[k]
    BY <1>3
  <2>2. PICK m \in 1 .. n : m = (IF l < i THEN l ELSE l + 1) /\ t[l] = s[m]
    BY <1>3
  <2>3. k = m
    BY <1>2, <2>1, <2>2 DEF Distinct
  <2> QED
    BY <1>2, <2>1, <2>2, <2>3
<1>6. ASSUME NEW id \in IdsOf(t) PROVE id \in IdsOf(s) /\ id # s[i].id
  <2>1. PICK j \in 1 .. n - 1 : id = t[j].id
    BY <1>2, <1>6 DEF IdsOf
  <2>2. PICK k \in 1 .. n : k # i /\ t[j] = s[k]
    BY <1>3
  <2> QED
    BY <1>2, <2>1, <2>2 DEF IdsOf, Distinct
<1>7. ASSUME NEW id \in IdsOf(s), id # s[i].id PROVE id \in IdsOf(t)
  <2>1. PICK k \in 1 .. n : id = s[k].id /\ k # i
    BY <1>2, <1>7 DEF IdsOf
  <2>2. PICK j \in 1 .. n - 1 : t[j] = s[k]
    BY <1>4, <2>1
  <2> QED
    BY <1>2, <2>1, <2>2 DEF IdsOf
<1> QED
  BY <1>1, <1>5, <1>6, <1>7

\* and when one is added to it.
LEMMA AppendIds ==
    ASSUME NEW s \in Seq(Item), NEW e \in Item, e.id \notin IdsOf(s), Distinct(s)
    PROVE  Distinct(Append(s, e)) /\ IdsOf(Append(s, e)) = IdsOf(s) \cup {e.id}
<1>1. PICK t \in Seq(Item), n \in Nat :
        /\ t = Append(s, e) /\ n = Len(s) /\ Len(t) = n + 1
        /\ (\A j \in 1 .. n : t[j] = s[j]) /\ t[n + 1] = e
  <2>1. /\ Append(s, e) \in Seq(Item) /\ Len(Append(s, e)) = Len(s) + 1 /\ Len(s) \in Nat
        /\ \A j \in 1 .. Len(s) : Append(s, e)[j] = s[j]
        /\ Append(s, e)[Len(s) + 1] = e
    BY SMT
  <2> QED
    BY <2>1
<1>2. DOMAIN s = 1 .. n /\ DOMAIN t = 1 .. n + 1
  BY <1>1
<1>3. \A j \in 1 .. n : t[j].id = s[j].id /\ t[j].id # e.id
  BY <1>1, <1>2 DEF IdsOf
<1>4. Distinct(t)
  <2> SUFFICES ASSUME NEW j \in 1 .. n + 1, NEW l \in 1 .. n + 1, t[j].id = t[l].id PROVE j = l
    BY <1>2 DEF Distinct
  <2>1. CASE j \in 1 .. n /\ l \in 1 .. n
    BY <1>2, <1>3, <2>1 DEF Distinct
  <2>2. CASE j = n + 1 \/ l = n + 1
    BY <1>1, <1>3, <2>2
  <2> QED
    BY <2>1, <2>2
<1>5. \A id : id \in IdsOf(t) <=> id \in IdsOf(s) \cup {e.id}
  BY <1>1, <1>2 DEF IdsOf
<1> QED
  BY <1>1, <1>4, <1>5

\* An item is removed from the list, and its directory from the disk.
LEMMA RemoveAgrees ==
    ASSUME TypeOK, NEW s \in Seq(Item), NEW i \in 1 .. Len(s), Agrees(s, {s[i].id}),
           store' = [store EXCEPT ![s[i].id] = Absent]
    PROVE  Agrees(RemoveAt(s, i), {})'
<1>1. PICK t, gone : /\ t = RemoveAt(s, i) /\ gone = s[i].id /\ gone \in Ids
                     /\ Distinct(t) /\ IdsOf(t) = IdsOf(s) \ {gone}
  <2>1. s[i].id \in Ids
    BY SizeFacts, ItemFacts DEF Item
  <2> QED
    BY <2>1, RemoveIds DEF Agrees
<1>2. ASSUME NEW id \in Ids
      PROVE  IF id \in IdsOf(t) THEN store'[id] \in Contents ELSE store'[id] = Absent
  <2>1. CASE id = gone
    BY <1>1, <2>1 DEF TypeOK
  <2>2. CASE id # gone
    BY <1>1, <2>2 DEF Agrees, TypeOK
  <2> QED
    BY <2>1, <2>2
<1> QED
  BY <1>1, <1>2 DEF Agrees

\* The list and the directories are the same as before.
LEMMA SameAgrees ==
    ASSUME store' = store
    PROVE  \A s, open : Agrees(s, open) => Agrees(s, open)'
BY DEF Agrees

\* Every step of the only process keeps the index, its list and the
\* directories together; without failures it ends between two operations only.
LEMMA SynchronisedStep ==
    ASSUME NEW p, Procs = {p}, MaxIoFaults = 0, MaxCrashes = 0,
           IInv, Synchronised(p), [Next]_vars
    PROVE  Synchronised(p)'
<1>1. /\ TypeOK /\ items[p] \in Seq(Item) /\ index \in Seq(Item) /\ Len(items[p]) \in Nat
      /\ DOMAIN items[p] = 1 .. Len(items[p]) /\ p \in Procs /\ cursor[p] \in Nat
  BY DEF IInv, TypeOK
<1>2. ~IoFault /\ ~(crashes < MaxCrashes)
  BY <1>1 DEF TypeOK, IoFault
<1> USE DEF Goto
<1>3. CASE Tick \/ (\E x \in Paths, c \in Contents : UserCreates(x, c)) \/ UNCHANGED vars
  <2>1. UNCHANGED <<store, index, pc, items, job, cursor>>
    BY <1>3 DEF Tick, UserCreates, vars, disk, memory
  <2> QED
    BY <2>1 DEF Synchronised, Agrees
<1>4. CASE Initialize(p)
  <2>1. /\ pc[p] = "off" /\ pc'[p] = "idle" /\ items'[p] = index /\ index' = index /\ store' = store
    BY <1>1, <1>4 DEF Initialize, disk, TypeOK
  <2> QED
    BY <2>1, SameAgrees DEF Synchronised
<1>5. CASE Exit(p)
  <2>1. /\ pc[p] = "idle" /\ pc'[p] = "off" /\ index' = index /\ store' = store
    BY <1>1, <1>2, <1>5 DEF Exit, disk, TypeOK
  <2> QED
    BY <2>1, SameAgrees DEF Synchronised
<1>6. ASSUME NEW x \in Paths, NEW id \in Ids, CaptureBegin(p, x, id) PROVE Synchronised(p)'
  <2>1. /\ pc[p] = "idle" /\ pc'[p] = "rename" /\ index' = index /\ items' = items
        /\ store' = [store EXCEPT ![id] = EmptyDir] /\ job'[p].id = id
    BY <1>1, <1>6 DEF CaptureBegin, TypeOK
  <2>2. Agrees(items[p], {id})'
    BY <1>1, <2>1 DEF Synchronised, Agrees, TypeOK
  <2> QED
    BY <2>1, <2>2 DEF Synchronised
<1>7. CASE CaptureRename(p)
  <2>1. PICK item : /\ item = [job[p] EXCEPT !.expires = now + Retention[p]]
                    /\ items' = [items EXCEPT ![p] = Append(items[p], item)]
                    /\ store' = [store EXCEPT ![item.id] = live[job[p].original]]
    BY <1>7 DEF CaptureRename
  <2>2. pc[p] = "rename" /\ pc'[p] = "persist" /\ live[job[p].original] # Absent /\ job[p] \in Item
    BY <1>1, <1>7 DEF CaptureRename, TypeOK
  <2>3. item \in Item /\ item.id = job[p].id /\ item.id \in Ids
    <3>1. now + Retention[p] \in Nat
      BY <1>1, RetentionsAreNat DEF TypeOK
    <3> QED
      BY <2>1, <2>2, <3>1, ItemFacts
  <2>4. live[job[p].original] \in Contents
    <3>1. job[p].original \in Paths
      BY <2>2, ItemFacts DEF Item
    <3> QED
      BY <1>1, <2>2, <3>1 DEF TypeOK
  <2>5. item.id \notin IdsOf(items[p])
    <3>1. \A r \in Records : r.id # job[p].id
      BY <1>1, <2>2 DEF IInv, Ownership
    <3>2. \A i \in DOMAIN items[p] : items[p][i] \in Records
      BY <1>1 DEF Records, ToSet
    <3> QED
      BY <2>3, <3>1, <3>2 DEF IdsOf
  <2>6. PICK t : t = Append(items[p], item) /\ Distinct(t) /\ IdsOf(t) = IdsOf(items[p]) \cup {item.id}
    BY <1>1, <2>2, <2>3, <2>5, AppendIds DEF Synchronised, Agrees
  <2>7. ASSUME NEW id \in Ids
        PROVE  IF id \in IdsOf(t) THEN store'[id] \in Contents ELSE store'[id] = Absent
    <3>1. CASE id = item.id
      BY <1>1, <2>1, <2>4, <2>6, <3>1 DEF TypeOK
    <3>2. CASE id # item.id
      BY <1>1, <2>1, <2>2, <2>3, <2>6, <3>2 DEF TypeOK, Synchronised, Agrees
    <3> QED
      BY <3>1, <3>2
  <2>8. items'[p] = t
    BY <1>1, <2>1, <2>6 DEF TypeOK
  <2> QED
    BY <2>2, <2>6, <2>7, <2>8 DEF Synchronised, Agrees
<1>8. CASE CaptureRenameFails(p)
  <2>1. /\ pc[p] = "rename" /\ pc'[p] = "idle" /\ index' = index /\ items' = items
        /\ store' = [store EXCEPT ![job[p].id] = Absent] /\ job[p] \in Item
    BY <1>1, <1>2, <1>8 DEF CaptureRenameFails, TypeOK
  <2>2. job[p].id \notin IdsOf(items[p])
    <3>1. \A r \in Records : r.id # job[p].id
      BY <1>1, <2>1 DEF IInv, Ownership
    <3>2. \A i \in DOMAIN items[p] : items[p][i] \in Records
      BY <1>1 DEF Records, ToSet
    <3> QED
      BY <3>1, <3>2 DEF IdsOf
  <2>3. Agrees(items[p], {})'
    BY <1>1, <2>1, <2>2 DEF Synchronised, Agrees, TypeOK
  <2> QED
    BY <2>1, <2>3 DEF Synchronised
<1>9. ASSUME NEW id \in Ids, Restore(p, id) PROVE Synchronised(p)'
  <2>1. PICK i \in DOMAIN items[p] : /\ items[p][i].id = id /\ job' = [job EXCEPT ![p] = items[p][i]]
                                     /\ store' = [store EXCEPT ![id] = EmptyDir]
    BY <1>9 DEF Restore, FoundAt
  <2>2. pc[p] = "idle" /\ pc'[p] = "clean" /\ items' = items /\ job'[p].id = id
    BY <1>1, <1>9, <2>1 DEF Restore, TypeOK
  <2>3. Agrees(items[p], {id})'
    BY <1>1, <2>1, <2>2 DEF Synchronised, Agrees, TypeOK
  <2> QED
    BY <2>2, <2>3 DEF Synchronised
<1>10. ASSUME NEW i \in 1 .. Len(items[p]), Forget(p, i), Agrees(items[p], {items[p][i].id}),
              store' = [store EXCEPT ![items[p][i].id] = Absent], pc'[p] \in {"purge", "persist"}
       PROVE  Synchronised(p)'
  <2>1. PICK s, t : s \in Seq(Item) /\ s = items[p] /\ t = RemoveAt(s, i)
    BY <1>1
  <2>2. items'[p] = t
    BY <1>1, <1>10, <2>1 DEF Forget, TypeOK
  <2>3. Agrees(t, {})'
    BY <1>1, <1>10, <2>1, RemoveAgrees
  <2> QED
    BY <1>10, <2>2, <2>3 DEF Synchronised
<1>11. CASE RestoreClean(p)
  <2>1. PICK i \in DOMAIN items[p] : /\ items[p][i].id = job[p].id /\ Forget(p, i)
                                     /\ RemoveAll(job[p].id, "restored")
    BY <1>11 DEF RestoreClean, FoundAt
  <2>2. store' = [store EXCEPT ![items[p][i].id] = Absent]
    BY <1>2, <2>1 DEF RemoveAll
  <2>3. pc[p] = "clean" /\ pc'[p] = "persist"
    BY <1>1, <1>11 DEF RestoreClean, TypeOK
  <2> QED
    BY <1>1, <1>10, <2>1, <2>2, <2>3 DEF Synchronised
<1>12. ASSUME NEW s, NEW id, Agrees(s, {}) PROVE Agrees(s, {id})
  BY <1>12 DEF Agrees
<1>13. ASSUME NEW id \in Ids, Discard(p, id) PROVE Synchronised(p)'
  <2>1. PICK i \in DOMAIN items[p] : items[p][i].id = id /\ Forget(p, i) /\ RemoveAll(id, "discarded")
    BY <1>13 DEF Discard, FoundAt
  <2>2. store' = [store EXCEPT ![items[p][i].id] = Absent]
    BY <1>2, <2>1 DEF RemoveAll
  <2>3. pc[p] = "idle" /\ pc'[p] = "persist"
    BY <1>1, <1>13 DEF Discard, TypeOK
  <2> QED
    BY <1>1, <1>10, <1>12, <2>1, <2>2, <2>3 DEF Synchronised
<1>14. CASE PurgeItem(p)
  <2>1. pc[p] = "purge" /\ pc' = pc
    BY <1>14 DEF PurgeItem
  <2>2. CASE Forget(p, cursor[p]) /\ RemoveAll(items[p][cursor[p]].id, "expired")
    <3>1. cursor[p] \in 1 .. Len(items[p])
      BY <1>1, <1>14 DEF PurgeItem, TypeOK
    <3>2. store' = [store EXCEPT ![items[p][cursor[p]].id] = Absent]
      BY <1>2, <2>2 DEF RemoveAll
    <3> QED
      BY <1>10, <1>12, <2>1, <2>2, <3>1, <3>2 DEF Synchronised
  <2>3. CASE UNCHANGED <<store, items>>
    BY <2>1, <2>3, SameAgrees DEF Synchronised
  <2> QED
    BY <1>14, <2>2, <2>3 DEF PurgeItem
<1>15. CASE PurgeBegin(p) \/ PurgeEnd(p)
  <2>1. pc[p] \in {"idle", "purge"} /\ pc'[p] \in {"purge", "persist"} /\ UNCHANGED <<store, items>>
    BY <1>1, <1>15 DEF PurgeBegin, PurgeEnd, disk, TypeOK
  <2> QED
    BY <2>1, SameAgrees DEF Synchronised
<1>16. CASE PersistOpen(p)
  <2>1. /\ pc[p] = "persist" /\ pc'[p] = "write" /\ UNCHANGED <<store, items>>
        /\ index' = <<>> /\ cursor'[p] = 0
    BY <1>1, <1>16 DEF PersistOpen, TypeOK
  <2>2. SubSeq(items[p], 1, 0) = <<>>
    BY <1>1
  <2> QED
    BY <1>1, <2>1, <2>2, SameAgrees DEF Synchronised
<1>17. CASE WriteItem(p)
  <2>1. /\ pc[p] = "write" /\ pc' = pc /\ UNCHANGED <<store, items>> /\ cursor[p] < Len(items[p])
        /\ cursor'[p] = cursor[p] + 1 /\ index' = SubSeq(items[p], 1, cursor[p] + 1)
    BY <1>1, <1>17 DEF WriteItem, TypeOK
  <2> QED
    BY <1>1, <2>1, SameAgrees DEF Synchronised
<1>18. CASE PersistDone(p)
  <2>1. /\ pc[p] = "write" /\ pc'[p] = "idle" /\ UNCHANGED <<store, index, items>>
        /\ cursor[p] = Len(items[p])
    BY <1>1, <1>2, <1>18 DEF PersistDone, disk, TypeOK
  <2>2. SubSeq(items[p], 1, Len(items[p])) = items[p]
    BY <1>1
  <2> QED
    BY <2>1, <2>2, SameAgrees DEF Synchronised
<1>19. ~InitializeFails(p) /\ ~PersistOpenFails(p)
  BY <1>2 DEF InitializeFails, PersistOpenFails
<1> QED
  BY <1>3, <1>4, <1>5, <1>6, <1>7, <1>8, <1>9, <1>11, <1>13, <1>14, <1>15, <1>16, <1>17, <1>18, <1>19
     DEF Next

\* In a single process without failures, what is shown as the total is the
\* sum over the list at every point; and between operations the index on disk,
\* the list in memory and the item directories say the same.
THEOREM StoreIsConsistent ==
    ASSUME NEW p, Procs = {p}, MaxIoFaults = 0, MaxCrashes = 0
    PROVE  Spec => []Consistent
<1>1. Init => Synchronised(p)
  <2> SUFFICES ASSUME Init PROVE Synchronised(p)
    OBVIOUS
  <2>1. DOMAIN index = {} /\ IdsOf(index) = {}
    BY DEF Init, IdsOf
  <2> QED
    BY <2>1 DEF Init, Synchronised, Agrees, Distinct
<1>2. IInv /\ Synchronised(p) /\ [Next]_vars => Synchronised(p)'
  BY SynchronisedStep
<1>3. IInv /\ Totals /\ Synchronised(p) => Consistent
  <2> SUFFICES ASSUME IInv, Totals, Synchronised(p) PROVE Consistent
    OBVIOUS
  <2>1. IndexIds = IdsOf(index)
    BY DEF IndexIds, IdsOf
  <2>2. IndexIds \subseteq Ids
    <3>1. \A i \in DOMAIN index : index[i] \in Item
      BY DEF IInv, TypeOK
    <3> QED
      BY <3>1 DEF IndexIds, Item
  <2>3. Quiet => Agrees(index, {})
    BY DEF Quiet, Synchronised
  <2>4. \A id \in Contents : id # Absent
    BY MarkersDistinct
  <2> QED
    BY <2>1, <2>2, <2>3, <2>4 DEF Consistent, Quiet, Totals, Agrees, Synchronised
<1> QED
  BY <1>1, <1>2, <1>3, Invariant, TotalsAreRight, PTL DEF Spec
=============================================================================
