---------------------------- MODULE ReaderProofs ----------------------------
(* Proofs about the readers of a disk: the walk over the master file       *)
(* table, the change journal, the application's scan, and searches for     *)
(* duplicates.                                                             *)
EXTENDS ScanSession, Mft, UsnJournal, Duplicates, FiniteSetTheorems, FunctionTheorems,
        SequenceTheorems, WellFoundedInduction, NaturalsInduction, TLAPS

(***************************************************************************)
(* The master file table.                                                  *)
(***************************************************************************)
\* The reads of one attribute that pass their test end within the record.
LEMMA AttributeReads ==
    ASSUME NEW h \in Headers, offset \in Nat, RecordSize \in Nat, offset + HeaderSize <= RecordSize
    PROVE  \A end \in Reads(h) : ~(end > RecordSize)
<1>1. Data(h) \in Nat /\ h.nameLength \in Nat
  BY HeadersAssumption DEF Data
<1> QED  BY <1>1, SizesAssumption DEF Reads, IsStandard, IsFileName, HasName, Inside

\* The offset stays in its 32 bits; the record that is walked passed the
\* fix-up of its sectors; with a sound boot sector no read has left a record.
MftInv ==
    /\ boot \in Boots /\ record \in Records
    /\ mpc \in {"boot", "batch", "record", "walk", "done", "failed", "crashed"}
    /\ offset \in Nat /\ turns \in Nat /\ wrapped \in BOOLEAN /\ outside \in BOOLEAN
    /\ mpc = "walk" => FixedUp(record)
    /\ mpc # "walk" => turns = 0
    /\ SoundBoot => ~outside
    /\ ~wrapped => turns <= offset

\* A sector of two bytes or more has its last word within the record, when
\* the sectors that the array covers are.
LEMMA TailsAreInside ==
    ASSUME NEW r \in Records, boot \in Boots, boot.bytesPerSector >= 2, SizesFit(r),
           NEW sector \in 1 .. Covered(r)
    PROVE  TailInside(sector)
<1>1. PICK size \in Nat, limit \in Nat : size = boot.bytesPerSector /\ limit = RecordSize /\ size >= 2
  BY BootsAssumption DEF RecordSize
<1>2. PICK covered \in Nat : covered = Covered(r) /\ covered * size <= limit
  BY <1>1, RecordsAssumption DEF SizesFit, Covered
<1>3. PICK n \in Nat : n = sector * size
  BY <1>1, <1>2
<1>4. n >= 2 /\ n <= limit
  <2>1. sector \in Nat \ {0} /\ sector <= covered
    BY <1>2
  <2>2. sector * size <= covered * size /\ sector * size >= size
    BY <1>1, <1>2, <2>1
  <2> QED  BY <1>1, <1>2, <1>3, <2>2
<1>5. n - 2 \in Nat
  BY <1>4
<1>6. (n - 2) % Wrap <= n - 2
  BY <1>5, SizesAssumption
<1>7. SectorEnd(sector) = (n - 2) % Wrap /\ (n - 2) % Wrap \in Nat
  BY <1>1, <1>3, <1>5, SizesAssumption DEF SectorEnd
<1> QED  BY <1>1, <1>4, <1>6, <1>7 DEF TailInside

\* An unsigned int is not negative.
LEMMA SectorEnds ==
    ASSUME boot \in Boots, NEW sector \in Int
    PROVE  SectorEnd(sector) \in Nat
<1>1. PICK n \in Int : n = sector * boot.bytesPerSector - 2
  BY BootsAssumption
<1> QED  BY <1>1, SizesAssumption DEF SectorEnd

\* With a sound boot sector the reads of the mark and of the fix-up end within
\* the record.
LEMMA RecordReads ==
    ASSUME NEW r \in Records, boot \in Boots, SoundBoot
    PROVE  \A end \in MarkReads(r) : ~(end > RecordSize)
<1> SUFFICES ASSUME NEW end \in MarkReads(r) PROVE ~(end > RecordSize)
  OBVIOUS
<1>1. CASE end = MarkSize
  BY <1>1, SizesAssumption, BootsAssumption DEF SoundBoot, RecordSize
<1>2. CASE SizesFit(r) /\ end = r.usaOffset + 2
  BY <1>2, RecordsAssumption, BootsAssumption DEF SizesFit, RecordSize
<1>3. ASSUME SizesFit(r), NEW sector \in Compared(r), end = SectorEnd(sector) + 2
      PROVE  ~(end > RecordSize)
  <2>1. sector \in 1 .. Covered(r) /\ TailInside(sector)
    BY <1>3, TailsAreInside DEF Compared, SoundBoot
  <2>2. SectorEnd(sector) \in Nat /\ RecordSize \in Nat
    BY <2>1, SectorEnds, BootsAssumption DEF RecordSize
  <2> QED  BY <1>3, <2>1, <2>2 DEF TailInside
<1>4. ASSUME SizesFit(r), NEW sector \in Compared(r), end = r.usaOffset + 2 * (sector + 1)
      PROVE  ~(end > RecordSize)
  <2>1. sector \in 1 .. r.usaCount - 1
    BY <1>4 DEF Compared, Covered
  <2> QED
    BY <1>4, <2>1, RecordsAssumption, BootsAssumption DEF SizesFit, RecordSize
<1> QED  BY <1>1, <1>2, <1>3, <1>4 DEF MarkReads

\* A remainder is a number, and the number itself below the divisor.
LEMMA WrapFacts ==
    ASSUME NEW n \in Nat
    PROVE  n % Wrap \in Nat /\ (n < Wrap => n % Wrap = n)
BY SizesAssumption

\* Every step keeps the invariant of the walk.
LEMMA MftStep == MftInv /\ [MftNext]_mftVars => MftInv'
<1> SUFFICES ASSUME MftInv, [MftNext]_mftVars PROVE MftInv'
  OBVIOUS
<1>a. RecordSize \in Nat
  BY BootsAssumption DEF MftInv, RecordSize
<1>b. ASSUME UNCHANGED boot
      PROVE  RecordSize' = RecordSize /\ SoundBoot' = SoundBoot /\ \A r : FixedUp(r)' = FixedUp(r)
  BY <1>b DEF RecordSize, SoundBoot, FixedUp, SizesFit, Agrees, TailInside, SectorEnd, Covered
<1>1. CASE OpenVolume
  BY <1>1, <1>b DEF OpenVolume, MftInv
<1>2. CASE ReadBatch
  BY <1>2, <1>b DEF ReadBatch, MftInv
<1>3. CASE BatchDone
  BY <1>3, <1>b DEF BatchDone, MftInv
<1>4. CASE NextRecord
  <2>1. PICK r \in Records :
          /\ outside' = (outside \/ \E end \in MarkReads(r) : end > RecordSize)
          /\ \/ /\ FixedUp(r) /\ mpc' = "walk" /\ record' = r /\ offset' = r.firstAttribute
             \/ UNCHANGED <<mpc, record, offset>>
             \/ mpc' = "crashed" /\ UNCHANGED <<record, offset>>
    BY <1>4 DEF NextRecord
  <2>2. UNCHANGED <<boot, turns, wrapped>> /\ mpc = "record" /\ turns = 0
    BY <1>4 DEF NextRecord, MftInv
  <2>3. SoundBoot => ~outside'
    <3>1. SoundBoot => \A end \in MarkReads(r) : ~(end > RecordSize)
      BY RecordReads DEF MftInv
    <3> QED  BY <2>1, <3>1 DEF MftInv
  <2>4. outside' \in BOOLEAN
    BY <2>1
  <2>5. CASE FixedUp(r) /\ mpc' = "walk" /\ record' = r /\ offset' = r.firstAttribute
    <3>1. offset' \in Nat /\ FixedUp(record)'
      BY <1>b, <2>2, <2>5, RecordsAssumption DEF FixedUp, SizesFit, Agrees, TailInside, SectorEnd,
         RecordSize, Covered
    <3> QED  BY <1>b, <2>2, <2>3, <2>4, <2>5, <3>1 DEF MftInv
  <2>6. CASE UNCHANGED <<mpc, record, offset>> \/ (mpc' = "crashed" /\ UNCHANGED <<record, offset>>)
    BY <1>b, <2>2, <2>3, <2>4, <2>6 DEF MftInv
  <2> QED  BY <2>1, <2>5, <2>6
<1>5. CASE WalkAttribute
  <2>1. PICK h \in Headers :
          /\ ~BadLength(h)
          /\ outside' = (outside \/ \E end \in Reads(h) : end > RecordSize)
          /\ offset' = (offset + h.length) % Wrap
          /\ wrapped' = (wrapped \/ offset + h.length >= Wrap)
          /\ turns' = IF wrapped' THEN 0 ELSE turns + 1
    BY <1>5 DEF WalkAttribute
  <2>2. /\ UNCHANGED <<mpc, boot, record>> /\ mpc = "walk"
        /\ offset + HeaderSize <= RecordSize
    BY <1>5 DEF WalkAttribute
  <2>3. outside' \in BOOLEAN /\ (SoundBoot => ~outside')
    <3>1. \A end \in Reads(h) : ~(end > RecordSize)
      BY <1>a, <2>2, AttributeReads DEF MftInv
    <3> QED  BY <2>1, <3>1 DEF MftInv
  <2>4. h.length \in Nat \ {0}
    BY <2>1, HeadersAssumption DEF BadLength
  <2>5. offset' \in Nat /\ (offset + h.length < Wrap => offset' = offset + h.length)
    BY <2>1, <2>4, WrapFacts DEF MftInv
  <2>6. turns' \in Nat /\ wrapped' \in BOOLEAN /\ (~wrapped' => turns' <= offset')
    <3>1. CASE wrapped \/ offset + h.length >= Wrap
      BY <2>1, <3>1
    <3>2. CASE ~wrapped /\ offset + h.length < Wrap
      <4>1. turns' = turns + 1 /\ offset' = offset + h.length /\ wrapped' = FALSE
        BY <2>1, <2>4, <2>5, <3>2, SizesAssumption DEF MftInv
      <4>2. turns \in Nat /\ offset \in Nat /\ turns <= offset
        BY <3>2 DEF MftInv
      <4>3. turns' \in Nat /\ turns' <= offset'
        BY <2>4, <4>1, <4>2
      <4>4. wrapped' \in BOOLEAN
        BY <4>1
      <4> QED  BY <4>3, <4>4
    <3> QED  BY <2>4, <3>1, <3>2, SizesAssumption DEF MftInv
  <2>7. FixedUp(record)'
    BY <2>2, <1>b DEF MftInv, FixedUp, SizesFit, Agrees, TailInside, SectorEnd, RecordSize, Covered
  <2> QED  BY <1>a, <1>b, <2>2, <2>3, <2>5, <2>6, <2>7 DEF MftInv
<1>6. CASE WalkEndsHere
  <2>1. /\ UNCHANGED <<boot, record, outside, wrapped>>
        /\ mpc' = "record" /\ offset' = 0 /\ turns' = 0
    BY <1>6 DEF WalkEndsHere
  <2> QED  BY <1>b, <2>1 DEF MftInv
<1>7. CASE UNCHANGED mftVars
  BY <1>7, <1>b DEF mftVars, MftInv
<1> QED  BY <1>1, <1>2, <1>3, <1>4, <1>5, <1>6, <1>7 DEF MftNext

\* The invariant of the walk holds in every state.
LEMMA MftInvariant == MftSpec => []MftInv
<1>1. MftInit => MftInv
  <2> SUFFICES ASSUME MftInit PROVE MftInv
    OBVIOUS
  <2>1. record \in Records
    BY RecordsAssumption DEF MftInit
  <2>2. /\ boot \in Boots /\ mpc = "boot" /\ offset = 0 /\ turns = 0
        /\ wrapped = FALSE /\ outside = FALSE
    BY DEF MftInit
  <2>3. turns <= offset /\ offset \in Nat /\ turns \in Nat
    BY <2>2
  <2> QED  BY <2>1, <2>2, <2>3 DEF MftInv
<1> QED  BY <1>1, MftStep, PTL DEF MftSpec

\* No read of stream or applyUpdateSequence goes beyond the end of a record,
\* whatever its table holds, for any sizes and any wrap-around, if sectors are
\* of two bytes or more and records of four or more.
THEOREM ReadsAreInside == MftSpec => []ReadsStayInside
<1>1. MftInv => ReadsStayInside
  BY DEF MftInv, ReadsStayInside
<1> QED  BY <1>1, MftInvariant, PTL

\* No record is walked whose sectors come from different writes, when its
\* array covers all of them.
THEOREM RecordsAreWhole == MftSpec => []NoTornRecord
<1>1. MftInv => NoTornRecord
  <2> SUFFICES ASSUME MftInv, mpc = "walk", boot.bytesPerSector >= 2,
                      NEW i \in 1 .. Covered(record), NEW j \in 1 .. Covered(record)
               PROVE  record.tails[i] = record.tails[j]
    BY DEF NoTornRecord
  <2>1. /\ record \in Records /\ boot \in Boots /\ SizesFit(record)
        /\ \A sector \in 1 .. Covered(record) : Agrees(record, sector)
    BY DEF MftInv, FixedUp
  <2>2. TailInside(i) /\ TailInside(j)
    BY <2>1, TailsAreInside
  <2> QED  BY <2>1, <2>2 DEF Agrees
<1> QED  BY <1>1, MftInvariant, PTL

\* A walk takes no more turns than units of the record, unless a sum wrapped.
THEOREM WalksAreBounded == MftSpec => []WalkIsBounded
<1>1. MftInv => WalkIsBounded
  BY DEF MftInv, WalkIsBounded
<1> QED  BY <1>1, MftInvariant, PTL

(***************************************************************************)
(* The change journal.                                                     *)
(***************************************************************************)
\* The next read starts behind the last change, and nothing that was in the
\* journal at the call can be numbered above what it holds now.
UsnInv ==
    /\ oldest \in Nat \ {0} /\ newest \in Nat
    /\ since \in Nat /\ startUsn \in Nat /\ newestAtCall \in Nat
    /\ changes \in Seq(Nat)
    /\ upc \in {"idle", "read", "complete", "cut", "failed"}
    /\ since <= newestAtCall /\ newestAtCall <= newest
    /\ upc = "idle" => changes = <<>>
    /\ changes = <<>> => startUsn = since
    /\ changes # <<>> => startUsn = changes[Len(changes)] + 1
    /\ ChangesAreComplete

\* What one read that brings n records adds to the changes.
LEMMA ReadFacts ==
    ASSUME changes \in Seq(Nat), NEW n \in Nat \ {0}, NEW block \in [1 .. n -> Nat],
           changes' = changes \o block
    PROVE  /\ changes' \in Seq(Nat) /\ Len(changes') = Len(changes) + n /\ changes' # <<>>
           /\ \A i \in 1 .. Len(changes) : changes'[i] = changes[i]
           /\ \A i \in 1 .. n : changes'[Len(changes) + i] = block[i]
<1>1. block \in Seq(Nat) /\ Len(block) = n
  OBVIOUS
<1>2. /\ changes' \in Seq(Nat) /\ Len(changes') = Len(changes) + n
      /\ \A i \in 1 .. Len(changes) + n : changes'[i] =
           IF i <= Len(changes) THEN changes[i] ELSE block[i - Len(changes)]
  BY <1>1, ConcatProperties
<1>3. changes' # <<>>
  BY <1>2
<1>4. ASSUME NEW i \in 1 .. Len(changes) PROVE changes'[i] = changes[i]
  BY <1>2
<1>5. ASSUME NEW i \in 1 .. n PROVE changes'[Len(changes) + i] = block[i]
  <2>1. Len(changes) \in Nat
    OBVIOUS
  <2>2. /\ Len(changes) + i \in 1 .. Len(changes) + n /\ ~(Len(changes) + i <= Len(changes))
        /\ Len(changes) + i - Len(changes) = i
    BY <2>1
  <2> QED  BY <1>2, <2>2
<1> QED  BY <1>2, <1>3, <1>4, <1>5

\* Every step keeps the invariant of the journal reader.
LEMMA UsnStep == UsnInv /\ [UsnNext]_usnVars => UsnInv'
<1> SUFFICES ASSUME UsnInv, [UsnNext]_usnVars PROVE UsnInv'
  OBVIOUS
<1>1. CASE VolumeAppends
  BY <1>1 DEF VolumeAppends, UsnInv, ChangesAreComplete
<1>2. CASE VolumeTrims
  BY <1>2 DEF VolumeTrims, UsnInv, ChangesAreComplete
<1>3. CASE UsnCall
  BY <1>3 DEF UsnCall, UsnInv, ChangesAreComplete
<1>4. CASE UsnRead
  <2>1. PICK n \in 1 .. Block :
          /\ StartsAt + n - 1 <= newest
          /\ changes' = changes \o [i \in 1 .. n |-> StartsAt + i - 1]
          /\ startUsn' = StartsAt + n
    BY <1>4 DEF UsnRead, NextUsn
  <2>2. n \in Nat \ {0} /\ StartsAt \in Nat
    BY BlockAssumption DEF StartsAt, UsnInv
  <2> DEFINE L == Len(changes)
  <2>3. /\ changes' \in Seq(Nat) /\ Len(changes') = L + n /\ changes' # <<>>
        /\ \A i \in 1 .. L : changes'[i] = changes[i]
        /\ \A i \in 1 .. n : changes'[L + i] = StartsAt + i - 1
    <3>1. changes \in Seq(Nat)
      BY DEF UsnInv
    <3> DEFINE block == [i \in 1 .. n |-> StartsAt + i - 1]
    <3>2. block \in [1 .. n -> Nat] /\ \A i \in 1 .. n : block[i] = StartsAt + i - 1
      BY <2>2
    <3> HIDE DEF block
    <3>3. changes' = changes \o block
      BY <2>1 DEF block
    <3> QED  BY <2>2, <3>1, <3>2, <3>3, ReadFacts
  <2>4. L \in Nat /\ (changes # <<>> => StartsAt = changes[L] + 1 /\ L \in Nat \ {0})
    BY DEF StartsAt, UsnInv
  <2>5. startUsn' = changes'[Len(changes')] + 1
    BY <2>1, <2>2, <2>3, <2>4
  <2>6. ASSUME NEW i \in 2 .. Len(changes')
        PROVE  changes'[i] = changes'[i - 1] + 1
    <3>1. CASE i <= L
      <4>1. i \in 2 .. L /\ i \in 1 .. L /\ i - 1 \in 1 .. L
        BY <2>4, <3>1
      <4>2. changes[i] = changes[i - 1] + 1
        BY <4>1 DEF UsnInv, ChangesAreComplete
      <4> QED  BY <2>3, <4>1, <4>2
    <3>2. CASE i = L + 1
      <4>1. L \in 1 .. L /\ i - 1 = L /\ changes # <<>>
        BY <2>4, <3>2
      <4>2. changes'[L + 1] = StartsAt
        BY <2>2, <2>3
      <4> QED  BY <2>3, <2>4, <3>2, <4>1, <4>2
    <3>3. CASE i > L + 1
      <4>1. i - L \in 1 .. n /\ i - L - 1 \in 1 .. n /\ L + (i - L) = i /\ L + (i - L - 1) = i - 1
        BY <2>2, <2>3, <2>4, <3>3
      <4>2. changes'[i] = StartsAt + (i - L) - 1 /\ changes'[i - 1] = StartsAt + (i - L - 1) - 1
        BY <2>3, <4>1
      <4> QED  BY <2>2, <2>4, <4>2
    <3> QED  BY <2>4, <3>1, <3>2, <3>3
  <2>7. since > 0 => changes'[1] = since
    <3>1. CASE changes # <<>>
      <4>1. 1 \in 1 .. L
        BY <2>4, <3>1
      <4> QED  BY <2>3, <3>1, <4>1 DEF UsnInv, ChangesAreComplete
    <3>2. CASE changes = <<>>
      <4>1. L = 0 /\ 1 \in 1 .. n
        BY <2>2, <3>2
      <4>2. changes'[1] = StartsAt
        BY <2>2, <2>3, <4>1
      <4> QED  BY <3>2, <4>2 DEF UsnInv, StartsAt
    <3> QED  BY <3>1, <3>2
  <2>8. UNCHANGED <<oldest, newest, upc, since, newestAtCall>> /\ upc = "read" /\ startUsn' \in Nat
    BY <1>4, <2>1, <2>2 DEF UsnRead
  <2>9. ChangesAreComplete'
    BY <2>3, <2>6, <2>7, <2>8 DEF ChangesAreComplete
  <2> QED  BY <2>3, <2>5, <2>8, <2>9 DEF UsnInv
<1>5. CASE UsnReadEmpty
  BY <1>5 DEF UsnReadEmpty, StartsAt, UsnInv, ChangesAreComplete
<1>6. CASE UsnReadFails
  BY <1>6 DEF UsnReadFails, UsnInv, ChangesAreComplete
<1>7. CASE UNCHANGED usnVars
  BY <1>7 DEF usnVars, UsnInv, ChangesAreComplete
<1> QED  BY <1>1, <1>2, <1>3, <1>4, <1>5, <1>6, <1>7 DEF UsnNext

\* The changes that readUsnJournal returns are consecutive and start where
\* they should, for any number of records and any block, however the
\* journal moves between two reads.
THEOREM JournalIsComplete == UsnSpec => []ChangesAreComplete
<1>1. UsnInit => UsnInv
  BY DEF UsnInit, UsnInv, ChangesAreComplete
<1>2. UsnInv => ChangesAreComplete
  BY DEF UsnInv
<1> QED  BY <1>1, <1>2, UsnStep, PTL DEF UsnSpec

(***************************************************************************)
(* The scan of the application.                                            *)
(***************************************************************************)
Posted == {events[n] : n \in 1 .. Len(events)}

\* While a scan is on, its callbacks are reports of progress; once it is
\* over, its end is the last of them and the only one of its kind.
ScanInv ==
    /\ events \in Seq(Posted)
    /\ ~busy => pc = "idle" /\ events = <<>>
    /\ busy /\ pc = "idle" =>
         events # <<>> /\ events[Len(events)].kind \in {"failed", "finished"}
    /\ pc # "idle" => \A n \in 1 .. Len(events) : events[n].kind = "progress"
    /\ pc = "idle" => \A n \in 1 .. Len(events) - 1 : events[n].kind = "progress"

\* A sequence is one of its own elements.
LEMMA OwnElements ==
    ASSUME NEW S, NEW s \in Seq(S)
    PROVE  s \in Seq({s[n] : n \in 1 .. Len(s)})
<1> DEFINE T == {s[n] : n \in 1 .. Len(s)}
<1>1. s \in [1 .. Len(s) -> T] /\ Len(s) \in Nat
  OBVIOUS
<1> HIDE DEF T
<1>2. s \in Seq(T)
  BY <1>1
<1> QED  BY <1>2 DEF T

\* A callback that is posted comes after those that wait.
LEMMA PostFacts ==
    ASSUME ScanInv, NEW e, events' = Append(events, e)
    PROVE  /\ events' \in Seq(Posted)' /\ events' # <<>>
           /\ Len(events) \in Nat /\ Len(events') = Len(events) + 1
           /\ \A n \in 1 .. Len(events) : events'[n] = events[n]
           /\ events'[Len(events')] = e
<1> DEFINE S == Posted \cup {e}
<1>1. events \in Seq(S)
  BY DEF ScanInv
<1>2. e \in S
  OBVIOUS
<1> HIDE DEF S
<1>3. events' \in Seq(S)
  BY <1>1, <1>2
<1>4. events' \in Seq(Posted)'
  BY <1>3, OwnElements DEF Posted
<1> QED  BY <1>1, <1>2, <1>4

\* The callback that runs leaves the others as they are.
LEMMA DeliverFacts ==
    ASSUME ScanInv, events # <<>>, events' = Tail(events)
    PROVE  /\ events' \in Seq(Posted)' /\ Len(events) \in Nat \ {0}
           /\ Len(events') = Len(events) - 1
           /\ \A n \in 1 .. Len(events') : events'[n] = events[n + 1]
           /\ Head(events) = events[1]
<1>1. events \in Seq(Posted)
  BY DEF ScanInv
<1>2. events' \in Seq(Posted)
  BY <1>1
<1>3. events' \in Seq({events'[n] : n \in 1 .. Len(events')})
  <2>1. \A s \in Seq(Posted) : s \in Seq({s[n] : n \in 1 .. Len(s)})
    BY OwnElements
  <2> HIDE DEF Posted
  <2> QED  BY <1>2, <2>1
<1>4. events' \in Seq(Posted)'
  BY <1>3 DEF Posted
<1> QED  BY <1>1, <1>4

\* Every step keeps the invariant of the scan.
LEMMA ScanStep == ScanInv /\ [ScanNext]_scanVars => ScanInv'
<1> SUFFICES ASSUME ScanInv, [ScanNext]_scanVars PROVE ScanInv'
  OBVIOUS
<1>a. ASSUME UNCHANGED events PROVE Posted' = Posted
  BY <1>a DEF Posted
<1>1. ASSUME NEW list, ScanRoots(list) PROVE ScanInv'
  BY <1>a, <1>1 DEF ScanRoots, NotBusy, ScanInv
<1>2. CASE ScanAll
  <2>1. CASE ScanRoots(Volumes)
    BY <1>1, <2>1
  <2>2. CASE UNCHANGED <<busy, events, pc>>
    BY <1>a, <2>2 DEF ScanInv
  <2> QED  BY <1>2, <2>1, <2>2 DEF ScanAll, engine
<1>3. CASE CancelScan
  BY <1>a, <1>3 DEF CancelScan, viewModel, ScanInv
<1>4. CASE Deliver
  <2>1. events # <<>> /\ events' = Tail(events) /\ pc' = pc
    BY <1>4 DEF Deliver, engine
  <2>2. /\ events' \in Seq(Posted)' /\ Len(events) \in Nat \ {0}
        /\ Len(events') = Len(events) - 1
        /\ \A n \in 1 .. Len(events') : events'[n] = events[n + 1]
        /\ Head(events) = events[1]
    BY <2>1, DeliverFacts
  <2>3. busy
    BY <2>1 DEF ScanInv
  <2>4. CASE Head(events).kind = "progress" /\ busy'
    <3>1. ASSUME NEW n \in 1 .. Len(events')
          PROVE  n + 1 \in 1 .. Len(events) /\ (n # Len(events') => n + 1 \in 1 .. Len(events) - 1)
      BY <2>2
    <3>2. ASSUME pc = "idle"
          PROVE  events' # <<>> /\ events'[Len(events')] = events[Len(events)]
      <4>1. Len(events) # 1
        BY <2>2, <2>3, <2>4, <3>2 DEF ScanInv
      <4> QED  BY <2>2, <4>1
    <3>3. \A n \in 1 .. Len(events') : n # Len(events') \/ pc # "idle" => events'[n].kind = "progress"
      BY <2>2, <3>1 DEF ScanInv
    <3>4. pc # "idle" => \A n \in 1 .. Len(events') : events'[n].kind = "progress"
      BY <3>3
    <3>5. pc = "idle" => \A n \in 1 .. Len(events') - 1 : events'[n].kind = "progress"
      BY <2>2, <3>3
    <3>6. pc = "idle" => events' # <<>> /\ events'[Len(events')].kind \in {"failed", "finished"}
      BY <2>3, <3>2 DEF ScanInv
    <3> QED  BY <2>1, <2>2, <2>4, <3>4, <3>5, <3>6 DEF ScanInv
  <2>5. CASE Head(events).kind \in {"failed", "finished"} /\ ~busy'
    <3>1. pc = "idle" /\ Len(events) = 1
      BY <2>2, <2>5 DEF ScanInv
    <3>2. events' = <<>> /\ Len(events') = 0
      BY <2>2, <3>1
    <3>3. \A n : n \notin 1 .. Len(events') /\ n \notin 1 .. Len(events') - 1
      BY <3>2
    <3> QED  BY <2>1, <2>2, <2>5, <3>1, <3>2, <3>3 DEF ScanInv
  <2> QED  BY <1>4, <2>3, <2>4, <2>5 DEF Deliver, BusyAfter
<1>5. CASE RunBegins
  <2>1. pc = "queued" /\ UNCHANGED busy /\ busy
    BY <1>5 DEF RunBegins, viewModel, ScanInv
  <2>2. CASE pc' = "idle" /\ events' = Append(events, [kind |-> "failed"])
    BY <2>1, <2>2, PostFacts DEF ScanInv
  <2>3. CASE pc' = "roots" /\ UNCHANGED events
    BY <1>a, <2>1, <2>3 DEF ScanInv
  <2> QED  BY <1>5, <2>2, <2>3 DEF RunBegins
<1>6. CASE NextRoot
  BY <1>a, <1>6 DEF NextRoot, viewModel, ScanInv
<1>7. CASE Visit
  <2>1. pc = "walk" /\ UNCHANGED <<pc, busy>>
    BY <1>7 DEF Visit, viewModel
  <2>2. CASE UNCHANGED events
    BY <1>a, <2>1, <2>2 DEF ScanInv
  <2>3. ASSUME NEW count, events' = Append(events, [kind |-> "progress", files |-> count])
        PROVE  ScanInv'
    BY <2>1, <2>3, PostFacts DEF ScanInv
  <2> QED  BY <1>7, <2>2, <2>3 DEF Visit
<1>8. CASE RootDone
  BY <1>a, <1>8 DEF RootDone, viewModel, ScanInv
<1>9. CASE RunEnds
  <2>1. /\ pc = "roots" /\ pc' = "idle" /\ UNCHANGED busy /\ busy
        /\ events' = Append(events, [kind |-> "finished", volumes |-> result.volumes])
    BY <1>9 DEF RunEnds, viewModel, ScanInv
  <2> QED  BY <2>1, PostFacts DEF ScanInv
<1>10. CASE UNCHANGED scanVars
  BY <1>10, <1>a DEF scanVars, viewModel, engine, ScanInv
<1> QED
  BY <1>1, <1>2, <1>3, <1>4, <1>5, <1>6, <1>7, <1>8, <1>9, <1>10 DEF ScanNext, Scanning

\* The busy flag covers the scan on the other thread and all its callbacks,
\* for any disk, any roots and any number of scans.
THEOREM BusyIsTruthful == ScanSpec => []BusyCoversTheScan
<1>1. ScanInit => ScanInv
  BY DEF ScanInit, ScanInv, Posted
<1>2. ScanInv => BusyCoversTheScan
  BY DEF ScanInv, BusyCoversTheScan
<1> QED  BY <1>1, <1>2, ScanStep, PTL DEF ScanSpec

(***************************************************************************)
(* Counting.                                                               *)
(***************************************************************************)
\* Parts of some things, each with as many as a function says, and sets that
\* a function gives.
Parts(I, n)    == UNION {{c} \X (1 .. n[c]) : c \in I}
Gathered(I, P) == UNION {P[c] : c \in I}

\* Parts that are counted one by one are counted together.
LEMMA Glue ==
    ASSUME NEW I, NEW n, NEW P,
           \A c \in I : ExistsBijection(1 .. n[c], P[c]),
           \A c, d \in I : c # d => P[c] \cap P[d] = {}
    PROVE  ExistsBijection(Parts(I, n), Gathered(I, P))
<1>1. PICK A, B : /\ A = Parts(I, n) /\ A = UNION {{c} \X (1 .. n[c]) : c \in I}
                /\ B = Gathered(I, P) /\ B = UNION {P[c] : c \in I}
  BY DEF Parts, Gathered
<1>2. PICK h : h = [c \in I |-> CHOOSE g : g \in Bijection(1 .. n[c], P[c])]
  OBVIOUS
<1>3. ASSUME NEW c \in I
      PROVE  /\ \A k \in 1 .. n[c] : h[c][k] \in P[c]
             /\ \A k, l \in 1 .. n[c] : h[c][k] = h[c][l] => k = l
             /\ \A b \in P[c] : \E k \in 1 .. n[c] : h[c][k] = b
  <2>1. PICK g : g = h[c]
    OBVIOUS
  <2>2. g \in Bijection(1 .. n[c], P[c])
    BY <1>2, <2>1 DEF ExistsBijection
  <2>3. /\ g \in [1 .. n[c] -> P[c]]
        /\ (\A k, l \in DOMAIN g : g[k] = g[l] => k = l)
        /\ \A b \in P[c] : \E k \in 1 .. n[c] : g[k] = b
    BY <2>2 DEF Bijection, Injection, Surjection, IsInjective
  <2> QED
    BY <2>1, <2>3
<1>4. PICK H : H = [x \in A |-> h[x[1]][x[2]]]
  OBVIOUS
<1>5. \A x \in A : x[1] \in I /\ x[2] \in 1 .. n[x[1]] /\ x = <<x[1], x[2]>>
  BY <1>1
<1>6. \A c \in I : \A k \in 1 .. n[c] : <<c, k>> \in A /\ H[<<c, k>>] = h[c][k]
  BY <1>1, <1>4
<1>7. H \in [A -> B]
  BY <1>1, <1>3, <1>4, <1>5
<1>8. ASSUME NEW x \in A, NEW y \in A, H[x] = H[y] PROVE x = y
  <2>1. PICK c \in I, d \in I : c = x[1] /\ d = y[1]
    BY <1>5
  <2>2. PICK k \in 1 .. n[c], l \in 1 .. n[d] : k = x[2] /\ l = y[2]
    BY <1>5, <2>1
  <2>3. x = <<c, k>> /\ y = <<d, l>>
    BY <1>5, <2>1, <2>2
  <2>4. h[c][k] = h[d][l]
    BY <1>6, <1>8, <2>3
  <2>5. c = d
    BY <1>3, <2>4
  <2>6. k = l
    BY <1>3, <2>4, <2>5
  <2> QED
    BY <2>3, <2>5, <2>6
<1>9. ASSUME NEW b \in B PROVE \E x \in A : H[x] = b
  <2>1. PICK c \in I : b \in P[c]
    BY <1>1
  <2>2. PICK k \in 1 .. n[c] : h[c][k] = b
    BY <1>3, <2>1
  <2> QED
    BY <1>6, <2>2
<1>10. DOMAIN H = A
  BY <1>4
<1>11. H \in Bijection(A, B)
  BY <1>7, <1>8, <1>9, <1>10 DEF Bijection, Injection, Surjection, IsInjective
<1> QED
  BY <1>1, <1>11 DEF ExistsBijection

\* One part, and many.
LEMMA OnePart ==
    ASSUME NEW x, NEW n \in Nat
    PROVE  IsFiniteSet({x} \X (1 .. n)) /\ Cardinality({x} \X (1 .. n)) = n
<1>1. IsFiniteSet({x}) /\ Cardinality({x}) = 1
  BY FS_Singleton
<1>2. IsFiniteSet(1 .. n) /\ Cardinality(1 .. n) = n
  <2>1. 1 \in Int /\ n \in Int
    OBVIOUS
  <2>2. IsFiniteSet(1 .. n) /\ Cardinality(1 .. n) = IF 1 > n THEN 0 ELSE n - 1 + 1
    BY <2>1, FS_Interval
  <2> QED
    BY <2>2
<1>3. IsFiniteSet({x} \X (1 .. n)) /\ Cardinality({x} \X (1 .. n)) = Cardinality({x}) * Cardinality(1 .. n)
  BY <1>1, <1>2, FS_Product
<1>4. PICK c, d, e : c = Cardinality({x}) /\ d = Cardinality(1 .. n) /\ e = Cardinality({x} \X (1 .. n))
  OBVIOUS
<1>5. e = 1 * n
  BY <1>1, <1>2, <1>3, <1>4, Zenon
<1>6. e = n
  BY <1>5
<1> QED
  BY <1>3, <1>4, <1>6

LEMMA PartsAreFinite ==
    ASSUME NEW S, IsFiniteSet(S), NEW n, \A x \in S : n[x] \in Nat
    PROVE  IsFiniteSet(Parts(S, n)) /\ Cardinality(Parts(S, n)) \in Nat
<1>1. PICK parts : parts = {{x} \X (1 .. n[x]) : x \in S}
  OBVIOUS
<1>2. PICK g : g = [x \in S |-> {x} \X (1 .. n[x])]
  OBVIOUS
<1>3. g \in Surjection(S, parts)
  BY <1>1, <1>2 DEF Surjection
<1>4. IsFiniteSet(parts)
  BY <1>3, FS_Surjection
<1>5. \A x \in S : IsFiniteSet({x} \X (1 .. n[x]))
  BY OnePart
<1>6. IsFiniteSet(UNION parts)
  BY <1>1, <1>4, <1>5, FS_UNION
<1> QED
  BY <1>1, <1>6, FS_CardinalityType DEF Parts

LEMMA SumIsParts == ASSUME NEW S, NEW n PROVE SumOver(S, n) = Cardinality(Parts(S, n))
  BY DEF SumOver, Parts

LEMMA SumSame ==
    ASSUME NEW S, NEW n, NEW m, \A x \in S : n[x] = m[x]
    PROVE  SumOver(S, n) = SumOver(S, m) /\ Parts(S, n) = Parts(S, m)
<1>1. Parts(S, n) = Parts(S, m)
  BY DEF Parts
<1> QED
  BY <1>1, SumIsParts

LEMMA SumNone == ASSUME NEW n PROVE SumOver({}, n) = 0
<1>1. Parts({}, n) = {}
  BY DEF Parts
<1> QED
  BY <1>1, SumIsParts, FS_EmptySet

LEMMA SumMore ==
    ASSUME NEW S, IsFiniteSet(S), NEW n, \A z \in S : n[z] \in Nat, NEW x, x \notin S, n[x] \in Nat
    PROVE  SumOver(S \cup {x}, n) = SumOver(S, n) + n[x] /\ SumOver(S, n) \in Nat
<1>1. PICK A, B : A = Parts(S, n) /\ B = {x} \X (1 .. n[x])
  OBVIOUS
<1>2. A \cap B = {}
  BY <1>1 DEF Parts
<1>3. Parts(S \cup {x}, n) = A \cup B
  BY <1>1 DEF Parts
<1>4. IsFiniteSet(A) /\ Cardinality(A) \in Nat
  BY <1>1, PartsAreFinite
<1>5. IsFiniteSet(B) /\ Cardinality(B) = n[x]
  BY <1>1, OnePart
<1>6. Cardinality(A \cap B) = 0
  BY <1>2, FS_EmptySet
<1>7. Cardinality(A \cup B) = Cardinality(A) + Cardinality(B) - Cardinality(A \cap B)
  BY <1>4, <1>5, FS_Union
<1>8. Cardinality(A \cup B) = Cardinality(A) + n[x]
  BY <1>4, <1>5, <1>6, <1>7
<1> QED
  BY <1>1, <1>3, <1>4, <1>8, SumIsParts

LEMMA SumLast ==
    ASSUME NEW v \in Nat \ {0}, NEW n, \A i \in 1 .. v : n[i] \in Nat
    PROVE  SumOver(1 .. v, n) = SumOver(1 .. v - 1, n) + n[v] /\ SumOver(1 .. v - 1, n) \in Nat
<1>1. PICK S : S = 1 .. v - 1
  OBVIOUS
<1>2. S \cup {v} = 1 .. v /\ v \notin S
  BY <1>1
<1>3. n[v] \in Nat /\ \A i \in S : n[i] \in Nat
  BY <1>2
<1>4. IsFiniteSet(S)
  <2>1. 1 \in Int /\ v - 1 \in Int
    OBVIOUS
  <2> QED
    BY <1>1, <2>1, FS_Interval
<1>5. SumOver(S \cup {v}, n) = SumOver(S, n) + n[v] /\ SumOver(S, n) \in Nat
  BY <1>2, <1>3, <1>4, SumMore
<1> QED
  BY <1>1, <1>2, <1>5

\* A set of which some members are gathered from parts that do not overlap.
LEMMA Split ==
    ASSUME NEW B, IsFiniteSet(B), NEW A, NEW I, NEW P, NEW n,
           B = A \cup Gathered(I, P), A \cap Gathered(I, P) = {},
           \A c \in I : n[c] = Cardinality(P[c]),
           \A c, d \in I : c # d => P[c] \cap P[d] = {}
    PROVE  Cardinality(B) = Cardinality(A) + SumOver(I, n) /\ Cardinality(A) \in Nat /\ SumOver(I, n) \in Nat
<1>1. PICK G : G = Gathered(I, P)
  OBVIOUS
<1>2. IsFiniteSet(A) /\ IsFiniteSet(G)
  BY <1>1, FS_Subset
<1>3. \A c \in I : ExistsBijection(1 .. n[c], P[c])
  <2> SUFFICES ASSUME NEW c \in I PROVE ExistsBijection(1 .. n[c], P[c])
    OBVIOUS
  <2>1. P[c] \subseteq G
    BY <1>1 DEF Gathered
  <2>2. IsFiniteSet(P[c])
    BY <1>2, <2>1, FS_Subset
  <2>3. ExistsBijection(1 .. Cardinality(P[c]), P[c])
    BY <2>2, FS_CardinalityType
  <2> QED
    BY <2>3
<1>4. ExistsBijection(Parts(I, n), G)
  BY <1>1, <1>3, Glue
<1>5. PICK Q : Q = Parts(I, n)
  OBVIOUS
<1>6. ExistsBijection(G, Q)
  BY <1>4, <1>5, Fun_ExistsBijSymmetric
<1>7. Cardinality(Q) = Cardinality(G)
  BY <1>2, <1>6, FS_Bijection
<1>8. Cardinality(A \cup G) = Cardinality(A) + Cardinality(G) - Cardinality(A \cap G)
  BY <1>2, FS_Union
<1>9. Cardinality(A \cap G) = 0
  BY <1>1, FS_EmptySet
<1>10. Cardinality(A) \in Nat /\ Cardinality(G) \in Nat
  BY <1>2, FS_CardinalityType
<1>11. Cardinality(B) = Cardinality(A) + Cardinality(G)
  BY <1>1, <1>8, <1>9, <1>10
<1>12. SumOver(I, n) = Cardinality(G)
  BY <1>5, <1>7, SumIsParts
<1> QED
  BY <1>10, <1>11, <1>12

(***************************************************************************)
(* Paths.                                                                  *)
(***************************************************************************)
\* A path begins with another.
LEMMA Begins ==
    ASSUME NEW s \in Seq(STRING), NEW t \in Seq(STRING)
    PROVE  IsPrefix(s, t) <=> Len(s) <= Len(t) /\ \A i \in 1 .. Len(s) : s[i] = t[i]
<1>1. Len(s) \in Nat /\ Len(t) \in Nat
  OBVIOUS
<1>2. PICK a : a = SubSeq(s, 1, Len(s)) /\ a = [i \in 1 .. Len(s) |-> s[i]]
  OBVIOUS
<1>3. ASSUME Len(s) <= Len(t)
      PROVE  SubSeq(t, 1, Len(s)) = [i \in 1 .. Len(s) |-> t[i]]
  BY <1>1, <1>3
<1>4. CASE Len(s) <= Len(t)
  <2>1. PICK b : b = SubSeq(t, 1, Len(s)) /\ b = [i \in 1 .. Len(s) |-> t[i]]
    BY <1>3, <1>4
  <2>2. a = b <=> \A i \in 1 .. Len(s) : s[i] = t[i]
    BY <1>2, <2>1
  <2> QED
    BY <1>2, <1>4, <2>1, <2>2 DEF IsPrefix
<1>5. CASE ~(Len(s) <= Len(t))
  BY <1>5 DEF IsPrefix
<1> QED
  BY <1>4, <1>5

LEMMA BeginsStrictly ==
    ASSUME NEW s \in Seq(STRING), NEW t \in Seq(STRING)
    PROVE  IsStrictPrefix(s, t) <=> Len(s) < Len(t) /\ \A i \in 1 .. Len(s) : s[i] = t[i]
<1>1. Len(s) \in Nat /\ Len(t) \in Nat
  OBVIOUS
<1>2. ASSUME Len(s) = Len(t), \A i \in 1 .. Len(s) : s[i] = t[i] PROVE s = t
  BY <1>2
<1>3. IsStrictPrefix(s, t) <=> IsPrefix(s, t) /\ s # t
  BY DEF IsStrictPrefix
<1>4. IsPrefix(s, t) <=> Len(s) <= Len(t) /\ \A i \in 1 .. Len(s) : s[i] = t[i]
  BY Begins
<1>5. s = t => Len(s) = Len(t)
  OBVIOUS
<1> QED
  BY <1>1, <1>2, <1>3, <1>4, <1>5

\* The first segments of a path.
LEMMA StartFacts ==
    ASSUME NEW t \in Seq(STRING), NEW n \in 0 .. Len(t)
    PROVE  \E s \in Seq(STRING) : /\ s = SubSeq(t, 1, n) /\ Len(s) = n
                                  /\ \A i \in 1 .. n : s[i] = t[i]
<1>1. Len(t) \in Nat /\ n \in Int /\ 1 \in Int
  OBVIOUS
<1>2. PICK s : s = SubSeq(t, 1, n)
  OBVIOUS
<1>3. s \in Seq(STRING) /\ Len(s) = n /\ \A i \in 1 .. n : s[i] = t[i]
  BY <1>1, <1>2, SubSeqProperties
<1> QED
  BY <1>2, <1>3

\* A node begins the path of whatever is below it.
LEMMA FrontFacts ==
    ASSUME NEW t \in Seq(STRING), t # <<>>
    PROVE  \E s \in Seq(STRING) : /\ s = Front(t) /\ Len(s) = Len(t) - 1 /\ Len(t) \in Nat \ {0}
                                  /\ \A i \in 1 .. Len(t) - 1 : s[i] = t[i]
<1>1. Len(t) \in Nat \ {0} /\ Len(t) - 1 \in 0 .. Len(t)
  OBVIOUS
<1> QED
  BY <1>1, StartFacts DEF Front

\* What is below a node and not in it is below one of its children.
LEMMA ChildBetween ==
    ASSUME NEW p \in Seq(STRING), NEW t \in Seq(STRING), IsStrictPrefix(p, t)
    PROVE  \E n \in 1 .. Len(t), c \in Seq(STRING) :
              /\ c = SubSeq(t, 1, n) /\ c # <<>> /\ Front(c) = p /\ n = Len(p) + 1
              /\ (c = t \/ IsStrictPrefix(c, t)) /\ (c = t <=> Front(t) = p)
<1>1. Len(p) < Len(t) /\ (\A i \in 1 .. Len(p) : p[i] = t[i]) /\ Len(p) \in Nat /\ Len(t) \in Nat
  BY BeginsStrictly
<1>2. PICK n \in 1 .. Len(t) : n = Len(p) + 1
  BY <1>1
<1>3. n \in 0 .. Len(t)
  BY <1>1
<1>4. PICK c \in Seq(STRING) : c = SubSeq(t, 1, n) /\ Len(c) = n /\ \A i \in 1 .. n : c[i] = t[i]
  BY <1>3, StartFacts
<1>5. c # <<>> /\ t # <<>>
  BY <1>1, <1>2, <1>4
<1>6. Front(c) = p
  <2>1. PICK s \in Seq(STRING) : s = Front(c) /\ Len(s) = Len(c) - 1 /\ \A i \in 1 .. Len(c) - 1 : s[i] = c[i]
    BY <1>5, FrontFacts
  <2>2. Len(s) = Len(p) /\ \A i \in 1 .. Len(p) : s[i] = p[i]
    BY <1>1, <1>2, <1>4, <2>1
  <2>3. s = p
    BY <2>2
  <2> QED
    BY <2>1, <2>3
<1>7. c = t \/ IsStrictPrefix(c, t)
  <2>1. CASE n = Len(t)
    <3>1. c = t
      BY <1>1, <1>4, <2>1
    <3> QED
      BY <3>1
  <2>2. CASE n # Len(t)
    <3>1. Len(c) < Len(t) /\ \A i \in 1 .. Len(c) : c[i] = t[i]
      BY <1>1, <1>4, <2>2
    <3> QED
      BY <3>1, BeginsStrictly
  <2> QED
    BY <2>1, <2>2
<1>8. c = t <=> Front(t) = p
  <2>1. PICK s \in Seq(STRING) : s = Front(t) /\ Len(s) = Len(t) - 1
    BY <1>5, FrontFacts
  <2>2. Front(t) = p => n = Len(t)
    BY <1>1, <1>2, <2>1
  <2>3. n = Len(t) => c = t
    BY <1>1, <1>4
  <2> QED
    BY <1>6, <2>2, <2>3
<1> QED
  BY <1>2, <1>4, <1>5, <1>6, <1>7, <1>8

\* And what a child begins is below the node, not in it if it is longer.
LEMMA ChildBegins ==
    ASSUME NEW p \in Seq(STRING), NEW c \in Seq(STRING), c # <<>>, Front(c) = p, NEW t \in Seq(STRING),
           c = t \/ IsStrictPrefix(c, t)
    PROVE  /\ IsStrictPrefix(p, t) /\ (IsStrictPrefix(c, t) => Front(t) # p)
           /\ Len(c) = Len(p) + 1 /\ Len(c) <= Len(t) /\ \A i \in 1 .. Len(c) : c[i] = t[i]
<1>1. PICK s \in Seq(STRING) : /\ s = Front(c) /\ Len(s) = Len(c) - 1 /\ Len(c) \in Nat \ {0}
                               /\ \A i \in 1 .. Len(c) - 1 : s[i] = c[i]
  BY FrontFacts
<1>2. s = p
  BY <1>1
<1>3. IsStrictPrefix(c, t) => Len(c) < Len(t) /\ \A i \in 1 .. Len(c) : c[i] = t[i]
  BY BeginsStrictly
<1>4. Len(c) <= Len(t) /\ (\A i \in 1 .. Len(c) : c[i] = t[i]) /\ Len(t) \in Nat
  BY <1>1, <1>3
<1>5. Len(p) < Len(t) /\ \A i \in 1 .. Len(p) : p[i] = t[i]
  BY <1>1, <1>2, <1>4
<1>6. IsStrictPrefix(p, t)
  BY <1>5, BeginsStrictly
<1>7. ASSUME IsStrictPrefix(c, t) PROVE Front(t) # p
  <2>1. t # <<>>
    BY <1>1, <1>4
  <2>2. PICK u \in Seq(STRING) : u = Front(t) /\ Len(u) = Len(t) - 1
    BY <2>1, FrontFacts
  <2>3. Len(c) < Len(t)
    BY <1>3, <1>7
  <2>4. Len(u) # Len(p)
    BY <1>1, <1>2, <1>4, <2>2, <2>3
  <2> QED
    BY <2>2, <2>4
<1> QED
  BY <1>1, <1>2, <1>4, <1>6, <1>7

LEMMA OneChild ==
    ASSUME NEW p \in Seq(STRING), NEW t \in Seq(STRING),
           NEW c \in Seq(STRING), c # <<>>, Front(c) = p, c = t \/ IsStrictPrefix(c, t),
           NEW d \in Seq(STRING), d # <<>>, Front(d) = p, d = t \/ IsStrictPrefix(d, t)
    PROVE  c = d
<1>1. Len(c) = Len(p) + 1 /\ \A i \in 1 .. Len(c) : c[i] = t[i]
  BY ChildBegins
<1>2. Len(d) = Len(p) + 1 /\ \A i \in 1 .. Len(d) : d[i] = t[i]
  BY ChildBegins
<1>3. Len(c) = Len(d) /\ \A i \in 1 .. Len(c) : c[i] = d[i]
  BY <1>1, <1>2
<1> QED
  BY <1>3

LEMMA StartOfFront ==
    ASSUME NEW t \in Seq(STRING), t # <<>>, NEW k \in 1 .. Len(t), k # Len(t)
    PROVE  k \in 0 .. Len(Front(t)) /\ SubSeq(Front(t), 1, k) = SubSeq(t, 1, k)
<1>1. PICK s \in Seq(STRING) : /\ s = Front(t) /\ Len(s) = Len(t) - 1 /\ Len(t) \in Nat \ {0}
                               /\ \A i \in 1 .. Len(t) - 1 : s[i] = t[i]
  BY FrontFacts
<1>2. k \in 0 .. Len(t) /\ k \in 0 .. Len(s)
  BY <1>1
<1>3. PICK a \in Seq(STRING) : a = SubSeq(t, 1, k) /\ Len(a) = k /\ \A i \in 1 .. k : a[i] = t[i]
  BY <1>2, StartFacts
<1>4. PICK b \in Seq(STRING) : b = SubSeq(s, 1, k) /\ Len(b) = k /\ \A i \in 1 .. k : b[i] = s[i]
  BY <1>2, StartFacts
<1>5. a = b
  BY <1>1, <1>2, <1>3, <1>4
<1> QED
  BY <1>1, <1>2, <1>3, <1>4, <1>5

(***************************************************************************)
(* The tree of a scan.                                                     *)
(***************************************************************************)
\* The files right in a node.
Own(r, p) == {n \in 1 .. Len(r.flat) : Kind[r.flat[n].path] # "Directory" /\ Front(r.flat[n].path) = p}

FlatOk(r) ==
    /\ r.flat \in Seq([path : Entries, size : Nat])
    /\ \A n \in 1 .. Len(r.flat) : Kind[r.flat[n].path] # "Regular" => r.flat[n].size = 0

\* With every node there are those above it.
NodesOk(D) ==
    /\ IsFiniteSet(D) /\ D \subseteq Seq(STRING) /\ <<>> \in D
    /\ \A q \in D : \A n \in 0 .. Len(q) : SubSeq(q, 1, n) \in D

\* Before propagateTotals a node has its own files.
Grows(r) ==
    /\ FlatOk(r) /\ NodesOk(DOMAIN r.tree)
    /\ \A n \in 1 .. Len(r.flat) : Kind[r.flat[n].path] # "Directory" => Front(r.flat[n].path) \in DOMAIN r.tree
    /\ r.tree = [p \in DOMAIN r.tree |-> [files |-> Cardinality(Own(r, p)),
                                          bytes |-> SumOver(Own(r, p), Sizes(r))]]

\* What it should have afterwards.
Totals(r) ==
    [p \in DOMAIN r.tree |-> [files |-> Cardinality(FilesBelow(r, p)),
                              bytes |-> SumOver(FilesBelow(r, p), Sizes(r)),
                              dirs  |-> Cardinality(NodesBelow(r.tree, p))]]

LEMMA FlatFacts ==
    ASSUME NEW r, FlatOk(r)
    PROVE  /\ Len(r.flat) \in Nat /\ IsFiniteSet(1 .. Len(r.flat))
           /\ \A n \in 1 .. Len(r.flat) :
                /\ r.flat[n].path \in Entries /\ r.flat[n].path \in Seq(STRING) /\ r.flat[n].path # <<>>
                /\ r.flat[n].size \in Nat /\ Sizes(r)[n] = r.flat[n].size /\ Sizes(r)[n] \in Nat
<1> DEFINE Flat == [path : Entries, size : Nat]
<1>1. PICK f \in Seq(Flat) : f = r.flat
  BY DEF FlatOk
<1> HIDE DEF Flat
<1>2. Len(f) \in Nat /\ \A n \in 1 .. Len(f) : f[n] \in Flat
  OBVIOUS
<1>3. \A n \in 1 .. Len(f) : f[n].path \in Entries /\ f[n].size \in Nat
  BY <1>2 DEF Flat
<1>4. \A n \in 1 .. Len(f) : f[n].path \in Seq(STRING) /\ f[n].path # <<>>
  BY <1>3, ScanAssumption
<1>5. \A n \in 1 .. Len(f) : Sizes(r)[n] = f[n].size
  BY <1>1 DEF Sizes
<1>6. IsFiniteSet(1 .. Len(f))
  <2>1. 1 \in Int /\ Len(f) \in Int
    BY <1>2
  <2> QED
    BY <2>1, FS_Interval
<1> QED
  BY <1>1, <1>2, <1>3, <1>4, <1>5, <1>6

\* The children of a node are nodes, one segment longer.
LEMMA ChildFacts ==
    ASSUME NEW tree, NodesOk(DOMAIN tree), NEW p \in DOMAIN tree, NEW c \in Children(tree, p)
    PROVE  c \in DOMAIN tree /\ c \in Seq(STRING) /\ c # <<>> /\ Front(c) = p /\ p \in Seq(STRING)
  BY DEF NodesOk, Children

\* The files below a node are its own and those below its children.
LEMMA FilesSplit ==
    ASSUME NEW r, Grows(r), NEW p \in DOMAIN r.tree, NEW I, I = Children(r.tree, p),
           NEW P, P = [c \in I |-> FilesBelow(r, c)]
    PROVE  /\ FilesBelow(r, p) = Own(r, p) \cup Gathered(I, P) /\ Own(r, p) \cap Gathered(I, P) = {}
           /\ \A c, d \in I : c # d => P[c] \cap P[d] = {}
<1>1. FlatOk(r) /\ NodesOk(DOMAIN r.tree) /\ p \in Seq(STRING)
  BY DEF Grows, NodesOk
<1>2. \A c \in I : c \in DOMAIN r.tree /\ c \in Seq(STRING) /\ c # <<>> /\ Front(c) = p
  BY <1>1, ChildFacts
<1>3. \A c \in I : P[c] = FilesBelow(r, c)
  OBVIOUS
<1>4. ASSUME NEW n \in FilesBelow(r, p) PROVE n \in Own(r, p) \/ \E c \in I : n \in P[c]
  <2>1. PICK t : t = r.flat[n].path
    OBVIOUS
  <2>2. n \in 1 .. Len(r.flat) /\ Kind[t] # "Directory" /\ IsStrictPrefix(p, t)
    BY <2>1 DEF FilesBelow
  <2>3. t \in Seq(STRING) /\ t # <<>> /\ Front(t) \in DOMAIN r.tree
    BY <1>1, <2>1, <2>2, FlatFacts DEF Grows
  <2>4. PICK k \in 1 .. Len(t), c \in Seq(STRING) :
              /\ c = SubSeq(t, 1, k) /\ c # <<>> /\ Front(c) = p /\ k = Len(p) + 1
              /\ (c = t \/ IsStrictPrefix(c, t)) /\ (c = t <=> Front(t) = p)
    BY <1>1, <2>2, <2>3, ChildBetween
  <2>5. CASE Front(t) = p
    BY <2>1, <2>2, <2>5 DEF Own
  <2>6. CASE Front(t) # p
    <3>1. IsStrictPrefix(c, t)
      BY <2>4, <2>6
    <3>2. k # Len(t)
      <4>1. Len(c) = k /\ Len(c) < Len(t)
        BY <1>1, <2>3, <2>4, <3>1, ChildBegins, BeginsStrictly
      <4> QED
        BY <4>1
    <3>3. k \in 0 .. Len(Front(t)) /\ SubSeq(Front(t), 1, k) = c
      BY <2>3, <2>4, <3>2, StartOfFront
    <3>4. c \in DOMAIN r.tree
      BY <1>1, <2>3, <3>3 DEF NodesOk
    <3>5. c \in I
      BY <2>4, <3>4 DEF Children
    <3> QED
      BY <1>3, <2>1, <2>2, <3>1, <3>5 DEF FilesBelow
  <2> QED
    BY <2>5, <2>6
<1>5. ASSUME NEW c \in I, NEW n \in P[c] PROVE n \in FilesBelow(r, p) /\ n \notin Own(r, p)
  <2>1. PICK t : t = r.flat[n].path
    OBVIOUS
  <2>2. n \in 1 .. Len(r.flat) /\ Kind[t] # "Directory" /\ IsStrictPrefix(c, t)
    BY <1>3, <2>1 DEF FilesBelow
  <2>3. t \in Seq(STRING)
    BY <1>1, <2>1, <2>2, FlatFacts
  <2>4. IsStrictPrefix(p, t) /\ Front(t) # p
    BY <1>1, <1>2, <2>2, <2>3, ChildBegins
  <2> QED
    BY <2>1, <2>2, <2>4 DEF FilesBelow, Own
<1>6. ASSUME NEW n \in Own(r, p) PROVE n \in FilesBelow(r, p)
  <2>1. PICK t : t = r.flat[n].path
    OBVIOUS
  <2>2. n \in 1 .. Len(r.flat) /\ Kind[t] # "Directory" /\ Front(t) = p
    BY <2>1 DEF Own
  <2>3. t \in Seq(STRING) /\ t # <<>>
    BY <1>1, <2>1, <2>2, FlatFacts
  <2>4. IsStrictPrefix(p, t)
    BY <1>1, <2>2, <2>3, ChildBegins
  <2> QED
    BY <2>1, <2>2, <2>4 DEF FilesBelow
<1>7. ASSUME NEW c \in I, NEW d \in I, c # d PROVE P[c] \cap P[d] = {}
  <2> SUFFICES ASSUME NEW n, n \in P[c], n \in P[d] PROVE FALSE
    OBVIOUS
  <2>1. PICK t : t = r.flat[n].path
    OBVIOUS
  <2>2. n \in 1 .. Len(r.flat) /\ IsStrictPrefix(c, t) /\ IsStrictPrefix(d, t)
    BY <1>3, <2>1 DEF FilesBelow
  <2>3. t \in Seq(STRING)
    BY <1>1, <2>1, <2>2, FlatFacts
  <2>4. c = d
    BY <1>1, <1>2, <2>2, <2>3, OneChild
  <2> QED
    BY <1>7, <2>4
<1>8. \A n : n \in Gathered(I, P) <=> \E c \in I : n \in P[c]
  BY DEF Gathered
<1>9. FilesBelow(r, p) = Own(r, p) \cup Gathered(I, P) /\ Own(r, p) \cap Gathered(I, P) = {}
  BY <1>4, <1>5, <1>6, <1>8
<1> QED
  BY <1>7, <1>9

\* The nodes below a node are its children and those below them.
LEMMA NodesSplit ==
    ASSUME NEW tree, NodesOk(DOMAIN tree), NEW p \in DOMAIN tree, NEW I, I = Children(tree, p),
           NEW P, P = [c \in I |-> {c} \cup NodesBelow(tree, c)]
    PROVE  /\ NodesBelow(tree, p) = Gathered(I, P)
           /\ \A c, d \in I : c # d => P[c] \cap P[d] = {}
<1>1. p \in Seq(STRING) /\ \A q \in DOMAIN tree : q \in Seq(STRING)
  BY DEF NodesOk
<1>2. \A c \in I : c \in DOMAIN tree /\ c \in Seq(STRING) /\ c # <<>> /\ Front(c) = p
  BY ChildFacts
<1>3. \A c \in I : \A q : q \in P[c] <=> q \in DOMAIN tree /\ (q = c \/ IsStrictPrefix(c, q))
  BY <1>2 DEF NodesBelow
<1>4. ASSUME NEW q \in NodesBelow(tree, p) PROVE \E c \in I : q \in P[c]
  <2>1. q \in DOMAIN tree /\ IsStrictPrefix(p, q) /\ q \in Seq(STRING)
    BY <1>1 DEF NodesBelow
  <2>2. PICK k \in 1 .. Len(q), c \in Seq(STRING) :
              /\ c = SubSeq(q, 1, k) /\ c # <<>> /\ Front(c) = p
              /\ (c = q \/ IsStrictPrefix(c, q))
    BY <1>1, <2>1, ChildBetween
  <2>3. k \in 0 .. Len(q)
    BY <2>1
  <2>4. c \in DOMAIN tree
    BY <2>1, <2>2, <2>3 DEF NodesOk
  <2>5. c \in I
    BY <2>2, <2>4 DEF Children
  <2> QED
    BY <1>3, <2>1, <2>2, <2>5
<1>5. ASSUME NEW c \in I, NEW q \in P[c] PROVE q \in NodesBelow(tree, p)
  <2>1. q \in DOMAIN tree /\ (c = q \/ IsStrictPrefix(c, q)) /\ q \in Seq(STRING)
    BY <1>1, <1>3
  <2>2. IsStrictPrefix(p, q)
    BY <1>1, <1>2, <2>1, ChildBegins
  <2> QED
    BY <2>1, <2>2 DEF NodesBelow
<1>6. ASSUME NEW c \in I, NEW d \in I, c # d PROVE P[c] \cap P[d] = {}
  <2> SUFFICES ASSUME NEW q, q \in P[c], q \in P[d] PROVE FALSE
    OBVIOUS
  <2>1. q \in Seq(STRING) /\ (c = q \/ IsStrictPrefix(c, q)) /\ (d = q \/ IsStrictPrefix(d, q))
    BY <1>1, <1>3
  <2>2. c = d
    BY <1>1, <1>2, <2>1, OneChild
  <2> QED
    BY <1>6, <2>2
<1>7. \A q : q \in Gathered(I, P) <=> \E c \in I : q \in P[c]
  BY DEF Gathered
<1>8. NodesBelow(tree, p) = Gathered(I, P)
  BY <1>4, <1>5, <1>7
<1> QED
  BY <1>6, <1>8

\* Their parts are split likewise.
LEMMA PartsSplit ==
    ASSUME NEW B, NEW A, NEW I, NEW P, NEW z, NEW Q,
           B = A \cup Gathered(I, P), A \cap Gathered(I, P) = {},
           \A c, d \in I : c # d => P[c] \cap P[d] = {},
           Q = [c \in I |-> Parts(P[c], z)]
    PROVE  /\ Parts(B, z) = Parts(A, z) \cup Gathered(I, Q) /\ Parts(A, z) \cap Gathered(I, Q) = {}
           /\ \A c, d \in I : c # d => Q[c] \cap Q[d] = {}
<1>1. \A S, x : x \in Parts(S, z) <=> \E n \in S : x \in {n} \X (1 .. z[n])
  BY DEF Parts
<1>2. \A n : n \in Gathered(I, P) <=> \E c \in I : n \in P[c]
  BY DEF Gathered
<1>3. \A x : x \in Gathered(I, Q) <=> \E c \in I : x \in Q[c]
  BY DEF Gathered
<1>4. \A c \in I : Q[c] = Parts(P[c], z)
  OBVIOUS
<1>5. \A S, x : x \in Parts(S, z) => x[1] \in S
  BY <1>1
<1>6. \A x : x \in Gathered(I, Q) <=> x \in Parts(Gathered(I, P), z)
  BY <1>1, <1>2, <1>3, <1>4
<1>7. Parts(B, z) = Parts(A, z) \cup Gathered(I, Q)
  BY <1>1, <1>6
<1>8. Parts(A, z) \cap Gathered(I, Q) = {}
  BY <1>5, <1>6
<1>9. ASSUME NEW c \in I, NEW d \in I, c # d PROVE Q[c] \cap Q[d] = {}
  BY <1>4, <1>5, <1>9
<1> QED
  BY <1>7, <1>8, <1>9

LEMMA BelowIsFinite ==
    ASSUME NEW r, Grows(r), NEW p
    PROVE  IsFiniteSet(FilesBelow(r, p)) /\ IsFiniteSet(NodesBelow(r.tree, p)) /\ IsFiniteSet(Own(r, p))
<1>1. /\ FilesBelow(r, p) \subseteq 1 .. Len(r.flat) /\ Own(r, p) \subseteq 1 .. Len(r.flat)
      /\ NodesBelow(r.tree, p) \subseteq DOMAIN r.tree
  BY DEF FilesBelow, Own, NodesBelow
<1>2. IsFiniteSet(1 .. Len(r.flat)) /\ IsFiniteSet(DOMAIN r.tree)
  BY FlatFacts DEF Grows, NodesOk
<1> QED
  BY <1>1, <1>2, FS_Subset

\* The totals satisfy the equation that propagateTotals solves.
LEMMA TotalsAdd ==
    ASSUME NEW r, Grows(r), NEW p \in DOMAIN r.tree
    PROVE  Totals(r)[p] = Aggregated(r.tree, Totals(r), p)
<1>1. PICK I, t, z : I = Children(r.tree, p) /\ t = Totals(r) /\ z = Sizes(r)
  OBVIOUS
<1>2. I \subseteq DOMAIN r.tree
  BY <1>1 DEF Children
<1>3. \A q \in DOMAIN r.tree : t[q] = [files |-> Cardinality(FilesBelow(r, q)),
                                       bytes |-> SumOver(FilesBelow(r, q), z),
                                       dirs  |-> Cardinality(NodesBelow(r.tree, q))]
  BY <1>1 DEF Totals
<1>4. \A c \in I : /\ t[c].files = Cardinality(FilesBelow(r, c)) /\ t[c].bytes = SumOver(FilesBelow(r, c), z)
                   /\ t[c].dirs = Cardinality(NodesBelow(r.tree, c))
  <2> SUFFICES ASSUME NEW c \in I
               PROVE  /\ t[c].files = Cardinality(FilesBelow(r, c)) /\ t[c].bytes = SumOver(FilesBelow(r, c), z)
                      /\ t[c].dirs = Cardinality(NodesBelow(r.tree, c))
    OBVIOUS
  <2>1. t[c] = [files |-> Cardinality(FilesBelow(r, c)), bytes |-> SumOver(FilesBelow(r, c), z),
                dirs |-> Cardinality(NodesBelow(r.tree, c))]
    BY <1>2, <1>3
  <2> QED
    BY <2>1
<1>5. r.tree[p].files = Cardinality(Own(r, p)) /\ r.tree[p].bytes = SumOver(Own(r, p), z)
  BY <1>1 DEF Grows
<1>6. PICK P : P = [c \in I |-> FilesBelow(r, c)]
  OBVIOUS
<1>7. /\ FilesBelow(r, p) = Own(r, p) \cup Gathered(I, P) /\ Own(r, p) \cap Gathered(I, P) = {}
      /\ \A c, d \in I : c # d => P[c] \cap P[d] = {}
  BY <1>1, <1>6, FilesSplit
<1>8. Cardinality(FilesBelow(r, p)) = r.tree[p].files + SumOver(I, [c \in I |-> t[c].files])
  <2>1. PICK n : n = [c \in I |-> t[c].files]
    OBVIOUS
  <2>2. \A c \in I : n[c] = Cardinality(P[c])
    BY <1>4, <1>6, <2>1
  <2>3. IsFiniteSet(FilesBelow(r, p))
    BY BelowIsFinite
  <2>4. Cardinality(FilesBelow(r, p)) = Cardinality(Own(r, p)) + SumOver(I, n)
    BY <1>7, <2>2, <2>3, Split
  <2> QED
    BY <1>5, <2>1, <2>4
<1>9. SumOver(FilesBelow(r, p), z) = r.tree[p].bytes + SumOver(I, [c \in I |-> t[c].bytes])
  <2>1. PICK n : n = [c \in I |-> t[c].bytes]
    OBVIOUS
  <2>2. PICK Q : Q = [c \in I |-> Parts(P[c], z)]
    OBVIOUS
  <2>3. \A c \in I : n[c] = Cardinality(Q[c])
    BY <1>4, <1>6, <2>1, <2>2, SumIsParts
  <2>4. PICK A, B : A = Parts(Own(r, p), z) /\ B = Parts(FilesBelow(r, p), z)
    OBVIOUS
  <2>5. /\ B = A \cup Gathered(I, Q) /\ A \cap Gathered(I, Q) = {}
        /\ \A c, d \in I : c # d => Q[c] \cap Q[d] = {}
    BY <1>7, <2>2, <2>4, PartsSplit
  <2>6. IsFiniteSet(B)
    <3>1. FlatOk(r) /\ IsFiniteSet(FilesBelow(r, p)) /\ FilesBelow(r, p) \subseteq 1 .. Len(r.flat)
      BY BelowIsFinite DEF Grows, FilesBelow
    <3>2. \A k \in FilesBelow(r, p) : z[k] \in Nat
      BY <1>1, <3>1, FlatFacts
    <3> QED
      BY <2>4, <3>1, <3>2, PartsAreFinite
  <2>7. Cardinality(B) = Cardinality(A) + SumOver(I, n)
    BY <2>3, <2>5, <2>6, Split
  <2> QED
    BY <1>5, <2>1, <2>4, <2>7, SumIsParts
<1>10. Cardinality(NodesBelow(r.tree, p)) = SumOver(I, [c \in I |-> 1 + t[c].dirs])
  <2>1. PICK n : n = [c \in I |-> 1 + t[c].dirs]
    OBVIOUS
  <2>2. PICK Q : Q = [c \in I |-> {c} \cup NodesBelow(r.tree, c)]
    OBVIOUS
  <2>3. NodesBelow(r.tree, p) = Gathered(I, Q) /\ \A c, d \in I : c # d => Q[c] \cap Q[d] = {}
    BY <1>1, <2>2, NodesSplit DEF Grows
  <2>4. ASSUME NEW c \in I PROVE n[c] = Cardinality(Q[c])
    <3>1. PICK S : S = NodesBelow(r.tree, c)
      OBVIOUS
    <3>2. IsFiniteSet(S) /\ c \notin S /\ Cardinality(S) \in Nat
      BY <3>1, BelowIsFinite, FS_CardinalityType DEF NodesBelow, IsStrictPrefix
    <3>3. Cardinality(S \cup {c}) = Cardinality(S) + 1
      BY <3>2, FS_AddElement
    <3>4. Q[c] = S \cup {c} /\ n[c] = 1 + Cardinality(S)
      BY <1>4, <2>1, <2>2, <3>1
    <3> QED
      BY <3>2, <3>3, <3>4
  <2>5. IsFiniteSet(NodesBelow(r.tree, p)) /\ NodesBelow(r.tree, p) = {} \cup Gathered(I, Q)
    BY <2>3, BelowIsFinite
  <2>6. /\ Cardinality(NodesBelow(r.tree, p)) = Cardinality({}) + SumOver(I, n)
        /\ SumOver(I, n) \in Nat
    <3>1. {} \cap Gathered(I, Q) = {}
      OBVIOUS
    <3> QED
      BY <2>3, <2>4, <2>5, <3>1, Split
  <2>7. Cardinality({}) = 0
    BY FS_EmptySet
  <2> QED
    BY <2>1, <2>6, <2>7
<1> QED
  BY <1>1, <1>3, <1>8, <1>9, <1>10 DEF Aggregated

\* A set of naturals that is not empty has a least element.
LEMMA LeastNumber ==
    ASSUME NEW S \in SUBSET Nat, S # {}
    PROVE  \E x \in S : \A y \in S : x <= y
<1>1. IsWellFoundedOn(OpToRel(<, Nat), Nat)
  BY NatLessThanWellFounded
<1>2. PICK x \in S : \A y \in S : ~(<<y, x>> \in OpToRel(<, Nat))
  BY <1>1, WFMin
<1>3. \A y \in S : ~(y < x)
  BY <1>2 DEF OpToRel
<1> QED
  BY <1>3

\* Below a child there are fewer nodes.
LEMMA FewerBelow ==
    ASSUME NEW r, Grows(r), NEW p \in DOMAIN r.tree, NEW c \in Children(r.tree, p)
    PROVE  Cardinality(NodesBelow(r.tree, c)) < Cardinality(NodesBelow(r.tree, p))
<1>1. NodesOk(DOMAIN r.tree)
  BY DEF Grows
<1>2. PICK A, B : A = NodesBelow(r.tree, c) /\ B = NodesBelow(r.tree, p)
  OBVIOUS
<1>3. PICK I, P : I = Children(r.tree, p) /\ P = [d \in I |-> {d} \cup NodesBelow(r.tree, d)]
  OBVIOUS
<1>4. B = Gathered(I, P)
  BY <1>1, <1>2, <1>3, NodesSplit
<1>5. A \subseteq B /\ c \in B /\ c \notin A
  <2>1. P[c] \subseteq B
    BY <1>3, <1>4 DEF Gathered
  <2>2. P[c] = {c} \cup A
    BY <1>2, <1>3
  <2>3. c \notin A
    BY <1>2 DEF NodesBelow, IsStrictPrefix
  <2> QED
    BY <2>1, <2>2, <2>3
<1>6. IsFiniteSet(B)
  BY <1>2, BelowIsFinite
<1>7. Cardinality(A) <= Cardinality(B) /\ Cardinality(A) # Cardinality(B)
  BY <1>5, <1>6, FS_Subset
<1>8. IsFiniteSet(A)
  BY <1>5, <1>6, FS_Subset
<1>9. Cardinality(A) \in Nat /\ Cardinality(B) \in Nat
  BY <1>6, <1>8, FS_CardinalityType
<1> QED
  BY <1>2, <1>7, <1>9

\* Nothing else does: of the nodes where another solution differs, take one
\* with the fewest nodes below it.
LEMMA TotalsOnly ==
    ASSUME NEW r, Grows(r), NEW t, t = [p \in DOMAIN r.tree |-> Aggregated(r.tree, t, p)]
    PROVE  t = Totals(r)
<1>1. PICK D, u : D = DOMAIN r.tree /\ u = Totals(r)
  OBVIOUS
<1>2. DOMAIN t = D /\ u = [p \in D |-> u[p]] /\ t = [p \in D |-> t[p]]
  BY <1>1 DEF Totals
<1>3. \A p \in D : t[p] = Aggregated(r.tree, t, p) /\ u[p] = Aggregated(r.tree, u, p)
  BY <1>1, TotalsAdd
<1> DEFINE Rank(p) == Cardinality(NodesBelow(r.tree, p))
           Bad == {p \in D : t[p] # u[p]}
           Ranks == {Rank(p) : p \in Bad}
<1>4. \A p \in D : Rank(p) \in Nat
  BY BelowIsFinite, FS_CardinalityType
<1>5. ASSUME Bad # {} PROVE FALSE
  <2>1. Ranks \in SUBSET Nat /\ Ranks # {}
    BY <1>4, <1>5
  <2>2. PICK m \in Ranks : \A k \in Ranks : m <= k
    BY <2>1, LeastNumber
  <2>3. PICK p \in Bad : Rank(p) = m
    OBVIOUS
  <2>4. PICK I : I = Children(r.tree, p)
    OBVIOUS
  <2>5. ASSUME NEW c \in I PROVE t[c] = u[c]
    <3>1. c \in D
      BY <1>1, <2>4 DEF Children
    <3>2. Rank(c) < Rank(p)
      BY <1>1, <2>3, <2>4, FewerBelow
    <3>3. c \notin Bad
      <4>1. c \in Bad => Rank(c) \in Ranks
        OBVIOUS
      <4>2. c \in Bad => m <= Rank(c)
        BY <2>2, <4>1
      <4>3. m \in Nat /\ Rank(c) \in Nat /\ Rank(p) = m
        BY <1>4, <2>1, <2>3, <3>1
      <4> QED
        BY <3>2, <4>2, <4>3
    <3> QED
      BY <3>1, <3>3
  <2>6. /\ [c \in I |-> t[c].files] = [c \in I |-> u[c].files]
        /\ [c \in I |-> t[c].bytes] = [c \in I |-> u[c].bytes]
        /\ [c \in I |-> 1 + t[c].dirs] = [c \in I |-> 1 + u[c].dirs]
    BY <2>5
  <2>7. Aggregated(r.tree, t, p) = Aggregated(r.tree, u, p)
    BY <2>4, <2>6 DEF Aggregated
  <2> QED
    BY <1>3, <2>3, <2>7
<1>6. \A p \in D : t[p] = u[p]
  BY <1>5
<1>7. t = u
  BY <1>2, <1>6
<1> QED
  BY <1>1, <1>7

LEMMA PropagateIsRight == ASSUME NEW r, Grows(r) PROVE PropagateTotals(r.tree) = Totals(r)
<1>1. PICK t : t = PropagateTotals(r.tree)
  OBVIOUS
<1>2. Totals(r) = [p \in DOMAIN r.tree |-> Aggregated(r.tree, Totals(r), p)]
  <2>1. \A p \in DOMAIN r.tree : Totals(r)[p] = Aggregated(r.tree, Totals(r), p)
    BY TotalsAdd
  <2>2. PICK u, D : u = Totals(r) /\ D = DOMAIN r.tree
    OBVIOUS
  <2>3. u = [p \in D |-> u[p]]
    BY <2>2 DEF Totals
  <2>4. [p \in D |-> u[p]] = [p \in D |-> Aggregated(r.tree, u, p)]
    BY <2>1, <2>2
  <2> QED
    BY <2>2, <2>3, <2>4
<1>3. PropagateTotals(r.tree) = CHOOSE u : u = [p \in DOMAIN r.tree |-> Aggregated(r.tree, u, p)]
  BY DEF PropagateTotals
<1>4. t = [p \in DOMAIN r.tree |-> Aggregated(r.tree, t, p)]
  BY <1>1, <1>2, <1>3
<1> QED
  BY <1>1, <1>4, TotalsOnly

-----------------------------------------------------------------------------
Summary == [root : Seq(STRING), bytes : Nat, files : Nat, dirs : Nat]
VolumeBytes(r) == [v \in DOMAIN r.volumes |-> r.volumes[v].bytes]

\* The counters of a scan that goes on.
Counts(r) ==
    /\ r.volumes \in Seq(Summary)
    /\ r.bytes = SumOver(1 .. Len(r.flat), Sizes(r))
    /\ r.bytes = SumOver(DOMAIN r.volumes, VolumeBytes(r))
    /\ r.visited = Len(r.flat)

IsResult(r) ==
    r = [errors |-> r.errors, visited |-> r.visited, indexed |-> r.indexed, bytes |-> r.bytes,
         volumes |-> r.volumes, flat |-> r.flat, tree |-> r.tree]

TreeInv ==
    /\ IsResult(result) /\ roots \in Seq(Seq(STRING))
    /\ pc \in {"idle", "queued", "roots", "walk"}
    /\ pc \in {"roots", "walk"} => Grows(result) /\ Counts(result)
    /\ pc = "walk" => roots # <<>> /\ todo \subseteq Entries /\ result.volumes # <<>>
    /\ TreeAgrees

\* A path that is added with all nodes above it.
LEMMA GrownNodes ==
    ASSUME NEW D, NodesOk(D), NEW path \in Seq(STRING), NEW E,
           E = D \cup {SubSeq(path, 1, n) : n \in 0 .. Len(path)}
    PROVE  NodesOk(E) /\ path \in E
<1>1. PICK S, f : S = {SubSeq(path, 1, n) : n \in 0 .. Len(path)} /\ f = [n \in 0 .. Len(path) |-> SubSeq(path, 1, n)]
  OBVIOUS
<1>2. Len(path) \in Nat /\ 0 \in Int /\ Len(path) \in Int
  OBVIOUS
<1>3. IsFiniteSet(0 .. Len(path))
  BY <1>2, FS_Interval
<1>4. f \in Surjection(0 .. Len(path), S)
  BY <1>1 DEF Surjection
<1>5. IsFiniteSet(S)
  BY <1>3, <1>4, FS_Surjection
<1>6. IsFiniteSet(E)
  BY <1>1, <1>5, FS_Union DEF NodesOk
<1>7. \A s \in S : \E n \in 0 .. Len(path) : /\ s = SubSeq(path, 1, n) /\ s \in Seq(STRING) /\ Len(s) = n
                                            /\ \A i \in 1 .. n : s[i] = path[i]
  <2> SUFFICES ASSUME NEW n \in 0 .. Len(path), NEW s, s = SubSeq(path, 1, n)
               PROVE  s \in Seq(STRING) /\ Len(s) = n /\ \A i \in 1 .. n : s[i] = path[i]
    BY <1>1
  <2> QED
    BY StartFacts
<1>8. ASSUME NEW s \in S, NEW k \in 0 .. Len(s) PROVE SubSeq(s, 1, k) \in S
  <2>1. PICK n \in 0 .. Len(path) : /\ s = SubSeq(path, 1, n) /\ s \in Seq(STRING) /\ Len(s) = n
                                    /\ \A i \in 1 .. n : s[i] = path[i]
    BY <1>7
  <2>2. k \in 0 .. Len(path)
    BY <1>2, <2>1
  <2>3. PICK a \in Seq(STRING) : a = SubSeq(s, 1, k) /\ Len(a) = k /\ \A i \in 1 .. k : a[i] = s[i]
    BY <2>1, StartFacts
  <2>4. PICK b \in Seq(STRING) : b = SubSeq(path, 1, k) /\ Len(b) = k /\ \A i \in 1 .. k : b[i] = path[i]
    BY <2>2, StartFacts
  <2>5. a = b
    BY <1>2, <2>1, <2>3, <2>4
  <2> QED
    BY <1>1, <2>2, <2>3, <2>4, <2>5
<1>9. path \in S
  <2>1. Len(path) \in 0 .. Len(path)
    BY <1>2
  <2>2. PICK b \in Seq(STRING) : /\ b = SubSeq(path, 1, Len(path)) /\ Len(b) = Len(path)
                                 /\ \A i \in 1 .. Len(path) : b[i] = path[i]
    BY <2>1, StartFacts
  <2>3. b = path
    BY <2>2
  <2> QED
    BY <1>1, <2>1, <2>2, <2>3
<1>10. E \subseteq Seq(STRING) /\ <<>> \in E
  BY <1>1, <1>7 DEF NodesOk
<1>11. \A q \in E : \A n \in 0 .. Len(q) : SubSeq(q, 1, n) \in E
  BY <1>1, <1>8 DEF NodesOk
<1> QED
  BY <1>1, <1>6, <1>9, <1>10, <1>11 DEF NodesOk

\* One entry more in the list.
LEMMA FlatGrows ==
    ASSUME NEW r, FlatOk(r), NEW e \in Entries, NEW size \in Nat, Kind[e] # "Regular" => size = 0,
           NEW q, q.flat = Append(r.flat, [path |-> e, size |-> size])
    PROVE  /\ FlatOk(q) /\ Len(q.flat) = Len(r.flat) + 1
           /\ \A n \in 1 .. Len(r.flat) : q.flat[n] = r.flat[n] /\ Sizes(q)[n] = Sizes(r)[n]
           /\ q.flat[Len(r.flat) + 1].path = e /\ Sizes(q)[Len(r.flat) + 1] = size
           /\ SumOver(1 .. Len(q.flat), Sizes(q)) = SumOver(1 .. Len(r.flat), Sizes(r)) + size
<1> DEFINE Flat == [path : Entries, size : Nat]
<1>1. PICK x : x = [path |-> e, size |-> size]
  OBVIOUS
<1>2. x \in Flat /\ x.path = e /\ x.size = size
  BY <1>1
<1>3. r.flat \in Seq(Flat)
  BY DEF FlatOk
<1> HIDE DEF Flat
<1>4. PICK f \in Seq(Flat) : f = r.flat
  BY <1>3
<1>5. PICK g \in Seq(Flat) : g = Append(f, x)
  <2>1. Append(f, x) \in Seq(Flat)
    BY <1>2
  <2> QED
    BY <2>1
<1>6. PICK N \in Nat : N = Len(f)
  OBVIOUS
<1>7. Len(g) = N + 1 /\ g[N + 1] = x /\ \A n \in 1 .. N : g[n] = f[n]
  BY <1>5, <1>6
<1>8. q.flat = g
  BY <1>1, <1>4, <1>5
<1>9. 1 .. N + 1 = 1 .. N \cup {N + 1} /\ N + 1 \notin 1 .. N
  OBVIOUS
<1>10. \A n \in 1 .. N : Kind[f[n].path] # "Regular" => f[n].size = 0
  BY <1>4, <1>6 DEF FlatOk
<1>11. \A n \in 1 .. N + 1 : Kind[g[n].path] # "Regular" => g[n].size = 0
  BY <1>2, <1>7, <1>9, <1>10
<1>12. FlatOk(q)
  BY <1>7, <1>8, <1>11 DEF FlatOk, Flat
<1>13. PICK z, y : z = Sizes(r) /\ y = Sizes(q)
  OBVIOUS
<1>14. (\A n \in 1 .. N : z[n] = f[n].size /\ y[n] = f[n].size) /\ y[N + 1] = size
  <2>1. \A n \in 1 .. N : z[n] = f[n].size
    BY <1>4, <1>6, <1>13 DEF Sizes
  <2>2. \A n \in 1 .. N + 1 : y[n] = g[n].size
    BY <1>7, <1>8, <1>13 DEF Sizes
  <2> QED
    BY <1>2, <1>7, <1>9, <2>1, <2>2
<1>15. \A n \in 1 .. N + 1 : y[n] \in Nat
  <2>1. \A n \in 1 .. N : z[n] \in Nat
    BY <1>4, <1>6, <1>13, FlatFacts
  <2> QED
    BY <1>9, <1>14, <2>1
<1>16. SumOver(1 .. N + 1, y) = SumOver(1 .. N, y) + y[N + 1]
  <2>1. PICK v : v = N + 1 /\ v \in Nat \ {0} /\ v - 1 = N
    OBVIOUS
  <2>2. \A n \in 1 .. v : y[n] \in Nat
    BY <1>15, <2>1
  <2>3. SumOver(1 .. v, y) = SumOver(1 .. v - 1, y) + y[v]
    BY <2>1, <2>2, SumLast
  <2> QED
    BY <2>1, <2>3
<1>17. SumOver(1 .. N, y) = SumOver(1 .. N, z)
  <2>1. \A n \in 1 .. N : y[n] = z[n]
    BY <1>14
  <2> QED
    BY <2>1, SumSame
<1>18. SumOver(1 .. N + 1, y) = SumOver(1 .. N, z) + size
  BY <1>14, <1>16, <1>17
<1>19. \A n \in 1 .. N : g[n] = f[n] /\ y[n] = z[n]
  BY <1>7, <1>14
<1> QED
  BY <1>2, <1>4, <1>6, <1>7, <1>8, <1>12, <1>13, <1>14, <1>18, <1>19

\* findOrInsertChild leaves what nodes have, and new nodes have nothing.
LEMMA GrownOwn ==
    ASSUME NEW r, Grows(r), NEW path \in Seq(STRING), NEW t, t = Grown(r.tree, path)
    PROVE  /\ NodesOk(DOMAIN t) /\ path \in DOMAIN t /\ DOMAIN r.tree \subseteq DOMAIN t
           /\ t = [p \in DOMAIN t |-> [files |-> Cardinality(Own(r, p)), bytes |-> SumOver(Own(r, p), Sizes(r))]]
<1>1. PICK D, E : D = DOMAIN r.tree /\ E = D \cup {SubSeq(path, 1, n) : n \in 0 .. Len(path)}
  OBVIOUS
<1>2. t = [p \in E |-> IF p \in D THEN r.tree[p] ELSE Nothing]
  BY <1>1 DEF Grown
<1>3. DOMAIN t = E
  BY <1>2
<1>4. NodesOk(E) /\ path \in E
  BY <1>1, GrownNodes DEF Grows
<1>5. ASSUME NEW p \in E
      PROVE  t[p] = [files |-> Cardinality(Own(r, p)), bytes |-> SumOver(Own(r, p), Sizes(r))]
  <2>1. CASE p \in D
    BY <1>1, <1>2, <2>1 DEF Grows
  <2>2. CASE p \notin D
    <3>1. Own(r, p) = {}
      BY <1>1, <2>2 DEF Own, Grows
    <3>2. Cardinality(Own(r, p)) = 0 /\ SumOver(Own(r, p), Sizes(r)) = 0
      BY <3>1, FS_EmptySet, SumNone
    <3>3. t[p] = Nothing
      BY <1>2, <2>2
    <3> QED
      BY <3>2, <3>3 DEF Nothing
  <2> QED
    BY <2>1, <2>2
<1>6. t = [p \in E |-> t[p]]
  BY <1>2, <1>3
<1>7. [p \in E |-> t[p]] = [p \in E |-> [files |-> Cardinality(Own(r, p)), bytes |-> SumOver(Own(r, p), Sizes(r))]]
  BY <1>5
<1> QED
  BY <1>1, <1>3, <1>4, <1>6, <1>7

\* TreeBuilder::add
LEMMA AddGrows ==
    ASSUME NEW r, Grows(r), NEW e \in Entries, NEW size \in Nat, Kind[e] # "Regular" => size = 0,
           NEW q, q.flat = Append(r.flat, [path |-> e, size |-> size]), q.tree = Add(r.tree, e, size)
    PROVE  Grows(q)
<1>1. PICK N, z, y : N = Len(r.flat) /\ z = Sizes(r) /\ y = Sizes(q)
  OBVIOUS
<1>2. N \in Nat /\ IsFiniteSet(1 .. N) /\ \A n \in 1 .. N : z[n] \in Nat
  BY <1>1, FlatFacts DEF Grows
<1>3. /\ FlatOk(q) /\ Len(q.flat) = N + 1 /\ q.flat[N + 1].path = e /\ y[N + 1] = size
      /\ \A n \in 1 .. N : q.flat[n] = r.flat[n] /\ y[n] = z[n]
  BY <1>1, FlatGrows DEF Grows
<1>4. e \in Seq(STRING) /\ e # <<>>
  BY ScanAssumption
<1>5. PICK F : F = Front(e) /\ F \in Seq(STRING)
  BY <1>4, FrontFacts
<1>6. PICK dir : dir = (IF Kind[e] = "Directory" THEN e ELSE F) /\ dir \in Seq(STRING)
  BY <1>4, <1>5
<1>7. PICK t : t = Grown(r.tree, dir)
  OBVIOUS
<1>8. /\ NodesOk(DOMAIN t) /\ dir \in DOMAIN t /\ DOMAIN r.tree \subseteq DOMAIN t
      /\ t = [p \in DOMAIN t |-> [files |-> Cardinality(Own(r, p)), bytes |-> SumOver(Own(r, p), z)]]
  BY <1>1, <1>6, <1>7, GrownOwn
<1>9. 1 .. N + 1 = 1 .. N \cup {N + 1} /\ N + 1 \notin 1 .. N
  BY <1>2
<1>10. \A p, n : n \in Own(q, p) <=> /\ n \in 1 .. N + 1 /\ Kind[q.flat[n].path] # "Directory"
                                     /\ Front(q.flat[n].path) = p
  BY <1>3 DEF Own
<1>11. \A p, n : n \in Own(r, p) <=> /\ n \in 1 .. N /\ Kind[q.flat[n].path] # "Directory"
                                     /\ Front(q.flat[n].path) = p
  BY <1>1, <1>3 DEF Own
<1>12. \A p, n : n \in Own(q, p) <=> \/ n \in Own(r, p)
                                     \/ n = N + 1 /\ Kind[e] # "Directory" /\ p = F
  BY <1>3, <1>5, <1>9, <1>10, <1>11
<1>13. ASSUME NEW p, ~(Kind[e] # "Directory" /\ p = F) PROVE Own(q, p) = Own(r, p)
  <2>1. \A n : n \in Own(q, p) <=> n \in Own(r, p)
    BY <1>12, <1>13
  <2>2. PICK S, T : S = Own(q, p) /\ T = Own(r, p)
    OBVIOUS
  <2> QED
    BY <2>1, <2>2
<1>14. Kind[e] # "Directory" => Own(q, F) = Own(r, F) \cup {N + 1}
  BY <1>12
<1>15. ASSUME NEW p PROVE SumOver(Own(r, p), y) = SumOver(Own(r, p), z)
  <2>1. \A n \in Own(r, p) : y[n] = z[n]
    BY <1>3, <1>11
  <2> QED
    BY <2>1, SumSame
<1>16. DOMAIN q.tree = DOMAIN t
  BY <1>5, <1>6, <1>7 DEF Add
<1>17. ASSUME NEW p \in DOMAIN t
       PROVE  q.tree[p] = [files |-> Cardinality(Own(q, p)), bytes |-> SumOver(Own(q, p), y)]
  <2>1. t[p] = [files |-> Cardinality(Own(r, p)), bytes |-> SumOver(Own(r, p), z)]
    BY <1>8
  <2>2. CASE ~(Kind[e] # "Directory" /\ p = F)
    <3>1. q.tree[p] = t[p]
      BY <1>5, <1>6, <1>7, <1>8, <2>2 DEF Add
    <3>2. Own(q, p) = Own(r, p) /\ SumOver(Own(r, p), y) = SumOver(Own(r, p), z)
      BY <1>13, <1>15, <2>2
    <3> QED
      BY <2>1, <3>1, <3>2
  <2>3. CASE Kind[e] # "Directory" /\ p = F
    <3>1. q.tree[p] = Counted(t[p], size)
      BY <1>5, <1>6, <1>7, <1>8, <2>3 DEF Add
    <3>2. PICK S : S = Own(r, p)
      OBVIOUS
    <3>3. Own(q, p) = S \cup {N + 1} /\ S \subseteq 1 .. N
      BY <1>11, <1>14, <2>3, <3>2
    <3>4. IsFiniteSet(S) /\ N + 1 \notin S
      BY <1>2, <1>9, <3>3, FS_Subset
    <3>5. Cardinality(S \cup {N + 1}) = Cardinality(S) + 1
      BY <3>4, FS_AddElement
    <3>6. \A n \in S : y[n] \in Nat
      BY <1>2, <1>3, <3>3
    <3>7. SumOver(S \cup {N + 1}, y) = SumOver(S, y) + size
      BY <1>3, <3>4, <3>6, SumMore
    <3>8. SumOver(S, y) = SumOver(S, z)
      BY <1>15, <3>2
    <3> QED
      BY <2>1, <3>1, <3>2, <3>3, <3>5, <3>7, <3>8 DEF Counted
  <2> QED
    BY <2>2, <2>3
<1>18. q.tree = [p \in DOMAIN t |-> q.tree[p]]
  <2>1. CASE Kind[e] = "Directory"
    BY <1>6, <1>7, <1>8, <2>1 DEF Add
  <2>2. CASE Kind[e] # "Directory"
    <3>1. q.tree = [t EXCEPT ![F] = Counted(@, size)]
      BY <1>5, <1>6, <1>7, <2>2 DEF Add
    <3> QED
      BY <1>8, <3>1
  <2> QED
    BY <2>1, <2>2
<1>19. [p \in DOMAIN t |-> q.tree[p]] =
       [p \in DOMAIN t |-> [files |-> Cardinality(Own(q, p)), bytes |-> SumOver(Own(q, p), y)]]
  BY <1>17
<1>20. \A n \in 1 .. N + 1 : Kind[q.flat[n].path] # "Directory" => Front(q.flat[n].path) \in DOMAIN t
  <2>1. \A n \in 1 .. N : Kind[q.flat[n].path] # "Directory" => Front(q.flat[n].path) \in DOMAIN t
    BY <1>1, <1>3, <1>8 DEF Grows
  <2>2. Kind[e] # "Directory" => Front(e) \in DOMAIN t
    BY <1>5, <1>6, <1>8
  <2> QED
    BY <1>3, <1>9, <2>1, <2>2
<1>21. q.tree = [p \in DOMAIN q.tree |-> [files |-> Cardinality(Own(q, p)), bytes |-> SumOver(Own(q, p), Sizes(q))]]
  BY <1>1, <1>16, <1>18, <1>19
<1> QED
  BY <1>3, <1>8, <1>16, <1>20, <1>21 DEF Grows

\* The volume that is walked takes its share of the bytes.
LEMMA VolumeGrows ==
    ASSUME NEW r, r.volumes \in Seq(Summary), r.volumes # <<>>, NEW size \in Nat,
           NEW q, NEW v, v = Len(r.volumes), NEW u \in Summary, u.bytes = r.volumes[v].bytes + size,
           q.volumes = [r.volumes EXCEPT ![v] = u]
    PROVE  /\ q.volumes \in Seq(Summary) /\ q.volumes # <<>>
           /\ SumOver(DOMAIN q.volumes, VolumeBytes(q)) = SumOver(DOMAIN r.volumes, VolumeBytes(r)) + size
<1>1. PICK f \in Seq(Summary) : f = r.volumes
  OBVIOUS
<1>2. v \in Nat \ {0} /\ DOMAIN f = 1 .. v /\ Len(f) = v /\ \A i \in 1 .. v : f[i] \in Summary
  BY <1>1
<1>3. PICK g : g = [f EXCEPT ![v] = u]
  OBVIOUS
<1>4. g \in Seq(Summary) /\ Len(g) = v /\ DOMAIN g = 1 .. v
  BY <1>2, <1>3
<1>5. g[v] = u /\ \A i \in 1 .. v : i # v => g[i] = f[i]
  BY <1>2, <1>3
<1>6. q.volumes = g
  BY <1>1, <1>3
<1>7. PICK z, y, S : z = VolumeBytes(r) /\ y = VolumeBytes(q) /\ S = 1 .. v - 1
  OBVIOUS
<1>8. \A i \in 1 .. v : z[i] = f[i].bytes /\ y[i] = g[i].bytes
  BY <1>1, <1>2, <1>4, <1>6, <1>7 DEF VolumeBytes
<1>9. \A i \in 1 .. v : z[i] \in Nat
  BY <1>2, <1>8 DEF Summary
<1>10. y[v] = z[v] + size /\ \A i \in S : y[i] = z[i]
  <2>1. v \in 1 .. v /\ \A i \in S : i \in 1 .. v /\ i # v
    BY <1>2, <1>7
  <2> QED
    BY <1>1, <1>5, <1>8, <2>1
<1>11. \A i \in 1 .. v : y[i] \in Nat
  <2>1. \A i \in 1 .. v : g[i] \in Summary
    BY <1>4
  <2> QED
    BY <1>8, <2>1 DEF Summary
<1>12. SumOver(1 .. v, y) = SumOver(S, y) + y[v]
  <2>1. SumOver(1 .. v, y) = SumOver(1 .. v - 1, y) + y[v]
    BY <1>2, <1>11, SumLast
  <2> QED
    BY <1>7, <2>1
<1>13. SumOver(1 .. v, z) = SumOver(S, z) + z[v] /\ SumOver(S, z) \in Nat /\ z[v] \in Nat
  <2>1. SumOver(1 .. v, z) = SumOver(1 .. v - 1, z) + z[v] /\ SumOver(1 .. v - 1, z) \in Nat
    BY <1>2, <1>9, SumLast
  <2>2. z[v] \in Nat
    BY <1>2, <1>9
  <2> QED
    BY <1>7, <2>1, <2>2
<1>14. SumOver(S, y) = SumOver(S, z)
  BY <1>10, SumSame
<1>15. PICK a \in Nat, b \in Nat : a = SumOver(S, z) /\ b = z[v]
  BY <1>13
<1>16. SumOver(1 .. v, y) = a + (b + size) /\ SumOver(1 .. v, z) = a + b
  BY <1>10, <1>12, <1>13, <1>14, <1>15
<1>17. g # <<>>
  BY <1>2, <1>4
<1>18. SumOver(1 .. v, y) = SumOver(1 .. v, z) + size
  BY <1>16
<1> QED
  BY <1>1, <1>2, <1>4, <1>6, <1>7, <1>17, <1>18

\* A new volume has none.
LEMMA VolumeBegins ==
    ASSUME NEW r, r.volumes \in Seq(Summary), NEW root \in Seq(STRING),
           NEW q, q.volumes = Append(r.volumes, Volume(root))
    PROVE  /\ q.volumes \in Seq(Summary) /\ q.volumes # <<>>
           /\ SumOver(DOMAIN q.volumes, VolumeBytes(q)) = SumOver(DOMAIN r.volumes, VolumeBytes(r))
<1>1. PICK f \in Seq(Summary) : f = r.volumes
  OBVIOUS
<1>2. PICK x : x = Volume(root) /\ x \in Summary /\ x.bytes = 0
  <2>1. PICK x : x = Volume(root)
    OBVIOUS
  <2>2. x = [root |-> root, bytes |-> 0, files |-> 0, dirs |-> 0]
    BY <2>1 DEF Volume
  <2>3. x \in Summary /\ x.bytes = 0
    BY <2>2 DEF Summary
  <2> QED
    BY <2>1, <2>3
<1>3. PICK g \in Seq(Summary) : g = Append(f, x)
  <2>1. Append(f, x) \in Seq(Summary)
    BY <1>2
  <2> QED
    BY <2>1
<1>4. PICK v, S : v \in Nat /\ v = Len(f) /\ S = 1 .. v
  <2>1. Len(f) \in Nat
    OBVIOUS
  <2> QED
    BY <2>1
<1>5. /\ DOMAIN f = S /\ DOMAIN g = S \cup {v + 1} /\ v + 1 \notin S /\ g[v + 1] = x
      /\ \A i \in S : g[i] = f[i] /\ f[i] \in Summary
  BY <1>3, <1>4
<1>6. q.volumes = g
  BY <1>1, <1>2, <1>3
<1>7. PICK z, y : z = VolumeBytes(r) /\ y = VolumeBytes(q)
  OBVIOUS
<1>8. (\A i \in S : z[i] = f[i].bytes /\ y[i] = f[i].bytes) /\ y[v + 1] = 0
  BY <1>1, <1>2, <1>5, <1>6, <1>7 DEF VolumeBytes
<1>9. \A i \in S : y[i] = z[i] /\ y[i] \in Nat
  BY <1>5, <1>8 DEF Summary
<1>10. IsFiniteSet(S)
  <2>1. 1 \in Int /\ v \in Int
    BY <1>4
  <2> QED
    BY <1>4, <2>1, FS_Interval
<1>11. SumOver(S \cup {v + 1}, y) = SumOver(S, y) + y[v + 1] /\ SumOver(S, y) \in Nat
  <2>1. PICK k : k = v + 1
    OBVIOUS
  <2>2. k \notin S /\ y[k] \in Nat /\ \A i \in S : y[i] \in Nat
    BY <1>5, <1>8, <1>9, <2>1
  <2>3. SumOver(S \cup {k}, y) = SumOver(S, y) + y[k] /\ SumOver(S, y) \in Nat
    BY <1>10, <2>2, SumMore
  <2> QED
    BY <2>1, <2>3
<1>12. SumOver(S, y) = SumOver(S, z)
  BY <1>9, SumSame
<1>13. SumOver(S \cup {v + 1}, y) = SumOver(S, z)
  BY <1>8, <1>11, <1>12
<1>14. g # <<>>
  BY <1>3
<1> QED
  BY <1>1, <1>5, <1>6, <1>7, <1>13, <1>14

\* What the counters of an entry change.
OneMore(r, q, size) ==
    /\ IsResult(q) /\ q.visited = r.visited + 1 /\ q.bytes = r.bytes + size
    /\ q.flat = r.flat /\ q.tree = r.tree
    /\ \E u \in Summary : /\ u.bytes = r.volumes[Len(r.volumes)].bytes + size
                          /\ q.volumes = [r.volumes EXCEPT ![Len(r.volumes)] = u]

LEMMA CountFacts ==
    ASSUME NEW r, IsResult(r), r.volumes \in Seq(Summary), r.volumes # <<>>,
           NEW e, NEW size \in Nat, Kind[e] # "Regular" => size = 0, r.bytes \in Nat,
           NEW q, q = Count(r, e, size)
    PROVE  OneMore(r, q, size)
<1>1. PICK f, v : f \in Seq(Summary) /\ f = r.volumes /\ v = Len(f)
  OBVIOUS
<1>2. v \in DOMAIN f /\ f[v] \in Summary
  BY <1>1
<1>3. PICK w : w = f[v] /\ w \in Summary
  BY <1>2
<1>4. /\ w = [root |-> w.root, bytes |-> w.bytes, files |-> w.files, dirs |-> w.dirs]
       /\ w.root \in Seq(STRING) /\ w.bytes \in Nat /\ w.files \in Nat /\ w.dirs \in Nat
  BY <1>3 DEF Summary
<1>5. CASE Kind[e] = "Regular"
  <2>1. q = [r EXCEPT !.visited = @ + 1, !.indexed = @ + 1, !.bytes = @ + size,
                      !.volumes[v].bytes = @ + size, !.volumes[v].files = @ + 1]
    BY <1>1, <1>5 DEF Count
  <2>2. PICK u : u = [w EXCEPT !.bytes = @ + size, !.files = @ + 1]
    OBVIOUS
  <2>3. u \in Summary /\ u.bytes = w.bytes + size
    <3>1. u = [root |-> w.root, bytes |-> w.bytes + size, files |-> w.files + 1, dirs |-> w.dirs]
      BY <1>4, <2>2
    <3>2. w.bytes + size \in Nat /\ w.files + 1 \in Nat
      BY <1>4
    <3> QED
      BY <1>4, <3>1, <3>2 DEF Summary
  <2>4. /\ IsResult(q) /\ q.visited = r.visited + 1 /\ q.bytes = r.bytes + size
        /\ q.flat = r.flat /\ q.tree = r.tree
    BY <2>1 DEF IsResult
  <2>5. q.volumes = [f EXCEPT ![v] = u]
    BY <1>1, <1>2, <1>3, <2>1, <2>2 DEF IsResult
  <2> QED
    BY <1>1, <1>3, <2>3, <2>4, <2>5 DEF OneMore
<1>6. CASE Kind[e] = "Directory"
  <2>1. q = [r EXCEPT !.visited = @ + 1, !.volumes[v].dirs = @ + 1]
    BY <1>1, <1>6 DEF Count
  <2>2. PICK u : u = [w EXCEPT !.dirs = @ + 1]
    OBVIOUS
  <2>3. u \in Summary /\ u.bytes = w.bytes /\ w.bytes \in Nat
    <3>1. u = [root |-> w.root, bytes |-> w.bytes, files |-> w.files, dirs |-> w.dirs + 1]
      BY <1>4, <2>2
    <3>2. w.dirs + 1 \in Nat
      BY <1>4
    <3> QED
      BY <1>4, <3>1, <3>2 DEF Summary
  <2>4. /\ IsResult(q) /\ q.visited = r.visited + 1 /\ q.bytes = r.bytes
        /\ q.flat = r.flat /\ q.tree = r.tree
    BY <2>1 DEF IsResult
  <2>5. q.volumes = [f EXCEPT ![v] = u]
    BY <1>1, <1>2, <1>3, <2>1, <2>2 DEF IsResult
  <2>6. size = 0 /\ u.bytes = w.bytes + size /\ q.bytes = r.bytes + size
    BY <1>6, <2>3, <2>4
  <2> QED
    BY <1>1, <1>3, <2>3, <2>4, <2>5, <2>6 DEF OneMore
<1>7. CASE Kind[e] # "Regular" /\ Kind[e] # "Directory"
  <2>1. q = [r EXCEPT !.visited = @ + 1]
    BY <1>7 DEF Count
  <2>2. /\ IsResult(q) /\ q.visited = r.visited + 1 /\ q.bytes = r.bytes
        /\ q.flat = r.flat /\ q.tree = r.tree /\ q.volumes = f
    BY <1>1, <2>1 DEF IsResult
  <2>3. f = [f EXCEPT ![v] = w]
    <3>1. f = [i \in DOMAIN f |-> f[i]]
      BY <1>1
    <3> QED
      BY <1>2, <1>3, <3>1
  <2>4. w.bytes \in Nat
    BY <1>4
  <2>5. size = 0 /\ w.bytes = w.bytes + size /\ q.bytes = r.bytes + size
    BY <1>7, <2>2, <2>4
  <2> QED
    BY <1>1, <1>3, <2>2, <2>3, <2>5 DEF OneMore
<1> QED
  BY <1>5, <1>6, <1>7

\* Counters and volumes do not matter to the tree.
LEMMA SameGrows ==
    ASSUME NEW r, NEW q, Grows(r), q.flat = r.flat, q.tree = r.tree
    PROVE  Grows(q) /\ Sizes(q) = Sizes(r)
<1>1. Sizes(q) = Sizes(r) /\ \A p : Own(q, p) = Own(r, p)
  BY DEF Sizes, Own
<1> QED
  BY <1>1 DEF Grows, FlatOk

\* An entry is visited.
LEMMA VisitKeeps == ASSUME TreeInv, Visit PROVE TreeInv'
<1>1. PICK r, q : r = result /\ q = result'
  OBVIOUS
<1>2. /\ IsResult(r) /\ Grows(r) /\ Counts(r) /\ r.volumes # <<>> /\ todo \subseteq Entries /\ pc = "walk"
      /\ roots \in Seq(Seq(STRING)) /\ roots # <<>> /\ pc' = pc /\ roots' = roots
  BY <1>1 DEF TreeInv, Visit
<1>3. PICK e \in todo : \E size \in IF Kind[e] = "Regular" THEN {Size[e], 0} ELSE {0} :
         /\ todo' = todo \ {e}
         /\ q = [Count(r, e, size) EXCEPT !.tree = Add(@, e, size),
                                          !.flat = Append(@, [path |-> e, size |-> size])]
  BY <1>1 DEF Visit
<1>4. PICK size \in IF Kind[e] = "Regular" THEN {Size[e], 0} ELSE {0} :
         /\ todo' = todo \ {e}
         /\ q = [Count(r, e, size) EXCEPT !.tree = Add(@, e, size),
                                          !.flat = Append(@, [path |-> e, size |-> size])]
  BY <1>3
<1>5. e \in Entries /\ size \in Nat /\ (Kind[e] # "Regular" => size = 0)
  BY <1>2, <1>4, ScanAssumption
<1>6. PICK x : x = Count(r, e, size)
  OBVIOUS
<1>7. r.volumes \in Seq(Summary) /\ r.visited = Len(r.flat) /\ r.bytes \in Nat
  <2>1. r.bytes = SumOver(1 .. Len(r.flat), Sizes(r)) /\ FlatOk(r)
    BY <1>2 DEF Counts, Grows
  <2>2. r.bytes \in Nat
    BY <2>1, FlatFacts, PartsAreFinite, SumIsParts
  <2> QED
    BY <1>2, <2>2 DEF Counts
<1>8. /\ IsResult(x) /\ x.visited = r.visited + 1 /\ x.bytes = r.bytes + size
      /\ x.flat = r.flat /\ x.tree = r.tree
      /\ \E u \in Summary : /\ u.bytes = r.volumes[Len(r.volumes)].bytes + size
                            /\ x.volumes = [r.volumes EXCEPT ![Len(r.volumes)] = u]
  <2>1. /\ IsResult(r) /\ r.volumes \in Seq(Summary) /\ r.volumes # <<>> /\ size \in Nat
        /\ (Kind[e] # "Regular" => size = 0) /\ r.bytes \in Nat /\ x = Count(r, e, size)
    BY <1>2, <1>5, <1>6, <1>7
  <2>2. OneMore(r, x, size)
    BY <2>1, CountFacts
  <2> QED
    BY <2>2 DEF OneMore
<1>9. /\ IsResult(q) /\ q.visited = x.visited /\ q.bytes = x.bytes /\ q.volumes = x.volumes
      /\ q.flat = Append(r.flat, [path |-> e, size |-> size]) /\ q.tree = Add(r.tree, e, size)
  BY <1>4, <1>6, <1>8 DEF IsResult
<1>10. Grows(q)
  BY <1>2, <1>5, <1>9, AddGrows
<1>11. /\ Len(q.flat) = Len(r.flat) + 1
       /\ SumOver(1 .. Len(q.flat), Sizes(q)) = SumOver(1 .. Len(r.flat), Sizes(r)) + size
  <2>1. FlatOk(r)
    BY <1>2 DEF Grows
  <2> QED
    BY <1>5, <1>9, <2>1, FlatGrows
<1>12. PICK u \in Summary : /\ u.bytes = r.volumes[Len(r.volumes)].bytes + size
                            /\ x.volumes = [r.volumes EXCEPT ![Len(r.volumes)] = u]
  BY <1>8
<1>13. /\ q.volumes \in Seq(Summary) /\ q.volumes # <<>>
       /\ SumOver(DOMAIN q.volumes, VolumeBytes(q)) = SumOver(DOMAIN r.volumes, VolumeBytes(r)) + size
  <2>1. PICK v : v = Len(r.volumes)
    OBVIOUS
  <2>2. /\ r.volumes \in Seq(Summary) /\ r.volumes # <<>> /\ size \in Nat
        /\ u.bytes = r.volumes[v].bytes + size /\ q.volumes = [r.volumes EXCEPT ![v] = u]
    BY <1>2, <1>5, <1>7, <1>9, <1>12, <2>1
  <2> QED
    BY <2>1, <2>2, VolumeGrows
<1>14. Counts(q)
  <2>1. r.bytes = SumOver(1 .. Len(r.flat), Sizes(r)) /\ r.bytes = SumOver(DOMAIN r.volumes, VolumeBytes(r))
    BY <1>2 DEF Counts
  <2> QED
    BY <1>7, <1>8, <1>9, <1>11, <1>13, <2>1 DEF Counts
<1>15. TreeAgrees'
  BY <1>2 DEF TreeAgrees
<1> QED
  BY <1>1, <1>2, <1>4, <1>9, <1>10, <1>13, <1>14, <1>15 DEF TreeInv

\* A scan begins with a tree of one node.
LEMMA RunBeginsKeeps == ASSUME TreeInv, RunBegins PROVE TreeInv'
<1>1. PICK q : q = result'
  OBVIOUS
<1>2. q = EmptyResult /\ roots' = roots /\ pc' \in {"idle", "roots"}
  BY <1>1 DEF RunBegins
<1>3. /\ IsResult(q) /\ q.flat = <<>> /\ q.volumes = <<>> /\ q.bytes = 0 /\ q.visited = 0
      /\ q.tree = [p \in {<<>>} |-> Nothing]
  BY <1>2 DEF EmptyResult, IsResult
<1>4. Len(<<>>) = 0 /\ 1 .. 0 = {} /\ DOMAIN <<>> = {}
  OBVIOUS
<1>5. \A p : Own(q, p) = {}
  BY <1>3, <1>4 DEF Own
<1>6. NodesOk({<<>>})
  <2>1. IsFiniteSet({<<>>})
    BY FS_Singleton
  <2>2. <<>> \in Seq(STRING)
    OBVIOUS
  <2>3. \A n \in 0 .. Len(<<>>) : SubSeq(<<>>, 1, n) = <<>>
    OBVIOUS
  <2> QED
    BY <2>1, <2>2, <2>3 DEF NodesOk
<1>7. Grows(q)
  <2>1. DOMAIN q.tree = {<<>>}
    BY <1>3
  <2>2. FlatOk(q)
    BY <1>3, <1>4 DEF FlatOk
  <2>3. \A p : Cardinality(Own(q, p)) = 0 /\ SumOver(Own(q, p), Sizes(q)) = 0
    BY <1>5, FS_EmptySet, SumNone
  <2>4. q.tree = [p \in {<<>>} |-> [files |-> Cardinality(Own(q, p)), bytes |-> SumOver(Own(q, p), Sizes(q))]]
    BY <1>3, <2>3 DEF Nothing
  <2>5. \A n \in 1 .. Len(q.flat) : FALSE
    BY <1>3, <1>4
  <2> QED
    BY <1>6, <2>1, <2>2, <2>4, <2>5 DEF Grows
<1>8. Counts(q)
  <2>1. SumOver(1 .. Len(q.flat), Sizes(q)) = 0 /\ SumOver(DOMAIN q.volumes, VolumeBytes(q)) = 0
    BY <1>3, <1>4, SumNone
  <2>2. q.volumes \in Seq(Summary)
    BY <1>3
  <2> QED
    BY <1>3, <1>4, <2>1, <2>2 DEF Counts
<1>9. TreeAgrees'
  BY <1>1, <1>2 DEF TreeAgrees
<1> QED
  BY <1>1, <1>2, <1>3, <1>7, <1>8, <1>9 DEF TreeInv

LEMMA NextRootKeeps == ASSUME TreeInv, NextRoot PROVE TreeInv'
<1>1. PICK r, q : r = result /\ q = result'
  OBVIOUS
<1>2. /\ IsResult(r) /\ Grows(r) /\ Counts(r) /\ pc = "roots" /\ roots \in Seq(Seq(STRING)) /\ roots # <<>>
  BY <1>1 DEF TreeInv, NextRoot
<1>3. Head(roots) \in Seq(STRING) /\ Tail(roots) \in Seq(Seq(STRING))
  BY <1>2
<1>4. CASE Exists(Head(roots))
  <2>1. /\ pc' = "walk" /\ todo' = Under(Head(roots)) /\ roots' = roots
        /\ q = [r EXCEPT !.volumes = Append(@, Volume(Head(roots)))]
    BY <1>1, <1>4 DEF NextRoot
  <2>2. /\ IsResult(q) /\ q.volumes = Append(r.volumes, Volume(Head(roots))) /\ q.flat = r.flat /\ q.tree = r.tree
        /\ q.bytes = r.bytes /\ q.visited = r.visited
    BY <1>2, <2>1 DEF IsResult
  <2>3. Grows(q) /\ Sizes(q) = Sizes(r)
    BY <1>2, <2>2, SameGrows
  <2>4. r.volumes \in Seq(Summary)
    BY <1>2 DEF Counts
  <2>5. /\ q.volumes \in Seq(Summary) /\ q.volumes # <<>>
        /\ SumOver(DOMAIN q.volumes, VolumeBytes(q)) = SumOver(DOMAIN r.volumes, VolumeBytes(r))
    BY <1>3, <2>2, <2>4, VolumeBegins
  <2>6. Counts(q)
    BY <1>2, <2>2, <2>3, <2>5 DEF Counts
  <2>7. todo' \subseteq Entries
    BY <2>1 DEF Under
  <2>8. TreeAgrees'
    BY <2>1 DEF TreeAgrees
  <2> QED
    BY <1>1, <1>2, <2>1, <2>2, <2>3, <2>5, <2>6, <2>7, <2>8 DEF TreeInv
<1>5. CASE ~Exists(Head(roots))
  <2>1. pc' = pc /\ roots' = Tail(roots) /\ q = [r EXCEPT !.errors = @ + 1]
    BY <1>1, <1>5 DEF NextRoot
  <2>2. /\ IsResult(q) /\ q.volumes = r.volumes /\ q.flat = r.flat /\ q.tree = r.tree
        /\ q.bytes = r.bytes /\ q.visited = r.visited
    BY <1>2, <2>1 DEF IsResult
  <2>3. Grows(q) /\ Sizes(q) = Sizes(r)
    BY <1>2, <2>2, SameGrows
  <2>4. Counts(q)
    <3>1. VolumeBytes(q) = VolumeBytes(r)
      BY <2>2 DEF VolumeBytes
    <3> QED
      BY <1>2, <2>2, <2>3, <3>1 DEF Counts
  <2>5. TreeAgrees'
    BY <1>2, <2>1 DEF TreeAgrees
  <2> QED
    BY <1>1, <1>2, <1>3, <2>1, <2>2, <2>3, <2>4, <2>5 DEF TreeInv
<1> QED
  BY <1>4, <1>5

\* The totals of the finished tree.
LEMMA RunEndsKeeps == ASSUME TreeInv, RunEnds PROVE TreeInv'
<1>1. PICK r, q : r = result /\ q = result'
  OBVIOUS
<1>2. IsResult(r) /\ Grows(r) /\ Counts(r) /\ roots' = <<>> /\ pc' = "idle"
  BY <1>1 DEF TreeInv, RunEnds
<1>3. q = [r EXCEPT !.tree = PropagateTotals(r.tree)]
  BY <1>1 DEF RunEnds
<1>4. /\ IsResult(q) /\ q.volumes = r.volumes /\ q.flat = r.flat /\ q.bytes = r.bytes /\ q.visited = r.visited
      /\ q.tree = Totals(r)
  BY <1>2, <1>3, PropagateIsRight DEF IsResult
<1>5. /\ DOMAIN q.tree = DOMAIN r.tree /\ (\A p : FilesBelow(q, p) = FilesBelow(r, p)) /\ Sizes(q) = Sizes(r)
      /\ (\A p : NodesBelow(q.tree, p) = NodesBelow(r.tree, p)) /\ VolumeBytes(q) = VolumeBytes(r)
  <2>1. DOMAIN q.tree = DOMAIN r.tree
    BY <1>4 DEF Totals
  <2> QED
    BY <1>4, <2>1 DEF FilesBelow, NodesBelow, Sizes, VolumeBytes
<1>6. \A p \in DOMAIN q.tree :
         q.tree[p] = [files |-> Cardinality(FilesBelow(q, p)), bytes |-> SumOver(FilesBelow(q, p), Sizes(q)),
                      dirs |-> Cardinality(NodesBelow(q.tree, p))]
  BY <1>4, <1>5 DEF Totals
\* Everything lies below the root, and only files have bytes.
<1>7. q.tree[<<>>].bytes = q.bytes
  <2>1. PICK z, N, B : z = Sizes(r) /\ N = Len(r.flat) /\ B = FilesBelow(r, <<>>)
    OBVIOUS
  <2>2. FlatOk(r) /\ <<>> \in DOMAIN q.tree
    BY <1>2, <1>5 DEF Grows, NodesOk
  <2>3. \A n \in 1 .. N : n \in B <=> Kind[r.flat[n].path] # "Directory"
    <3> SUFFICES ASSUME NEW n \in 1 .. N PROVE IsStrictPrefix(<<>>, r.flat[n].path)
      BY <2>1 DEF FilesBelow
    <3>1. PICK t : t = r.flat[n].path /\ t \in Seq(STRING) /\ t # <<>>
      BY <2>1, <2>2, FlatFacts
    <3>2. Len(<<>>) < Len(t) /\ <<>> \in Seq(STRING) /\ \A i \in 1 .. Len(<<>>) : <<>>[i] = t[i]
      BY <3>1
    <3> QED
      BY <3>1, <3>2, BeginsStrictly
  <2>4. \A n \in 1 .. N : n \notin B => z[n] = 0
    BY <2>1, <2>2, <2>3, FlatFacts DEF FlatOk
  <2>5. B \subseteq 1 .. N
    BY <2>1 DEF FilesBelow
  <2>6. Parts(B, z) = Parts(1 .. N, z)
    <3>1. \A n \in 1 .. N : n \notin B => {n} \X (1 .. z[n]) = {}
      BY <2>4
    <3> QED
      BY <2>5, <3>1 DEF Parts
  <2>7. q.tree[<<>>].bytes = SumOver(B, z)
    <3>1. q.tree[<<>>] = [files |-> Cardinality(B), bytes |-> SumOver(B, z),
                          dirs |-> Cardinality(NodesBelow(q.tree, <<>>))]
      BY <1>5, <1>6, <2>1, <2>2
    <3> QED
      BY <3>1
  <2>8. q.bytes = SumOver(1 .. N, z)
    BY <1>2, <1>4, <2>1 DEF Counts
  <2> QED
    BY <2>6, <2>7, <2>8, SumIsParts
<1>8. TreeAgrees'
  <2>1. q.bytes = SumOver(DOMAIN q.volumes, VolumeBytes(q)) /\ q.visited = Len(q.flat)
    BY <1>2, <1>4, <1>5 DEF Counts
  <2> QED
    BY <1>1, <1>6, <1>7, <2>1 DEF TreeAgrees, VolumeBytes
<1> QED
  BY <1>1, <1>2, <1>4, <1>8 DEF TreeInv

LEMMA TreeInitInv == ScanInit => TreeInv
<1> SUFFICES ASSUME ScanInit PROVE TreeInv
  OBVIOUS
<1>1. IsResult(result)
  BY DEF ScanInit, EmptyResult, IsResult
<1>2. TreeAgrees
  BY DEF ScanInit, TreeAgrees
<1> QED
  BY <1>1, <1>2 DEF ScanInit, TreeInv

LEMMA TreeNextInv == TreeInv /\ [ScanNext]_scanVars => TreeInv'
<1> SUFFICES ASSUME TreeInv, [ScanNext]_scanVars PROVE TreeInv'
  OBVIOUS
<1>1. ASSUME result' = result, pc' = pc, roots' = roots, todo' = todo PROVE TreeInv'
  BY <1>1 DEF TreeInv, TreeAgrees
<1>2. ASSUME NEW list \in Requests \cup {Volumes}, ScanRoots(list) PROVE TreeInv'
  <2>1. list \in Seq(Seq(STRING)) /\ result' = result /\ pc' = "queued" /\ roots' = list
    BY <1>2, ScanAssumption DEF ScanRoots
  <2>2. TreeAgrees'
    BY <2>1 DEF TreeAgrees
  <2> QED
    BY <2>1, <2>2 DEF TreeInv
<1>3. CASE ScanAll
  <2>1. CASE notice' = "error" /\ UNCHANGED <<busy, shown, files, events, engine, scans>>
    BY <1>1, <2>1 DEF engine
  <2> QED
    BY <1>2, <1>3, <2>1 DEF ScanAll
<1>4. CASE CancelScan
  BY <1>1, <1>4 DEF CancelScan
<1>5. CASE Deliver
  BY <1>1, <1>5 DEF Deliver, engine
<1>6. CASE RootDone
  <2>1. pc' = "roots" /\ roots' = Tail(roots) /\ result' = result /\ pc = "walk"
    BY <1>6 DEF RootDone
  <2>2. TreeAgrees'
    BY <2>1 DEF TreeAgrees
  <2>3. roots' \in Seq(Seq(STRING))
    <3>1. roots \in Seq(Seq(STRING)) /\ roots # <<>>
      BY <2>1 DEF TreeInv
    <3>2. Tail(roots) \in Seq(Seq(STRING))
      BY <3>1
    <3> QED
      BY <2>1, <3>2
  <2> QED
    BY <2>1, <2>2, <2>3 DEF TreeInv
<1>7. CASE UNCHANGED scanVars
  BY <1>1, <1>7 DEF scanVars, engine
<1> QED
  BY <1>2, <1>3, <1>4, <1>5, <1>6, <1>7, VisitKeeps, RunBeginsKeeps, NextRootKeeps, RunEndsKeeps
     DEF ScanNext, Scanning

\* Whatever is on disk and however often roots overlap, in whichever order
\* entries come and whenever the user cancels: when a scan has ended, every
\* node of its tree has the files, bytes and directories below it, and the
\* tree, the counters and the volumes agree.
THEOREM TreeIsRight == ScanSpec => []TreeAgrees
<1>1. TreeInv => TreeAgrees
  BY DEF TreeInv
<1> QED
  BY <1>1, TreeInitInv, TreeNextInv, PTL DEF ScanSpec

(***************************************************************************)
(* Searches for duplicates.                                                *)
(***************************************************************************)
\* q lists the files of S, each of them once.
Lists(q, S) ==
    /\ q \in Seq(AllFiles) /\ ToSet(q) = S
    /\ \A i, j \in 1 .. Len(q) : q[i] = q[j] => i = j

\* A map that holds the files of S by their keys.
Sorts(map, S, key) ==
    /\ DOMAIN map = {key[f] : f \in S}
    /\ \A k \in DOMAIN map : Lists(map[k], {f \in S : key[f] = k})

\* What a list of files holds.
LEMMA InList ==
    ASSUME NEW q \in Seq(AllFiles)
    PROVE  ToSet(q) = {q[i] : i \in 1 .. Len(q)} /\ ToSet(q) \subseteq AllFiles /\ Len(q) \in Nat
<1>1. DOMAIN q = 1 .. Len(q) /\ Len(q) \in Nat /\ \A i \in 1 .. Len(q) : q[i] \in AllFiles
  OBVIOUS
<1> QED
  BY <1>1 DEF ToSet

\* The list of no files.
LEMMA ListsNone == Lists(<<>>, {})
  BY DEF Lists, ToSet

\* An empty list lists nothing.
LEMMA ListsEmpty == ASSUME NEW S, NEW q, Lists(q, S) PROVE q = <<>> <=> S = {}
<1>1. q \in Seq(AllFiles) /\ S = {q[i] : i \in 1 .. Len(q)} /\ Len(q) \in Nat
  BY InList DEF Lists
<1>2. q = <<>> <=> Len(q) = 0
  BY <1>1
<1>3. ASSUME Len(q) # 0 PROVE S # {}
  <2>1. 1 \in 1 .. Len(q)
    BY <1>1, <1>3
  <2> QED
    BY <1>1, <2>1
<1>4. ASSUME Len(q) = 0 PROVE S = {}
  BY <1>1, <1>4
<1> QED
  BY <1>2, <1>3, <1>4

\* A file that is taken from the front of a list.
LEMMA ListsTail ==
    ASSUME NEW S, NEW q, Lists(q, S), q # <<>>
    PROVE  Head(q) \in S /\ Head(q) \in AllFiles /\ Lists(Tail(q), S \ {Head(q)})
<1>1. /\ q \in Seq(AllFiles) /\ S = {q[i] : i \in 1 .. Len(q)} /\ Len(q) \in Nat
      /\ \A i, j \in 1 .. Len(q) : q[i] = q[j] => i = j
  BY InList DEF Lists
<1>2. PICK t \in Seq(AllFiles) : t = Tail(q)
  <2>1. Tail(q) \in Seq(AllFiles)
    BY <1>1
  <2> QED
    BY <2>1
<1>3. Len(q) > 0 /\ Len(t) = Len(q) - 1 /\ Head(q) = q[1] /\ \A i \in 1 .. Len(t) : t[i] = q[i + 1]
  BY <1>1, <1>2
<1>4. Head(q) \in S /\ Head(q) \in AllFiles
  BY <1>1, <1>3
<1>5. ToSet(t) = {t[i] : i \in 1 .. Len(t)} /\ Len(t) \in Nat
  BY InList
<1>6. \A i, j \in 1 .. Len(t) : t[i] = t[j] => i = j
  <2> SUFFICES ASSUME NEW i \in 1 .. Len(t), NEW j \in 1 .. Len(t), t[i] = t[j]
               PROVE  i = j
    OBVIOUS
  <2>1. i + 1 \in 1 .. Len(q) /\ j + 1 \in 1 .. Len(q) /\ q[i + 1] = q[j + 1]
    BY <1>1, <1>3
  <2>2. i + 1 = j + 1
    BY <1>1, <2>1
  <2> QED
    BY <2>2
<1>7. ToSet(t) = S \ {Head(q)}
  <2>1. ASSUME NEW f \in ToSet(t) PROVE f \in S \ {q[1]}
    <3>1. PICK i \in 1 .. Len(t) : f = t[i]
      BY <1>5
    <3>2. i + 1 \in 1 .. Len(q) /\ 1 \in 1 .. Len(q) /\ i + 1 # 1 /\ f = q[i + 1]
      BY <1>1, <1>3, <3>1
    <3> QED
      BY <1>1, <3>2
  <2>2. ASSUME NEW f \in S \ {q[1]} PROVE f \in ToSet(t)
    <3>1. PICK i \in 1 .. Len(q) : f = q[i]
      BY <1>1
    <3>2. i - 1 \in 1 .. Len(t) /\ f = t[i - 1]
      BY <1>1, <1>3, <3>1
    <3> QED
      BY <1>5, <3>2
  <2> QED
    BY <1>3, <2>1, <2>2
<1> QED
  BY <1>2, <1>4, <1>6, <1>7 DEF Lists

\* One file more at its end.
LEMMA ListsMore ==
    ASSUME NEW S, NEW q, Lists(q, S), NEW f \in AllFiles, f \notin S
    PROVE  Lists(Append(q, f), S \cup {f})
<1>1. /\ q \in Seq(AllFiles) /\ S = {q[i] : i \in 1 .. Len(q)} /\ Len(q) \in Nat
      /\ \A i, j \in 1 .. Len(q) : q[i] = q[j] => i = j
  BY InList DEF Lists
<1>2. PICK t \in Seq(AllFiles) : t = Append(q, f)
  <2>1. Append(q, f) \in Seq(AllFiles)
    BY <1>1
  <2> QED
    BY <2>1
<1>3. Len(t) = Len(q) + 1 /\ t[Len(q) + 1] = f /\ \A i \in 1 .. Len(q) : t[i] = q[i]
  BY <1>1, <1>2
<1>4. ToSet(t) = {t[i] : i \in 1 .. Len(t)}
  BY InList
<1>5. 1 .. Len(t) = 1 .. Len(q) \cup {Len(q) + 1}
  BY <1>1, <1>3
<1>6. ToSet(t) = S \cup {f}
  BY <1>1, <1>3, <1>4, <1>5
<1>7. \A i, j \in 1 .. Len(t) : t[i] = t[j] => i = j
  <2> SUFFICES ASSUME NEW i \in 1 .. Len(t), NEW j \in 1 .. Len(t), t[i] = t[j]
               PROVE  i = j
    OBVIOUS
  <2>1. \A k \in 1 .. Len(q) : t[k] # f
    BY <1>1, <1>3
  <2> QED
    BY <1>1, <1>3, <1>5, <2>1
<1> QED
  BY <1>2, <1>6, <1>7 DEF Lists

\* A list is as long as its files are many.
LEMMA ListsCount ==
    ASSUME NEW S, NEW q, Lists(q, S)
    PROVE  IsFiniteSet(S) /\ Cardinality(S) = Len(q)
<1>1. /\ q \in Seq(AllFiles) /\ S = {q[i] : i \in 1 .. Len(q)} /\ Len(q) \in Nat
      /\ \A i, j \in 1 .. Len(q) : q[i] = q[j] => i = j
  BY InList DEF Lists
<1>2. q \in [1 .. Len(q) -> S]
  BY <1>1
<1>3. q \in Bijection(1 .. Len(q), S)
  BY <1>1, <1>2 DEF Bijection, Injection, Surjection, IsInjective
<1> QED
  BY <1>1, <1>3, FS_CountingElements, FS_NatBijection DEF ExistsBijection

\* map[key].push_back keeps a map in order.
LEMMA PushSorts ==
    ASSUME NEW map, NEW S, NEW key, Sorts(map, S, key), NEW f \in AllFiles, f \notin S
    PROVE  Sorts(Pushed(map, key[f], f), S \cup {f}, key)
<1>1. PICK new, T, x : new = Pushed(map, key[f], f) /\ T = S \cup {f} /\ x = key[f]
  OBVIOUS
<1>2. new = [k \in DOMAIN map \cup {x} |->
               IF k # x THEN map[k] ELSE IF k \in DOMAIN map THEN Append(map[k], f) ELSE <<f>>]
  BY <1>1 DEF Pushed
<1>3. DOMAIN new = DOMAIN map \cup {x}
  BY <1>2
<1>4. DOMAIN new = {key[g] : g \in T}
  BY <1>1, <1>3 DEF Sorts
<1>5. ASSUME NEW k \in DOMAIN new PROVE Lists(new[k], {g \in T : key[g] = k})
  <2>1. CASE k # x
    <3>1. new[k] = map[k] /\ k \in DOMAIN map
      BY <1>2, <1>3, <2>1
    <3>2. {g \in T : key[g] = k} = {g \in S : key[g] = k}
      BY <1>1, <2>1
    <3> QED
      BY <3>1, <3>2 DEF Sorts
  <2>2. CASE k = x /\ k \in DOMAIN map
    <3>1. new[k] = Append(map[k], f)
      BY <1>2, <1>3, <2>2
    <3>2. {g \in T : key[g] = k} = {g \in S : key[g] = k} \cup {f}
      BY <1>1, <2>2
    <3>3. Lists(map[k], {g \in S : key[g] = k})
      BY <2>2 DEF Sorts
    <3>4. Lists(Append(map[k], f), {g \in S : key[g] = k} \cup {f})
      BY <3>3, ListsMore
    <3> QED
      BY <3>1, <3>2, <3>4
  <2>3. CASE k = x /\ k \notin DOMAIN map
    <3>1. new[k] = <<f>>
      BY <1>2, <1>3, <2>3
    <3>2. {g \in T : key[g] = k} = {} \cup {f}
      BY <1>1, <2>3 DEF Sorts
    <3>3. Lists(Append(<<>>, f), {} \cup {f})
      BY ListsNone, ListsMore
    <3>4. Append(<<>>, f) = <<f>>
      OBVIOUS
    <3> QED
      BY <3>1, <3>2, <3>3, <3>4
  <2> QED
    BY <2>1, <2>2, <2>3
<1> QED
  BY <1>1, <1>4, <1>5 DEF Sorts

\* A map that holds nothing.
LEMMA SortsNone == ASSUME NEW key PROVE Sorts(<<>>, {}, key)
<1>1. DOMAIN <<>> = {}
  OBVIOUS
<1> QED
  BY <1>1 DEF Sorts

\* The roots, one after the other.
LEMMA RootsTail ==
    ASSUME NEW q \in Seq(DOMAIN FilesIn), Apart(q), q # <<>>
    PROVE  /\ Tail(q) \in Seq(DOMAIN FilesIn) /\ Apart(Tail(q))
           /\ Lists(FilesIn[Head(q)], ToSet(FilesIn[Head(q)]))
           /\ ToSet(FilesIn[Head(q)]) \cap Reached(Tail(q)) = {}
           /\ Reached(q) = ToSet(FilesIn[Head(q)]) \cup Reached(Tail(q))
<1>1. PICK t \in Seq(DOMAIN FilesIn) : t = Tail(q)
  <2>1. Tail(q) \in Seq(DOMAIN FilesIn)
    OBVIOUS
  <2> QED
    BY <2>1
<1>2. /\ Len(q) \in Nat /\ Len(q) > 0 /\ Len(t) = Len(q) - 1 /\ Head(q) = q[1]
      /\ \A i \in 1 .. Len(t) : t[i] = q[i + 1] /\ i + 1 \in 1 .. Len(q) /\ i + 1 # 1
      /\ \A i \in 1 .. Len(q) : q[i] \in DOMAIN FilesIn
      /\ DOMAIN q = 1 .. Len(q) /\ DOMAIN t = 1 .. Len(t) /\ 1 \in 1 .. Len(q)
  BY <1>1
<1>3. PICK F : F = FilesIn[q[1]]
  OBVIOUS
<1>4. F \in Seq(AllFiles) /\ DOMAIN F = 1 .. Len(F)
  BY <1>2, <1>3, DuplicatesAssumption
<1>5. \A i, j \in 1 .. Len(q) : \A k \in DOMAIN FilesIn[q[i]], l \in DOMAIN FilesIn[q[j]] :
         FilesIn[q[i]][k] = FilesIn[q[j]][l] => i = j /\ k = l
  BY <1>2 DEF Apart
<1>6. Apart(t)
  <2> SUFFICES ASSUME NEW i \in 1 .. Len(t), NEW j \in 1 .. Len(t),
                      NEW k \in DOMAIN FilesIn[t[i]], NEW l \in DOMAIN FilesIn[t[j]],
                      FilesIn[t[i]][k] = FilesIn[t[j]][l]
               PROVE  i = j /\ k = l
    BY <1>2 DEF Apart
  <2>1. PICK m \in 1 .. Len(q), n \in 1 .. Len(q) : m = i + 1 /\ n = j + 1 /\ t[i] = q[m] /\ t[j] = q[n]
    BY <1>2
  <2>2. m = n /\ k = l
    BY <1>5, <2>1
  <2> QED
    BY <2>1, <2>2
<1>7. Lists(F, ToSet(F))
  <2>1. \A k, l \in DOMAIN FilesIn[q[1]] : FilesIn[q[1]][k] = FilesIn[q[1]][l] => k = l
    BY <1>2, <1>5
  <2>2. \A k, l \in 1 .. Len(F) : F[k] = F[l] => k = l
    BY <1>3, <1>4, <2>1
  <2> QED
    BY <1>4, <2>2 DEF Lists
<1>8. Reached(t) = UNION {ToSet(FilesIn[t[i]]) : i \in 1 .. Len(t)}
  BY <1>2 DEF Reached
<1>9. Reached(q) = UNION {ToSet(FilesIn[q[i]]) : i \in 1 .. Len(q)}
  BY <1>2 DEF Reached
<1>10. ToSet(F) \cap Reached(t) = {}
  <2> SUFFICES ASSUME NEW f, f \in ToSet(F), f \in Reached(t) PROVE FALSE
    OBVIOUS
  <2>1. PICK i \in 1 .. Len(t) : f \in ToSet(FilesIn[t[i]])
    BY <1>8
  <2>2. PICK m \in 1 .. Len(q) : m # 1 /\ t[i] = q[m]
    BY <1>2
  <2>3. PICK k \in DOMAIN F, l \in DOMAIN FilesIn[q[m]] : F[k] = f /\ FilesIn[q[m]][l] = f
    BY <2>1, <2>2 DEF ToSet
  <2> QED
    BY <1>2, <1>3, <1>5, <2>2, <2>3
<1>11. Reached(q) = ToSet(F) \cup Reached(t)
  <2>1. ASSUME NEW f \in Reached(q) PROVE f \in ToSet(F) \cup Reached(t)
    <3>1. PICK i \in 1 .. Len(q) : f \in ToSet(FilesIn[q[i]])
      BY <1>9
    <3>2. CASE i = 1
      BY <1>3, <3>1, <3>2
    <3>3. CASE i # 1
      <4>1. PICK j \in 1 .. Len(t) : j = i - 1 /\ t[j] = q[i]
        BY <1>2, <3>3
      <4> QED
        BY <1>8, <3>1, <4>1
    <3> QED
      BY <3>2, <3>3
  <2>2. ASSUME NEW f \in Reached(t) PROVE f \in Reached(q)
    BY <1>2, <1>8, <1>9, <2>2
  <2>3. ToSet(F) \subseteq Reached(q)
    BY <1>2, <1>3, <1>9
  <2> QED
    BY <2>1, <2>2, <2>3
<1> QED
  BY <1>1, <1>2, <1>3, <1>6, <1>7, <1>10, <1>11

-----------------------------------------------------------------------------
\* What is on a disk.
DiskOk(d) == AllFiles \subseteq DOMAIN d /\ \A f \in DOMAIN d : d[f] # Gone => d[f] \in Seq(Nat)

IsSearch(r) ==
    r = [at |-> r.at, asked |-> r.asked, roots |-> r.roots, todo |-> r.todo, ec |-> r.ec,
         candidates |-> r.candidates, bySize |-> r.bySize, pending |-> r.pending, size |-> r.size,
         byDigest |-> r.byDigest, clusters |-> r.clusters, clean |-> r.clean, truth |-> r.truth]

Present(r) == {f \in Reached(r.asked) : r.truth[f] # Gone}
SizesOf(d) == [f \in DOMAIN d |-> Len(d[f])]

\* Every file that there is has been collected, or is still to come.
Collecting(r) ==
    /\ ~r.ec /\ r.roots \in Seq(DOMAIN FilesIn) /\ Apart(r.roots)
    /\ Lists(r.todo, ToSet(r.todo)) /\ Lists(r.candidates, ToSet(r.candidates))
    /\ ToSet(r.todo) \cap Reached(r.roots) = {}
    /\ ToSet(r.candidates) \cap (ToSet(r.todo) \cup Reached(r.roots)) = {}
    /\ ToSet(r.candidates) \cup {f \in ToSet(r.todo) \cup Reached(r.roots) : r.truth[f] # Gone} = Present(r)
    /\ r.bySize = <<>> /\ r.byDigest = <<>> /\ r.clusters = {}

Measuring(r) ==
    /\ Lists(r.todo, ToSet(r.todo)) /\ ToSet(r.todo) \subseteq Present(r)
    /\ Sorts(r.bySize, Found(r) \ ToSet(r.todo), SizesOf(r.truth))
    /\ r.byDigest = <<>> /\ r.clusters = {}

\* The clusters are the classes, of more than one file, of the files of S.
Right(r, S) ==
    /\ \A c \in r.clusters : \E f \in S :
         /\ Lists(c.files, Same(r, f)) /\ Len(c.files) >= 2 /\ c.size = Len(r.truth[f])
    /\ \A f \in S : Cardinality(Same(r, f)) >= 2 => \E c \in r.clusters : ToSet(c.files) = Same(r, f)
    /\ \A c, d \in r.clusters : c # d => ToSet(c.files) \cap ToSet(d.files) = {}

\* The files whose size is not among these.
Done(r, sizes) == {f \in Found(r) : Len(r.truth[f]) \notin sizes}

Grouping(r) ==
    /\ Sorts(r.bySize, Found(r), SizesOf(r.truth)) /\ r.pending \subseteq Shared(r.bySize)
    /\ r.byDigest = <<>> /\ Right(r, Done(r, r.pending))

Hashing(r) ==
    /\ Sorts(r.bySize, Found(r), SizesOf(r.truth)) /\ r.pending \subseteq Shared(r.bySize)
    /\ r.size \in DOMAIN r.bySize /\ r.size \notin r.pending
    /\ Lists(r.todo, ToSet(r.todo)) /\ ToSet(r.todo) \subseteq ToSet(r.bySize[r.size])
    /\ Sorts(r.byDigest, ToSet(r.bySize[r.size]) \ ToSet(r.todo), r.truth)
    /\ Right(r, Done(r, r.pending \cup {r.size}))

\* A search that nothing has disturbed is right at every stage.
SearchOk(r, d) ==
    /\ IsSearch(r)
    /\ r.at \in {"idle", "collect", "measure", "group", "hash", "ended", "lost"}
    /\ r.at # "idle" => DiskOk(r.truth) /\ r.asked \in Seq(DOMAIN FilesIn)
    /\ r.clean /\ Apart(r.asked) =>
         /\ r.at \in {"collect", "measure", "group", "hash"} => r.truth = d
         /\ r.at = "collect" => Collecting(r)
         /\ r.at = "measure" => Measuring(r)
         /\ r.at = "group" => Grouping(r)
         /\ r.at = "hash" => Hashing(r)
         /\ r.at = "ended" => Right(r, Found(r))
         /\ r.at # "lost"

\* A result that waits or is shown has the total of its clusters.
PageOk ==
    /\ posts \in Seq(ToSet(posts))
    /\ \A i \in DOMAIN posts : posts[i].total = Total(ToSet(posts[i].list))
    /\ totalRecoverable = Total(ToSet(clusterList))

DupInv ==
    /\ DiskOk(disk) /\ search = [s \in Searches |-> search[s]]
    /\ \A s \in Searches : SearchOk(search[s], disk)
    /\ PageOk

\* What a search is for depends on its roots and what the files were.
LEMMA SameFound ==
    ASSUME NEW r, NEW q, q.asked = r.asked, q.truth = r.truth
    PROVE  /\ Found(q) = Found(r) /\ Present(q) = Present(r)
           /\ \A f : Same(q, f) = Same(r, f)
           /\ \A S : Done(q, S) = Done(r, S)
  BY DEF Found, Present, Same, Done

\* A step of one search.
LEMMA StepKeeps ==
    ASSUME DupInv, NEW s \in Searches, NEW q, SearchOk(q, disk), Goes(s, q)
    PROVE  DupInv'
<1>1. /\ search' = [search EXCEPT ![s] = q]
      /\ UNCHANGED <<disk, posts, clusterList, totalRecoverable>>
  BY DEF Goes
<1>2. search' = [t \in Searches |-> IF t = s THEN q ELSE search[t]]
  BY <1>1 DEF DupInv
<1>3. search' = [t \in Searches |-> search'[t]] /\ \A t \in Searches : SearchOk(search'[t], disk')
  BY <1>1, <1>2 DEF DupInv
<1>4. PageOk' /\ DiskOk(disk')
  BY <1>1 DEF DupInv, PageOk
<1> QED
  BY <1>3, <1>4 DEF DupInv

\* A search in which a call has failed may be anything.
LEMMA FailKeeps ==
    ASSUME DupInv, NEW s \in Searches, NEW q, Fails(s, q), IsSearch(q), q.at # "idle",
           q.at \in {"collect", "measure", "group", "hash", "ended", "lost"},
           DiskOk(q.truth), q.asked \in Seq(DOMAIN FilesIn)
    PROVE  DupInv'
<1>1. /\ search' = [search EXCEPT ![s] = [q EXCEPT !.clean = FALSE]]
      /\ UNCHANGED <<disk, posts, clusterList, totalRecoverable>>
  BY DEF Fails
<1>2. PICK p : p = [q EXCEPT !.clean = FALSE]
  OBVIOUS
<1>3. IsSearch(p) /\ p.at = q.at /\ p.asked = q.asked /\ p.truth = q.truth /\ p.clean = FALSE
  BY <1>2 DEF IsSearch
<1>4. SearchOk(p, disk)
  BY <1>3 DEF SearchOk
<1>5. search' = [t \in Searches |-> IF t = s THEN p ELSE search[t]]
  BY <1>1, <1>2 DEF DupInv
<1>6. search' = [t \in Searches |-> search'[t]] /\ \A t \in Searches : SearchOk(search'[t], disk')
  BY <1>1, <1>4, <1>5 DEF DupInv
<1>7. PageOk' /\ DiskOk(disk')
  BY <1>1 DEF DupInv, PageOk
<1> QED
  BY <1>6, <1>7 DEF DupInv

LEMMA RunKeeps ==
    ASSUME DupInv, NEW s \in Searches, NEW list \in Asked, Run(s, list)
    PROVE  DupInv'
<1>1. PICK q : q = [NotBegun EXCEPT !.at = "collect", !.asked = list, !.roots = list, !.truth = disk]
  OBVIOUS
<1>2. Goes(s, q)
  BY <1>1 DEF Run
<1>3. /\ IsSearch(q) /\ q.at = "collect" /\ q.asked = list /\ q.roots = list /\ q.truth = disk
      /\ q.todo = <<>> /\ q.candidates = <<>> /\ q.ec = FALSE
      /\ q.bySize = <<>> /\ q.byDigest = <<>> /\ q.clusters = {}
  BY <1>1 DEF NotBegun, IsSearch
<1>4. list \in Seq(DOMAIN FilesIn) /\ DiskOk(disk)
  BY DuplicatesAssumption DEF DupInv
<1>5. ToSet(<<>>) = {} /\ Lists(<<>>, {})
  BY ListsNone DEF ToSet
<1>6. Apart(list) => Collecting(q)
  BY <1>3, <1>4, <1>5 DEF Collecting, Present
<1>7. SearchOk(q, disk)
  BY <1>3, <1>4, <1>6 DEF SearchOk
<1> QED
  BY <1>2, <1>7, StepKeeps

LEMMA OpenRootKeeps == ASSUME DupInv, NEW s \in Searches, OpenRoot(s) PROVE DupInv'
<1>1. PICK r : r = search[s]
  OBVIOUS
<1>2. /\ SearchOk(r, disk) /\ r.at = "collect" /\ r.todo = <<>> /\ r.roots # <<>>
      /\ IsSearch(r) /\ DiskOk(r.truth) /\ r.asked \in Seq(DOMAIN FilesIn)
  BY <1>1 DEF OpenRoot, DupInv, SearchOk
<1>3. CASE Goes(s, [r EXCEPT !.roots = Tail(@), !.todo = FilesIn[Head(r.roots)], !.ec = FALSE])
  <2>1. PICK q : q = [r EXCEPT !.roots = Tail(@), !.todo = FilesIn[Head(r.roots)], !.ec = FALSE]
    OBVIOUS
  <2>2. /\ IsSearch(q) /\ q.at = r.at /\ q.asked = r.asked /\ q.truth = r.truth /\ q.clean = r.clean
        /\ q.roots = Tail(r.roots) /\ q.todo = FilesIn[Head(r.roots)] /\ q.ec = FALSE
        /\ q.candidates = r.candidates /\ q.bySize = r.bySize /\ q.byDigest = r.byDigest /\ q.clusters = r.clusters
    BY <1>2, <2>1 DEF IsSearch
  <2>3. ASSUME r.clean, Apart(r.asked) PROVE Collecting(q) /\ q.truth = disk
    <3>1. Collecting(r) /\ r.truth = disk
      BY <1>2, <2>3 DEF SearchOk
    <3>2. ToSet(r.todo) = {}
      BY <1>2 DEF ToSet
    <3>3. /\ q.roots \in Seq(DOMAIN FilesIn) /\ Apart(q.roots) /\ Lists(q.todo, ToSet(q.todo))
          /\ ToSet(q.todo) \cap Reached(q.roots) = {}
          /\ Reached(r.roots) = ToSet(q.todo) \cup Reached(q.roots)
      <4>1. r.roots \in Seq(DOMAIN FilesIn) /\ Apart(r.roots) /\ r.roots # <<>>
        BY <1>2, <3>1 DEF Collecting
      <4> QED
        BY <2>2, <4>1, RootsTail
    <3>4. Present(q) = Present(r)
      BY <2>2, SameFound
    <3> QED
      BY <2>2, <3>1, <3>2, <3>3, <3>4 DEF Collecting
  <2>4. SearchOk(q, disk)
    BY <1>2, <2>2, <2>3 DEF SearchOk
  <2> QED
    BY <1>3, <2>1, <2>4, StepKeeps
<1>4. CASE Fails(s, [r EXCEPT !.roots = Tail(@), !.ec = TRUE])
  <2>1. PICK q : q = [r EXCEPT !.roots = Tail(@), !.ec = TRUE]
    OBVIOUS
  <2>2. IsSearch(q) /\ q.at = r.at /\ q.asked = r.asked /\ q.truth = r.truth
    BY <1>2, <2>1 DEF IsSearch
  <2> QED
    BY <1>2, <1>4, <2>1, <2>2, FailKeeps
<1> QED
  BY <1>1, <1>3, <1>4 DEF OpenRoot

LEMMA CollectKeeps == ASSUME DupInv, NEW s \in Searches, Collect(s) PROVE DupInv'
<1>1. PICK r : r = search[s]
  OBVIOUS
<1>2. /\ SearchOk(r, disk) /\ r.at = "collect" /\ r.todo # <<>>
      /\ IsSearch(r) /\ DiskOk(r.truth) /\ r.asked \in Seq(DOMAIN FilesIn)
  BY <1>1 DEF Collect, DupInv, SearchOk
<1>3. PICK f : f = Head(r.todo)
  OBVIOUS
<1>4. ASSUME r.clean, Apart(r.asked)
      PROVE  /\ Collecting(r) /\ r.truth = disk /\ f \in ToSet(r.todo) /\ f \in AllFiles
             /\ Lists(Tail(r.todo), ToSet(r.todo) \ {f}) /\ ToSet(Tail(r.todo)) = ToSet(r.todo) \ {f}
  <2>1. Collecting(r) /\ r.truth = disk
    BY <1>2, <1>4 DEF SearchOk
  <2>2. Lists(r.todo, ToSet(r.todo))
    BY <2>1 DEF Collecting
  <2> QED
    BY <1>2, <1>3, <2>1, <2>2, ListsTail DEF Lists
<1>5. CASE disk[f] = Gone /\ Goes(s, [r EXCEPT !.todo = Tail(@)])
  <2>1. PICK q : q = [r EXCEPT !.todo = Tail(@)]
    OBVIOUS
  <2>2. /\ IsSearch(q) /\ q.at = r.at /\ q.asked = r.asked /\ q.truth = r.truth /\ q.clean = r.clean
        /\ q.roots = r.roots /\ q.todo = Tail(r.todo) /\ q.ec = r.ec
        /\ q.candidates = r.candidates /\ q.bySize = r.bySize /\ q.byDigest = r.byDigest /\ q.clusters = r.clusters
    BY <1>2, <2>1 DEF IsSearch
  <2>3. ASSUME r.clean, Apart(r.asked) PROVE Collecting(q) /\ q.truth = disk
    <3>1. Present(q) = Present(r)
      BY <2>2, SameFound
    <3>2. r.truth[f] = Gone
      BY <1>4, <1>5, <2>3
    <3>3. PICK T, R, C : T = ToSet(r.todo) /\ R = Reached(r.roots) /\ C = ToSet(r.candidates)
      OBVIOUS
    <3>4. T \cap R = {} /\ C \cap (T \cup R) = {} /\ C \cup {g \in T \cup R : r.truth[g] # Gone} = Present(r)
      BY <1>4, <2>3, <3>3 DEF Collecting
    <3>5. /\ (T \ {f}) \cap R = {} /\ C \cap ((T \ {f}) \cup R) = {}
          /\ C \cup {g \in (T \ {f}) \cup R : r.truth[g] # Gone} = Present(r)
      BY <3>2, <3>4
    <3>6. ToSet(q.todo) = T \ {f} /\ Lists(q.todo, ToSet(q.todo)) /\ Collecting(r) /\ r.truth = disk
      BY <1>4, <2>2, <2>3, <3>3
    <3> QED
      BY <2>2, <3>1, <3>3, <3>5, <3>6 DEF Collecting
  <2>4. SearchOk(q, disk)
    BY <1>2, <2>2, <2>3 DEF SearchOk
  <2> QED
    BY <1>5, <2>1, <2>4, StepKeeps
<1>6. CASE r.ec /\ Goes(s, [r EXCEPT !.todo = Tail(@), !.ec = FALSE])
  <2>1. PICK q : q = [r EXCEPT !.todo = Tail(@), !.ec = FALSE]
    OBVIOUS
  <2>2. IsSearch(q) /\ q.at = r.at /\ q.asked = r.asked /\ q.truth = r.truth /\ q.clean = r.clean
    BY <1>2, <2>1 DEF IsSearch
  <2>3. ~(r.clean /\ Apart(r.asked))
    BY <1>4, <1>6 DEF Collecting
  <2>4. SearchOk(q, disk)
    BY <1>2, <2>2, <2>3 DEF SearchOk
  <2> QED
    BY <1>6, <2>1, <2>4, StepKeeps
<1>7. CASE disk[f] # Gone /\ Goes(s, [r EXCEPT !.todo = Tail(@), !.candidates = Append(@, f)])
  <2>1. PICK q : q = [r EXCEPT !.todo = Tail(@), !.candidates = Append(@, f)]
    OBVIOUS
  <2>2. /\ IsSearch(q) /\ q.at = r.at /\ q.asked = r.asked /\ q.truth = r.truth /\ q.clean = r.clean
        /\ q.roots = r.roots /\ q.todo = Tail(r.todo) /\ q.ec = r.ec /\ q.candidates = Append(r.candidates, f)
        /\ q.bySize = r.bySize /\ q.byDigest = r.byDigest /\ q.clusters = r.clusters
    BY <1>2, <2>1 DEF IsSearch
  <2>3. ASSUME r.clean, Apart(r.asked) PROVE Collecting(q) /\ q.truth = disk
    <3>1. Present(q) = Present(r)
      BY <2>2, SameFound
    <3>2. r.truth[f] # Gone /\ f \notin ToSet(r.candidates) /\ f \notin Reached(r.roots)
      BY <1>4, <1>7, <2>3 DEF Collecting
    <3>3. Lists(r.candidates, ToSet(r.candidates))
      BY <1>4, <2>3 DEF Collecting
    <3>4. Lists(q.candidates, ToSet(r.candidates) \cup {f})
      BY <1>4, <2>2, <2>3, <3>2, <3>3, ListsMore
    <3>5. ToSet(q.candidates) = ToSet(r.candidates) \cup {f}
      BY <3>4 DEF Lists
    <3>6. PICK C, T, R : C = ToSet(r.candidates) /\ T = ToSet(r.todo) /\ R = Reached(r.roots)
      OBVIOUS
    <3>7. /\ T \cap R = {} /\ C \cap (T \cup R) = {} /\ C \cup {g \in T \cup R : r.truth[g] # Gone} = Present(r)
          /\ f \in T /\ f \notin R /\ f \notin C
      BY <1>4, <2>3, <3>2, <3>6 DEF Collecting
    <3>8. /\ (T \ {f}) \cap R = {} /\ (C \cup {f}) \cap ((T \ {f}) \cup R) = {}
          /\ (C \cup {f}) \cup {g \in (T \ {f}) \cup R : r.truth[g] # Gone} = Present(r)
      BY <3>2, <3>7
    <3>9. ToSet(q.candidates) = C \cup {f} /\ ToSet(q.todo) = T \ {f} /\ Reached(q.roots) = R
      BY <1>4, <2>2, <2>3, <3>5, <3>6
    <3>10. Lists(q.candidates, ToSet(q.candidates)) /\ Lists(q.todo, ToSet(q.todo))
      BY <1>4, <2>2, <2>3, <3>4, <3>5
    <3>11. Collecting(r)
      BY <1>4, <2>3
    <3> QED
      BY <1>4, <2>2, <2>3, <3>1, <3>8, <3>9, <3>10, <3>11 DEF Collecting
  <2>4. SearchOk(q, disk)
    BY <1>2, <2>2, <2>3 DEF SearchOk
  <2> QED
    BY <1>7, <2>1, <2>4, StepKeeps
<1>8. CASE Fails(s, [r EXCEPT !.todo = Tail(@), !.ec = TRUE])
  <2>1. PICK q : q = [r EXCEPT !.todo = Tail(@), !.ec = TRUE]
    OBVIOUS
  <2>2. IsSearch(q) /\ q.at = r.at /\ q.asked = r.asked /\ q.truth = r.truth
    BY <1>2, <2>1 DEF IsSearch
  <2> QED
    BY <1>2, <1>8, <2>1, <2>2, FailKeeps
<1> QED
  BY <1>1, <1>3, <1>5, <1>6, <1>7, <1>8 DEF Collect

LEMMA CollectThrowsKeeps == ASSUME DupInv, NEW s \in Searches, CollectThrows(s) PROVE DupInv'
<1>1. PICK r : r = search[s]
  OBVIOUS
<1>2. r.at = "collect" /\ IsSearch(r) /\ DiskOk(r.truth) /\ r.asked \in Seq(DOMAIN FilesIn)
  BY <1>1 DEF CollectThrows, DupInv, SearchOk
<1>3. PICK q : q = [r EXCEPT !.at = "lost"]
  OBVIOUS
<1>4. IsSearch(q) /\ q.at = "lost" /\ q.asked = r.asked /\ q.truth = r.truth
  BY <1>2, <1>3 DEF IsSearch
<1>5. Fails(s, q)
  BY <1>1, <1>3 DEF CollectThrows
<1> QED
  BY <1>2, <1>4, <1>5, FailKeeps

LEMMA CollectedKeeps == ASSUME DupInv, NEW s \in Searches, Collected(s) PROVE DupInv'
<1>1. PICK r : r = search[s]
  OBVIOUS
<1>2. /\ SearchOk(r, disk) /\ r.at = "collect" /\ r.todo = <<>> /\ r.roots = <<>>
      /\ IsSearch(r) /\ DiskOk(r.truth) /\ r.asked \in Seq(DOMAIN FilesIn)
  BY <1>1 DEF Collected, DupInv, SearchOk
<1>3. PICK q : q = [r EXCEPT !.at = "measure", !.todo = r.candidates]
  OBVIOUS
<1>4. /\ IsSearch(q) /\ q.at = "measure" /\ q.asked = r.asked /\ q.truth = r.truth /\ q.clean = r.clean
      /\ q.todo = r.candidates /\ q.bySize = r.bySize /\ q.byDigest = r.byDigest /\ q.clusters = r.clusters
  BY <1>2, <1>3 DEF IsSearch
<1>5. Goes(s, q)
  BY <1>1, <1>3 DEF Collected
<1>6. ASSUME r.clean, Apart(r.asked) PROVE Measuring(q) /\ q.truth = disk
  <2>1. Collecting(r) /\ r.truth = disk
    BY <1>2, <1>6 DEF SearchOk
  <2>2. ToSet(r.todo) = {} /\ Reached(r.roots) = {}
    BY <1>2 DEF ToSet, Reached
  <2>3. ToSet(q.todo) = Present(q) /\ Lists(q.todo, ToSet(q.todo))
    BY <1>4, <2>1, <2>2, SameFound DEF Collecting
  <2>4. Found(q) \ ToSet(q.todo) = {}
    BY <2>3 DEF Found, Present
  <2>5. Sorts(<<>>, {}, SizesOf(q.truth))
    BY SortsNone
  <2> QED
    BY <1>4, <2>1, <2>3, <2>4, <2>5 DEF Collecting, Measuring
<1>7. SearchOk(q, disk)
  BY <1>2, <1>4, <1>6 DEF SearchOk
<1> QED
  BY <1>5, <1>7, StepKeeps

LEMMA MeasureKeeps == ASSUME DupInv, NEW s \in Searches, Measure(s) PROVE DupInv'
<1>1. PICK r : r = search[s]
  OBVIOUS
<1>2. /\ SearchOk(r, disk) /\ r.at = "measure" /\ r.todo # <<>>
      /\ IsSearch(r) /\ DiskOk(r.truth) /\ r.asked \in Seq(DOMAIN FilesIn)
  BY <1>1 DEF Measure, DupInv, SearchOk
<1>3. PICK f : f = Head(r.todo)
  OBVIOUS
<1>4. ASSUME r.clean, Apart(r.asked)
      PROVE  /\ Measuring(r) /\ r.truth = disk /\ f \in ToSet(r.todo) /\ f \in AllFiles
             /\ Lists(Tail(r.todo), ToSet(r.todo) \ {f}) /\ ToSet(Tail(r.todo)) = ToSet(r.todo) \ {f}
             /\ f \in Reached(r.asked) /\ r.truth[f] # Gone
  <2>1. Measuring(r) /\ r.truth = disk
    BY <1>2, <1>4 DEF SearchOk
  <2>2. Lists(r.todo, ToSet(r.todo)) /\ ToSet(r.todo) \subseteq Present(r)
    BY <2>1 DEF Measuring
  <2> QED
    BY <1>2, <1>3, <2>1, <2>2, ListsTail DEF Lists, Present
<1>5. CASE disk[f] = Gone /\ Goes(s, [r EXCEPT !.todo = Tail(@)])
  <2>1. PICK q : q = [r EXCEPT !.todo = Tail(@)]
    OBVIOUS
  <2>2. IsSearch(q) /\ q.at = r.at /\ q.asked = r.asked /\ q.truth = r.truth /\ q.clean = r.clean
    BY <1>2, <2>1 DEF IsSearch
  <2>3. ~(r.clean /\ Apart(r.asked))
    BY <1>4, <1>5
  <2>4. SearchOk(q, disk)
    BY <1>2, <2>2, <2>3 DEF SearchOk
  <2> QED
    BY <1>5, <2>1, <2>4, StepKeeps
<1>6. CASE Fails(s, [r EXCEPT !.todo = Tail(@)])
  <2>1. PICK q : q = [r EXCEPT !.todo = Tail(@)]
    OBVIOUS
  <2>2. IsSearch(q) /\ q.at = r.at /\ q.asked = r.asked /\ q.truth = r.truth
    BY <1>2, <2>1 DEF IsSearch
  <2> QED
    BY <1>2, <1>6, <2>1, <2>2, FailKeeps
<1>7. PICK m : m = Len(disk[f])
  OBVIOUS
<1>8. CASE /\ disk[f] # Gone
           /\ Goes(s, [r EXCEPT !.todo = Tail(@),
                                !.bySize = IF m = 0 \/ m < MinSize THEN @ ELSE Pushed(@, m, f)])
  <2>1. PICK q : q = [r EXCEPT !.todo = Tail(@),
                               !.bySize = IF m = 0 \/ m < MinSize THEN @ ELSE Pushed(@, m, f)]
    OBVIOUS
  <2>2. /\ IsSearch(q) /\ q.at = r.at /\ q.asked = r.asked /\ q.truth = r.truth /\ q.clean = r.clean
        /\ q.todo = Tail(r.todo) /\ q.byDigest = r.byDigest /\ q.clusters = r.clusters
        /\ q.bySize = IF m = 0 \/ m < MinSize THEN r.bySize ELSE Pushed(r.bySize, m, f)
    BY <1>2, <2>1 DEF IsSearch
  <2>3. ASSUME r.clean, Apart(r.asked) PROVE Measuring(q) /\ q.truth = disk
    <3>1. Present(q) = Present(r) /\ Found(q) = Found(r)
      BY <2>2, SameFound
    <3>2. PICK t, T : t = r.truth /\ T = ToSet(r.todo)
      OBVIOUS
    <3>3. /\ m = Len(t[f]) /\ m \in Nat /\ f \in DOMAIN t /\ SizesOf(t)[f] = m /\ t = disk
      <4>1. f \in DOMAIN t /\ t[f] \in Seq(Nat) /\ t = disk
        BY <1>2, <1>4, <2>3, <3>2 DEF DiskOk
      <4> QED
        BY <1>7, <4>1 DEF SizesOf
    <3>4. f \in Found(r) <=> ~(m = 0 \/ m < MinSize)
      BY <1>4, <2>3, <3>2, <3>3, DuplicatesAssumption DEF Found
    <3>5. ToSet(q.todo) = T \ {f} /\ f \in T /\ f \in AllFiles /\ Sorts(r.bySize, Found(r) \ T, SizesOf(t))
      BY <1>4, <2>2, <2>3, <3>2 DEF Measuring
    <3>6. Sorts(q.bySize, Found(q) \ ToSet(q.todo), SizesOf(t))
      <4>1. CASE m = 0 \/ m < MinSize
        <5>1. Found(q) \ ToSet(q.todo) = Found(r) \ T
          BY <3>1, <3>4, <3>5, <4>1
        <5> QED
          BY <2>2, <3>5, <4>1, <5>1
      <4>2. CASE ~(m = 0 \/ m < MinSize)
        <5>1. Found(q) \ ToSet(q.todo) = (Found(r) \ T) \cup {f} /\ f \notin Found(r) \ T
          BY <3>1, <3>4, <3>5, <4>2
        <5>2. Sorts(Pushed(r.bySize, SizesOf(t)[f], f), (Found(r) \ T) \cup {f}, SizesOf(t))
          BY <3>5, <5>1, PushSorts
        <5> QED
          BY <2>2, <3>3, <4>2, <5>1, <5>2
      <4> QED
        BY <4>1, <4>2
    <3> QED
      BY <1>4, <2>2, <2>3, <3>1, <3>2, <3>3, <3>5, <3>6 DEF Measuring
  <2>4. SearchOk(q, disk)
    BY <1>2, <2>2, <2>3 DEF SearchOk
  <2> QED
    BY <1>8, <2>1, <2>4, StepKeeps
<1> QED
  BY <1>1, <1>3, <1>5, <1>6, <1>7, <1>8 DEF Measure

\* What is found is listed somewhere, and has a content.
LEMMA FoundFacts ==
    ASSUME NEW r, r.asked \in Seq(DOMAIN FilesIn), DiskOk(r.truth)
    PROVE  /\ Found(r) \subseteq AllFiles /\ Found(r) \subseteq DOMAIN r.truth
           /\ \A f \in Found(r) : Len(r.truth[f]) \in Nat /\ r.truth[f] \in Seq(Nat)
<1>1. PICK q \in Seq(DOMAIN FilesIn) : q = r.asked
  OBVIOUS
<1>2. DOMAIN q = 1 .. Len(q) /\ \A i \in 1 .. Len(q) : q[i] \in DOMAIN FilesIn
  OBVIOUS
<1>3. Reached(q) \subseteq AllFiles
  BY <1>2 DEF Reached, AllFiles
<1>4. Found(r) \subseteq AllFiles /\ \A f \in Found(r) : r.truth[f] # Gone
  BY <1>1, <1>3 DEF Found
<1>5. \A f \in Found(r) : f \in DOMAIN r.truth /\ r.truth[f] \in Seq(Nat)
  BY <1>4 DEF DiskOk
<1> QED
  BY <1>4, <1>5

\* Only the clusters matter.
LEMMA RightSame ==
    ASSUME NEW r, NEW q, NEW S, q.asked = r.asked, q.truth = r.truth, q.clusters = r.clusters, Right(r, S)
    PROVE  Right(q, S)
<1>1. \A f : Same(q, f) = Same(r, f)
  BY SameFound
<1> QED
  BY <1>1 DEF Right

LEMMA MeasuredKeeps == ASSUME DupInv, NEW s \in Searches, Measured(s) PROVE DupInv'
<1>1. PICK r : r = search[s]
  OBVIOUS
<1>2. /\ SearchOk(r, disk) /\ r.at = "measure" /\ r.todo = <<>>
      /\ IsSearch(r) /\ DiskOk(r.truth) /\ r.asked \in Seq(DOMAIN FilesIn)
  BY <1>1 DEF Measured, DupInv, SearchOk
<1>3. PICK q : q = [r EXCEPT !.at = "group", !.pending = Shared(r.bySize)]
  OBVIOUS
<1>4. /\ IsSearch(q) /\ q.at = "group" /\ q.asked = r.asked /\ q.truth = r.truth /\ q.clean = r.clean
      /\ q.bySize = r.bySize /\ q.byDigest = r.byDigest /\ q.clusters = r.clusters /\ q.pending = Shared(r.bySize)
  BY <1>2, <1>3 DEF IsSearch
<1>5. Goes(s, q)
  BY <1>1, <1>3 DEF Measured
<1>6. ASSUME r.clean, Apart(r.asked) PROVE Grouping(q) /\ q.truth = disk
  <2>1. Measuring(r) /\ r.truth = disk
    BY <1>2, <1>6 DEF SearchOk
  <2>2. ToSet(r.todo) = {} /\ Found(q) = Found(r)
    BY <1>2, <1>4, SameFound DEF ToSet
  <2>3. Sorts(q.bySize, Found(q), SizesOf(q.truth)) /\ q.byDigest = <<>> /\ q.clusters = {}
    <3>1. Found(r) \ ToSet(r.todo) = Found(q)
      BY <2>2
    <3> QED
      BY <1>4, <2>1, <3>1 DEF Measuring
  \* A size that only one file has leaves a class of one.
  <2>4. ASSUME NEW f \in Done(q, q.pending), Cardinality(Same(q, f)) >= 2 PROVE FALSE
    <3>1. PICK n, F : n = Len(q.truth[f]) /\ F = {g \in Found(q) : SizesOf(q.truth)[g] = n}
      OBVIOUS
    <3>2. Found(q) \subseteq DOMAIN q.truth
      BY <1>2, <1>4, FoundFacts
    <3>3. \A g \in Found(q) : SizesOf(q.truth)[g] = Len(q.truth[g])
      BY <3>2 DEF SizesOf
    <3>4. f \in Found(q) /\ n \in DOMAIN q.bySize /\ n \notin Shared(q.bySize)
      BY <1>4, <2>3, <2>4, <3>1, <3>3 DEF Done, Sorts
    <3>5. Lists(q.bySize[n], F)
      BY <2>3, <3>1, <3>4 DEF Sorts
    <3>6. IsFiniteSet(F) /\ Cardinality(F) = Len(q.bySize[n]) /\ ~(Cardinality(F) >= 2)
      BY <3>4, <3>5, ListsCount DEF Shared
    <3>7. Same(q, f) \subseteq F
      BY <3>1, <3>3 DEF Same
    <3>8. Cardinality(Same(q, f)) <= Cardinality(F) /\ Cardinality(F) \in Nat /\ Cardinality(Same(q, f)) \in Nat
      BY <3>6, <3>7, FS_Subset, FS_CardinalityType
    <3> QED
      BY <2>4, <3>6, <3>8
  <2>5. Right(q, Done(q, q.pending))
    BY <2>3, <2>4 DEF Right
  <2> QED
    BY <1>4, <2>1, <2>3, <2>5 DEF Grouping
<1>7. SearchOk(q, disk)
  BY <1>2, <1>4, <1>6 DEF SearchOk
<1> QED
  BY <1>5, <1>7, StepKeeps

LEMMA NextGroupKeeps == ASSUME DupInv, NEW s \in Searches, NextGroup(s) PROVE DupInv'
<1>1. PICK r : r = search[s]
  OBVIOUS
<1>2. /\ SearchOk(r, disk) /\ r.at = "group"
      /\ IsSearch(r) /\ DiskOk(r.truth) /\ r.asked \in Seq(DOMAIN FilesIn)
  BY <1>1 DEF NextGroup, DupInv, SearchOk
<1>3. PICK n \in r.pending :
        Goes(s, [r EXCEPT !.at = "hash", !.pending = @ \ {n}, !.size = n, !.todo = r.bySize[n]])
  BY <1>1 DEF NextGroup
<1>4. PICK q : q = [r EXCEPT !.at = "hash", !.pending = @ \ {n}, !.size = n, !.todo = r.bySize[n]]
  OBVIOUS
<1>5. /\ IsSearch(q) /\ q.at = "hash" /\ q.asked = r.asked /\ q.truth = r.truth /\ q.clean = r.clean
      /\ q.bySize = r.bySize /\ q.byDigest = r.byDigest /\ q.clusters = r.clusters
      /\ q.pending = r.pending \ {n} /\ q.size = n /\ q.todo = r.bySize[n]
  BY <1>2, <1>4 DEF IsSearch
<1>6. ASSUME r.clean, Apart(r.asked) PROVE Hashing(q) /\ q.truth = disk
  <2>1. Grouping(r) /\ r.truth = disk
    BY <1>2, <1>6 DEF SearchOk
  <2>2. /\ Found(q) = Found(r) /\ (\A f : Same(q, f) = Same(r, f))
        /\ \A S : Done(q, S) = Done(r, S)
    BY <1>5, SameFound
  <2>3. q.pending \cup {q.size} = r.pending
    BY <1>5
  <2>4. Right(q, Done(q, q.pending \cup {q.size}))
    <3>1. Right(r, Done(r, r.pending)) /\ Done(q, q.pending \cup {q.size}) = Done(r, r.pending)
      BY <2>1, <2>2, <2>3 DEF Grouping
    <3> QED
      BY <1>5, <3>1, RightSame
  <2>5. n \in DOMAIN r.bySize
    BY <2>1 DEF Grouping, Shared
  <2>6. Lists(q.todo, ToSet(q.todo))
    BY <1>5, <2>1, <2>5 DEF Grouping, Sorts, Lists
  <2>7. ToSet(q.bySize[q.size]) \ ToSet(q.todo) = {}
    BY <1>5
  <2>8. Sorts(q.byDigest, {}, q.truth)
    BY <1>5, <2>1, SortsNone DEF Grouping
  <2> QED
    BY <1>5, <2>1, <2>2, <2>4, <2>5, <2>6, <2>7, <2>8 DEF Grouping, Hashing
<1>7. SearchOk(q, disk)
  BY <1>2, <1>5, <1>6 DEF SearchOk
<1> QED
  BY <1>3, <1>4, <1>7, StepKeeps

LEMMA HashFileKeeps == ASSUME DupInv, NEW s \in Searches, HashFile(s) PROVE DupInv'
<1>1. PICK r : r = search[s]
  OBVIOUS
<1>2. /\ SearchOk(r, disk) /\ r.at = "hash" /\ r.todo # <<>>
      /\ IsSearch(r) /\ DiskOk(r.truth) /\ r.asked \in Seq(DOMAIN FilesIn)
  BY <1>1 DEF HashFile, DupInv, SearchOk
<1>3. PICK f : f = Head(r.todo)
  OBVIOUS
<1>4. ASSUME r.clean, Apart(r.asked)
      PROVE  /\ Hashing(r) /\ r.truth = disk /\ f \in ToSet(r.todo) /\ f \in AllFiles
             /\ Lists(Tail(r.todo), ToSet(r.todo) \ {f}) /\ ToSet(Tail(r.todo)) = ToSet(r.todo) \ {f}
             /\ r.truth[f] # Gone
  <2>1. Hashing(r) /\ r.truth = disk
    BY <1>2, <1>4 DEF SearchOk
  <2>2. Lists(r.todo, ToSet(r.todo)) /\ ToSet(r.todo) \subseteq ToSet(r.bySize[r.size])
    BY <2>1 DEF Hashing
  <2>3. ToSet(r.bySize[r.size]) \subseteq Found(r)
    BY <2>1 DEF Hashing, Sorts, Lists
  <2>4. \A g \in Found(r) : r.truth[g] # Gone
    BY DEF Found
  <2> QED
    BY <1>2, <1>3, <2>1, <2>2, <2>3, <2>4, ListsTail DEF Lists
<1>5. CASE disk[f] = Gone /\ Goes(s, [r EXCEPT !.todo = Tail(@)])
  <2>1. PICK q : q = [r EXCEPT !.todo = Tail(@)]
    OBVIOUS
  <2>2. IsSearch(q) /\ q.at = r.at /\ q.asked = r.asked /\ q.truth = r.truth /\ q.clean = r.clean
    BY <1>2, <2>1 DEF IsSearch
  <2>3. ~(r.clean /\ Apart(r.asked))
    BY <1>4, <1>5
  <2>4. SearchOk(q, disk)
    BY <1>2, <2>2, <2>3 DEF SearchOk
  <2> QED
    BY <1>5, <2>1, <2>4, StepKeeps
<1>6. CASE Fails(s, [r EXCEPT !.todo = Tail(@)])
  <2>1. PICK q : q = [r EXCEPT !.todo = Tail(@)]
    OBVIOUS
  <2>2. IsSearch(q) /\ q.at = r.at /\ q.asked = r.asked /\ q.truth = r.truth
    BY <1>2, <2>1 DEF IsSearch
  <2> QED
    BY <1>2, <1>6, <2>1, <2>2, FailKeeps
<1>7. CASE disk[f] # Gone /\ Goes(s, [r EXCEPT !.todo = Tail(@), !.byDigest = Pushed(@, WholeFile(disk[f]), f)])
  <2>1. PICK q : q = [r EXCEPT !.todo = Tail(@), !.byDigest = Pushed(@, WholeFile(disk[f]), f)]
    OBVIOUS
  <2>2. /\ IsSearch(q) /\ q.at = r.at /\ q.asked = r.asked /\ q.truth = r.truth /\ q.clean = r.clean
        /\ q.todo = Tail(r.todo) /\ q.bySize = r.bySize /\ q.clusters = r.clusters /\ q.pending = r.pending
        /\ q.size = r.size /\ q.byDigest = Pushed(r.byDigest, disk[f], f)
    BY <1>2, <2>1 DEF IsSearch, WholeFile
  <2>3. ASSUME r.clean, Apart(r.asked) PROVE Hashing(q) /\ q.truth = disk
    <3>1. /\ Found(q) = Found(r) /\ (\A g : Same(q, g) = Same(r, g))
          /\ \A S : Done(q, S) = Done(r, S)
      BY <2>2, SameFound
    <3>2. PICK t, T, B : t = r.truth /\ T = ToSet(r.todo) /\ B = ToSet(r.bySize[r.size])
      OBVIOUS
    <3>3. T \subseteq B /\ f \in T /\ f \in AllFiles /\ Sorts(r.byDigest, B \ T, t) /\ t = disk
      BY <1>4, <2>3, <3>2 DEF Hashing
    <3>4. ToSet(q.todo) = T \ {f} /\ Lists(q.todo, ToSet(q.todo)) /\ ToSet(q.bySize[q.size]) = B
      BY <1>4, <2>2, <2>3, <3>2
    <3>5. B \ ToSet(q.todo) = (B \ T) \cup {f} /\ f \notin B \ T /\ ToSet(q.todo) \subseteq B
      BY <3>3, <3>4
    <3>6. Sorts(q.byDigest, (B \ T) \cup {f}, t)
      BY <2>2, <3>3, <3>5, PushSorts
    <3>7. Right(q, Done(q, q.pending \cup {q.size}))
      <4>1. Right(r, Done(r, r.pending \cup {r.size}))
        BY <1>4, <2>3 DEF Hashing
      <4>2. Done(q, q.pending \cup {q.size}) = Done(r, r.pending \cup {r.size})
        BY <2>2, <3>1
      <4> QED
        BY <2>2, <4>1, <4>2, RightSame
    <3>8. Hashing(r) /\ r.truth = disk
      BY <1>4, <2>3
    <3> QED
      BY <2>2, <3>1, <3>2, <3>4, <3>5, <3>6, <3>7, <3>8 DEF Hashing
  <2>4. SearchOk(q, disk)
    BY <1>2, <2>2, <2>3 DEF SearchOk
  <2> QED
    BY <1>7, <2>1, <2>4, StepKeeps
<1>8. ASSUME NEW n, Fails(s, [r EXCEPT !.todo = Tail(@), !.byDigest = Pushed(@, SubSeq(disk[f], 1, n), f)])
      PROVE  DupInv'
  <2>1. PICK q : q = [r EXCEPT !.todo = Tail(@), !.byDigest = Pushed(@, SubSeq(disk[f], 1, n), f)]
    OBVIOUS
  <2>2. IsSearch(q) /\ q.at = r.at /\ q.asked = r.asked /\ q.truth = r.truth
    BY <1>2, <2>1 DEF IsSearch
  <2> QED
    BY <1>2, <1>8, <2>1, <2>2, FailKeeps
<1> QED
  BY <1>1, <1>3, <1>5, <1>6, <1>7, <1>8 DEF HashFile

\* The clusters of one more size.
LEMMA GroupIsRight ==
    ASSUME NEW r, NEW q, Hashing(r), r.todo = <<>>, DiskOk(r.truth), r.asked \in Seq(DOMAIN FilesIn),
           q.asked = r.asked, q.truth = r.truth,
           q.clusters = r.clusters \cup {[size |-> r.size, digest |-> d, files |-> r.byDigest[d]] :
                                          d \in Shared(r.byDigest)}
    PROVE  Right(q, Done(q, r.pending))
<1> DEFINE New == {[size |-> r.size, digest |-> d, files |-> r.byDigest[d]] : d \in Shared(r.byDigest)}
<1>1. PICK t, n, B, D : t = r.truth /\ n = r.size /\ B = ToSet(r.bySize[n]) /\ D = r.byDigest
  OBVIOUS
<1>2. \A f : Same(q, f) = {g \in Found(r) : t[g] = t[f]}
  BY <1>1, SameFound DEF Same
<1>3. \A f \in Found(r) : f \in DOMAIN t /\ SizesOf(t)[f] = Len(t[f])
  BY <1>1, FoundFacts DEF SizesOf
<1>4. B = {f \in Found(r) : Len(t[f]) = n}
  <2>1. Lists(r.bySize[n], {f \in Found(r) : SizesOf(t)[f] = n})
    BY <1>1 DEF Hashing, Sorts
  <2> QED
    BY <1>1, <1>3, <2>1 DEF Lists
<1>5. Sorts(D, B, t)
  <2>1. ToSet(r.todo) = {}
    BY DEF ToSet
  <2>2. ToSet(r.bySize[r.size]) \ ToSet(r.todo) = B
    BY <1>1, <2>1
  <2> QED
    BY <1>1, <2>2 DEF Hashing
<1>6. Done(q, r.pending) = Done(r, r.pending \cup {n}) \cup B
  <2>1. Done(q, r.pending) = Done(r, r.pending) /\ n \notin r.pending
    BY <1>1, SameFound DEF Hashing
  <2> QED
    BY <1>1, <1>4, <2>1 DEF Done
<1>7. \A f \in B : {g \in B : t[g] = t[f]} = Same(q, f)
  BY <1>2, <1>4
\* A new cluster is the class of a file of this size.
<1>8. ASSUME NEW c \in New
      PROVE  \E f \in B : /\ Lists(c.files, Same(q, f)) /\ Len(c.files) >= 2 /\ c.size = Len(t[f])
                          /\ c = [size |-> r.size, digest |-> t[f], files |-> D[t[f]]]
  <2>1. PICK d \in Shared(D) : c = [size |-> n, digest |-> d, files |-> D[d]]
    BY <1>1
  <2>2. d \in DOMAIN D /\ Len(D[d]) >= 2
    BY <2>1 DEF Shared
  <2>3. PICK f \in B : t[f] = d
    BY <1>5, <2>2 DEF Sorts
  <2>4. Lists(D[d], {g \in B : t[g] = d})
    BY <1>5, <2>2 DEF Sorts
  <2>5. c.files = D[d] /\ c.size = n
    BY <2>1
  <2> QED
    BY <1>1, <1>4, <1>7, <2>1, <2>2, <2>3, <2>4, <2>5
<1>9. Right(r, Done(r, r.pending \cup {n}))
  BY <1>1 DEF Hashing
<1>10. \A f : Same(q, f) = Same(r, f)
  BY SameFound
<1>11. \A c \in q.clusters : \E f \in Done(q, r.pending) :
         /\ Lists(c.files, Same(q, f)) /\ Len(c.files) >= 2 /\ c.size = Len(q.truth[f])
  <2> SUFFICES ASSUME NEW c \in q.clusters
               PROVE  \E f \in Done(q, r.pending) :
                        /\ Lists(c.files, Same(q, f)) /\ Len(c.files) >= 2 /\ c.size = Len(q.truth[f])
    OBVIOUS
  <2>1. CASE c \in r.clusters
    BY <1>6, <1>9, <1>10, <2>1 DEF Right
  <2>2. CASE c \in New
    BY <1>1, <1>6, <1>8, <2>2
  <2> QED
    BY <2>1, <2>2
<1>12. ASSUME NEW f \in Done(q, r.pending), Cardinality(Same(q, f)) >= 2
       PROVE  \E c \in q.clusters : ToSet(c.files) = Same(q, f)
  <2>1. CASE f \in Done(r, r.pending \cup {n})
    BY <1>9, <1>10, <1>12, <2>1 DEF Right
  <2>2. CASE f \in B
    <3>1. PICK d : d = t[f]
      OBVIOUS
    <3>2. d \in DOMAIN D
      BY <1>5, <2>2, <3>1 DEF Sorts
    <3>3. Lists(D[d], Same(q, f))
      BY <1>5, <1>7, <2>2, <3>1, <3>2 DEF Sorts
    <3>4. d \in Shared(D)
      BY <1>12, <3>2, <3>3, ListsCount DEF Shared
    <3>5. PICK c : c = [size |-> r.size, digest |-> d, files |-> r.byDigest[d]]
      OBVIOUS
    <3>6. c \in q.clusters /\ c.files = D[d]
      BY <1>1, <3>4, <3>5
    <3> QED
      BY <3>3, <3>6 DEF Lists
  <2> QED
    BY <1>6, <2>1, <2>2
\* Files of one size are not in the clusters of another.
<1>13. ASSUME NEW c \in r.clusters, NEW d \in New PROVE ToSet(c.files) \cap ToSet(d.files) = {}
  <2>1. PICK f \in Done(r, r.pending \cup {n}) : Lists(c.files, Same(q, f))
    BY <1>9, <1>10 DEF Right
  <2>2. PICK g \in B : Lists(d.files, Same(q, g))
    BY <1>8
  <2>3. Len(t[f]) # n /\ Len(t[g]) = n
    BY <1>1, <1>4, <2>1, <2>2 DEF Done
  <2> QED
    BY <1>2, <2>1, <2>2, <2>3 DEF Lists
<1>14. ASSUME NEW c \in New, NEW d \in New, c # d PROVE ToSet(c.files) \cap ToSet(d.files) = {}
  <2>1. PICK f \in B : Lists(c.files, Same(q, f)) /\ c = [size |-> r.size, digest |-> t[f], files |-> D[t[f]]]
    BY <1>8
  <2>2. PICK g \in B : Lists(d.files, Same(q, g)) /\ d = [size |-> r.size, digest |-> t[g], files |-> D[t[g]]]
    BY <1>8
  <2>3. t[f] # t[g]
    BY <1>14, <2>1, <2>2
  <2> QED
    BY <1>2, <2>1, <2>2, <2>3 DEF Lists
<1>15. \A c, d \in q.clusters : c # d => ToSet(c.files) \cap ToSet(d.files) = {}
  <2> SUFFICES ASSUME NEW c \in q.clusters, NEW d \in q.clusters, c # d
               PROVE  ToSet(c.files) \cap ToSet(d.files) = {}
    OBVIOUS
  <2>1. CASE c \in r.clusters /\ d \in r.clusters
    BY <1>9, <2>1 DEF Right
  <2> QED
    BY <1>13, <1>14, <2>1
<1> QED
  BY <1>11, <1>12, <1>15 DEF Right

LEMMA GroupDoneKeeps == ASSUME DupInv, NEW s \in Searches, GroupDone(s) PROVE DupInv'
<1>1. PICK r : r = search[s]
  OBVIOUS
<1>2. /\ SearchOk(r, disk) /\ r.at = "hash" /\ r.todo = <<>>
      /\ IsSearch(r) /\ DiskOk(r.truth) /\ r.asked \in Seq(DOMAIN FilesIn)
  BY <1>1 DEF GroupDone, DupInv, SearchOk
<1>3. PICK new : new = {[size |-> r.size, digest |-> d, files |-> r.byDigest[d]] : d \in Shared(r.byDigest)}
  OBVIOUS
<1>4. PICK q : q = [r EXCEPT !.at = "group", !.byDigest = <<>>, !.clusters = @ \cup new]
  OBVIOUS
<1>5. /\ IsSearch(q) /\ q.at = "group" /\ q.asked = r.asked /\ q.truth = r.truth /\ q.clean = r.clean
      /\ q.bySize = r.bySize /\ q.byDigest = <<>> /\ q.clusters = r.clusters \cup new /\ q.pending = r.pending
  BY <1>2, <1>4 DEF IsSearch
<1>6. Goes(s, q)
  BY <1>1, <1>3, <1>4 DEF GroupDone
<1>7. ASSUME r.clean, Apart(r.asked) PROVE Grouping(q) /\ q.truth = disk
  <2>1. Hashing(r) /\ r.truth = disk
    BY <1>2, <1>7 DEF SearchOk
  <2>2. Right(q, Done(q, q.pending))
    BY <1>2, <1>3, <1>5, <2>1, GroupIsRight
  <2>3. Found(q) = Found(r)
    BY <1>5, SameFound
  <2> QED
    BY <1>5, <2>1, <2>2, <2>3 DEF Hashing, Grouping
<1>8. SearchOk(q, disk)
  BY <1>2, <1>5, <1>7 DEF SearchOk
<1> QED
  BY <1>6, <1>8, StepKeeps

\* A queue of results, by what it holds.
LEMMA SelfTyped == ASSUME NEW S, NEW p \in Seq(S) PROVE p \in Seq(ToSet(p))
<1>1. ToSet(p) = {p[n] : n \in 1 .. Len(p)}
  BY DEF ToSet
<1> QED
  BY <1>1, OwnElements

LEMMA QueueAppend ==
    ASSUME NEW q, q \in Seq(ToSet(q)), NEW x
    PROVE  \E p : /\ p = Append(q, x) /\ p \in Seq(ToSet(p))
                  /\ \A i \in DOMAIN p : p[i] = x \/ \E j \in DOMAIN q : p[i] = q[j]
<1>1. PICK S : S = ToSet(q) \cup {x}
  OBVIOUS
<1>2. q \in Seq(S) /\ x \in S
  BY <1>1, SeqMonotonic
<1>3. PICK p \in Seq(S) : p = Append(q, x)
  <2>1. Append(q, x) \in Seq(S)
    BY <1>2
  <2> QED
    BY <2>1
<1>4. /\ Len(p) = Len(q) + 1 /\ Len(q) \in Nat
      /\ \A i \in 1 .. Len(p) : p[i] = IF i <= Len(q) THEN q[i] ELSE x
      /\ DOMAIN p = 1 .. Len(p) /\ DOMAIN q = 1 .. Len(q)
  BY <1>2, <1>3
<1>6. p \in Seq(ToSet(p))
  BY <1>3, SelfTyped
<1>7. ASSUME NEW i \in DOMAIN p PROVE p[i] = x \/ \E j \in DOMAIN q : p[i] = q[j]
  <2>1. CASE i <= Len(q)
    BY <1>4, <2>1
  <2>2. CASE ~(i <= Len(q))
    BY <1>4, <2>2
  <2> QED
    BY <2>1, <2>2
<1> QED
  BY <1>3, <1>6, <1>7

LEMMA QueueTail ==
    ASSUME NEW q, q \in Seq(ToSet(q)), q # <<>>
    PROVE  \E p : /\ p = Tail(q) /\ p \in Seq(ToSet(p))
                  /\ \A i \in DOMAIN p : \E j \in DOMAIN q : p[i] = q[j]
                  /\ 1 \in DOMAIN q /\ Head(q) = q[1]
<1>1. PICK S : S = ToSet(q) /\ q \in Seq(S)
  OBVIOUS
<1>2. PICK p \in Seq(S) : p = Tail(q)
  <2>1. Tail(q) \in Seq(S)
    BY <1>1
  <2> QED
    BY <2>1
<1>3. /\ Len(p) = Len(q) - 1 /\ Len(q) \in Nat /\ Len(q) > 0
      /\ \A i \in 1 .. Len(p) : p[i] = q[i + 1]
      /\ DOMAIN p = 1 .. Len(p) /\ DOMAIN q = 1 .. Len(q) /\ Head(q) = q[1]
      /\ 1 \in DOMAIN q
  BY <1>1, <1>2
<1>4. p \in Seq(ToSet(p))
  BY <1>2, SelfTyped
<1>5. \A i \in DOMAIN p : i + 1 \in DOMAIN q /\ p[i] = q[i + 1]
  BY <1>3
<1> QED
  BY <1>2, <1>3, <1>4, <1>5

LEMMA SearchEndsKeeps == ASSUME DupInv, NEW s \in Searches, SearchEnds(s) PROVE DupInv'
<1>1. PICK r : r = search[s]
  OBVIOUS
<1>2. /\ SearchOk(r, disk) /\ r.at = "group" /\ r.pending = {}
      /\ IsSearch(r) /\ DiskOk(r.truth) /\ r.asked \in Seq(DOMAIN FilesIn)
  BY <1>1 DEF SearchEnds, DupInv, SearchOk
<1>3. PICK q : q = [r EXCEPT !.at = "ended"]
  OBVIOUS
<1>4. /\ IsSearch(q) /\ q.at = "ended" /\ q.asked = r.asked /\ q.truth = r.truth /\ q.clean = r.clean
      /\ q.clusters = r.clusters
  BY <1>2, <1>3 DEF IsSearch
<1>5. search' = [t \in Searches |-> IF t = s THEN q ELSE search[t]]
  BY <1>1, <1>3 DEF SearchEnds, DupInv
<1>6. ASSUME r.clean, Apart(r.asked) PROVE Right(q, Found(q))
  <2>1. Right(r, Done(r, {}))
    BY <1>2, <1>6 DEF SearchOk, Grouping
  <2>2. Done(r, {}) = Found(q)
    BY <1>4, SameFound DEF Done
  <2> QED
    BY <1>4, <2>1, <2>2, RightSame
<1>7. SearchOk(q, disk)
  BY <1>2, <1>4, <1>6 DEF SearchOk
<1>8. search' = [t \in Searches |-> search'[t]] /\ \A t \in Searches : SearchOk(search'[t], disk')
  BY <1>5, <1>7 DEF DupInv, SearchEnds
<1>9. PageOk'
  <2>1. CASE UNCHANGED posts
    BY <2>1 DEF SearchEnds, DupInv, PageOk
  <2>2. ASSUME NEW list \in Ranked(r.clusters),
               posts' = Append(posts, [list |-> list, total |-> Total(r.clusters)])
        PROVE  PageOk'
    <3>1. PICK x : x = [list |-> list, total |-> Total(r.clusters)]
      OBVIOUS
    <3>2. x.list = list /\ x.total = Total(r.clusters) /\ ToSet(list) = r.clusters
      BY <3>1 DEF Ranked
    <3>3. x.total = Total(ToSet(x.list))
      BY <3>2
    <3>4. posts \in Seq(ToSet(posts))
      BY DEF DupInv, PageOk
    <3>5. PICK p : /\ p = Append(posts, x) /\ p \in Seq(ToSet(p))
                   /\ \A i \in DOMAIN p : p[i] = x \/ \E j \in DOMAIN posts : p[i] = posts[j]
      BY <3>4, QueueAppend
    <3>6. p = posts'
      BY <2>2, <3>1, <3>5
    <3>7. \A i \in DOMAIN p : p[i].total = Total(ToSet(p[i].list))
      BY <3>3, <3>5 DEF DupInv, PageOk
    <3>8. totalRecoverable' = Total(ToSet(clusterList'))
      BY DEF DupInv, PageOk, SearchEnds
    <3> QED
      BY <3>5, <3>6, <3>7, <3>8 DEF PageOk
  <2> QED
    BY <1>1, <2>1, <2>2 DEF SearchEnds
<1> QED
  BY <1>8, <1>9 DEF DupInv, SearchEnds

LEMMA ShowKeeps == ASSUME DupInv, Show PROVE DupInv'
<1>1. posts # <<>> /\ posts \in Seq(ToSet(posts))
  BY DEF Show, DupInv, PageOk
<1>2. PICK p : /\ p = Tail(posts) /\ p \in Seq(ToSet(p))
               /\ \A i \in DOMAIN p : \E j \in DOMAIN posts : p[i] = posts[j]
               /\ 1 \in DOMAIN posts /\ Head(posts) = posts[1]
  BY <1>1, QueueTail
<1>3. p = posts'
  BY <1>2 DEF Show
<1>4. \A i \in DOMAIN p : p[i].total = Total(ToSet(p[i].list))
  BY <1>2 DEF DupInv, PageOk
<1>5. totalRecoverable' = Total(ToSet(clusterList'))
  BY <1>2 DEF DupInv, PageOk, Show
<1>6. PageOk'
  BY <1>2, <1>3, <1>4, <1>5 DEF PageOk
<1> QED
  BY <1>6 DEF DupInv, Show

LEMMA RewriteKeeps ==
    ASSUME DupInv, NEW f \in DOMAIN disk, NEW content \in Rewrites, Rewrite(f, content)
    PROVE  DupInv'
<1>1. DiskOk(disk')
  <2>1. content # Gone => content \in Seq(Nat)
    BY DuplicatesAssumption
  <2>2. PICK e : e = disk'
    OBVIOUS
  <2>3. e = [disk EXCEPT ![f] = content] /\ DiskOk(disk)
    BY <2>2 DEF Rewrite, DupInv
  <2>4. DOMAIN e = DOMAIN disk /\ \A g \in DOMAIN e : e[g] = content \/ e[g] = disk[g]
    BY <2>3
  <2> QED
    BY <2>1, <2>2, <2>3, <2>4 DEF DiskOk
<1>2. search' = [s \in Searches |-> [search[s] EXCEPT !.clean = @ /\ search[s].at \in {"idle", "ended"}]]
  BY DEF Rewrite
<1>3. ASSUME NEW s \in Searches PROVE SearchOk(search'[s], disk')
  <2>1. PICK r, q, e : r = search[s] /\ q = search'[s] /\ e = disk'
    OBVIOUS
  <2>2. SearchOk(r, disk) /\ IsSearch(r)
    BY <2>1 DEF DupInv, SearchOk
  <2>3. q = [r EXCEPT !.clean = r.clean /\ r.at \in {"idle", "ended"}]
    BY <1>2, <2>1
  <2>4. /\ IsSearch(q) /\ q.at = r.at /\ q.asked = r.asked /\ q.truth = r.truth /\ q.clusters = r.clusters
        /\ q.clean <=> r.clean /\ r.at \in {"idle", "ended"}
    BY <2>2, <2>3 DEF IsSearch
  <2>5. q.clean => r.clean /\ r.at \in {"idle", "ended"}
    BY <2>4
  <2>6. ASSUME r.at = "ended", q.clean, Apart(q.asked) PROVE Right(q, Found(q))
    <3>1. Right(r, Found(r))
      BY <2>2, <2>4, <2>5, <2>6 DEF SearchOk
    <3>2. Found(q) = Found(r)
      BY <2>4, SameFound
    <3> QED
      BY <2>4, <3>1, <3>2, RightSame
  <2>7. SearchOk(q, e)
    BY <2>2, <2>4, <2>5, <2>6 DEF SearchOk
  <2> QED
    BY <2>1, <2>7
<1>4. PageOk'
  BY DEF Rewrite, DupInv, PageOk
<1>5. search' = [s \in Searches |-> search'[s]]
  BY <1>2
<1> QED
  BY <1>1, <1>3, <1>4, <1>5 DEF DupInv

LEMMA DupInitInv == DupInit => DupInv
<1> SUFFICES ASSUME DupInit PROVE DupInv
  OBVIOUS
<1>1. DiskOk(disk)
  BY DuplicatesAssumption DEF DupInit, DiskOk
<1>2. search = [s \in Searches |-> NotBegun]
  BY DEF DupInit
<1>3. \A s \in Searches : SearchOk(search[s], disk)
  BY <1>2 DEF SearchOk, NotBegun, IsSearch
<1>4. Total({}) = 0
  <2>1. UNION {{c} \X (1 .. RecoverableBytes(c)) : c \in {}} = {}
    OBVIOUS
  <2> QED
    BY <2>1, FS_EmptySet DEF Total
<1>5. ToSet(<<>>) = {} /\ DOMAIN <<>> = {} /\ <<>> \in Seq({})
  BY DEF ToSet
<1>6. PageOk
  <2>1. ToSet(posts) = {}
    BY <1>5 DEF DupInit
  <2> QED
    BY <1>4, <1>5, <2>1 DEF PageOk, DupInit
<1> QED
  BY <1>1, <1>2, <1>3, <1>6 DEF DupInv

LEMMA DupNextInv == DupInv /\ [DupNext]_dupVars => DupInv'
<1> SUFFICES ASSUME DupInv, [DupNext]_dupVars PROVE DupInv'
  OBVIOUS
<1>1. ASSUME NEW s \in Searches,
             \/ \E list \in Asked : Run(s, list)
             \/ OpenRoot(s) \/ Collect(s) \/ CollectThrows(s) \/ Collected(s)
             \/ Measure(s) \/ Measured(s) \/ NextGroup(s) \/ HashFile(s) \/ GroupDone(s) \/ SearchEnds(s)
      PROVE  DupInv'
  BY <1>1, RunKeeps, OpenRootKeeps, CollectKeeps, CollectThrowsKeeps, CollectedKeeps, MeasureKeeps,
     MeasuredKeeps, NextGroupKeeps, HashFileKeeps, GroupDoneKeeps, SearchEndsKeeps
<1>2. CASE UNCHANGED dupVars
  BY <1>2 DEF dupVars, DupInv, PageOk
<1> QED
  BY <1>1, <1>2, ShowKeeps, RewriteKeeps DEF DupNext

-----------------------------------------------------------------------------
\* Two members.
LEMMA Several ==
    ASSUME NEW S, IsFiniteSet(S), NEW x \in S, NEW y \in S, x # y
    PROVE  Cardinality(S) >= 2
<1>1. Cardinality(S) \in Nat
  BY FS_CardinalityType
<1>2. Cardinality(S) # 0
  BY FS_EmptySet
<1>3. Cardinality(S) # 1
  BY FS_Singleton
<1> QED
  BY <1>1, <1>2, <1>3

\* A search finds finitely many files.
LEMMA FoundIsFinite == ASSUME NEW r, r.asked \in Seq(DOMAIN FilesIn) PROVE IsFiniteSet(Found(r))
<1>1. PICK q : q = r.asked
  OBVIOUS
<1>2. q \in Seq(DOMAIN FilesIn) /\ Len(q) \in Nat /\ DOMAIN q = 1 .. Len(q)
      /\ \A i \in DOMAIN q : q[i] \in DOMAIN FilesIn
  BY <1>1
<1>3. \A n \in Nat : IsFiniteSet(1 .. n)
  BY FS_Interval
<1>4. ASSUME NEW i \in DOMAIN q PROVE IsFiniteSet(ToSet(FilesIn[q[i]]))
  <2>1. PICK F : F = FilesIn[q[i]]
    OBVIOUS
  <2>2. F \in Seq(AllFiles) /\ Len(F) \in Nat
    BY <1>2, <2>1, DuplicatesAssumption
  <2>3. ToSet(F) = {F[j] : j \in 1 .. Len(F)}
    BY <2>2, InList
  <2>4. F \in Surjection(1 .. Len(F), ToSet(F))
    BY <2>2, <2>3 DEF Surjection
  <2> QED
    BY <1>3, <2>1, <2>2, <2>4, FS_Surjection
<1>5. PICK parts : parts = {ToSet(FilesIn[q[i]]) : i \in DOMAIN q}
  OBVIOUS
<1>6. PICK g : g = [i \in DOMAIN q |-> ToSet(FilesIn[q[i]])]
  OBVIOUS
<1>7. g \in Surjection(DOMAIN q, parts)
  BY <1>5, <1>6 DEF Surjection
<1>8. IsFiniteSet(parts)
  BY <1>2, <1>3, <1>7, FS_Surjection
<1>9. IsFiniteSet(UNION parts)
  BY <1>4, <1>5, <1>8, FS_UNION
<1>10. Found(r) \subseteq UNION parts
  BY <1>1, <1>5 DEF Found, Reached
<1> QED
  BY <1>9, <1>10, FS_Subset

\* The bytes of a set of files, less one.
LEMMA OneStays ==
    ASSUME NEW F, NEW q, Lists(q, F), Len(q) >= 2, NEW x \in F, NEW n \in Nat
    PROVE  /\ ExistsBijection(1 .. (n * (Len(q) - 1)), (F \ {x}) \X (1 .. n))
           /\ n * (Len(q) - 1) \in Nat
<1>1. IsFiniteSet(F) /\ Cardinality(F) = Len(q) /\ Len(q) \in Nat
  BY ListsCount DEF Lists
<1>2. PICK G, m : G = F \ {x} /\ m = Len(q) - 1
  OBVIOUS
<1>3. IsFiniteSet(G) /\ Cardinality(G) = m /\ m \in Nat
  <2>1. IsFiniteSet(G) /\ Cardinality(G) = IF x \in F THEN Cardinality(F) - 1 ELSE Cardinality(F)
    BY <1>1, <1>2, FS_RemoveElement
  <2> QED
    BY <1>1, <1>2, <2>1
<1>4. IsFiniteSet(1 .. n) /\ Cardinality(1 .. n) = n
  <2>1. 1 \in Int /\ n \in Int
    OBVIOUS
  <2>2. IsFiniteSet(1 .. n) /\ Cardinality(1 .. n) = IF 1 > n THEN 0 ELSE n - 1 + 1
    BY <2>1, FS_Interval
  <2> QED
    BY <2>2
<1>5. IsFiniteSet(G \X (1 .. n)) /\ Cardinality(G \X (1 .. n)) = Cardinality(G) * Cardinality(1 .. n)
  BY <1>3, <1>4, FS_Product
<1>6. ExistsBijection(1 .. Cardinality(G \X (1 .. n)), G \X (1 .. n))
  BY <1>5, FS_CardinalityType
<1>7. Cardinality(G \X (1 .. n)) = m * n
  BY <1>3, <1>4, <1>5, Zenon
<1>8. m * n = n * m /\ n * m \in Nat
  BY <1>3
<1> QED
  BY <1>2, <1>6, <1>7, <1>8, Zenon

\* What a cluster would give back.
LEMMA OneStaysOf ==
    ASSUME NEW c, NEW F, Lists(c.files, F), Len(c.files) >= 2, c.size \in Nat
    PROVE  ExistsBijection(1 .. RecoverableBytes(c), (F \ {CHOOSE g \in F : TRUE}) \X (1 .. c.size))
<1>1. F # {}
  <2>1. c.files # <<>>
    OBVIOUS
  <2> QED
    BY <2>1, ListsEmpty
<1>2. (CHOOSE g \in F : TRUE) \in F
  BY <1>1
<1> QED
  BY <1>2, OneStays DEF RecoverableBytes

\* The total of the classes is what all files hold but one of each.
LEMMA TotalIsSpare ==
    ASSUME NEW r, Right(r, Found(r)), DiskOk(r.truth), r.asked \in Seq(DOMAIN FilesIn)
    PROVE  Total(r.clusters) = Cardinality(UNION {{f} \X (1 .. Len(r.truth[f])) : f \in Spare(r)})
<1>1. PICK C, t : C = r.clusters /\ t = r.truth
  OBVIOUS
<1>2. PICK n : n = [c \in C |-> RecoverableBytes(c)]
  OBVIOUS
<1>3. PICK P : P = [c \in C |-> (ToSet(c.files) \ {CHOOSE g \in ToSet(c.files) : TRUE}) \X (1 .. c.size)]
  OBVIOUS
<1>4. \A f \in Found(r) : Len(t[f]) \in Nat
  BY <1>1, FoundFacts
<1>5. ASSUME NEW c \in C
      PROVE  \E f \in Found(r) : /\ Lists(c.files, Same(r, f)) /\ ToSet(c.files) = Same(r, f)
                                 /\ Len(c.files) >= 2 /\ c.size = Len(t[f])
  BY <1>1 DEF Right, Lists
<1>6. ASSUME NEW c \in C PROVE ExistsBijection(1 .. n[c], P[c])
  <2>1. PICK f \in Found(r) : /\ Lists(c.files, Same(r, f)) /\ ToSet(c.files) = Same(r, f)
                              /\ Len(c.files) >= 2 /\ c.size = Len(t[f])
    BY <1>5
  <2>2. PICK F : F = Same(r, f)
    OBVIOUS
  <2>3. Lists(c.files, F) /\ Len(c.files) >= 2 /\ c.size \in Nat
    BY <1>4, <2>1, <2>2
  <2>4. ExistsBijection(1 .. RecoverableBytes(c), (F \ {CHOOSE g \in F : TRUE}) \X (1 .. c.size))
    BY <2>3, OneStaysOf
  <2> QED
    BY <1>2, <1>3, <2>1, <2>2, <2>4
<1>7. ASSUME NEW c \in C, NEW d \in C, c # d PROVE P[c] \cap P[d] = {}
  <2>1. ToSet(c.files) \cap ToSet(d.files) = {}
    BY <1>1, <1>7 DEF Right
  <2>2. \A x \in P[c] : x[1] \in ToSet(c.files)
    BY <1>3
  <2>3. \A x \in P[d] : x[1] \in ToSet(d.files)
    BY <1>3
  <2> QED
    BY <2>1, <2>2, <2>3
<1>8. ExistsBijection(Parts(C, n), Gathered(C, P))
  <2>1. (\A c \in C : ExistsBijection(1 .. n[c], P[c])) /\ \A c, d \in C : c # d => P[c] \cap P[d] = {}
    BY <1>6, <1>7
  <2> QED
    BY <2>1, Glue
<1>9. PICK B : B = UNION {{f} \X (1 .. Len(t[f])) : f \in Spare(r)}
  OBVIOUS
<1>10. Gathered(C, P) = B
  <2>1. ASSUME NEW c \in C, NEW x \in P[c] PROVE x \in B
    <3>1. PICK f \in Found(r) : ToSet(c.files) = Same(r, f) /\ c.size = Len(t[f])
      BY <1>5
    <3>2. PICK g, k : x = <<g, k>> /\ g \in Same(r, f) /\ g # (CHOOSE e \in Same(r, f) : TRUE) /\ k \in 1 .. Len(t[f])
      BY <1>3, <3>1
    <3>3. g \in Found(r) /\ t[g] = t[f] /\ Same(r, g) = Same(r, f)
      BY <1>1, <3>2 DEF Same
    <3>4. g \in Spare(r) /\ k \in 1 .. Len(t[g])
      BY <3>2, <3>3 DEF Spare
    <3> QED
      BY <1>9, <3>2, <3>4
  <2>2. ASSUME NEW x \in B PROVE \E c \in C : x \in P[c]
    <3>1. PICK f \in Spare(r) : x \in {f} \X (1 .. Len(t[f]))
      BY <1>9
    <3>2. PICK e : e = CHOOSE g \in Same(r, f) : TRUE
      OBVIOUS
    <3>3. f \in Found(r) /\ f # e /\ f \in Same(r, f)
      BY <3>1, <3>2 DEF Spare, Same
    <3>4. e \in Same(r, f)
      BY <3>2, <3>3
    <3>5. Cardinality(Same(r, f)) >= 2
      <4>1. Same(r, f) \subseteq Found(r)
        BY DEF Same
      <4>2. IsFiniteSet(Same(r, f))
        BY <4>1, FoundIsFinite, FS_Subset
      <4> QED
        BY <3>3, <3>4, <4>2, Several
    <3>6. PICK c \in C : ToSet(c.files) = Same(r, f)
      BY <1>1, <3>3, <3>5 DEF Right
    <3>7. PICK g \in Found(r) : ToSet(c.files) = Same(r, g) /\ c.size = Len(t[g])
      BY <1>5
    <3>8. t[f] = t[g]
      BY <1>1, <3>3, <3>6, <3>7 DEF Same
    <3>9. x \in (ToSet(c.files) \ {CHOOSE h \in ToSet(c.files) : TRUE}) \X (1 .. c.size)
      BY <3>1, <3>2, <3>3, <3>6, <3>7, <3>8
    <3> QED
      BY <1>3, <3>9
  <2> QED
    BY <2>1, <2>2 DEF Gathered
<1>11. IsFiniteSet(B)
  <2>1. PICK parts : parts = {{f} \X (1 .. Len(t[f])) : f \in Spare(r)}
    OBVIOUS
  <2>2. PICK g : g = [f \in Spare(r) |-> {f} \X (1 .. Len(t[f]))]
    OBVIOUS
  <2>3. Spare(r) \subseteq Found(r)
    BY DEF Spare
  <2>4. IsFiniteSet(Spare(r))
    BY <2>3, FoundIsFinite, FS_Subset
  <2>5. g \in Surjection(Spare(r), parts)
    BY <2>1, <2>2 DEF Surjection
  <2>6. IsFiniteSet(parts)
    BY <2>4, <2>5, FS_Surjection
  <2>7. ASSUME NEW f \in Spare(r) PROVE IsFiniteSet({f} \X (1 .. Len(t[f])))
    <3>1. 1 \in Int /\ Len(t[f]) \in Int
      BY <1>4, <2>3
    <3> QED
      BY <3>1, FS_Singleton, FS_Interval, FS_Product
  <2> QED
    BY <1>9, <2>1, <2>6, <2>7, FS_UNION
<1>12. Total(C) = Cardinality(Parts(C, n))
  BY <1>2 DEF Total, Parts
<1> QED
  <2>1. PICK A : A = Parts(C, n)
    OBVIOUS
  <2>2. ExistsBijection(A, B)
    BY <1>8, <1>10, <2>1
  <2>3. ExistsBijection(B, A)
    BY <2>2, Fun_ExistsBijSymmetric
  <2>4. Cardinality(A) = Cardinality(B)
    BY <1>11, <2>3, FS_Bijection
  <2> QED
    BY <1>1, <1>9, <1>12, <2>1, <2>4

\* The clusters are the classes of more than one file.
LEMMA ClustersAreClasses ==
    ASSUME NEW r, Right(r, Found(r))
    PROVE  {ToSet(c.files) : c \in r.clusters} =
           {F \in {Same(r, f) : f \in Found(r)} : Cardinality(F) >= 2}
<1>1. ASSUME NEW c \in r.clusters
      PROVE  ToSet(c.files) \in {F \in {Same(r, f) : f \in Found(r)} : Cardinality(F) >= 2}
  <2>1. PICK f \in Found(r) : Lists(c.files, Same(r, f)) /\ Len(c.files) >= 2
    BY DEF Right
  <2>2. ToSet(c.files) = Same(r, f) /\ Cardinality(Same(r, f)) >= 2
    BY <2>1, ListsCount DEF Lists
  <2> QED
    BY <2>2
<1>2. ASSUME NEW f \in Found(r), Cardinality(Same(r, f)) >= 2
      PROVE  Same(r, f) \in {ToSet(c.files) : c \in r.clusters}
  BY <1>2 DEF Right
<1> QED
  BY <1>1, <1>2

\* Whatever the files and roots, however searches overlap and whichever calls
\* fail: a search that nothing disturbed ends with exactly the classes of
\* files of the same content and the bytes that all but one of each hold, and
\* the page shows the clusters and the total of one search.
THEOREM ClassesAreExact == DupSpec => []ClustersAreExact
<1>1. DupInv => ClustersAreExact
  <2> SUFFICES ASSUME DupInv PROVE ClustersAreExact
    OBVIOUS
  <2>1. ASSUME NEW s \in Searches, search[s].at = "ended" /\ search[s].clean /\ Apart(search[s].asked)
        PROVE  /\ {ToSet(c.files) : c \in search[s].clusters} =
                  {F \in {Same(search[s], f) : f \in Found(search[s])} : Cardinality(F) >= 2}
               /\ Total(search[s].clusters) =
                  Cardinality(UNION {{f} \X (1 .. Len(search[s].truth[f])) : f \in Spare(search[s])})
    <3>1. PICK r : r = search[s]
      OBVIOUS
    <3>2. Right(r, Found(r)) /\ DiskOk(r.truth) /\ r.asked \in Seq(DOMAIN FilesIn)
      BY <2>1, <3>1 DEF DupInv, SearchOk
    <3>3. Total(r.clusters) = Cardinality(UNION {{f} \X (1 .. Len(r.truth[f])) : f \in Spare(r)})
      BY <3>2, TotalIsSpare
    <3>4. {ToSet(c.files) : c \in r.clusters} =
          {F \in {Same(r, f) : f \in Found(r)} : Cardinality(F) >= 2}
      BY <3>2, ClustersAreClasses
    <3> QED
      BY <3>1, <3>3, <3>4
  <2>2. totalRecoverable = Total(ToSet(clusterList))
    BY DEF DupInv, PageOk
  <2> QED
    BY <2>1, <2>2 DEF ClustersAreExact
<1> QED
  BY <1>1, DupInitInv, DupNextInv, PTL DEF DupSpec
=============================================================================
