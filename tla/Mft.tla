-------------------------------- MODULE Mft --------------------------------
(* NtfsMftReader::stream: the records of a live volume's master file table *)
(* are read in batches, checked against torn writes by their update        *)
(* sequence, and walked attribute by attribute.  Offsets and sizes are in  *)
(* units small enough to enumerate; 32-bit sums keep their wrap-around.    *)
(* Nothing that the boot sector says is checked: a sector of less than two *)
(* bytes makes the fix-up read outside of the record, which is undefined.  *)
EXTENDS Integers

CONSTANTS WordBits,      \* of an unsigned int: 32
          Boots,         \* what a boot sector may hold
          HeaderSize,    \* sizeof(AttributeHeader)
          StandardSize,  \* sizeof(StandardInformationAttr)
          FileNameSize,  \* sizeof(FileNameAttr)
          NameAt,        \* offsetof(FileNameAttr, name)
          MarkSize,      \* of the mark "FILE" that begins a record
          MinRecord,     \* the smallest record applyUpdateSequence accepts (44)
          Records,       \* what the fixed part of a record may hold
          Headers,       \* what an attribute header may hold
          Batch,         \* kRecordsPerBatch (64)
          MaxBatches     \* bound: batches of one stream

VARIABLES mpc, boot, batches, left, short,  \* the loop over batches and records
          record, offset, entry,            \* the record that is walked
          emitted,                          \* sink calls
          outside, turns, wrapped           \* history: a read left its record; turns of the walk; a sum wrapped

mftVars == <<mpc, boot, batches, left, short, record, offset, entry, emitted, outside, turns, wrapped>>

Wrap == 2 ^ WordBits

\* recordSizeBytes of readBootSector, and the default of stream.  The processor
\* takes the count of a shift modulo the bits of a word.
BootRecordSize(b) ==
    IF b.clustersPerRecord > 0
    THEN b.clustersPerRecord * b.bytesPerSector * b.sectorsPerCluster
    ELSE 2 ^ ((-b.clustersPerRecord) % WordBits)
RecordSizeOf(b) == IF BootRecordSize(b) = 0 THEN 1024 ELSE BootRecordSize(b)
RecordSize == RecordSizeOf(boot)

\* The fields are unsigned, but for the clusters per record.
ASSUME SizesAssumption ==
    /\ Wrap \in Nat \ {0} /\ HeaderSize \in Nat /\ StandardSize \in Nat
    /\ FileNameSize \in Nat /\ NameAt \in Nat /\ MarkSize \in Nat
ASSUME BootsAssumption ==
    \A b \in Boots : b.bytesPerSector \in Nat /\ RecordSizeOf(b) \in Nat
ASSUME RecordsAssumption ==
    /\ Records # {}
    /\ \A r \in Records : {r.firstAttribute, r.usaOffset, r.usaCount} \subseteq Nat
ASSUME HeadersAssumption ==
    \A h \in Headers : h.length \in Nat /\ h.valueOffset \in Nat /\ h.nameLength \in Nat

NoEntry == [named |-> FALSE, real |-> 0, standard |-> FALSE]

MftInit ==
    /\ mpc = "boot" /\ boot \in Boots /\ batches = 0 /\ left = 0 /\ short = FALSE
    /\ record = (CHOOSE r \in Records : TRUE) /\ offset = 0 /\ entry = NoEntry
    /\ emitted = 0 /\ outside = FALSE /\ turns = 0 /\ wrapped = FALSE

\* The boot sector and the seek to the table: any of the calls may fail.
OpenVolume ==
    /\ mpc = "boot"
    /\ mpc' \in {"batch", "failed"}
    /\ UNCHANGED <<boot, batches, left, short, record, offset, entry, emitted, outside, turns, wrapped>>

\* One ReadFile.  An error or the end of the table ends the stream without
\* an error; fewer records than a batch are the last ones.
ReadBatch ==
    /\ mpc = "batch"
    /\ \/ mpc' = "done" /\ UNCHANGED <<batches, left, short>>
       \/ /\ batches < MaxBatches
          /\ mpc' = "record" /\ batches' = batches + 1
          /\ left' \in 0 .. Batch
          /\ short' = (left' < Batch)
    /\ UNCHANGED <<boot, record, offset, entry, emitted, outside, turns, wrapped>>

BatchDone ==
    /\ mpc = "record" /\ left = 0
    /\ mpc' = IF short THEN "done" ELSE "batch"
    /\ UNCHANGED <<boot, batches, left, short, record, offset, entry, emitted, outside, turns, wrapped>>

Covered(r) == r.usaCount - 1

\* What applyUpdateSequence checks before it reads.
SizesFit(r) ==
    /\ RecordSize >= MinRecord /\ r.usaCount # 0
    /\ Covered(r) * boot.bytesPerSector <= RecordSize
    /\ r.usaOffset + 2 * r.usaCount <= RecordSize

\* sectorEnd, an unsigned int: where the last word of a sector begins.
SectorEnd(sector) == (sector * boot.bytesPerSector - 2) % Wrap
TailInside(sector) == SectorEnd(sector) + 2 <= RecordSize

\* Outside of the record there may be anything, the sequence number too.
Agrees(r, sector) == TailInside(sector) => r.tails[sector] = r.signature

\* Mutant: the tails are replaced without being compared.
FixedUpBlindly(r) == SizesFit(r)

\* applyUpdateSequence: the last word of every sector the array covers is
\* the sequence number of the write that the first sector belongs to.
FixedUp(r) == SizesFit(r) /\ \A sector \in 1 .. Covered(r) : Agrees(r, sector)

\* The sectors that it comes to: the first that does not agree is the last.
Compared(r) ==
    {sector \in 1 .. Covered(r) : \A before \in 1 .. sector - 1 : Agrees(r, before)}

\* Where the reads of a record end before its attributes are walked.
MarkReads(r) ==
    {MarkSize}
      \cup (IF r.file /\ SizesFit(r)
            THEN {r.usaOffset + 2} \cup {SectorEnd(sector) + 2 : sector \in Compared(r)}
                 \cup {r.usaOffset + 2 * (sector + 1) : sector \in Compared(r)}
            ELSE {})

Strays(r) == r.file /\ SizesFit(r) /\ \E sector \in Compared(r) : ~TailInside(sector)

\* A record that is skipped, or one whose attributes are walked.  When the
\* tail of a sector lies outside, it may come out either way, or the process
\* ends.
NextRecord ==
    /\ mpc = "record" /\ left > 0
    /\ \E r \in Records :
         /\ outside' = (outside \/ \E end \in MarkReads(r) : end > RecordSize)
         /\ \/ /\ r.file /\ FixedUp(r) /\ r.inUse /\ r.firstAttribute < RecordSize
               /\ mpc' = "walk" /\ record' = r /\ offset' = r.firstAttribute
               /\ UNCHANGED left
            \/ /\ ~(r.file /\ FixedUp(r) /\ r.inUse /\ r.firstAttribute < RecordSize) \/ Strays(r)
               /\ left' = left - 1 /\ UNCHANGED <<mpc, record, offset>>
            \/ /\ Strays(r)
               /\ mpc' = "crashed" /\ UNCHANGED <<left, record, offset>>
    /\ UNCHANGED <<boot, batches, short, entry, emitted, turns, wrapped>>

\* Mutant: only the start of a value is checked.
Fits(start, size) == start <= RecordSize

\* A value of this size that starts here ends within the record.
Inside(start, size) == start + size <= RecordSize

\* Mutant: an attribute of length 0 is stepped over like any other.
OnlyTooLong(h) == (offset + h.length) % Wrap > RecordSize

\* The two tests that end the walk at a broken header.
BadLength(h) == h.length = 0 \/ (offset + h.length) % Wrap > RecordSize

Data(h) == offset + h.valueOffset

IsStandard(h) == h.type = "StandardInformation" /\ h.resident /\ Inside(Data(h), StandardSize)
IsFileName(h) == h.type = "FileName" /\ h.resident /\ Inside(Data(h), FileNameSize)
HasName(h)    == IsFileName(h) /\ Inside(Data(h) + NameAt, h.nameLength)

\* The entry after this attribute: $STANDARD_INFORMATION, a $FILE_NAME that
\* is not the DOS one, and the size of an unnamed non-resident $DATA when
\* no size is known.  A name after the data resets the size.
Took(h) ==
    CASE IsStandard(h) -> [entry EXCEPT !.standard = TRUE]
      [] HasName(h) /\ h.nameLength > 0 /\ ~h.dos -> [entry EXCEPT !.named = TRUE, !.real = h.real]
      [] h.type = "Data" /\ ~h.resident /\ entry.real = 0 -> [entry EXCEPT !.real = h.real]
      [] OTHER -> entry

\* Where the reads of this attribute end.
Reads(h) ==
    {offset + HeaderSize}
      \cup (IF IsStandard(h) THEN {Data(h) + StandardSize} ELSE {})
      \cup (IF IsFileName(h) THEN {Data(h) + FileNameSize} ELSE {})
      \cup (IF HasName(h) THEN {Data(h) + NameAt + h.nameLength} ELSE {})

\* One turn of the walk.
WalkAttribute ==
    /\ mpc = "walk" /\ offset + HeaderSize <= RecordSize
    /\ \E h \in Headers :
         /\ h.type # "Terminator" /\ ~BadLength(h)
         /\ entry' = Took(h)
         /\ outside' = (outside \/ \E end \in Reads(h) : end > RecordSize)
         /\ offset' = (offset + h.length) % Wrap
         /\ wrapped' = (wrapped \/ offset + h.length >= Wrap)
         /\ turns' = IF wrapped' THEN 0 ELSE turns + 1
    /\ UNCHANGED <<mpc, boot, batches, left, short, record, emitted>>

\* The walk ends, and the record becomes an entry if it had a name.
WalkEndsHere ==
    /\ mpc = "walk"
    /\ \/ offset + HeaderSize > RecordSize
       \/ \E h \in Headers : h.type = "Terminator" \/ BadLength(h)
    /\ emitted' = IF entry.named THEN emitted + 1 ELSE emitted
    /\ mpc' = "record" /\ left' = left - 1
    /\ offset' = 0 /\ entry' = NoEntry /\ turns' = 0
    /\ UNCHANGED <<boot, batches, short, record, outside, wrapped>>

MftNext == OpenVolume \/ ReadBatch \/ BatchDone \/ NextRecord \/ WalkAttribute \/ WalkEndsHere

MftSpec == MftInit /\ [][MftNext]_mftVars

(***************************************************************************)
(* Properties.                                                             *)
(***************************************************************************)
\* A boot sector that the reader can work with: sectors have a last word, and
\* the mark lies within a record.
SoundBoot == boot.bytesPerSector >= 2 /\ RecordSize >= MarkSize

\* Whatever a record holds, lengths that wrap included, no read of stream or
\* applyUpdateSequence goes beyond the record's end, unless the boot sector
\* says that a sector has less than two bytes or a record less than four.
ReadsStayInside == SoundBoot => ~outside

\* A record whose sectors come from different writes is never walked, as
\* long as sectors have a last word and its array covers all of them: a batch
\* that was read while the file system wrote yields whole records only.
NoTornRecord ==
    mpc = "walk" /\ boot.bytesPerSector >= 2 /\ Covered(record) * boot.bytesPerSector = RecordSize
      => \A i, j \in 1 .. Covered(record) : record.tails[i] = record.tails[j]

\* The walk over one record ends: every turn brings it forward, unless a
\* length near 2^32 made the sum of offset and length wrap and took it back.
WalkIsBounded == ~wrapped => turns <= offset
=============================================================================
