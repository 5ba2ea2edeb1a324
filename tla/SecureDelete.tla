---------------------------- MODULE SecureDelete ----------------------------
(* secureDeleteFile: a file is measured, overwritten in passes through a   *)
(* buffered stream, and removed, while another program may append to it.   *)
(* A file is a sequence of units, each the old data or a pattern.          *)
EXTENDS Naturals, Sequences, FiniteSets, FiniteSetsExt

CONSTANTS FirstLength,  \* the length of the file
          BufferSize,   \* SecureDeleteOptions::bufferSize
          MaxAppends    \* bound: units that are appended

\* Without a buffer a pass would never end.
ASSUME BufferAssumption == BufferSize \in Nat \ {0}
ASSUME LengthAssumption == FirstLength \in Nat

VARIABLES file, there,     \* the file on disk, and whether it is there
          spc, standard, size, pass, remaining,  \* secureDeleteFile
          unflushed, bad,  \* the stream: positions it holds back; its error state
          appends,
          lateFault        \* history: the last flush or the close failed

deleteVars == <<file, there, spc, standard, size, pass, remaining, unflushed, bad, appends, lateFault>>

\* passesFor and fillPattern.
PassesFor(std) == CASE std = "Zero" -> 1 [] std = "Dod522022M" -> 3 [] std = "Gutmann" -> 35
FillPattern(p, std) ==
    CASE std = "Zero" -> "zeros"
      [] std = "Dod522022M" /\ p = 0 -> "zeros"
      [] std = "Dod522022M" /\ p = 1 -> "ones"
      [] OTHER -> "random"

DeleteInit ==
    /\ file = [i \in 1 .. FirstLength |-> "old"] /\ there = TRUE
    /\ spc = "idle" /\ standard = "Zero" /\ size = 0 /\ pass = 0 /\ remaining = 0
    /\ unflushed = {} /\ bad = FALSE /\ appends = 0 /\ lateFault = FALSE

\* is_regular_file and file_size; either may fail.
DeleteBegins(std) ==
    /\ spc = "idle" /\ standard' = std
    /\ \/ spc' = "failed" /\ UNCHANGED size
       \/ spc' = "open" /\ size' = Len(file)
    /\ UNCHANGED <<file, there, pass, remaining, unflushed, bad, appends, lateFault>>

OpenFile ==
    /\ spc = "open"
    /\ \/ spc' = "failed" /\ UNCHANGED remaining
       \/ spc' = "write" /\ remaining' = size
    /\ UNCHANGED <<file, there, standard, size, pass, unflushed, bad, appends, lateFault>>

\* Mutant: the stream is not taken back to the start for the next pass.
GoesOn(p) == p * size

\* seekp(0) at the start of a pass.
PassStart(p) == 0

\* These positions, which the file grows to hold if need be, have the pattern of this pass.
Overwritten(positions) ==
    [i \in 1 .. Max(positions \cup {Len(file)}) |->
       IF i \in positions THEN FillPattern(pass, standard) ELSE file[i]]

Chunk == Min({remaining, BufferSize})
Positions == PassStart(pass) + (size - remaining) + 1 .. PassStart(pass) + (size - remaining) + Chunk

\* One write: it stays in the stream, or goes to the disk with what the
\* stream held back, or fails; a stream in error takes no more.
WriteChunk ==
    /\ spc = "write" /\ remaining > 0
    /\ \/ /\ spc' = "failed" /\ UNCHANGED <<file, remaining, unflushed>>
       \/ /\ ~bad /\ remaining' = remaining - Chunk
          /\ \/ unflushed' = unflushed \cup Positions /\ UNCHANGED file
             \/ file' = Overwritten(unflushed \cup Positions) /\ unflushed' = {}
          /\ UNCHANGED spc
    /\ UNCHANGED <<there, standard, size, pass, bad, appends, lateFault>>

LastPass == pass + 1 = PassesFor(standard)

\* flush, whose failure only the next write would notice.
PassEnds ==
    /\ spc = "write" /\ remaining = 0
    /\ \/ /\ ~bad /\ file' = Overwritten(unflushed) /\ unflushed' = {}
          /\ UNCHANGED <<bad, lateFault>>
       \/ bad' = TRUE /\ lateFault' = LastPass /\ UNCHANGED <<file, unflushed>>
    /\ IF LastPass
       THEN spc' = "close" /\ UNCHANGED <<pass, remaining>>
       ELSE pass' = pass + 1 /\ remaining' = size /\ UNCHANGED spc
    /\ UNCHANGED <<there, standard, size, appends>>

\* close drops what could not be flushed; then the file is removed, unless
\* it is to stay, and that is the answer.
CloseAndRemove ==
    /\ spc = "close"
    /\ unflushed' = {}
    /\ \/ there' = FALSE /\ spc' = "done"
       \/ there' = there /\ spc' \in {"done", "failed"}
    /\ UNCHANGED <<file, standard, size, pass, remaining, bad, appends, lateFault>>

\* Another program has the file open too.
OtherAppends ==
    /\ there /\ appends < MaxAppends
    /\ file' = Append(file, "old") /\ appends' = appends + 1
    /\ UNCHANGED <<there, spc, standard, size, pass, remaining, unflushed, bad, lateFault>>

DeleteNext ==
    \/ \E std \in {"Zero", "Dod522022M", "Gutmann"} : DeleteBegins(std)
    \/ OpenFile \/ WriteChunk \/ PassEnds \/ CloseAndRemove \/ OtherAppends

DeleteSpec == DeleteInit /\ [][DeleteNext]_deleteVars

(***************************************************************************)
(* Properties.                                                             *)
(***************************************************************************)
\* When secureDeleteFile reports success, every unit that the file had when
\* it was measured was overwritten on the disk, by the pattern of the last
\* pass - unless the last flush failed, which nothing in the code notices.
OverwrittenWhenDone ==
    spc = "done" /\ ~lateFault =>
      \A i \in 1 .. size : file[i] = FillPattern(PassesFor(standard) - 1, standard)
=============================================================================
