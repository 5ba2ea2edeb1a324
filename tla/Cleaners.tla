------------------------------ MODULE Cleaners ------------------------------
(* The cleaners and the residue scanner: each looks at some roots, walks   *)
(* them with a directory iterator, and reports candidates for removal and  *)
(* the bytes they would give back. One error code serves the whole walk: a *)
(* call that fails leaves it set, and the next entry is passed over.       *)
EXTENDS Naturals, Sequences, SequencesExt, FiniteSets, FiniteSetsExt

CONSTANTS
    Tree,       \* the entries of the disk, as paths (sequences of names)
    SizeOf,     \* the size of each regular file; the other entries are directories
    RootsOf,    \* the roots of each cleaner; they may lie in one another or be the same
    Dumps,      \* files with the extension of a crash dump
    Caches,     \* files named as thumbnail or icon caches
    Artifacts,  \* directories that bear one of the artifact names
    Alike,      \* entries whose name matches the needle of the residue scan
    Modulus     \* 2^64: what sizes are counted by

VARIABLES
    stage,   \* "idle", "roots", "walk", "done", or "threw"
    which,   \* the cleaner that scans
    nth,     \* the roots it has begun
    todo,    \* the entries of the current root it has yet to come to
    errored, \* ec
    sum,     \* the bytes of the current root, for a cleaner that reports roots
    report,  \* the CleanerReport
    failed   \* some call failed in this scan (history)

cleanerVars == <<stage, which, nth, todo, errored, sum, report, failed>>

Regular == DOMAIN SizeOf
Folders == Tree \ Regular
Below(d) == {e \in Tree : IsStrictPrefix(d, e)}
FilesOf(e) == {f \in Regular : IsPrefix(e, f)}

\* The bytes in some files, counted one by one.
BytesOf(S) == Cardinality(UNION {{f} \X (1 .. SizeOf[f]) : f \in S})

\* Nothing lies in a regular file, and the disk holds less than 2^64 bytes.
ASSUME TreeAssumption ==
    /\ Tree \subseteq Seq(STRING) /\ IsFiniteSet(Tree)
    /\ SizeOf \in [Regular -> Nat] /\ Regular \subseteq Tree
    /\ \A f \in Regular : Below(f) = {}
    /\ Modulus \in Nat \ {0} /\ BytesOf(Regular) < Modulus

-----------------------------------------------------------------------------
\* What the cleaners look for, in the order the registry lists them: files
\* anywhere below the roots, files directly in them, whole roots, artifact
\* directories, or entries of the roots that look like an application's.
Temp           == [id |-> "temp", deep |-> TRUE, per |-> "file", wanted |-> Regular]
BrowserCache   == [id |-> "browser", deep |-> TRUE, per |-> "root", wanted |-> Regular]
DevArtifact    == [id |-> "artifact", deep |-> TRUE, per |-> "artifact", wanted |-> Artifacts]
RecycleBin     == [id |-> "recycle", deep |-> TRUE, per |-> "file", wanted |-> Regular]
WindowsUpdate  == [id |-> "update", deep |-> TRUE, per |-> "file", wanted |-> Regular]
ThumbnailCache == [id |-> "thumbnail", deep |-> FALSE, per |-> "file", wanted |-> Caches]
CrashDump      == [id |-> "dump", deep |-> TRUE, per |-> "file", wanted |-> Dumps]

BuiltIn == {Temp, BrowserCache, DevArtifact, RecycleBin, WindowsUpdate, ThumbnailCache, CrashDump}

\* The residue scan walks its roots one level deep; it is not in the registry.
ResidueScan == [id |-> "residue", deep |-> FALSE, per |-> "entry", wanted |-> Alike]

ASSUME CleanersAssumption ==
    /\ RootsOf \in [{c.id : c \in BuiltIn \cup {ResidueScan}} -> Seq(Seq(STRING))]
    /\ Dumps \subseteq Regular /\ Caches \subseteq Regular
    /\ Artifacts \subseteq Folders /\ Alike \subseteq Tree

-----------------------------------------------------------------------------
CleanersInit ==
    /\ stage = "idle" /\ which = ResidueScan /\ nth = 0 /\ todo = {} /\ errored = FALSE
    /\ sum = 0 /\ report = [candidates |-> {}, total |-> 0] /\ failed = FALSE

\* scan(): an empty report.
ScanBegins(c) ==
    /\ stage \in {"idle", "done", "threw"}
    /\ which' = c /\ nth' = 0 /\ todo' = {} /\ errored' = FALSE /\ sum' = 0
    /\ report' = [candidates |-> {}, total |-> 0] /\ failed' = FALSE /\ stage' = "roots"

\* push_back: a path that two roots lead to is listed under each of them.
Reported(i, e, n) ==
    [candidates |-> report.candidates \cup {[root |-> i, path |-> e, bytes |-> n]},
     total |-> (report.total + n) % Modulus]

\* A file_size that fails returns 2^64 - 1, which is added like a size.
Measures(f, bad) == IF bad THEN Modulus - 1 ELSE SizeOf[f]

\* A root that does not exist, or whose iterator cannot be opened, is passed
\* over; a crash-dump root may itself be a file, which is left out when its
\* size cannot be read.
NextRootBegins ==
    /\ stage = "roots" /\ nth < Len(RootsOf[which.id]) /\ nth' = nth + 1
    /\ LET r == RootsOf[which.id][nth + 1] IN
       \E bad \in BOOLEAN :
         /\ failed' = (failed \/ bad) /\ errored' = FALSE /\ sum' = 0
         /\ IF r \in Regular /\ which = CrashDump
            THEN /\ report' = IF bad THEN report ELSE Reported(nth + 1, r, SizeOf[r])
                 /\ UNCHANGED <<stage, todo>>
            ELSE /\ todo' = {e \in Below(r) : ~bad /\ (which.deep \/ Len(e) = Len(r) + 1)}
                 /\ stage' = "walk" /\ UNCHANGED report
    /\ UNCHANGED which

\* The entries the iterator may come to next: the first of the deepest
\* directory that is open.
Frontier ==
    LET ready == {e \in todo : ~ \E d \in todo : IsStrictPrefix(d, e)}
    IN  {e \in ready : \A d \in ready : Len(d) <= Len(e)}

\* if (ec) { ec.clear(); continue; }
PassedOver(e) ==
    /\ stage = "walk" /\ errored /\ e \in Frontier
    /\ todo' = todo \ {e} /\ errored' = FALSE
    /\ UNCHANGED <<stage, which, nth, sum, report, failed>>

\* is_regular_file or is_directory fails: the entry counts as neither. The
\* residue scan has by then chosen it by its name and reports it with no bytes;
\* it asks both questions, and the second may clear the error of the first.
TypeFails(e) ==
    /\ stage = "walk" /\ ~errored /\ e \in Frontier
    /\ todo' = todo \ {e} /\ failed' = TRUE
    /\ IF which.per = "entry"
       THEN e \in which.wanted /\ report' = Reported(nth, e, 0) /\ errored' \in BOOLEAN
       ELSE errored' = TRUE /\ UNCHANGED report
    /\ UNCHANGED <<stage, which, nth, sum>>

\* An entry the cleaner does not look for.
Unwanted(e) ==
    /\ stage = "walk" /\ ~errored /\ e \in Frontier \ which.wanted
    /\ todo' = todo \ {e}
    /\ UNCHANGED <<stage, which, nth, errored, sum, report, failed>>

\* A regular file: a candidate of its own, or bytes of the root.
File(e) ==
    /\ stage = "walk" /\ ~errored /\ e \in Frontier \cap which.wanted \cap Regular
    /\ which.per \in {"file", "root", "entry"}
    /\ todo' = todo \ {e}
    /\ \E bad \in BOOLEAN :
         /\ errored' = bad /\ failed' = (failed \/ bad)
         /\ IF which.per = "root"
            THEN sum' = (sum + Measures(e, bad)) % Modulus /\ UNCHANGED report
            ELSE report' = Reported(nth, e, Measures(e, bad)) /\ UNCHANGED sum
    /\ UNCHANGED <<stage, which, nth>>

\* sumDirectory: what the inner walk may make of the files below a directory
\* when some are passed over and the sizes of some cannot be read.
InnerSum(d, missed, bad) ==
    (BytesOf(FilesOf(d) \ (missed \cup bad)) + Cardinality(bad) * (Modulus - 1)) % Modulus

\* Mutant: the walk enters an artifact directory that it has just reported.
BelowToo(e) == {}

\* disable_recursion_pending
NotEntered(e) == Below(e)

\* An artifact directory: reported and not entered, unless it has no bytes,
\* in which case the walk goes on below it.
Artifact(e) ==
    /\ stage = "walk" /\ ~errored /\ e \in Frontier \cap which.wanted
    /\ which.per = "artifact"
    /\ \E missed, bad \in SUBSET FilesOf(e) :
         LET n == InnerSum(e, missed, bad) IN
         /\ missed \cap bad = {}
         /\ failed' = (failed \/ missed \cup bad # {})
         /\ IF n = 0 THEN todo' = todo \ {e} /\ UNCHANGED report
                     ELSE todo' = todo \ ({e} \cup NotEntered(e)) /\ report' = Reported(nth, e, n)
    /\ UNCHANGED <<stage, which, nth, errored, sum>>

\* A directory that looks like the application's: the inner walk shares the
\* error code of the outer one.
ResidueDirectory(e) ==
    /\ stage = "walk" /\ ~errored /\ e \in Frontier \cap which.wanted \cap Folders
    /\ which.per = "entry"
    /\ todo' = todo \ {e}
    /\ \E missed, bad \in SUBSET FilesOf(e) :
         /\ missed \cap bad = {}
         /\ failed' = (failed \/ missed \cup bad # {})
         /\ errored' \in {FALSE, missed \cup bad # {}}
         /\ report' = Reported(nth, e, InnerSum(e, missed, bad))
    /\ UNCHANGED <<stage, which, nth, sum>>

\* ++it throws when a directory cannot be read, and so does exists(root) where
\* it is called without an error code: the scan ends without a report.
WalkThrows ==
    /\ \/ stage = "walk" /\ todo # {}
       \/ /\ stage = "roots" /\ nth < Len(RootsOf[which.id])
          /\ which \in {Temp, BrowserCache, DevArtifact, ThumbnailCache, ResidueScan}
    /\ stage' = "threw" /\ failed' = TRUE
    /\ UNCHANGED <<which, nth, todo, errored, sum, report>>

\* The end of a root; one that is reported as a whole is left out when it
\* holds nothing.
RootEnds ==
    /\ stage = "walk" /\ todo = {} /\ stage' = "roots"
    /\ report' = IF which.per = "root" /\ sum # 0 THEN Reported(nth, RootsOf[which.id][nth], sum)
                                                  ELSE report
    /\ UNCHANGED <<which, nth, todo, errored, sum, failed>>

ScanReturns ==
    /\ stage = "roots" /\ nth = Len(RootsOf[which.id]) /\ stage' = "done"
    /\ UNCHANGED <<which, nth, todo, errored, sum, report, failed>>

CleanersNext ==
    \/ \E c \in BuiltIn \cup {ResidueScan} : ScanBegins(c)
    \/ NextRootBegins \/ RootEnds \/ WalkThrows \/ ScanReturns
    \/ \E e \in Tree :
         \/ PassedOver(e) \/ TypeFails(e) \/ Unwanted(e)
         \/ File(e) \/ Artifact(e) \/ ResidueDirectory(e)

-----------------------------------------------------------------------------
CleanersSpec == CleanersInit /\ [][CleanersNext]_cleanerVars

\* The files a cleaner is for on account of its n-th root: those at or below
\* the entries it looks for, at any depth of the root or at the first. A root
\* that is a file is a crash dump.
Meant(n) ==
    LET r == RootsOf[which.id][n] IN
    {f \in Regular :
       \/ f = r /\ which = CrashDump
       \/ \E e \in which.wanted :
            /\ IsStrictPrefix(r, e) /\ (which.deep \/ Len(e) = Len(r) + 1)
            /\ IsPrefix(e, f)}

\* The files that the candidates of the n-th root stand for.
Listed(n) == UNION {FilesOf(c.path) : c \in {d \in report.candidates : d.root = n}}

\* The report of a cleaner accounts for its total whatever fails on the way. A
\* file is counted at most once for each root that leads to it, nested
\* artifacts included: a file that two roots of a cleaner hold is counted for
\* both, as in the two temporary directories of TempCleaner, which are usually
\* one. When nothing fails, the candidates of every root cover just the files
\* that the cleaner is for there, with their sizes.
ReportIsExact ==
    stage = "done" =>
    /\ report.total = Cardinality(UNION {{c} \X (1 .. c.bytes) : c \in report.candidates}) % Modulus
    /\ \A c, d \in report.candidates :
          c # d /\ c.root = d.root => FilesOf(c.path) \cap FilesOf(d.path) = {}
    /\ ~failed => /\ \A c \in report.candidates : c.bytes = BytesOf(FilesOf(c.path))
                  /\ \A n \in 1 .. Len(RootsOf[which.id]) :
                       {f \in Meant(n) : SizeOf[f] > 0} = {f \in Listed(n) : SizeOf[f] > 0}
=============================================================================
