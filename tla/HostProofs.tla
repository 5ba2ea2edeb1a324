----------------------------- MODULE HostProofs -----------------------------
(***************************************************************************)
(* Proofs about what Vaulkeeper leaves on its host: the binary under the   *)
(* updater, the contexts of trace sessions, the configuration, files that  *)
(* are deleted for good, threads that have asked something of COM, and the *)
(* module the shell has loaded.                                            *)
(***************************************************************************)
EXTENDS Updater, EtwSession, ConfigStore, SecureDelete, ComQueries, ComServer,
        FiniteSetTheorems, SequenceTheorems, WellFoundedInduction, TLAPS

(* The updater                                                             *)

Copying == phase \in {"copy", "copying"}

\* Where a whole binary is: in place as long as nothing was cut short, moved
\* aside while it is replaced, and in one of the two after one failure.
UpdaterInv ==
    /\ {target, backup, unfinished, applies} \subseteq Nat
    /\ unfinished = 0 => IF Copying THEN Whole(backup) ELSE Whole(target)
    /\ unfinished = 1 /\ ~Copying => Whole(target) \/ Whole(backup)

\* Each step of an apply, and a kill at any of them, keeps it.
LEMMA UpdaterStep == UpdaterInv /\ [UpdaterNext]_updaterVars => UpdaterInv'
<1> SUFFICES ASSUME UpdaterInv, [UpdaterNext]_updaterVars PROVE UpdaterInv'
  OBVIOUS
<1> USE DEF UpdaterInv, Copying, Whole, Partial, Absent, binaries, check
<1>1. CASE ApplyBegins
  BY <1>1 DEF ApplyBegins
<1>2. CASE MoveAside
  BY <1>2 DEF MoveAside, MovedAside
<1>3. CASE CopyBegins
  BY <1>3 DEF CopyBegins
<1>4. CASE CopyEnds
  BY <1>4 DEF CopyEnds
<1>5. CASE ApplyFails
  BY <1>5 DEF ApplyFails
<1>6. CASE Opens
  BY <1>6 DEF Opens
<1>7. CASE FetchFails
  BY <1>7 DEF FetchFails
<1>8. CASE Exits
  BY <1>8 DEF Exits
<1>9. CASE Killed
  BY <1>9 DEF Killed
<1>10. ASSUME NEW v \in Versions, FetchEnds(v) PROVE UpdaterInv'
  BY <1>10 DEF FetchEnds
<1>11. CASE UNCHANGED updaterVars
  BY <1>11 DEF updaterVars
<1> QED
  BY <1>1, <1>2, <1>3, <1>4, <1>5, <1>6, <1>7, <1>8, <1>9, <1>10, <1>11 DEF UpdaterNext

\* apply leaves a whole binary in its place or beside it, killed or not, as
\* long as no two applies in a row were cut short.
THEOREM BinaryIsKept == UpdaterSpec => []Recoverable
<1>1. UpdaterInit => UpdaterInv
  BY DEF UpdaterInit, UpdaterInv, Copying, Whole, Partial, Absent
<1>2. UpdaterInv => Recoverable
  BY DEF UpdaterInv, Copying, Recoverable
<1> QED  BY <1>1, <1>2, UpdaterStep, PTL DEF UpdaterSpec

\* A set of naturals that is not empty has a least element.
LEMMA LeastOf ==
    ASSUME NEW S \in SUBSET Nat, S # {}
    PROVE  Min(S) \in S /\ \A y \in S : Min(S) <= y
<1>1. IsWellFoundedOn(OpToRel(<, Nat), Nat)
  BY NatLessThanWellFounded
<1>2. PICK x \in S : \A y \in S : ~(<<y, x>> \in OpToRel(<, Nat))
  BY <1>1, WFMin
<1>3. \A y \in S : ~(y < x)
  BY <1>2 DEF OpToRel
<1>4. \A y \in S : x <= y
  BY <1>3
<1> QED
  BY <1>4, Zenon DEF Min

\* The greater and the less of two numbers.
LEMMA OfTwo ==
    ASSUME NEW a \in Nat, NEW b \in Nat
    PROVE  /\ Max({a, b}) = IF a >= b THEN a ELSE b
           /\ Min({a, b}) = IF a <= b THEN a ELSE b
<1>1. CASE a >= b
  <2>1. \A x \in {a, b} : (\A y \in {a, b} : x >= y) => x = a
    BY <1>1
  <2>2. \A x \in {a, b} : (\A y \in {a, b} : x <= y) => x = b
    BY <1>1
  <2>3. (\A y \in {a, b} : a >= y) /\ (\A y \in {a, b} : b <= y)
    BY <1>1
  <2>4. Max({a, b}) = a
    BY <2>1, <2>3, Zenon DEF Max
  <2>5. Min({a, b}) = b
    BY <2>2, <2>3, Zenon DEF Min
  <2> QED
    BY <1>1, <2>4, <2>5
<1>2. CASE ~(a >= b)
  <2>1. \A x \in {a, b} : (\A y \in {a, b} : x >= y) => x = b
    BY <1>2
  <2>2. \A x \in {a, b} : (\A y \in {a, b} : x <= y) => x = a
    BY <1>2
  <2>3. (\A y \in {a, b} : b >= y) /\ (\A y \in {a, b} : a <= y)
    BY <1>2
  <2>4. Max({a, b}) = b
    BY <2>1, <2>3, Zenon DEF Max
  <2>5. Min({a, b}) = a
    BY <2>2, <2>3, Zenon DEF Min
  <2> QED
    BY <1>2, <2>4, <2>5
<1> QED
  BY <1>1, <1>2

\* A number of a version, or zero where it has none.
Number(v, i) == IF i <= Len(v) THEN v[i] ELSE 0

\* Where two versions differ, in their first n numbers.
Unlike(v, c, n) == {i \in 1 .. n : Number(v, i) # Number(c, i)}

\* splitVersion fills up with zeros.
LEMMA SplitFacts ==
    ASSUME NEW v \in Seq(Nat)
    PROVE  /\ Split(v) \in Seq(Nat) /\ Len(Split(v)) = Max({3, Len(v)}) /\ Max({3, Len(v)}) \in Nat
           /\ \A i \in 1 .. Len(Split(v)) : Split(v)[i] = Number(v, i)
<1>1. PICK n \in Nat : n = Len(v)
  OBVIOUS
<1>2. PICK z \in Nat : z = 3 - Min({3, n}) /\ n + z = Max({3, n})
  BY OfTwo
<1>0. PICK zeros : zeros = [i \in 1 .. z |-> 0]
  OBVIOUS
<1>3. zeros \in Seq(Nat) /\ Len(zeros) = z /\ \A i \in 1 .. z : zeros[i] = 0
  BY <1>0
<1>4. Split(v) = v \o zeros
  BY <1>0, <1>1, <1>2 DEF Split
<1>5. Split(v) \in Seq(Nat) /\ Len(Split(v)) = n + z
  BY <1>1, <1>3, <1>4, ConcatProperties
<1>6. ASSUME NEW i \in 1 .. n + z PROVE (v \o zeros)[i] = Number(v, i)
  <2>0. i \in Nat /\ 1 <= i /\ i <= n + z
    OBVIOUS
  <2>1. CASE i <= n
    BY <1>1, <1>3, <2>1 DEF Number
  <2>2. CASE ~(i <= n)
    <3>1. (v \o zeros)[i] = zeros[i - n] /\ i - n \in 1 .. z
      BY <1>1, <1>3, <2>2
    <3> QED
      BY <1>1, <1>3, <2>2, <3>1 DEF Number
  <2> QED
    BY <2>1, <2>2
<1>7. \A i \in 1 .. Len(Split(v)) : Split(v)[i] = Number(v, i)
  BY <1>4, <1>5, <1>6
<1>8. Len(Split(v)) = Max({3, Len(v)}) /\ Max({3, Len(v)}) \in Nat
  BY <1>1, <1>2, <1>5
<1> QED
  BY <1>5, <1>7, <1>8

\* newerThanCurrent finds a number that is greater behind ones that are alike,
\* whatever lies beyond the numbers of the current version.
LEMMA NewerIsGreater ==
    ASSUME NEW v \in Seq(Nat), NEW c \in Seq(Nat), NEW beyond \in Seq(Nat),
           NEW n \in Nat, n = Max({3, Len(c)}), Len(v) <= n
    PROVE  NewerThanCurrent(v, c, beyond) <=>
             \E i \in 1 .. n : /\ Number(v, i) > Number(c, i)
                               /\ \A j \in 1 .. i - 1 : Number(v, j) = Number(c, j)
<1>1. PICK a \in Seq(Nat), m \in Nat :
        a = Split(v) /\ m = Len(a) /\ m = Max({3, Len(v)}) /\ \A i \in 1 .. m : a[i] = Number(v, i)
  BY SplitFacts
<1>2. PICK b \in Seq(Nat) : b = Split(c) /\ n = Len(b) /\ \A i \in 1 .. n : b[i] = Number(c, i)
  BY SplitFacts
<1>3. m <= n /\ Len(v) <= m /\ Len(v) \in Nat
  <2>1. PICK k \in Nat, l \in Nat : k = Len(v) /\ l = Len(c)
    OBVIOUS
  <2>2. m = (IF 3 >= k THEN 3 ELSE k) /\ n = (IF 3 >= l THEN 3 ELSE l)
    BY <1>1, <2>1, OfTwo
  <2> QED
    BY <2>1, <2>2
<1>4. ASSUME NEW i \in 1 .. m PROVE (b \o beyond)[i] = Number(c, i)
  <2>1. i \in 1 .. Len(b)
    BY <1>2, <1>3
  <2>2. (b \o beyond)[i] = b[i]
    BY <2>1, ConcatProperties
  <2> QED
    BY <1>2, <2>1, <2>2
<1>5. NewerThanCurrent(v, c, beyond) <=>
        \E i \in 1 .. m : a[i] > (b \o beyond)[i] /\ \A j \in 1 .. i - 1 : a[j] = (b \o beyond)[j]
  BY <1>1, <1>2, Zenon DEF NewerThanCurrent
<1>6. \A i \in 1 .. m : \A j \in 1 .. i - 1 : j \in 1 .. m
  OBVIOUS
<1>7. NewerThanCurrent(v, c, beyond) <=>
        \E i \in 1 .. m : Number(v, i) > Number(c, i) /\ \A j \in 1 .. i - 1 : Number(v, j) = Number(c, j)
  <2>1. PICK w : w = b \o beyond /\ \A i \in 1 .. m : w[i] = Number(c, i)
    BY <1>4
  <2>2. NewerThanCurrent(v, c, beyond) <=>
          \E i \in 1 .. m : a[i] > w[i] /\ \A j \in 1 .. i - 1 : a[j] = w[j]
    BY <1>5, <2>1
  <2>3. ASSUME NEW i \in 1 .. m
        PROVE  (a[i] > w[i] /\ \A j \in 1 .. i - 1 : a[j] = w[j])
                 <=> (Number(v, i) > Number(c, i) /\ \A j \in 1 .. i - 1 : Number(v, j) = Number(c, j))
    <3>1. \A j \in 1 .. i - 1 : a[j] = Number(v, j) /\ w[j] = Number(c, j)
      BY <1>1, <1>6, <2>1
    <3>2. a[i] = Number(v, i) /\ w[i] = Number(c, i)
      BY <1>1, <2>1
    <3> QED
      BY <3>1, <3>2
  <2> QED
    BY <2>2, <2>3
<1>8. ASSUME NEW i \in 1 .. n, Number(v, i) > Number(c, i) PROVE i \in 1 .. m
  <2>1. i \in Nat /\ Number(c, i) \in Nat
    BY DEF Number
  <2>2. i <= Len(v)
    BY <1>8, <2>1 DEF Number
  <2> QED
    BY <1>3, <2>1, <2>2
<1>9. 1 .. m \subseteq 1 .. n
  BY <1>3
<1> QED
  BY <1>7, <1>8, <1>9

\* Which says that it is greater in the first number that is unlike.
LEMMA FirstDecides ==
    ASSUME NEW n \in Nat, NEW v \in Seq(Nat), NEW c \in Seq(Nat)
    PROVE  (\E i \in 1 .. n : /\ Number(v, i) > Number(c, i)
                              /\ \A j \in 1 .. i - 1 : Number(v, j) = Number(c, j))
             <=> Unlike(v, c, n) # {}
                 /\ Number(v, Min(Unlike(v, c, n))) > Number(c, Min(Unlike(v, c, n)))
<1>0. PICK unlike : unlike = Unlike(v, c, n)
  OBVIOUS
<1>1. unlike \in SUBSET Nat /\ unlike = {i \in 1 .. n : Number(v, i) # Number(c, i)}
  BY <1>0 DEF Unlike
<1>2. \A i \in 1 .. n : Number(v, i) \in Nat /\ Number(c, i) \in Nat
  BY DEF Number
<1>3. ASSUME NEW i \in 1 .. n, Number(v, i) > Number(c, i),
             \A j \in 1 .. i - 1 : Number(v, j) = Number(c, j)
      PROVE  unlike # {} /\ Number(v, Min(unlike)) > Number(c, Min(unlike))
  <2>1. i \in unlike
    BY <1>1, <1>2, <1>3
  <2>2. PICK l \in unlike : l = Min(unlike) /\ l <= i
    BY <1>1, <2>1, LeastOf
  <2>3. l \in Nat /\ 1 <= l /\ ~(l \in 1 .. i - 1)
    BY <1>1, <1>3, <2>2
  <2>4. l = i
    BY <2>2, <2>3
  <2> QED
    BY <1>3, <2>1, <2>2, <2>4
<1>4. ASSUME unlike # {}, Number(v, Min(unlike)) > Number(c, Min(unlike))
      PROVE  \E i \in 1 .. n : Number(v, i) > Number(c, i) /\ \A j \in 1 .. i - 1 : Number(v, j) = Number(c, j)
  <2>1. PICK l \in unlike : l = Min(unlike) /\ \A y \in unlike : l <= y
    BY <1>1, <1>4, LeastOf
  <2>2. l \in 1 .. n /\ Number(v, l) > Number(c, l)
    BY <1>1, <1>4, <2>1
  <2>3. ASSUME NEW j \in 1 .. l - 1 PROVE Number(v, j) = Number(c, j)
    <3>1. j \in 1 .. n /\ ~(l <= j)
      BY <2>2
    <3> QED
      BY <1>1, <2>1, <3>1
  <2> QED
    BY <2>2, <2>3
<1> QED
  BY <1>0, <1>3, <1>4

\* A check closes the handles it opened, whichever call failed, and answers
\* with the order of the versions; for every version with no more numbers than
\* the current one.
THEOREM ChecksAreRight == UpdaterSpec => []CheckIsRight
<1>1. UpdaterInit => CheckIsRight
  BY DEF UpdaterInit, CheckIsRight
<1>2. CheckIsRight /\ [UpdaterNext]_updaterVars => CheckIsRight'
  <2> SUFFICES ASSUME CheckIsRight, [UpdaterNext]_updaterVars PROVE CheckIsRight'
    OBVIOUS
  <2>1. ASSUME NEW v \in Versions, FetchEnds(v) PROVE CheckIsRight'
    <3>1. PICK beyond \in [1 .. Len(v) -> {0, 9}] : newer' = NewerThanCurrent(v, Current, beyond)
      BY <2>1 DEF FetchEnds
    <3>2. v \in Seq(Nat) /\ Current \in Seq(Nat) /\ Len(v) \in Nat
      BY VersionsAssumption
    <3>3. beyond \in Seq(Nat)
      <4>1. PICK k \in Nat : k = Len(v)
        BY <3>2
      <4>2. beyond \in [1 .. k -> Nat]
        BY <3>1, <4>1
      <4> QED
        BY <4>2
    <3>4. phase' = "checked" /\ handles' = {} /\ manifest' = v
      BY <2>1 DEF FetchEnds, CloseAll
    <3>5. PICK n \in Nat : n = Max({3, Len(Current)})
      BY <3>2, SplitFacts
    <3>6. PICK unlike : unlike = Unlike(v, Current, n)
      OBVIOUS
    <3>7. ASSUME Len(v) <= n
          PROVE  newer' <=> unlike # {} /\ Number(v, Min(unlike)) > Number(Current, Min(unlike))
      <4>1. newer' <=> \E i \in 1 .. n : /\ Number(v, i) > Number(Current, i)
                                       /\ \A j \in 1 .. i - 1 : Number(v, j) = Number(Current, j)
        <5>1. NewerThanCurrent(v, Current, beyond) <=>
                \E i \in 1 .. n : /\ Number(v, i) > Number(Current, i)
                                  /\ \A j \in 1 .. i - 1 : Number(v, j) = Number(Current, j)
          BY <3>2, <3>3, <3>5, <3>7, NewerIsGreater, ZenonT(40)
        <5> QED
          BY <3>1, <5>1, Zenon
      <4> QED
        BY <3>5, <3>2, <3>6, <4>1, FirstDecides
    <3>8. newer' \in BOOLEAN
      BY <3>1 DEF NewerThanCurrent
    <3> QED
      BY <3>5, <3>4, <3>6, <3>7, <3>8 DEF CheckIsRight, Unlike, Number
  <2>2. CASE FetchFails
    BY <2>2 DEF FetchFails, CloseAll, CheckIsRight
  <2>3. CASE UNCHANGED updaterVars
    BY <2>3 DEF updaterVars, CheckIsRight
  <2>4. CASE ApplyBegins \/ MoveAside \/ CopyBegins \/ CopyEnds \/ ApplyFails \/ Opens \/ Exits \/ Killed
    <3>1. phase' \notin {"checked", "failed"}
      BY <2>4 DEF ApplyBegins, MoveAside, CopyBegins, CopyEnds, ApplyFails, Opens, Exits, Killed
    <3> QED
      BY <3>1 DEF CheckIsRight
  <2> QED
    BY <2>1, <2>2, <2>3, <2>4 DEF UpdaterNext
<1> QED
  BY <1>1, <1>2, PTL DEF UpdaterSpec

-----------------------------------------------------------------------------
(* Trace sessions                                                          *)

\* The thread of a context runs exactly while the context has not been
\* deleted, and takes it out of currentContext() before it ends.
EtwInv ==
    /\ started \in [Sessions -> BOOLEAN]
    /\ current \in Contexts \cup {NoContext}
    /\ context \in [Contexts -> {"unused", "on", "off", "deleted"}]
    /\ trace \in [Contexts -> {"none", "tracing", "callback", "ended"}]
    /\ taken \in [Contexts -> Contexts \cup {NoContext}]
    /\ \A c \in Contexts : trace[c] # "none" <=> context[c] \in {"on", "off"}
    /\ current \in Contexts => trace[current] \in {"tracing", "callback"}

\* Every start, callback and stop, of any session, keeps it.
LEMMA EtwStep == EtwInv /\ [EtwNext]_etwVars => EtwInv'
<1> SUFFICES ASSUME EtwInv, [EtwNext]_etwVars PROVE EtwInv'
  OBVIOUS
<1> USE NoContextAssumption DEF EtwInv
<1>1. ASSUME NEW s \in Sessions, NEW c \in Contexts, StartSession(s, c) PROVE EtwInv'
  BY <1>1 DEF StartSession
<1>2. ASSUME NEW s \in Sessions, StopSession(s) PROVE EtwInv'
  BY <1>2 DEF StopSession
<1>3. ASSUME NEW c \in Contexts, Event(c) PROVE EtwInv'
  BY <1>3 DEF Event
<1>4. ASSUME NEW c \in Contexts, Handled(c) PROVE EtwInv'
  BY <1>4 DEF Handled
<1>5. ASSUME NEW c \in Contexts, TraceEnds(c) PROVE EtwInv'
  BY <1>5 DEF TraceEnds, NotCurrent
<1>6. ASSUME NEW c \in Contexts, DeleteContext(c) PROVE EtwInv'
  BY <1>6 DEF DeleteContext
<1>7. CASE UNCHANGED etwVars
  BY <1>7 DEF etwVars
<1> QED
  BY <1>1, <1>2, <1>3, <1>4, <1>5, <1>6, <1>7 DEF EtwNext

\* The callback and stop() never find a deleted context in currentContext(),
\* and a trace's own context outlives its callback.
THEOREM ContextsAlive == EtwSpec => []CurrentIsAlive
<1>1. EtwInit => EtwInv
  BY NoContextAssumption DEF EtwInit, EtwInv
<1>2. EtwInv => CurrentIsAlive
  BY DEF EtwInv, CurrentIsAlive
<1> QED  BY <1>1, <1>2, EtwStep, PTL DEF EtwSpec
-----------------------------------------------------------------------------
(* The configuration                                                       *)

Config == [Settings -> 0 .. Width - 1]

\* A number survives its way through int64_t, the upper half of the range
\* included.
LEMMA NumbersSurvive ==
    ASSUME NEW v \in 0 .. Width - 1
    PROVE  Written(v) \in Signed /\ Unwritten(Written(v)) = v
BY ConfigAssumption DEF Written, Unwritten, Signed

\* What is read is a configuration, whatever the file has.
LEMMA LoadType ==
    ASSUME NEW stored \in Files \cup {NoFile},
           \A s \in Settings : stored # NoFile /\ s \in DOMAIN stored => Unwritten(stored[s]) \in 0 .. Width - 1
    PROVE  Load(stored) \in Config
BY ConfigAssumption DEF Load, Config

\* What save() writes is what load() reads.
LEMMA SavedIsLoaded ==
    ASSUME NEW cfg \in Config
    PROVE  AllWritten(cfg) \in Files /\ Load(AllWritten(cfg)) = cfg
<1>1. \A s \in Settings : Written(cfg[s]) \in Signed /\ Unwritten(Written(cfg[s])) = cfg[s]
  BY NumbersSurvive DEF Config
<1>2. AllWritten(cfg) \in [Settings -> Signed]
  BY <1>1 DEF AllWritten
<1>3. AllWritten(cfg) \in Files
  BY <1>2 DEF Files
<1>4. AllWritten(cfg) # NoFile
  BY <1>3, NoFileAssumption
<1> QED  BY <1>1, <1>3, <1>4 DEF Load, AllWritten, Config

\* The file, the running application and the user agree unless damage was
\* done; while a save is under way the application has everything.
ConfigInv ==
    /\ onDisk \in Files \cup {NoFile}
    /\ onDisk # NoFile => \A s \in DOMAIN onDisk : Unwritten(onDisk[s]) \in 0 .. Width - 1
    /\ appConfig \in Config /\ wanted \in Config
    /\ up \in BOOLEAN /\ saving \in BOOLEAN /\ damaged \in BOOLEAN
    /\ saving => up
    /\ ~damaged /\ ~saving => Load(onDisk) = wanted
    /\ ~damaged /\ up => appConfig = wanted

\* A save that begins, or that cannot open the file, keeps it.
LEMMA SaveKeeps ==
    ASSUME ConfigInv, SaveBegins, up, up' = up, appConfig' \in Config, wanted' \in Config,
           appConfig = wanted => appConfig' = wanted'
    PROVE  ConfigInv'
<1>1. CASE saving' = TRUE /\ onDisk' = NoFile /\ exists' = TRUE /\ UNCHANGED damaged
  BY <1>1 DEF ConfigInv
<1>2. CASE damaged' = TRUE /\ UNCHANGED <<saving, onDisk, exists>>
  BY <1>2 DEF ConfigInv
<1> QED  BY <1>1, <1>2 DEF SaveBegins

\* Every start, load, edit and save keeps it, a save that is cut short too.
LEMMA ConfigStep == ConfigInv /\ [ConfigNext]_configVars => ConfigInv'
<1> SUFFICES ASSUME ConfigInv, [ConfigNext]_configVars PROVE ConfigInv'
  OBVIOUS
<1>1. CASE Starts
  <2>1. Load(onDisk) \in Config
    BY LoadType DEF ConfigInv
  <2> QED  BY <1>1, <2>1 DEF Starts, ConfigInv
<1>2. CASE CommitFirstRun
  BY <1>2, SaveKeeps DEF CommitFirstRun, ConfigInv
<1>3. CASE SaveEnds
  <2>1. /\ onDisk' \in Files /\ Load(onDisk') = appConfig
    BY <1>3, SavedIsLoaded DEF SaveEnds, ConfigInv
  <2>2. \A s \in DOMAIN onDisk' : Unwritten(onDisk'[s]) \in 0 .. Width - 1
    BY <1>3, NumbersSurvive DEF SaveEnds, AllWritten, ConfigInv, Config
  <2> QED  BY <1>3, <2>1, <2>2 DEF SaveEnds, ConfigInv
<1>4. CASE Ends
  <2>1. CASE saving
    <3>1. PICK cut \in SUBSET Settings : onDisk' \in {NoFile, [s \in cut |-> Written(appConfig[s])]}
      BY <1>4, <2>1 DEF Ends
    <3> DEFINE part == [s \in cut |-> Written(appConfig[s])]
    <3>2. \A s \in cut : Written(appConfig[s]) \in Signed /\ Unwritten(Written(appConfig[s])) \in 0 .. Width - 1
      BY NumbersSurvive DEF ConfigInv, Config
    <3>3. part \in [cut -> Signed]
      BY <3>2
    <3>4. part \in Files
      BY <3>3 DEF Files
    <3>5. /\ onDisk' \in Files \cup {NoFile}
          /\ onDisk' # NoFile => \A s \in DOMAIN onDisk' : Unwritten(onDisk'[s]) \in 0 .. Width - 1
      BY <3>1, <3>2, <3>4
    <3> QED  BY <1>4, <2>1, <3>5 DEF Ends, ConfigInv
  <2>2. CASE ~saving
    BY <1>4, <2>2 DEF Ends, ConfigInv
  <2> QED  BY <2>1, <2>2
<1>5. CASE UserDeletes
  <2>1. Load(NoFile) = Default
    BY ConfigAssumption DEF Load
  <2> QED  BY <1>5, <2>1, ConfigAssumption DEF UserDeletes, ConfigInv, Config
<1>6. ASSUME NEW v \in Values, SetLocale(v) PROVE ConfigInv'
  <2>1. /\ appConfig' \in Config /\ wanted' \in Config
        /\ appConfig = wanted => appConfig' = wanted'
    BY <1>6, ConfigAssumption DEF SetLocale, ConfigInv, Config
  <2> QED  BY <1>6, <2>1, SaveKeeps DEF SetLocale, ConfigInv
<1>7. ASSUME NEW v \in Values, NEW s \in Settings, UserWrites(s, v) PROVE ConfigInv'
  <2> DEFINE old == IF onDisk = NoFile THEN {} ELSE DOMAIN onDisk
             dom == {s} \cup old
  <2>1. v \in 0 .. Width - 1 /\ Written(v) \in Signed /\ Unwritten(Written(v)) = v
    BY ConfigAssumption, NumbersSurvive
  <2>2. old \subseteq Settings /\ \A r \in old : onDisk[r] \in Signed
    BY DEF ConfigInv, Files
  <2>3. onDisk' = [r \in dom |-> IF r = s THEN Written(v) ELSE onDisk[r]]
    BY <1>7 DEF UserWrites
  <2>4. onDisk' \in [dom -> Signed] /\ dom \in SUBSET Settings
    BY <2>1, <2>2, <2>3
  <2>5. onDisk' \in Files /\ onDisk' # NoFile
    BY <2>4, NoFileAssumption DEF Files
  <2>6. \A r \in dom : Unwritten(onDisk'[r]) = IF r = s THEN v ELSE Unwritten(onDisk[r])
    BY <2>1, <2>3
  <2>7. \A r \in DOMAIN onDisk' : Unwritten(onDisk'[r]) \in 0 .. Width - 1
    BY <2>1, <2>3, <2>6 DEF ConfigInv
  <2>8. Load(onDisk') = [Load(onDisk) EXCEPT ![s] = v]
    BY <2>3, <2>5, <2>6 DEF Load
  <2>9. wanted' \in Config /\ wanted' = [wanted EXCEPT ![s] = v]
    BY <1>7, <2>1 DEF UserWrites, ConfigInv, Config
  <2>10. UNCHANGED <<appConfig, up, saving>> /\ ~saving /\ damaged' = (damaged \/ up)
    BY <1>7 DEF UserWrites
  <2> QED  BY <2>5, <2>7, <2>8, <2>9, <2>10 DEF ConfigInv
<1>8. CASE UNCHANGED configVars
  BY <1>8 DEF configVars, ConfigInv
<1> QED
  BY <1>1, <1>2, <1>3, <1>4, <1>5, <1>6, <1>7, <1>8 DEF ConfigNext

\* No order of starts, saves and edits loses a setting, but for damage that
\* the history records.
THEOREM NoSettingLost == ConfigSpec => []SettingsKept
<1>1. ConfigInit => ConfigInv
  <2>1. Load(NoFile) = Default
    BY ConfigAssumption DEF Load
  <2> QED  BY <2>1, ConfigAssumption DEF ConfigInit, ConfigInv, Config
<1>2. ConfigInv => SettingsKept
  BY DEF ConfigInv, SettingsKept
<1> QED  BY <1>1, <1>2, ConfigStep, PTL DEF ConfigSpec
-----------------------------------------------------------------------------
(* Secure deletion                                                         *)

\* Writing at positions that the file has keeps its length and the rest.
LEMMA OverwrittenFacts ==
    ASSUME NEW S, file \in Seq(S), NEW positions \in SUBSET (1 .. Len(file)),
           FillPattern(pass, standard) \in S
    PROVE  /\ Overwritten(positions) \in Seq(S)
           /\ Len(Overwritten(positions)) = Len(file)
           /\ \A i \in 1 .. Len(file) : Overwritten(positions)[i] =
                IF i \in positions THEN FillPattern(pass, standard) ELSE file[i]
<1>1. Max(positions \cup {Len(file)}) = Len(file)
  <2>1. \A y \in positions \cup {Len(file)} : Len(file) >= y
    OBVIOUS
  <2>2. ASSUME NEW x \in positions \cup {Len(file)}, \A y \in positions \cup {Len(file)} : x >= y
        PROVE  x = Len(file)
    BY <2>2
  <2> QED  BY <2>1, <2>2 DEF Max
<1> DEFINE f == [i \in 1 .. Len(file) |->
                  IF i \in positions THEN FillPattern(pass, standard) ELSE file[i]]
<1>2. Overwritten(positions) = f
  BY <1>1 DEF Overwritten
<1>3. Len(file) \in Nat /\ \A i \in 1 .. Len(file) : file[i] \in S
  OBVIOUS
<1>4. f \in [1 .. Len(file) -> S]
  BY <1>3
<1>5. f \in Seq(S) /\ Len(f) = Len(file)
  BY <1>3, <1>4
<1> QED  BY <1>2, <1>5

\* A chunk is not empty and not more than what remains.
LEMMA ChunkFacts ==
    ASSUME remaining \in Nat \ {0}
    PROVE  Chunk \in 1 .. remaining
<1>1. Min({remaining, BufferSize}) \in {remaining, BufferSize}
  <2>1. \E x \in {remaining, BufferSize} : \A y \in {remaining, BufferSize} : x <= y
    BY BufferAssumption
  <2> QED  BY <2>1 DEF Min
<1>2. Min({remaining, BufferSize}) <= remaining
  <2>1. \E x \in {remaining, BufferSize} : \A y \in {remaining, BufferSize} : x <= y
    BY BufferAssumption
  <2> QED  BY <2>1 DEF Min
<1> QED  BY <1>1, <1>2, BufferAssumption DEF Chunk

Patterns == {"old", "zeros", "ones", "random"}
Standards == {"Zero", "Dod522022M", "Gutmann"}

\* How many passes there are, and what they write.
LEMMA PassFacts ==
    ASSUME NEW std \in Standards, NEW p \in Nat
    PROVE  PassesFor(std) \in Nat \ {0} /\ FillPattern(p, std) \in Patterns
BY DEF Standards, PassesFor, FillPattern, Patterns

\* What the current pass has gone over is in the stream or on the disk, as
\* long as no flush failed; after the last pass it is on the disk.
DeleteInv ==
    /\ file \in Seq(Patterns) /\ standard \in Standards
    /\ size \in Nat /\ pass \in Nat /\ remaining \in 0 .. size
    /\ bad \in BOOLEAN /\ lateFault \in BOOLEAN
    /\ spc \in {"idle", "open", "write", "close", "done", "failed"}
    /\ size <= Len(file) /\ unflushed \subseteq 1 .. size
    /\ spc \in {"idle", "open"} => remaining = 0 /\ pass = 0
    /\ spc = "idle" => size = 0
    /\ spc = "write" /\ ~bad =>
         \A i \in 1 .. size - remaining : i \in unflushed \/ file[i] = FillPattern(pass, standard)
    /\ spc \in {"close", "done"} /\ ~lateFault =>
         \A i \in 1 .. size : file[i] = FillPattern(PassesFor(standard) - 1, standard)

\* Every chunk, flush and pass keeps it, whichever write fails.
LEMMA DeleteStep == DeleteInv /\ [DeleteNext]_deleteVars => DeleteInv'
<1> SUFFICES ASSUME DeleteInv, [DeleteNext]_deleteVars PROVE DeleteInv'
  OBVIOUS
<1>a. FillPattern(pass, standard) \in Patterns
  BY PassFacts DEF DeleteInv
<1>1. ASSUME NEW std \in Standards, DeleteBegins(std) PROVE DeleteInv'
  BY <1>1 DEF DeleteBegins, DeleteInv
<1>2. CASE OpenFile
  BY <1>2 DEF OpenFile, DeleteInv
<1>3. CASE WriteChunk
  <2>1. CASE spc' = "failed" /\ UNCHANGED <<file, remaining, unflushed>>
    BY <1>3, <2>1 DEF WriteChunk, DeleteInv
  <2>2. CASE ~bad /\ spc' = "write" /\ remaining' = remaining - Chunk
    <3>1. Chunk \in 1 .. remaining
      BY <1>3, ChunkFacts DEF WriteChunk, DeleteInv
    <3>2. /\ remaining' \in 0 .. size /\ Positions \subseteq 1 .. size
          /\ 1 .. size - remaining' = (1 .. size - remaining) \cup Positions
      BY <2>2, <3>1 DEF Positions, PassStart, DeleteInv
    <3>3. CASE unflushed' = unflushed \cup Positions /\ UNCHANGED file
      BY <1>3, <2>2, <3>2, <3>3 DEF WriteChunk, DeleteInv
    <3>4. CASE file' = Overwritten(unflushed \cup Positions) /\ unflushed' = {}
      <4>1. unflushed \cup Positions \in SUBSET (1 .. Len(file))
        BY <3>2 DEF DeleteInv
      <4>2. /\ file' \in Seq(Patterns) /\ Len(file') = Len(file)
            /\ \A i \in 1 .. Len(file) : file'[i] =
                 IF i \in unflushed \cup Positions THEN FillPattern(pass, standard) ELSE file[i]
        BY <1>a, <3>4, <4>1, OverwrittenFacts DEF DeleteInv
      <4>3. \A i \in 1 .. size - remaining' : file'[i] = FillPattern(pass, standard)
        BY <1>3, <2>2, <3>2, <4>2 DEF WriteChunk, DeleteInv
      <4> QED  BY <1>3, <2>2, <3>2, <3>4, <4>2, <4>3 DEF WriteChunk, DeleteInv
    <3> QED  BY <1>3, <2>2, <3>1, <3>3, <3>4 DEF WriteChunk
  <2> QED  BY <1>3, <2>1, <2>2 DEF WriteChunk
<1>4. CASE PassEnds
  <2>1. CASE ~bad /\ file' = Overwritten(unflushed) /\ unflushed' = {} /\ UNCHANGED <<bad, lateFault>>
    <3>1. unflushed \in SUBSET (1 .. Len(file))
      BY DEF DeleteInv
    <3>2. /\ file' \in Seq(Patterns) /\ Len(file') = Len(file)
          /\ \A i \in 1 .. Len(file) : file'[i] =
               IF i \in unflushed THEN FillPattern(pass, standard) ELSE file[i]
      BY <1>a, <2>1, <3>1, OverwrittenFacts DEF DeleteInv
    <3>3. \A i \in 1 .. size : file'[i] = FillPattern(pass, standard)
      BY <1>4, <2>1, <3>2 DEF PassEnds, DeleteInv
    <3>4. LastPass => pass = PassesFor(standard) - 1
      BY PassFacts DEF LastPass, DeleteInv
    <3> QED  BY <1>4, <2>1, <3>2, <3>3, <3>4 DEF PassEnds, DeleteInv
  <2>2. CASE bad' = TRUE /\ lateFault' = LastPass /\ UNCHANGED <<file, unflushed>>
    <3>1. CASE LastPass
      BY <1>4, <2>2, <3>1 DEF PassEnds, DeleteInv
    <3>2. CASE ~LastPass
      <4>1. /\ spc' = "write" /\ pass' = pass + 1 /\ remaining' = size
            /\ bad' /\ UNCHANGED <<file, unflushed, standard, size>>
        BY <1>4, <2>2, <3>2 DEF PassEnds
      <4>2. bad' \in BOOLEAN /\ lateFault' \in BOOLEAN
        BY <2>2 DEF LastPass
      <4> QED  BY <4>1, <4>2 DEF DeleteInv
    <3> QED  BY <3>1, <3>2
  <2> QED  BY <1>4, <2>1, <2>2 DEF PassEnds
<1>5. CASE CloseAndRemove
  BY <1>5 DEF CloseAndRemove, DeleteInv
<1>6. CASE OtherAppends
  <2>1. /\ file' \in Seq(Patterns) /\ Len(file') = Len(file) + 1
        /\ \A i \in 1 .. Len(file) : file'[i] = file[i]
    BY <1>6 DEF OtherAppends, DeleteInv, Patterns
  <2> QED  BY <1>6, <2>1 DEF OtherAppends, DeleteInv
<1>7. CASE UNCHANGED deleteVars
  BY <1>7 DEF deleteVars, DeleteInv
<1> QED
  BY <1>1, <1>2, <1>3, <1>4, <1>5, <1>6, <1>7 DEF DeleteNext, Standards

\* secureDeleteFile reports success for a file whose every unit was
\* overwritten in its last pass, for any length, buffer and standard.
THEOREM DeletedIsOverwritten == DeleteSpec => []OverwrittenWhenDone
<1>1. DeleteInit => DeleteInv
  <2>1. ASSUME DeleteInit PROVE file \in Seq(Patterns) /\ Len(file) = FirstLength
    <3>1. file \in [1 .. FirstLength -> Patterns]
      BY <2>1 DEF DeleteInit, Patterns
    <3>2. file \in Seq(Patterns)
      BY <3>1, LengthAssumption
    <3> QED  BY <3>1, <3>2, LengthAssumption
  <2>2. ASSUME DeleteInit PROVE standard \in Standards /\ bad \in BOOLEAN /\ lateFault \in BOOLEAN
    BY <2>2 DEF DeleteInit, Standards
  <2>3. ASSUME DeleteInit
        PROVE  /\ spc = "idle" /\ size = 0 /\ pass = 0 /\ remaining = 0 /\ unflushed = {}
               /\ Len(file) \in Nat
    BY <2>1, <2>3, LengthAssumption DEF DeleteInit
  <2> QED  BY <2>1, <2>2, <2>3 DEF DeleteInv
<1>2. DeleteInv => OverwrittenWhenDone
  BY DEF DeleteInv, OverwrittenWhenDone
<1> QED  BY <1>1, <1>2, DeleteStep, PTL DEF DeleteSpec
-----------------------------------------------------------------------------
(* Queries through COM                                                     *)

Kinds == Queries \cup {"security", "locator", "services", "enumerator", "object", "property", "service",
                       "connect", "folder", "collection", "children", "task", "name", "path",
                       "definition", "regInfo", "actions", "triggers", "author", "description",
                       "action", "exec", "program", "shellLink", "persist"}

Frame == [is : Kinds, next : Nat \ {0}]

\* What may be asked of x: objects are made for queries, and what the error
\* paths name comes from where they expect it.
Asked(x, w) ==
    /\ w \in Kinds \ Queries
    /\ w = "security" => x \in {"queryWmi", "enumerateScheduledTasks"}
    /\ w = "locator" => x = "queryWmi"
    /\ w = "services" => x = "locator"
    /\ w = "enumerator" => x = "services"
    /\ w = "service" => x = "enumerateScheduledTasks"
    /\ w = "connect" => x = "service"
    /\ w = "persist" => x = "shellLink"
    /\ x \in Queries => w \in Created \cup {"security"}

\* The query is at the bottom, and each of the others was asked of the one
\* below it.
Stacked(stack) ==
    /\ stack \in Seq(Frame)
    /\ stack # <<>> => stack[1].is \in Queries
    /\ \A i \in 2 .. Len(stack) : Asked(stack[i - 1].is, stack[i].is)

\* An error path names what is on top, from the innermost down.
Names(path, stack) ==
    /\ path \in Seq(Kinds) /\ Len(path) <= Len(stack)
    /\ \A j \in 1 .. Len(path) : /\ path[j] = stack[Len(stack) - j + 1].is
                                 /\ path[j] # "enumerateShortcuts"

\* While a query runs, its own CoInitializeEx is counted if it succeeded, and
\* COM is initialised once something has been made.
Balanced(t) ==
    /\ inits[t] \in Nat /\ before[t] \in Nat
    /\ frames[t] # <<>> => inits[t] = IF initHere[t] THEN before[t] + 1 ELSE before[t]
    /\ frames[t] = <<>> => inits[t] = before[t] \/ threw[t]
    /\ Len(frames[t]) > 1 => inits[t] > 0

PerThread ==
    /\ DOMAIN inits = Callers /\ DOMAIN frames = Callers /\ DOMAIN unwinding = Callers
    /\ DOMAIN initHere = Callers /\ DOMAIN before = Callers /\ DOMAIN threw = Callers

InOrder(t) == Stacked(frames[t]) /\ Names(unwinding[t], frames[t]) /\ Balanced(t)

QueryInv == PerThread /\ \A t \in Callers : InOrder(t)

\* What is wanted next may be asked of what is innermost.
LEMMA WantedIsAsked ==
    ASSUME NEW t, Stacked(frames[t]), frames[t] # <<>>, Wanted(t) # "none"
    PROVE  Asked(Top(t).is, Wanted(t))
<1>1. PICK top \in Frame : top = Top(t)
  BY ElementOfSeq DEF Stacked, Top, Last
<1>2. ASSUME NEW x \in DOMAIN Inside, NEW n \in Nat \ {0}, n <= Len(Inside[x])
      PROVE  Asked(x, Inside[x][n])
  <2> USE <1>2 DEF Inside, Asked, Kinds, Queries, Created
  <2>1. CASE x = "queryWmi"
    BY <2>1
  <2>2. CASE x = "locator"
    BY <2>2
  <2>3. CASE x = "services"
    BY <2>3
  <2>4. CASE x = "enumerateScheduledTasks"
    BY <2>4
  <2>5. CASE x = "service"
    BY <2>5
  <2>6. CASE x = "folder"
    BY <2>6
  <2>7. CASE x = "task"
    BY <2>7
  <2>8. CASE x = "definition"
    BY <2>8
  <2>9. CASE x = "regInfo"
    BY <2>9
  <2>10. CASE x = "actions"
    BY <2>10
  <2>11. CASE x = "action"
    BY <2>11
  <2>12. CASE x = "exec"
    BY <2>12
  <2>13. CASE x = "shellLink"
    BY <2>13
  <2> QED
    BY <2>1, <2>2, <2>3, <2>4, <2>5, <2>6, <2>7, <2>8, <2>9, <2>10, <2>11, <2>12, <2>13
<1>3. ASSUME NEW x \in DOMAIN Items
      PROVE  Asked(x, Items[x])
  <2>1. Items[x] \in Kinds \ Queries
    BY DEF Items, Kinds, Queries
  <2> QED
    BY <2>1 DEF Items, Asked, Queries, Created
<1>4. top.next \in Nat \ {0}
  BY DEF Frame
<1>5. \/ /\ top.is \in DOMAIN Inside /\ top.next <= Len(Inside[top.is])
         /\ Wanted(t) = Inside[top.is][top.next]
      \/ top.is \in DOMAIN Items /\ Wanted(t) = Items[top.is]
  BY <1>1 DEF Wanted
<1> QED
  BY <1>1, <1>2, <1>3, <1>4, <1>5

\* Releasing what is innermost takes it, and nothing else, away.
LEMMA ReleasedIsTop ==
    ASSUME NEW stack \in Seq(Frame), stack # <<>>, NEW x, x = stack[Len(stack)].is
    PROVE  /\ Without(stack, x) \in Seq(Frame) /\ Len(Without(stack, x)) = Len(stack) - 1
           /\ \A i \in 1 .. Len(stack) - 1 : Without(stack, x)[i] = stack[i]
<1>1. Len(stack) \in Nat \ {0} /\ DOMAIN stack = 1 .. Len(stack)
  BY EmptySeq
<1>2. Max({i \in DOMAIN stack : stack[i].is = x}) = Len(stack)
  <2>1. Len(stack) \in {i \in DOMAIN stack : stack[i].is = x}
    BY <1>1
  <2>2. \A i \in {j \in DOMAIN stack : stack[j].is = x} : i \in Nat /\ Len(stack) >= i
    BY <1>1
  <2>3. \A m \in {j \in DOMAIN stack : stack[j].is = x} : m >= Len(stack) => m = Len(stack)
    BY <1>1
  <2> QED
    BY <2>1, <2>2, <2>3 DEF Max
<1>3. Without(stack, x) = SubSeq(stack, 1, Len(stack) - 1) \o SubSeq(stack, Len(stack) + 1, Len(stack))
  BY <1>2 DEF Without, RemoveAt
<1>4. SubSeq(stack, Len(stack) + 1, Len(stack)) = <<>>
  BY <1>1, SubSeqProperties, EmptySeq
<1>5. /\ SubSeq(stack, 1, Len(stack) - 1) \in Seq(Frame)
      /\ Len(SubSeq(stack, 1, Len(stack) - 1)) = Len(stack) - 1
      /\ \A i \in 1 .. Len(stack) - 1 : SubSeq(stack, 1, Len(stack) - 1)[i] = stack[i]
  BY <1>1, SubSeqProperties, ElementOfSeq
<1>6. Without(stack, x) = SubSeq(stack, 1, Len(stack) - 1)
  BY <1>3, <1>4, <1>5, ConcatEmptySeq
<1> QED
  BY <1>5, <1>6

\* Going on to what is wanted next changes nothing that is open.
LEMMA AdvancedIsSame ==
    ASSUME NEW stack, Stacked(stack), stack # <<>>
    PROVE  /\ Stacked(Advanced(stack)) /\ Advanced(stack) # <<>> /\ Len(Advanced(stack)) = Len(stack)
           /\ \A i \in 1 .. Len(stack) : Advanced(stack)[i].is = stack[i].is
<1>1. /\ stack \in Seq(Frame) /\ Len(stack) \in Nat \ {0} /\ DOMAIN stack = 1 .. Len(stack)
      /\ \A i \in 1 .. Len(stack) : stack[i] \in Frame
  BY EmptySeq, ElementOfSeq DEF Stacked
<1>2. PICK next : next = Advanced(stack)
  OBVIOUS
<1>3. /\ DOMAIN next = 1 .. Len(stack)
      /\ \A i \in 1 .. Len(stack) : next[i] \in Frame /\ next[i].is = stack[i].is
  BY <1>1, <1>2 DEF Advanced, Frame
<1>4. next \in [1 .. Len(stack) -> Frame]
  BY <1>2, <1>3 DEF Advanced
<1>5. next \in Seq(Frame) /\ Len(next) = Len(stack) /\ next # <<>>
  BY <1>1, <1>4
<1>6. Stacked(next)
  BY <1>1, <1>3, <1>5 DEF Stacked
<1> QED
  BY <1>2, <1>3, <1>5, <1>6

\* A step of thread t leaves what the others have.
Elsewhere(t) ==
    /\ PerThread'
    /\ \A u \in Callers \ {t} :
         /\ frames'[u] = frames[u] /\ unwinding'[u] = unwinding[u] /\ inits'[u] = inits[u]
         /\ initHere'[u] = initHere[u] /\ before'[u] = before[u] /\ threw'[u] = threw[u]

\* So it is enough to look at t.
LEMMA OneThread ==
    ASSUME QueryInv, NEW t \in Callers, Elsewhere(t), InOrder(t)'
    PROVE  QueryInv'
<1>1. ASSUME NEW u \in Callers \ {t} PROVE InOrder(u)'
  <2>1. InOrder(u)
    BY DEF QueryInv
  <2>2. Stacked(frames'[u]) /\ Names(unwinding'[u], frames'[u])
    BY <2>1 DEF InOrder, Elsewhere
  <2>3. Balanced(u)'
    BY <2>1 DEF InOrder, Elsewhere, Balanced
  <2> QED
    BY <2>2, <2>3 DEF InOrder
<1> QED
  BY <1>1 DEF QueryInv, Elsewhere

\* No error path names nothing.
LEMMA NoPath ==
    ASSUME NEW stack \in Seq(Frame)
    PROVE  Names(<<>>, stack)
<1>1. <<>> \in Seq(Kinds) /\ Len(<<>>) = 0 /\ Len(stack) \in Nat
  OBVIOUS
<1> QED
  BY <1>1 DEF Names

\* Nothing is open.
LEMMA NothingOpen == <<>> \in Seq(Frame) /\ Len(<<>>) = 0 /\ Stacked(<<>>)
<1>1. <<>> \in Seq(Frame) /\ Len(<<>>) = 0
  OBVIOUS
<1>2. \A i \in 2 .. Len(<<>>) : FALSE
  BY <1>1
<1> QED
  BY <1>1, <1>2 DEF Stacked

\* Only the query is open, or more.
LEMMA OneOrMore ==
    ASSUME NEW stack \in Seq(Frame), stack # <<>>
    PROVE  Len(stack) = 1 \/ Len(stack) > 1
<1>1. Len(stack) \in Nat \ {0}
  BY EmptySeq
<1>2. \A n \in Nat \ {0} : n = 1 \/ n > 1
  OBVIOUS
<1> QED
  BY <1>1, <1>2, Zenon

\* A query is called on a thread that has nothing open.
LEMMA CallStep ==
    ASSUME QueryInv, NEW t \in Callers, NEW q \in Queries, Call(t, q)
    PROVE  QueryInv'
<1>1. InOrder(t) /\ PerThread
  BY DEF QueryInv
<1>2. frames[t] = <<>>
  <2>1. ASSUME frames[t] # <<>> PROVE FALSE
    <3>1. 1 \in DOMAIN frames[t] /\ frames[t][1].is \in Queries
      BY <1>1, <2>1, EmptySeq DEF InOrder, Stacked
    <3> QED
      BY <3>1 DEF Call, Running, Open
  <2> QED
    BY <2>1
<1>3. unwinding[t] \in Seq(Kinds) /\ Len(unwinding[t]) = 0
  BY <1>1, <1>2 DEF InOrder, Names
<1>4. PICK frame : frame = [is |-> q, next |-> 1]
  OBVIOUS
<1>5. frame \in Frame /\ frame.is \in Queries
  BY <1>4 DEF Frame, Kinds
<1>6. /\ frames'[t] = Append(<<>>, frame) /\ unwinding'[t] = unwinding[t]
      /\ before'[t] = inits[t] /\ threw'[t] = FALSE
      /\ \/ inits'[t] = inits[t] + 1 /\ initHere'[t] = TRUE
         \/ inits'[t] = inits[t] /\ initHere'[t] = FALSE
  BY <1>1, <1>2, <1>4 DEF Call, PerThread
<1>7. /\ frames'[t] \in Seq(Frame) /\ Len(frames'[t]) = 1 /\ frames'[t][1] = frame
      /\ frames'[t] # <<>>
  BY <1>5, <1>6
<1>8. Stacked(frames'[t]) /\ Names(unwinding'[t], frames'[t])
  BY <1>3, <1>5, <1>6, <1>7 DEF Stacked, Names
<1>9. Balanced(t)'
  BY <1>1, <1>6, <1>7 DEF InOrder, Balanced
<1>10. Elsewhere(t)
  BY <1>1 DEF Call, Elsewhere, PerThread
<1> QED
  BY <1>8, <1>9, <1>10, OneThread DEF InOrder

\* A thread goes on to what is wanted next, with what it has open.
LEMMA AdvanceStep ==
    ASSUME QueryInv, NEW t \in Callers, frames[t] # <<>>, unwinding[t] = <<>>,
           frames' = [frames EXCEPT ![t] = Advanced(@)],
           UNCHANGED <<inits, unwinding, initHere, before, threw>>
    PROVE  QueryInv'
<1>1. InOrder(t) /\ PerThread
  BY DEF QueryInv
<1>2. frames'[t] = Advanced(frames[t])
  BY <1>1 DEF PerThread
<1>3. Stacked(frames'[t]) /\ frames'[t] # <<>> /\ Len(frames'[t]) = Len(frames[t])
  BY <1>1, <1>2, AdvancedIsSame DEF InOrder
<1>4. Names(unwinding'[t], frames'[t])
  BY <1>3, NoPath DEF Stacked
<1>5. Balanced(t)'
  BY <1>1, <1>3 DEF InOrder, Balanced
<1>6. Elsewhere(t)
  BY <1>1 DEF Elsewhere, PerThread
<1> QED
  BY <1>3, <1>4, <1>5, <1>6, OneThread DEF InOrder

\* An error path begins that names what is open.
LEMMA FailStep ==
    ASSUME QueryInv, NEW t \in Callers, NEW path, Names(path, frames[t]),
           unwinding' = [unwinding EXCEPT ![t] = path],
           UNCHANGED <<inits, frames, initHere, before, threw>>
    PROVE  QueryInv'
<1>1. InOrder(t) /\ PerThread
  BY DEF QueryInv
<1>2. unwinding'[t] = path
  BY <1>1 DEF PerThread
<1>3. Stacked(frames'[t]) /\ Names(unwinding'[t], frames'[t])
  BY <1>1, <1>2 DEF InOrder
<1>4. Balanced(t)'
  BY <1>1 DEF InOrder, Balanced
<1>5. Elsewhere(t)
  BY <1>1 DEF Elsewhere, PerThread
<1> QED
  BY <1>3, <1>4, <1>5, OneThread DEF InOrder

\* What the error path of a call names is open, from the innermost down.
LEMMA PathIsOpen ==
    ASSUME NEW stack, Stacked(stack), stack # <<>>, NEW w \in DOMAIN OnFailure,
           Asked(stack[Len(stack)].is, w)
    PROVE  Names(OnFailure[w], stack)
<1>1. stack \in Seq(Frame) /\ Len(stack) \in Nat \ {0}
  BY EmptySeq DEF Stacked
<1>2. w \in {"locator", "services", "enumerator", "service", "connect", "persist"}
  BY DEF OnFailure
<1>3. \A i \in 2 .. Len(stack) : Asked(stack[i - 1].is, stack[i].is)
  BY DEF Stacked
<1>4. ASSUME NEW i \in 1 .. Len(stack), stack[i].is \notin Queries PROVE i > 1 /\ i - 1 \in 1 .. Len(stack)
  BY <1>4 DEF Stacked
<1>5. CASE w \in {"locator", "service", "persist"}
  <2>1. stack[Len(stack)].is \in Kinds \ {"enumerateShortcuts"} /\ OnFailure[w] = <<stack[Len(stack)].is>>
    BY <1>5 DEF OnFailure, Asked, Kinds, Queries
  <2> QED
    BY <2>1, <1>1 DEF Names
<1>6. CASE w \in {"services", "connect"}
  <2>1. stack[Len(stack)].is \in {"locator", "service"}
    BY <1>6 DEF Asked
  <2>2. Len(stack) > 1 /\ Asked(stack[Len(stack) - 1].is, stack[Len(stack)].is)
    BY <2>1, <1>1, <1>3, <1>4 DEF Queries
  <2>3. /\ OnFailure[w] = <<stack[Len(stack)].is, stack[Len(stack) - 1].is>>
        /\ stack[Len(stack)].is \in Kinds \ {"enumerateShortcuts"}
        /\ stack[Len(stack) - 1].is \in Kinds \ {"enumerateShortcuts"}
    BY <1>6, <2>1, <2>2 DEF OnFailure, Asked, Kinds, Queries
  <2> QED
    BY <2>2, <2>3, <1>1 DEF Names
<1>7. CASE w = "enumerator"
  <2>1. stack[Len(stack)].is = "services"
    BY <1>7 DEF Asked
  <2>2. Len(stack) > 1 /\ stack[Len(stack) - 1].is = "locator"
    BY <2>1, <1>1, <1>3, <1>4 DEF Queries, Asked
  <2>3. Len(stack) > 2 /\ stack[Len(stack) - 2].is = "queryWmi"
    <3>1. Len(stack) - 1 \in 1 .. Len(stack) /\ stack[Len(stack) - 1].is \notin Queries
      BY <2>2, <1>1 DEF Queries
    <3>2. Len(stack) - 1 \in 2 .. Len(stack)
      BY <3>1, <1>1, <1>4
    <3>3. Asked(stack[(Len(stack) - 1) - 1].is, stack[Len(stack) - 1].is)
      BY <3>2, <1>3
    <3>4. (Len(stack) - 1) - 1 = Len(stack) - 2
      BY <1>1
    <3> QED
      BY <2>2, <3>2, <3>3, <3>4, <1>1 DEF Asked
  <2>4. OnFailure[w] = <<"services", "locator", "queryWmi">>
    BY <1>7 DEF OnFailure
  <2>5. {"services", "locator", "queryWmi"} \subseteq Kinds \ {"enumerateShortcuts"}
    BY DEF Kinds, Queries
  <2> QED
    BY <2>1, <2>2, <2>3, <2>4, <2>5, <1>1 DEF Names
<1> QED
  BY <1>2, <1>5, <1>6, <1>7

\* What was wanted is opened, above the one it was asked of; the first thing a
\* query opens is an object, for which COM is initialised.
LEMMA OpenStep ==
    ASSUME QueryInv, NEW t \in Callers, Get(t), Wanted(t) # "connect"
    PROVE  QueryInv'
<1>1. /\ InOrder(t) /\ PerThread /\ frames[t] # <<>> /\ unwinding[t] = <<>>
      /\ Wanted(t) \notin {"none", "security"} /\ (Wanted(t) \in Created => inits[t] > 0)
  BY DEF QueryInv, Get
<1>2. Asked(Top(t).is, Wanted(t))
  BY <1>1, WantedIsAsked DEF InOrder
<1>3. PICK base : base = Advanced(frames[t])
  OBVIOUS
<1>4. /\ Stacked(base) /\ base \in Seq(Frame) /\ Len(base) = Len(frames[t]) /\ Len(base) \in Nat \ {0}
      /\ base[Len(base)].is = Top(t).is
  <2>1. Len(frames[t]) \in Nat \ {0}
    BY <1>1, EmptySeq DEF InOrder, Stacked
  <2> QED
    BY <1>1, <1>3, <2>1, AdvancedIsSame DEF InOrder, Stacked, Top, Last
<1>5. PICK frame : frame = [is |-> Wanted(t), next |-> 1]
  OBVIOUS
<1>6. frame \in Frame /\ frame.is = Wanted(t)
  BY <1>2, <1>5 DEF Asked, Frame
<1>7. /\ frames'[t] = Append(base, frame)
      /\ UNCHANGED <<inits, unwinding, initHere, before, threw>>
  BY <1>1, <1>3, <1>5 DEF Get, PerThread
<1>8. /\ frames'[t] \in Seq(Frame) /\ Len(frames'[t]) = Len(base) + 1 /\ frames'[t] # <<>>
      /\ frames'[t][Len(base) + 1] = frame
      /\ \A i \in 1 .. Len(base) : frames'[t][i] = base[i]
  BY <1>4, <1>6, <1>7, AppendProperties
<1>9. Stacked(frames'[t])
  <2>1. frames'[t][1].is \in Queries
    BY <1>4, <1>8 DEF Stacked
  <2>2. ASSUME NEW i \in 2 .. Len(frames'[t]) PROVE Asked(frames'[t][i - 1].is, frames'[t][i].is)
    <3>1. CASE i <= Len(base)
      <4>1. i \in 2 .. Len(base) /\ i \in 1 .. Len(base) /\ i - 1 \in 1 .. Len(base)
        BY <3>1, <1>4
      <4>2. Asked(base[i - 1].is, base[i].is)
        BY <4>1, <1>4 DEF Stacked
      <4> QED
        BY <4>1, <4>2, <1>8
    <3>2. CASE i = Len(base) + 1
      BY <3>2, <1>2, <1>4, <1>6, <1>8
    <3> QED
      BY <3>1, <3>2, <1>4, <1>8
  <2> QED
    BY <2>1, <2>2, <1>8 DEF Stacked
<1>10. inits[t] > 0
  <2>1. CASE Len(frames[t]) = 1
    <3>1. Top(t).is \in Queries
      BY <2>1, <1>1 DEF InOrder, Stacked, Top, Last
    <3> QED
      BY <3>1, <1>1, <1>2 DEF Asked
  <2>2. CASE Len(frames[t]) > 1
    BY <2>2, <1>1 DEF InOrder, Balanced
  <2>3. Len(frames[t]) = 1 \/ Len(frames[t]) > 1
    BY <1>1, OneOrMore DEF InOrder, Stacked
  <2> QED
    BY <2>1, <2>2, <2>3
<1>11. Names(unwinding'[t], frames'[t])
  BY <1>1, <1>7, <1>8, NoPath
<1>12. Balanced(t)'
  BY <1>1, <1>7, <1>8, <1>10 DEF InOrder, Balanced
<1>13. Elsewhere(t)
  BY <1>1 DEF Get, Elsewhere, PerThread
<1> QED
  BY <1>9, <1>11, <1>12, <1>13, OneThread DEF InOrder

\* What is innermost is released; with the query itself, its CoInitializeEx.
LEMMA ReleaseFacts ==
    ASSUME QueryInv, NEW t \in Callers, frames[t] # <<>>, Released(t, Top(t).is)
    PROVE  /\ Stacked(frames'[t]) /\ Balanced(t)' /\ Len(frames'[t]) = Len(frames[t]) - 1
           /\ \A i \in 1 .. Len(frames[t]) - 1 : frames'[t][i] = frames[t][i]
           /\ DOMAIN inits' = Callers /\ DOMAIN frames' = Callers
           /\ UNCHANGED <<initHere, before, threw>>
           /\ \A u \in Callers \ {t} : frames'[u] = frames[u] /\ inits'[u] = inits[u]
<1>1. /\ InOrder(t) /\ PerThread
      /\ frames[t] \in Seq(Frame) /\ Len(frames[t]) \in Nat \ {0}
      /\ Top(t) = frames[t][Len(frames[t])]
  BY EmptySeq DEF QueryInv, InOrder, Stacked, Top, Last
<1>2. frames'[t] = Without(frames[t], Top(t).is) /\ UNCHANGED <<initHere, before, threw>>
  BY <1>1 DEF Released, PerThread
<1>3. /\ frames'[t] \in Seq(Frame) /\ Len(frames'[t]) = Len(frames[t]) - 1
      /\ \A i \in 1 .. Len(frames[t]) - 1 : frames'[t][i] = frames[t][i]
  <2>1. PICK stack \in Seq(Frame) : stack = frames[t]
    BY <1>1
  <2>2. PICK x : x = Top(t).is
    OBVIOUS
  <2>3. x = stack[Len(stack)].is /\ stack # <<>>
    BY <2>1, <2>2, <1>1
  <2>4. /\ Without(stack, x) \in Seq(Frame) /\ Len(Without(stack, x)) = Len(stack) - 1
        /\ \A i \in 1 .. Len(stack) - 1 : Without(stack, x)[i] = stack[i]
    BY <2>3, ReleasedIsTop
  <2>5. frames'[t] = Without(stack, x)
    BY <2>1, <2>2, <1>2
  <2> QED
    BY <2>1, <2>4, <2>5
<1>4. Stacked(frames'[t])
  <2>1. frames'[t] # <<>> => Len(frames'[t]) > 0
    BY <1>3, EmptySeq
  <2>2. frames'[t] # <<>> => frames'[t][1].is \in Queries
    BY <2>1, <1>1, <1>3 DEF InOrder, Stacked
  <2>3. ASSUME NEW i \in 2 .. Len(frames'[t])
        PROVE  Asked(frames'[t][i - 1].is, frames'[t][i].is)
    <3>1. PICK n \in Nat : n = Len(frames[t])
      BY <1>1
    <3>2. i \in 2 .. n /\ i - 1 \in 1 .. n - 1 /\ i \in 1 .. n - 1
      BY <1>3, <3>1
    <3>3. frames'[t][i - 1] = frames[t][i - 1] /\ frames'[t][i] = frames[t][i]
      BY <1>3, <3>1, <3>2
    <3>4. Asked(frames[t][i - 1].is, frames[t][i].is)
      BY <1>1, <3>1, <3>2 DEF InOrder, Stacked
    <3> QED
      BY <3>3, <3>4
  <2> QED
    BY <2>2, <2>3, <1>3 DEF Stacked
<1>5. /\ DOMAIN inits' = Callers /\ DOMAIN frames' = Callers
      /\ \A u \in Callers \ {t} : frames'[u] = frames[u] /\ inits'[u] = inits[u]
  BY <1>1 DEF Released, PerThread
<1>6. Balanced(t)'
  <2>1. CASE Len(frames[t]) = 1
    <3>1. Top(t).is \in Queries
      BY <2>1, <1>1 DEF InOrder, Stacked
    <3>2. inits'[t] = IF initHere[t] THEN inits[t] - 1 ELSE inits[t]
      BY <3>1, <1>1 DEF Released, Uninitializes, PerThread
    <3>3. frames'[t] = <<>>
      BY <2>1, <1>3, EmptySeq
    <3> QED
      BY <3>2, <3>3, <1>1, <1>2 DEF InOrder, Balanced
  <2>2. CASE Len(frames[t]) > 1
    <3>1. Top(t).is \notin Queries
      BY <2>2, <1>1 DEF InOrder, Stacked, Asked
    <3>2. inits'[t] = inits[t]
      BY <3>1, <1>1 DEF Released
    <3>3. frames'[t] # <<>>
      BY <2>2, <1>1, <1>3
    <3> QED
      BY <2>2, <3>2, <3>3, <1>1, <1>2, <1>3 DEF InOrder, Balanced
  <2>3. Len(frames[t]) = 1 \/ Len(frames[t]) > 1
    BY <1>1, OneOrMore
  <2> QED
    BY <2>1, <2>2, <2>3
<1> QED
  BY <1>2, <1>3, <1>4, <1>5, <1>6

\* Every call of a query, its success and its failure keep the stacks in order.
LEMMA QueryStep == QueryInv /\ [QueryNext]_queryVars => QueryInv'
<1> SUFFICES ASSUME QueryInv, [QueryNext]_queryVars PROVE QueryInv'
  OBVIOUS
<1>1. ASSUME NEW t \in Callers, NEW q \in Queries, Call(t, q) PROVE QueryInv'
  BY <1>1, CallStep
<1>2. ASSUME NEW t \in Callers, Secure(t) PROVE QueryInv'
  BY <1>2, AdvanceStep DEF Secure
<1>3. ASSUME NEW t \in Callers, SecureFails(t) PROVE QueryInv'
  <2>1. frames[t] # <<>> /\ unwinding[t] = <<>> /\ Wanted(t) = "security" /\ InOrder(t)
    BY <1>3 DEF SecureFails, QueryInv
  <2>2. CASE frames' = [frames EXCEPT ![t] = Advanced(@)] /\ UNCHANGED unwinding
    BY <1>3, <2>1, <2>2, AdvanceStep DEF SecureFails
  <2>3. CASE unwinding' = [unwinding EXCEPT ![t] = <<Top(t).is>>] /\ UNCHANGED frames
    <3>1. Asked(Top(t).is, "security")
      BY <2>1, WantedIsAsked DEF InOrder
    <3>2. Top(t).is \in Kinds /\ Top(t).is # "enumerateShortcuts"
      BY <3>1 DEF Asked, Kinds, Queries
    <3>3. frames[t] \in Seq(Frame) /\ Len(frames[t]) \in Nat \ {0} /\ Top(t) = frames[t][Len(frames[t])]
      BY <2>1, EmptySeq DEF InOrder, Stacked, Top, Last
    <3>4. Names(<<Top(t).is>>, frames[t])
      BY <3>2, <3>3 DEF Names
    <3>5. UNCHANGED <<inits, frames, initHere, before, threw>>
      BY <1>3, <2>3 DEF SecureFails
    <3> QED
      BY <2>3, <3>4, <3>5, FailStep
  <2> QED
    BY <1>3, <2>2, <2>3 DEF SecureFails
<1>4. ASSUME NEW t \in Callers, Get(t) PROVE QueryInv'
  <2>1. CASE Wanted(t) = "connect"
    <3>1. /\ frames[t] # <<>> /\ unwinding[t] = <<>>
          /\ UNCHANGED <<inits, unwinding, initHere, before, threw>>
          /\ frames' = [frames EXCEPT ![t] = Advanced(@)]
      BY <1>4, <2>1 DEF Get
    <3> QED
      BY <3>1, AdvanceStep
  <2> QED
    BY <1>4, <2>1, OpenStep
<1>5. ASSUME NEW t \in Callers, GetFails(t) PROVE QueryInv'
  <2>1. /\ frames[t] # <<>> /\ unwinding[t] = <<>> /\ Wanted(t) # "none" /\ InOrder(t)
        /\ UNCHANGED <<inits, initHere, before, threw>>
    BY <1>5 DEF GetFails, QueryInv
  <2>2. CASE Wanted(t) \in DOMAIN OnFailure
    <3>1. Asked(frames[t][Len(frames[t])].is, Wanted(t))
      BY <2>1, WantedIsAsked DEF InOrder, Top, Last
    <3>2. Names(OnFailure[Wanted(t)], frames[t])
      BY <2>1, <2>2, <3>1, PathIsOpen DEF InOrder
    <3>3. unwinding' = [unwinding EXCEPT ![t] = OnFailure[Wanted(t)]] /\ UNCHANGED frames
      BY <1>5, <2>2 DEF GetFails
    <3> QED
      BY <2>1, <3>2, <3>3, FailStep
  <2>3. CASE Wanted(t) \notin DOMAIN OnFailure
    <3>1. frames' = [frames EXCEPT ![t] = Advanced(@)] /\ UNCHANGED unwinding
      BY <1>5, <2>3 DEF GetFails
    <3> QED
      BY <2>1, <3>1, AdvanceStep
  <2> QED
    BY <2>2, <2>3
<1>6. ASSUME NEW t \in Callers, ReleaseTop(t) PROVE QueryInv'
  <2>1. frames[t] # <<>> /\ Released(t, Top(t).is) /\ unwinding[t] = <<>> /\ UNCHANGED unwinding /\ PerThread
    BY <1>6 DEF ReleaseTop, QueryInv
  <2>2. Stacked(frames'[t]) /\ Balanced(t)'
    BY <2>1, ReleaseFacts
  <2>3. Names(unwinding'[t], frames'[t])
    BY <2>1, <2>2, NoPath DEF Stacked
  <2>4. Elsewhere(t)
    BY <2>1, ReleaseFacts DEF Elsewhere, PerThread
  <2> QED
    BY <2>2, <2>3, <2>4, OneThread DEF InOrder
<1>7. ASSUME NEW t \in Callers, Unwind(t) PROVE QueryInv'
  <2>1. /\ unwinding[t] # <<>> /\ Released(t, Head(unwinding[t])) /\ PerThread /\ InOrder(t)
        /\ unwinding' = [unwinding EXCEPT ![t] = Tail(@)]
    BY <1>7 DEF Unwind, QueryInv
  <2>2. /\ unwinding[t] \in Seq(Kinds) /\ Len(unwinding[t]) \in Nat \ {0}
        /\ Len(frames[t]) \in Nat /\ Len(unwinding[t]) <= Len(frames[t]) /\ frames[t] # <<>>
        /\ Head(unwinding[t]) = unwinding[t][1]
    BY <2>1, EmptySeq DEF InOrder, Names, Stacked
  <2>3. Head(unwinding[t]) = Top(t).is
    BY <2>1, <2>2 DEF InOrder, Names, Top, Last
  <2>4. /\ Stacked(frames'[t]) /\ Balanced(t)' /\ Len(frames'[t]) = Len(frames[t]) - 1
        /\ \A i \in 1 .. Len(frames[t]) - 1 : frames'[t][i] = frames[t][i]
    BY <2>1, <2>2, <2>3, ReleaseFacts
  <2>5. /\ unwinding'[t] \in Seq(Kinds) /\ Len(unwinding'[t]) = Len(unwinding[t]) - 1
        /\ \A j \in 1 .. Len(unwinding[t]) - 1 : unwinding'[t][j] = unwinding[t][j + 1]
    BY <2>1, <2>2, HeadTailProperties DEF PerThread
  <2>6. Names(unwinding'[t], frames'[t])
    <3>1. ASSUME NEW j \in 1 .. Len(unwinding[t]) - 1
          PROVE  unwinding'[t][j] = frames'[t][Len(frames'[t]) - j + 1].is /\ unwinding'[t][j] # "enumerateShortcuts"
      <4>1. j + 1 \in 1 .. Len(unwinding[t]) /\ Len(frames[t]) - j \in 1 .. Len(frames[t]) - 1
        BY <2>2
      <4>2. Len(frames[t]) - (j + 1) + 1 = Len(frames[t]) - j /\ Len(frames'[t]) - j + 1 = Len(frames[t]) - j
        BY <2>2, <2>4
      <4>3. /\ unwinding[t][j + 1] = frames[t][Len(frames[t]) - (j + 1) + 1].is
            /\ unwinding[t][j + 1] # "enumerateShortcuts"
        BY <2>1, <4>1 DEF InOrder, Names
      <4> QED
        BY <2>4, <2>5, <4>1, <4>2, <4>3
    <3> QED
      BY <2>2, <2>4, <2>5, <3>1 DEF Names
  <2>7. Elsewhere(t)
    BY <2>1, <2>2, <2>3, ReleaseFacts DEF Elsewhere, PerThread
  <2> QED
    BY <2>4, <2>6, <2>7, OneThread DEF InOrder
<1>8. ASSUME NEW t \in Callers, ShortcutsThrow(t) PROVE QueryInv'
  <2>1. /\ frames[t] # <<>> /\ Top(t).is = "enumerateShortcuts" /\ PerThread /\ InOrder(t)
        /\ frames' = [frames EXCEPT ![t] = <<>>] /\ threw' = [threw EXCEPT ![t] = TRUE]
        /\ UNCHANGED <<inits, unwinding, initHere, before>>
    BY <1>8 DEF ShortcutsThrow, QueryInv
  <2>2. unwinding[t] = <<>>
    <3>1. unwinding[t] \in Seq(Kinds) /\ Len(frames[t]) \in Nat \ {0}
      BY <2>1, EmptySeq DEF InOrder, Names, Stacked
    <3>2. ASSUME Len(unwinding[t]) > 0 PROVE FALSE
      <4>1. 1 \in 1 .. Len(unwinding[t]) /\ Len(frames[t]) - 1 + 1 = Len(frames[t])
        BY <3>1, <3>2
      <4> QED
        BY <2>1, <4>1 DEF InOrder, Names, Top, Last
    <3> QED
      BY <3>1, <3>2, EmptySeq
  <2>3. frames'[t] = <<>> /\ threw'[t] = TRUE /\ frames'[t] \in Seq(Frame) /\ Len(frames'[t]) = 0
    BY <2>1 DEF PerThread
  <2>4. Stacked(frames'[t]) /\ Names(unwinding'[t], frames'[t])
    BY <2>1, <2>2, <2>3, NoPath, NothingOpen
  <2>5. Balanced(t)'
    BY <2>1, <2>3 DEF InOrder, Balanced
  <2>6. Elsewhere(t)
    BY <2>1 DEF Elsewhere, PerThread
  <2> QED
    BY <2>4, <2>5, <2>6, OneThread DEF InOrder
<1>9. CASE UNCHANGED queryVars
  BY <1>9 DEF queryVars, QueryInv, PerThread, InOrder, Balanced
<1> QED
  BY <1>1, <1>2, <1>3, <1>4, <1>5, <1>6, <1>7, <1>8, <1>9 DEF QueryNext

\* A query leaves its thread as it found it, whichever of its calls fail, for
\* any number of threads, items and nested folders.
THEOREM QueriesCleanUp == QuerySpec => []ThreadsLeftAsFound
<1>1. QueryInit => QueryInv
  <2> SUFFICES ASSUME QueryInit PROVE QueryInv
    OBVIOUS
  <2>1. PerThread
    BY DEF QueryInit, PerThread
  <2>2. ASSUME NEW t \in Callers PROVE InOrder(t)
    <3>1. /\ frames[t] = <<>> /\ unwinding[t] = <<>> /\ inits[t] \in Nat /\ before[t] = inits[t]
          /\ frames[t] \in Seq(Frame) /\ Len(frames[t]) = 0
      BY DEF QueryInit
    <3>2. Stacked(frames[t]) /\ Names(unwinding[t], frames[t])
      BY <3>1, NoPath, NothingOpen
    <3>3. Balanced(t)
      BY <3>1 DEF Balanced
    <3> QED
      BY <3>2, <3>3 DEF InOrder
  <2> QED
    BY <2>1, <2>2 DEF QueryInv
<1>2. QueryInv => ThreadsLeftAsFound
  <2> SUFFICES ASSUME QueryInv, NEW t \in Callers
               PROVE  /\ ~Running(t) => frames[t] = <<>> /\ (inits[t] = before[t] \/ threw[t])
                      /\ Open(t) \subseteq Queries \/ inits[t] > 0
    BY DEF ThreadsLeftAsFound
  <2>1. InOrder(t) /\ frames[t] \in Seq(Frame) /\ DOMAIN frames[t] = 1 .. Len(frames[t]) /\ Len(frames[t]) \in Nat
    BY DEF QueryInv, InOrder, Stacked
  <2>2. frames[t] # <<>> => Running(t)
    BY <2>1, EmptySeq DEF InOrder, Stacked, Running, Open
  <2>3. Len(frames[t]) <= 1 => Open(t) \subseteq Queries
    BY <2>1, EmptySeq DEF InOrder, Stacked, Open
  <2> QED
    BY <2>1, <2>2, <2>3 DEF InOrder, Balanced
<1> QED  BY <1>1, <1>2, QueryStep, PTL DEF QuerySpec

-----------------------------------------------------------------------------
(* The shell extension                                                     *)

\* What threads have so many of, one by one: its size is the sum.
Each(count) == {p \in Threads \X Nat : 1 <= p[2] /\ p[2] <= count[p[1]]}

\* The references to an object: pointers of the shell, and threads at work on
\* it that have one of their own.
Pointers(o) == Each([t \in Threads |-> held[t][o]])
Working(o)  == {t \in Threads : this[t] = o /\ at[t] \in {"query", "release"}}

\* The references to the module: locks, and objects until the thread that
\* deletes them has counted them out.
Locks  == Each(locks)
Living == {o \in Objects : kind[o] # "free" /\ \A t \in Threads : this[t] = o => at[t] # "delete"}

ComType ==
    /\ kind \in [Objects -> {"free", "factory", "menu"}]
    /\ refCount \in [Objects -> Nat] /\ moduleRefs \in Nat
    /\ held \in [Threads -> [Objects -> Nat]] /\ locks \in [Threads -> Nat]
    /\ at \in [Threads -> {"out", "query", "release", "last", "delete"}]
    /\ this \in [Threads -> Objects \cup {Nowhere}]

\* A thread is in the module with an object that exists; the one that took the
\* last reference is alone with it.
Attended ==
    /\ \A t \in Threads : at[t] = "out" <=> this[t] = Nowhere
    /\ \A t \in Threads : this[t] \in Objects => kind[this[t]] # "free"
    /\ \A t \in Threads : at[t] \in {"last", "delete"} => refCount[this[t]] = 0
    /\ \A t, u \in Threads :
         at[t] \in {"last", "delete"} /\ at[u] \in {"last", "delete"} /\ this[t] = this[u] => t = u
    /\ \A o \in Objects : kind[o] # "free" /\ refCount[o] = 0 =>
         \E t \in Threads : this[t] = o /\ at[t] \in {"last", "delete"}

References ==
    /\ \A o \in Objects :
         /\ IsFiniteSet(Pointers(o))
         /\ refCount[o] = Cardinality(Pointers(o)) + Cardinality(Working(o))
         /\ kind[o] = "free" => refCount[o] = 0
    /\ IsFiniteSet(Locks) /\ moduleRefs = Cardinality(Living) + Cardinality(Locks)

ComInv == ComType /\ Attended /\ References

\* One more of a thread's is one more of all.
LEMMA OneMoreOf ==
    ASSUME NEW f \in [Threads -> Nat], NEW u \in Threads, IsFiniteSet(Each(f))
    PROVE  /\ IsFiniteSet(Each([f EXCEPT ![u] = @ + 1]))
           /\ Cardinality(Each([f EXCEPT ![u] = @ + 1])) = Cardinality(Each(f)) + 1
<1>1. PICK x : x = <<u, f[u] + 1>>
  OBVIOUS
<1>2. x \notin Each(f)
  BY <1>1 DEF Each
<1>3. Each([f EXCEPT ![u] = @ + 1]) = Each(f) \cup {x}
  BY <1>1 DEF Each
<1>4. PICK S : S = Each(f)
  OBVIOUS
<1>5. IsFiniteSet(S \cup {x}) /\ Cardinality(S \cup {x}) = Cardinality(S) + 1
  BY <1>2, <1>4, FS_AddElement
<1> QED
  BY <1>3, <1>4, <1>5

\* And one less, which then is the greatest number of that thread.
LEMMA OneLessOf ==
    ASSUME NEW f \in [Threads -> Nat], NEW u \in Threads, IsFiniteSet(Each(f)), f[u] > 0
    PROVE  /\ IsFiniteSet(Each([f EXCEPT ![u] = @ - 1]))
           /\ Cardinality(Each([f EXCEPT ![u] = @ - 1])) = Cardinality(Each(f)) - 1
<1>1. PICK x : x = <<u, f[u]>>
  OBVIOUS
<1>2. x \in Each(f)
  BY <1>1 DEF Each
<1>3. Each([f EXCEPT ![u] = @ - 1]) = Each(f) \ {x}
  BY <1>1 DEF Each
<1> QED
  BY <1>2, <1>3, FS_RemoveElement

\* There are some exactly when a thread has some.
LEMMA SomeHas ==
    ASSUME NEW f \in [Threads -> Nat], IsFiniteSet(Each(f))
    PROVE  /\ Cardinality(Each(f)) \in Nat
           /\ Cardinality(Each(f)) > 0 <=> \E u \in Threads : f[u] > 0
<1>1. Cardinality(Each(f)) \in Nat /\ (Cardinality(Each(f)) = 0 <=> Each(f) = {})
  BY FS_EmptySet, FS_CardinalityType
<1>2. ASSUME NEW u \in Threads, f[u] > 0 PROVE Each(f) # {}
  <2>1. <<u, 1>> \in Each(f)
    BY <1>2 DEF Each
  <2> QED
    BY <2>1
<1>3. ASSUME NEW p \in Each(f) PROVE \E u \in Threads : f[u] > 0
  <2>1. p[1] \in Threads /\ p[2] \in Nat /\ 1 <= p[2] /\ p[2] <= f[p[1]] /\ f[p[1]] \in Nat
    BY DEF Each
  <2>2. f[p[1]] > 0
    BY <2>1
  <2> QED
    BY <2>1, <2>2
<1> QED
  BY <1>1, <1>2, <1>3

\* The threads and the objects are finitely many.
LEMMA FiniteParts ==
    /\ \A o : IsFiniteSet(Working(o)) /\ Cardinality(Working(o)) \in Nat
    /\ IsFiniteSet(Living) /\ Cardinality(Living) \in Nat
<1>1. ASSUME NEW o PROVE IsFiniteSet(Working(o)) /\ Cardinality(Working(o)) \in Nat
  <2>1. Working(o) \in SUBSET Threads
    BY DEF Working
  <2> QED
    BY <2>1, FiniteAssumption, FS_Subset, FS_CardinalityType
<1>2. Living \in SUBSET Objects
  BY DEF Living
<1>3. IsFiniteSet(Living) /\ Cardinality(Living) \in Nat
  BY <1>2, FiniteAssumption, FS_Subset, FS_CardinalityType
<1> QED
  BY <1>1, <1>3

\* What the counts say: an object with a pointer to it or a thread at work on
\* it exists and has references, and one without references has neither.
LEMMA CountsSay ==
    ASSUME ComInv, NEW o \in Objects
    PROVE  /\ Cardinality(Pointers(o)) \in Nat /\ refCount[o] \in Nat
           /\ \A t \in Threads : held[t][o] > 0 => refCount[o] > 0
           /\ \A t \in Working(o) : refCount[o] > 0
           /\ refCount[o] > 0 => kind[o] # "free"
           /\ refCount[o] > 0 /\ Working(o) = {} => \E t \in Threads : held[t][o] > 0
<1>1. PICK f \in [Threads -> Nat] : f = [t \in Threads |-> held[t][o]]
  BY DEF ComInv, ComType
<1>2. /\ IsFiniteSet(Each(f)) /\ Pointers(o) = Each(f) /\ refCount[o] \in Nat
      /\ refCount[o] = Cardinality(Each(f)) + Cardinality(Working(o))
      /\ kind[o] = "free" => refCount[o] = 0
  BY <1>1 DEF ComInv, ComType, References, Pointers
<1>3. Cardinality(Each(f)) \in Nat /\ (Cardinality(Each(f)) > 0 <=> \E u \in Threads : held[u][o] > 0)
  BY <1>1, <1>2, SomeHas
<1>4. Cardinality(Working(o)) \in Nat /\ (Cardinality(Working(o)) = 0 <=> Working(o) = {})
  BY FiniteParts, FS_EmptySet
<1> QED
  BY <1>2, <1>3, <1>4

\* The shell takes one more pointer to an object, or lets one go.
LEMMA PointersMore ==
    ASSUME ComInv, NEW u \in Threads, NEW o \in Objects, held' = [held EXCEPT ![u][o] = @ + 1]
    PROVE  /\ held' \in [Threads -> [Objects -> Nat]]
           /\ IsFiniteSet(Pointers(o))' /\ Cardinality(Pointers(o)') = Cardinality(Pointers(o)) + 1
           /\ \A q \in Objects \ {o} : Pointers(q)' = Pointers(q)
<1>1. held \in [Threads -> [Objects -> Nat]]
  BY DEF ComInv, ComType
<1>2. held' \in [Threads -> [Objects -> Nat]]
  BY <1>1
<1>3. PICK f \in [Threads -> Nat] : f = [t \in Threads |-> held[t][o]]
  BY <1>1
<1>4. [t \in Threads |-> held'[t][o]] = [f EXCEPT ![u] = @ + 1]
  BY <1>1, <1>3
<1>5. Pointers(o) = Each(f) /\ Pointers(o)' = Each([f EXCEPT ![u] = @ + 1])
  BY <1>3, <1>4 DEF Pointers
<1>6. IsFiniteSet(Each(f))
  BY <1>5 DEF ComInv, References
<1>7. ASSUME NEW q \in Objects \ {o} PROVE Pointers(q)' = Pointers(q)
  <2>1. [t \in Threads |-> held'[t][q]] = [t \in Threads |-> held[t][q]]
    BY <1>1
  <2> QED
    BY <2>1 DEF Pointers
<1>8. PICK g : g = [f EXCEPT ![u] = @ + 1]
  OBVIOUS
<1>9. IsFiniteSet(Each(g)) /\ Cardinality(Each(g)) = Cardinality(Each(f)) + 1
  BY <1>6, <1>8, OneMoreOf
<1> QED
  BY <1>2, <1>5, <1>7, <1>8, <1>9

\* The same for a pointer that is let go.
LEMMA PointersLess ==
    ASSUME ComInv, NEW u \in Threads, NEW o \in Objects,
           held[u][o] > 0, held' = [held EXCEPT ![u][o] = @ - 1]
    PROVE  /\ held' \in [Threads -> [Objects -> Nat]]
           /\ IsFiniteSet(Pointers(o))' /\ Cardinality(Pointers(o)') = Cardinality(Pointers(o)) - 1
           /\ \A q \in Objects \ {o} : Pointers(q)' = Pointers(q)
<1>1. held \in [Threads -> [Objects -> Nat]]
  BY DEF ComInv, ComType
<1>2. held' \in [Threads -> [Objects -> Nat]]
  BY <1>1
<1>3. PICK f \in [Threads -> Nat] : f = [t \in Threads |-> held[t][o]]
  BY <1>1
<1>4. [t \in Threads |-> held'[t][o]] = [f EXCEPT ![u] = @ - 1] /\ f[u] > 0
  BY <1>1, <1>3
<1>5. Pointers(o) = Each(f) /\ Pointers(o)' = Each([f EXCEPT ![u] = @ - 1])
  BY <1>3, <1>4 DEF Pointers
<1>6. IsFiniteSet(Each(f))
  BY <1>5 DEF ComInv, References
<1>7. ASSUME NEW q \in Objects \ {o} PROVE Pointers(q)' = Pointers(q)
  <2>1. [t \in Threads |-> held'[t][q]] = [t \in Threads |-> held[t][q]]
    BY <1>1
  <2> QED
    BY <2>1 DEF Pointers
<1>8. PICK g : g = [f EXCEPT ![u] = @ - 1]
  OBVIOUS
<1>9. IsFiniteSet(Each(g)) /\ Cardinality(Each(g)) = Cardinality(Each(f)) - 1
  BY <1>4, <1>6, <1>8, OneLessOf
<1> QED
  BY <1>2, <1>5, <1>7, <1>8, <1>9

\* A thread begins to work on an object,
LEMMA WorkBegins ==
    ASSUME ComInv, NEW t \in Threads, NEW o \in Objects, at[t] = "out", Enter(t, "query", o)
    PROVE  /\ Cardinality(Working(o)') = Cardinality(Working(o)) + 1
           /\ \A q \in Objects \ {o} : Working(q)' = Working(q)
<1>1. Working(o)' = Working(o) \cup {t} /\ t \notin Working(o)
  BY DEF ComInv, ComType, Enter, Working
<1>2. ASSUME NEW q \in Objects \ {o} PROVE Working(q)' = Working(q)
  BY DEF ComInv, ComType, Enter, Working
<1>3. PICK S : S = Working(o)
  OBVIOUS
<1>4. Cardinality(S \cup {t}) = Cardinality(S) + 1
  BY <1>1, <1>3, FiniteParts, FS_AddElement
<1> QED
  BY <1>1, <1>2, <1>3, <1>4

\* ends it with the reference it had,
LEMMA WorkEnds ==
    ASSUME ComInv, NEW t \in Threads, NEW o \in Objects, at[t] = "release", this[t] = o,
           NEW where \in {"last", "out"}, NEW next, Enter(t, where, next)
    PROVE  /\ Cardinality(Working(o)') = Cardinality(Working(o)) - 1
           /\ \A q \in Objects \ {o} : Working(q)' = Working(q)
<1>1. Working(o)' = Working(o) \ {t} /\ t \in Working(o)
  BY DEF ComInv, ComType, Enter, Working
<1>2. ASSUME NEW q \in Objects \ {o} PROVE Working(q)' = Working(q)
  BY DEF ComInv, ComType, Enter, Working
<1>3. PICK S : S = Working(o)
  OBVIOUS
<1>4. Cardinality(S \ {t}) = Cardinality(S) - 1
  BY <1>1, <1>3, FiniteParts, FS_RemoveElement
<1> QED
  BY <1>1, <1>2, <1>3, <1>4

\* or does neither.
LEMMA WorkStays ==
    ASSUME ComInv, NEW t \in Threads, NEW where, NEW next, Enter(t, where, next),
           \/ at[t] = "query" /\ where = "release" /\ next = this[t]
           \/ at[t] \notin {"query", "release"} /\ where \notin {"query", "release"}
    PROVE  \A q \in Objects : Working(q)' = Working(q)
BY DEF ComInv, ComType, Enter, Working

\* Who has taken the last reference shares the object with nobody.
LEMMA LastIsAlone ==
    ASSUME ComInv, NEW t \in Threads, NEW o \in Objects, this[t] = o, at[t] \in {"last", "delete"}
    PROVE  \A u \in Threads : this[u] = o => u = t
<1> SUFFICES ASSUME NEW u \in Threads, this[u] = o PROVE u = t
  OBVIOUS
<1>1. refCount[o] = 0 /\ o # Nowhere
  BY NowhereAssumption DEF ComInv, Attended
<1>2. u \notin Working(o)
  BY <1>1, CountsSay
<1>3. at[u] \in {"last", "delete"}
  BY <1>1, <1>2 DEF ComInv, ComType, Attended, Working
<1> QED
  BY <1>3 DEF ComInv, Attended

\* A new object has the reference of the thread that made it, and none else.
LEMMA NewStep ==
    ASSUME ComInv, NEW t \in Threads, NEW o \in Objects, NEW k \in {"factory", "menu"}, New(t, k, o)
    PROVE  ComInv'
<1>1. /\ at[t] = "out" /\ kind[o] = "free" /\ Enter(t, "query", o)
      /\ kind' = [kind EXCEPT ![o] = k] /\ refCount' = [refCount EXCEPT ![o] = 1]
      /\ moduleRefs' = moduleRefs + 1 /\ held' = held /\ locks' = locks
  BY DEF New, client
<1>2. refCount[o] = 0 /\ this[t] = Nowhere /\ \A u \in Threads : this[u] # o
  BY <1>1, NowhereAssumption DEF ComInv, Attended, References
<1>3. ComType'
  BY <1>1 DEF ComInv, ComType, Enter
<1>4. Attended'
  BY <1>1, <1>2, NowhereAssumption DEF ComInv, ComType, Attended, Enter
<1>5. Locks' = Locks /\ \A q \in Objects : Pointers(q)' = Pointers(q)
  BY <1>1 DEF Locks, Pointers
<1>6. /\ Cardinality(Working(o)') = Cardinality(Working(o)) + 1
      /\ \A q \in Objects \ {o} : Working(q)' = Working(q)
  BY <1>1, WorkBegins
<1>7. Cardinality(Pointers(o)) \in Nat /\ Cardinality(Working(o)) \in Nat
  BY CountsSay, FiniteParts
<1>8. refCount'[o] = Cardinality(Pointers(o)') + Cardinality(Working(o)')
  <2>1. 0 = Cardinality(Pointers(o)) + Cardinality(Working(o)) /\ refCount'[o] = 1
    BY <1>1, <1>2 DEF ComInv, ComType, References
  <2> QED
    BY <1>5, <1>6, <1>7, <2>1
<1>9. moduleRefs' = Cardinality(Living') + Cardinality(Locks')
  <2>1. PICK S : S = Living
    OBVIOUS
  <2>2. o \notin S /\ Living' = S \cup {o}
    BY <1>1, <1>2, <2>1 DEF ComInv, ComType, Enter, Living
  <2>3. IsFiniteSet(S) /\ Cardinality(S) \in Nat
    BY <2>1, FiniteParts
  <2>4. Cardinality(S \cup {o}) = Cardinality(S) + 1
    BY <2>2, <2>3, FS_AddElement
  <2>5. PICK l : l = Cardinality(Locks)
    OBVIOUS
  <2>6. IsFiniteSet(Locks) /\ moduleRefs = Cardinality(S) + l
    BY <2>1, <2>5 DEF ComInv, References
  <2>7. l \in Nat
    BY <2>5, <2>6, FS_CardinalityType
  <2> QED
    BY <1>1, <1>5, <2>2, <2>3, <2>4, <2>5, <2>6, <2>7
<1>10. References'
  <2>1. ASSUME NEW q \in Objects
        PROVE  /\ IsFiniteSet(Pointers(q))'
               /\ refCount'[q] = Cardinality(Pointers(q)') + Cardinality(Working(q)')
               /\ kind'[q] = "free" => refCount'[q] = 0
    <3>1. CASE q = o
      BY <1>1, <1>5, <1>8, <3>1 DEF ComInv, ComType, References
    <3>2. CASE q # o
      BY <1>1, <1>5, <1>6, <3>2 DEF ComInv, ComType, References
    <3> QED
      BY <3>1, <3>2
  <2> QED
    BY <1>5, <1>9, <2>1 DEF ComInv, References
<1> QED
  BY <1>3, <1>4, <1>10 DEF ComInv

\* A pointer that is given out is counted, by QueryInterface and by AddRef.
LEMMA GivenOut ==
    ASSUME ComInv, NEW u \in Threads, NEW o \in Objects, refCount[o] > 0,
           refCount' = [refCount EXCEPT ![o] = @ + 1], held' = [held EXCEPT ![u][o] = @ + 1],
           kind' = kind, moduleRefs' = moduleRefs, locks' = locks, Living' = Living,
           \A q \in Objects : Working(q)' = Working(q)
    PROVE  References'
<1>1. /\ IsFiniteSet(Pointers(o))' /\ Cardinality(Pointers(o)') = Cardinality(Pointers(o)) + 1
      /\ \A q \in Objects \ {o} : Pointers(q)' = Pointers(q)
  BY PointersMore
<1>2. Cardinality(Pointers(o)) \in Nat /\ Cardinality(Working(o)) \in Nat
  BY CountsSay, FiniteParts
<1>3. refCount'[o] = refCount[o] + 1
  BY DEF ComInv, ComType
<1>4. refCount'[o] = Cardinality(Pointers(o)') + Cardinality(Working(o)')
  <2>1. refCount[o] = Cardinality(Pointers(o)) + Cardinality(Working(o))
    BY DEF ComInv, References
  <2> QED
    BY <1>1, <1>2, <1>3, <2>1
<1>5. ASSUME NEW q \in Objects
      PROVE  /\ IsFiniteSet(Pointers(q))'
             /\ refCount'[q] = Cardinality(Pointers(q)') + Cardinality(Working(q)')
             /\ kind'[q] = "free" => refCount'[q] = 0
  <2>1. CASE q = o
    BY <1>1, <1>4, <2>1 DEF ComInv, References
  <2>2. CASE q # o
    BY <1>1, <2>2 DEF ComInv, ComType, References
  <2> QED
    BY <2>1, <2>2
<1>6. Locks' = Locks
  BY DEF Locks
<1> QED
  BY <1>5, <1>6 DEF ComInv, References

\* QueryInterface keeps the invariant, whatever it answers.
LEMMA QueryKeeps ==
    ASSUME ComInv, NEW t \in Threads, Query(t)
    PROVE  ComInv'
<1>1. PICK o \in Objects : o = this[t]
  BY DEF ComInv, ComType, Attended, Query
<1>2. /\ at[t] = "query" /\ Enter(t, "release", o)
      /\ kind' = kind /\ moduleRefs' = moduleRefs /\ locks' = locks
      /\ \/ refCount' = [refCount EXCEPT ![o] = @ + 1] /\ held' = [held EXCEPT ![t][o] = @ + 1]
         \/ refCount' = refCount /\ held' = held
  BY <1>1 DEF Query
<1>3. refCount[o] > 0
  <2>1. t \in Working(o)
    BY <1>1, <1>2 DEF Working
  <2> QED
    BY <2>1, CountsSay
<1>4. ComType'
  BY <1>1, <1>2, <1>3, PointersMore DEF ComInv, ComType, Enter
<1>5. Attended'
  <2>1. \A q \in Objects : refCount'[q] = 0 <=> refCount[q] = 0
    BY <1>2, <1>3 DEF ComInv, ComType
  <2> QED
    BY <1>1, <1>2, <1>3, <2>1, NowhereAssumption DEF ComInv, ComType, Attended, Enter
<1>6. Living' = Living /\ \A q \in Objects : Working(q)' = Working(q)
  <2>1. Living' = Living
    BY <1>1, <1>2 DEF ComInv, ComType, Enter, Living
  <2> QED
    BY <1>1, <1>2, <2>1, WorkStays
<1>7. CASE refCount' = [refCount EXCEPT ![o] = @ + 1] /\ held' = [held EXCEPT ![t][o] = @ + 1]
  <2>1. References'
    BY <1>2, <1>3, <1>6, <1>7, GivenOut
  <2> QED
    BY <1>4, <1>5, <2>1 DEF ComInv
<1>8. CASE refCount' = refCount /\ held' = held
  <2>1. Locks' = Locks /\ \A q \in Objects : Pointers(q)' = Pointers(q)
    BY <1>2, <1>8 DEF Locks, Pointers
  <2>2. References'
    BY <1>2, <1>6, <1>8, <2>1 DEF ComInv, References
  <2> QED
    BY <1>4, <1>5, <2>2 DEF ComInv
<1> QED
  BY <1>2, <1>7, <1>8

\* AddRef, by a thread that has a pointer, for itself or another.
LEMMA AddRefKeeps ==
    ASSUME ComInv, NEW t \in Threads, NEW u \in Threads, NEW o \in Objects, AddRef(t, u, o)
    PROVE  ComInv'
<1>1. /\ held[t][o] > 0 /\ refCount' = [refCount EXCEPT ![o] = @ + 1]
      /\ held' = [held EXCEPT ![u][o] = @ + 1]
      /\ UNCHANGED <<kind, moduleRefs, locks, at, this>>
  BY DEF AddRef
<1>2. refCount[o] > 0
  BY <1>1, CountsSay
<1>3. ComType'
  BY <1>1, PointersMore DEF ComInv, ComType
<1>4. Attended'
  BY <1>1, <1>2 DEF ComInv, ComType, Attended
<1>5. Living' = Living /\ \A q \in Objects : Working(q)' = Working(q)
  BY <1>1 DEF Living, Working
<1>6. References'
  BY <1>1, <1>2, <1>5, GivenOut
<1> QED
  BY <1>3, <1>4, <1>6 DEF ComInv

\* A reference that is given back, by the thread that made the object or by the
\* shell: the count follows, and the last one leaves the thread alone with it.
LEMMA GivenBack ==
    ASSUME ComInv, NEW t \in Threads, NEW o \in Objects, refCount[o] > 0, Decrement(t, o),
           \/ at[t] = "out"
           \/ at[t] = "release" /\ this[t] = o,
           kind' = kind, moduleRefs' = moduleRefs, locks' = locks,
           held' \in [Threads -> [Objects -> Nat]], IsFiniteSet(Pointers(o))',
           Cardinality(Pointers(o)') + Cardinality(Working(o)')
             = (Cardinality(Pointers(o)) + Cardinality(Working(o))) - 1,
           \A q \in Objects \ {o} : Pointers(q)' = Pointers(q) /\ Working(q)' = Working(q)
    PROVE  ComInv'
<1>1. refCount' = [refCount EXCEPT ![o] = @ - 1] /\ refCount[o] \in Nat /\ kind[o] # "free"
  BY CountsSay DEF Decrement
<1>2. PICK where, next : /\ Enter(t, where, next)
                         /\ \/ refCount[o] = 1 /\ where = "last" /\ next = o
                            \/ refCount[o] # 1 /\ where = "out" /\ next = Nowhere
  BY DEF Decrement
<1>3. ComType'
  BY <1>1, <1>2 DEF ComInv, ComType, Enter
<1>4. Attended'
  <2>1. \A u \in Threads : this[u] = o => at[u] \notin {"last", "delete"}
    BY <1>1 DEF ComInv, Attended
  <2>2. CASE refCount[o] = 1
    BY <1>1, <1>2, <2>1, <2>2, NowhereAssumption DEF ComInv, ComType, Attended, Enter
  <2>3. CASE refCount[o] # 1
    BY <1>1, <1>2, <2>1, <2>3, NowhereAssumption DEF ComInv, ComType, Attended, Enter
  <2> QED
    BY <2>2, <2>3
<1>5. Living' = Living
  <2>1. at[t] # "delete" /\ where # "delete"
    BY <1>2
  <2>2. \A u \in Threads : u # t => at'[u] = at[u] /\ this'[u] = this[u]
    BY <1>2 DEF Enter, ComInv, ComType
  <2>3. at'[t] # "delete"
    BY <1>2, <2>1 DEF Enter, ComInv, ComType
  <2>4. \A q : (\A u \in Threads : this[u] = q => at[u] # "delete")
                 <=> (\A u \in Threads : this'[u] = q => at'[u] # "delete")
    BY <2>1, <2>2, <2>3
  <2> QED
    BY <2>4 DEF Living
<1>6. refCount'[o] = Cardinality(Pointers(o)') + Cardinality(Working(o)')
  <2>1. refCount[o] = Cardinality(Pointers(o)) + Cardinality(Working(o)) /\ refCount'[o] = refCount[o] - 1
    BY <1>1 DEF ComInv, ComType, References
  <2> QED
    BY <2>1
<1>7. ASSUME NEW q \in Objects
      PROVE  /\ IsFiniteSet(Pointers(q))'
             /\ refCount'[q] = Cardinality(Pointers(q)') + Cardinality(Working(q)')
             /\ kind'[q] = "free" => refCount'[q] = 0
  <2>1. CASE q = o
    BY <1>1, <1>6, <2>1
  <2>2. CASE q # o
    BY <1>1, <2>2 DEF ComInv, ComType, References
  <2> QED
    BY <2>1, <2>2
<1>8. Locks' = Locks
  BY DEF Locks
<1>9. References'
  BY <1>5, <1>7, <1>8 DEF ComInv, References
<1> QED
  BY <1>3, <1>4, <1>9 DEF ComInv

\* The thread that made an object gives back the reference it had.
LEMMA MadeKeeps ==
    ASSUME ComInv, NEW t \in Threads, Made(t)
    PROVE  ComInv'
<1>1. PICK o \in Objects : o = this[t]
  BY DEF ComInv, ComType, Attended, Made
<1>2. /\ at[t] = "release" /\ Decrement(t, o) /\ kind' = kind /\ moduleRefs' = moduleRefs
      /\ held' = held /\ locks' = locks
  BY <1>1 DEF Made, ReleaseOwn, client
<1>3. refCount[o] > 0
  <2>1. t \in Working(o)
    BY <1>1, <1>2 DEF Working
  <2> QED
    BY <2>1, CountsSay
<1>4. PICK where \in {"last", "out"}, next \in Objects \cup {Nowhere} : Enter(t, where, next)
  BY <1>2 DEF Decrement
<1>5. /\ Cardinality(Working(o)') = Cardinality(Working(o)) - 1
      /\ \A q \in Objects \ {o} : Working(q)' = Working(q)
  BY <1>1, <1>2, <1>4, WorkEnds
<1>6. \A q \in Objects : Pointers(q)' = Pointers(q)
  BY <1>2 DEF Pointers
<1>7. Cardinality(Pointers(o)) \in Nat /\ Cardinality(Working(o)) \in Nat
  BY CountsSay, FiniteParts
<1>8. Cardinality(Pointers(o)') + Cardinality(Working(o)')
        = (Cardinality(Pointers(o)) + Cardinality(Working(o))) - 1
  BY <1>5, <1>6, <1>7
<1>9. held' \in [Threads -> [Objects -> Nat]] /\ IsFiniteSet(Pointers(o))'
  BY <1>2, <1>6 DEF ComInv, ComType, References
<1> QED
  BY <1>1, <1>2, <1>3, <1>5, <1>6, <1>8, <1>9, GivenBack

\* The shell lets a pointer go.
LEMMA ReleaseKeeps ==
    ASSUME ComInv, NEW t \in Threads, NEW o \in Objects, Release(t, o)
    PROVE  ComInv'
<1>1. /\ at[t] = "out" /\ held[t][o] > 0 /\ held' = [held EXCEPT ![t][o] = @ - 1]
      /\ Decrement(t, o) /\ kind' = kind /\ moduleRefs' = moduleRefs /\ locks' = locks
  BY DEF Release
<1>2. refCount[o] > 0
  BY <1>1, CountsSay
<1>3. PICK where \in {"last", "out"}, next \in Objects \cup {Nowhere} : Enter(t, where, next)
  BY <1>1 DEF Decrement
<1>4. \A q \in Objects : Working(q)' = Working(q)
  BY <1>1, <1>3, WorkStays
<1>5. /\ held' \in [Threads -> [Objects -> Nat]]
      /\ IsFiniteSet(Pointers(o))' /\ Cardinality(Pointers(o)') = Cardinality(Pointers(o)) - 1
      /\ \A q \in Objects \ {o} : Pointers(q)' = Pointers(q)
  BY <1>1, PointersLess
<1>6. Cardinality(Pointers(o)) \in Nat /\ Cardinality(Working(o)) \in Nat
  BY CountsSay, FiniteParts
<1>7. Cardinality(Pointers(o)') + Cardinality(Working(o)')
        = (Cardinality(Pointers(o)) + Cardinality(Working(o))) - 1
  BY <1>4, <1>5, <1>6
<1> QED
  BY <1>1, <1>2, <1>4, <1>5, <1>7, GivenBack

\* An object is counted out of the module before it goes,
LEMMA ReleaseModuleKeeps ==
    ASSUME ComInv, NEW t \in Threads, ReleaseModule(t)
    PROVE  ComInv'
<1>1. PICK o \in Objects : o = this[t]
  BY DEF ComInv, ComType, Attended, ReleaseModule
<1>2. /\ at[t] = "last" /\ moduleRefs' = moduleRefs - 1 /\ Enter(t, "delete", o)
      /\ kind' = kind /\ refCount' = refCount /\ held' = held /\ locks' = locks
  BY <1>1 DEF ReleaseModule, client
<1>3. \A u \in Threads : this[u] = o => u = t
  BY <1>1, <1>2, LastIsAlone
<1>4. Attended'
  BY <1>1, <1>2, <1>3, NowhereAssumption DEF ComInv, ComType, Attended, Enter
<1>5. Locks' = Locks /\ \A q \in Objects : Pointers(q)' = Pointers(q)
  BY <1>2 DEF Locks, Pointers
<1>6. \A q \in Objects : Working(q)' = Working(q)
  BY <1>2, WorkStays
<1>7. PICK S : S = Living
  OBVIOUS
<1>8. o \in S /\ Living' = S \ {o}
  <2>1. kind[o] # "free"
    BY <1>1 DEF ComInv, Attended
  <2>2. o \in S
    BY <1>2, <1>3, <1>7, <2>1 DEF Living
  <2>3. at' = [at EXCEPT ![t] = "delete"] /\ \A u \in Threads : this'[u] = this[u]
    BY <1>1, <1>2 DEF Enter, ComInv, ComType
  <2>4. at'[t] = "delete" /\ \A u \in Threads \ {t} : at'[u] = at[u]
    BY <2>3 DEF ComInv, ComType
  <2>5. ASSUME NEW q \in Objects PROVE q \in Living' <=> q \in S \ {o}
    BY <1>1, <1>2, <1>3, <1>7, <2>3, <2>4 DEF Living
  <2> QED
    BY <1>7, <2>2, <2>5 DEF Living
<1>9. /\ IsFiniteSet(S) /\ Cardinality(S) \in Nat /\ Cardinality(S \ {o}) = Cardinality(S) - 1
      /\ Cardinality(S \ {o}) \in Nat
  BY <1>7, <1>8, FiniteParts, FS_RemoveElement, FS_CardinalityType
<1>10. PICK l \in Nat : l = Cardinality(Locks)
  BY FS_CardinalityType DEF ComInv, References
<1>11. moduleRefs' = Cardinality(Living') + Cardinality(Locks') /\ moduleRefs' \in Nat
  <2>1. moduleRefs = Cardinality(S) + l
    BY <1>7, <1>10 DEF ComInv, References
  <2> QED
    BY <1>2, <1>5, <1>8, <1>9, <1>10, <2>1
<1>12. ComType'
  BY <1>1, <1>2, <1>11 DEF ComInv, ComType, Enter
<1>13. References'
  BY <1>2, <1>5, <1>6, <1>11 DEF ComInv, References
<1> QED
  BY <1>4, <1>12, <1>13 DEF ComInv

\* so that the deletion itself changes no count.
LEMMA DeleteKeeps ==
    ASSUME ComInv, NEW t \in Threads, Delete(t)
    PROVE  ComInv'
<1>1. PICK o \in Objects : o = this[t]
  BY DEF ComInv, ComType, Attended, Delete
<1>2. /\ at[t] = "delete" /\ kind' = [kind EXCEPT ![o] = "free"] /\ Enter(t, "out", Nowhere)
      /\ moduleRefs' = moduleRefs /\ refCount' = refCount /\ held' = held /\ locks' = locks
  BY <1>1 DEF Delete, client
<1>3. (\A u \in Threads : this[u] = o => u = t) /\ refCount[o] = 0
  BY <1>1, <1>2, LastIsAlone DEF ComInv, Attended
<1>4. ComType'
  BY <1>1, <1>2 DEF ComInv, ComType, Enter
<1>5. Attended'
  BY <1>1, <1>2, <1>3, NowhereAssumption DEF ComInv, ComType, Attended, Enter
<1>6. Locks' = Locks /\ \A q \in Objects : Pointers(q)' = Pointers(q)
  BY <1>2 DEF Locks, Pointers
<1>7. \A q \in Objects : Working(q)' = Working(q)
  BY <1>2, WorkStays
<1>8. Living' = Living
  <2>1. /\ this'[t] = Nowhere /\ at'[t] = "out"
        /\ \A u \in Threads \ {t} : this'[u] = this[u] /\ at'[u] = at[u]
    BY <1>2 DEF Enter, ComInv, ComType
  <2>2. kind'[o] = "free" /\ \A q \in Objects \ {o} : kind'[q] = kind[q]
    BY <1>2 DEF ComInv, ComType
  <2>3. ASSUME NEW q \in Objects PROVE q \in Living' <=> q \in Living
    BY <1>1, <1>2, <2>1, <2>2 DEF Living
  <2> QED
    BY <2>3 DEF Living
<1>9. References'
  <2>1. \A q \in Objects : kind'[q] = "free" => refCount[q] = 0
    BY <1>2, <1>3 DEF ComInv, ComType, References
  <2> QED
    BY <1>2, <1>6, <1>7, <1>8, <2>1 DEF ComInv, References
<1> QED
  BY <1>4, <1>5, <1>9 DEF ComInv

\* A lock counts for the module as long as it is held.
LEMMA LockServerKeeps ==
    ASSUME ComInv, NEW t \in Threads, LockServer(t)
    PROVE  ComInv'
<1>1. /\ UNCHANGED <<kind, refCount, held, at, this>>
      /\ \/ locks' = [locks EXCEPT ![t] = @ + 1] /\ moduleRefs' = moduleRefs + 1
         \/ /\ locks[t] > 0
            /\ locks' = [locks EXCEPT ![t] = @ - 1] /\ moduleRefs' = moduleRefs - 1
  BY DEF LockServer
<1>2. Attended' /\ Living' = Living
  BY <1>1 DEF ComInv, Attended, Living
<1>3. \A q \in Objects : Pointers(q)' = Pointers(q) /\ Working(q)' = Working(q)
  BY <1>1 DEF Pointers, Working
<1>4. locks \in [Threads -> Nat] /\ IsFiniteSet(Each(locks))
  BY DEF ComInv, ComType, References, Locks
<1>5. Cardinality(Each(locks)) \in Nat /\ Cardinality(Living) \in Nat
  BY <1>4, SomeHas, FiniteParts
<1>6. PICK g : g = locks'
  OBVIOUS
<1>7. /\ locks' \in [Threads -> Nat] /\ IsFiniteSet(Each(locks'))
      /\ moduleRefs' = Cardinality(Living) + Cardinality(Each(locks')) /\ moduleRefs' \in Nat
  <2>1. moduleRefs = Cardinality(Living) + Cardinality(Each(locks))
    BY DEF ComInv, References, Locks
  <2>2. CASE locks' = [locks EXCEPT ![t] = @ + 1] /\ moduleRefs' = moduleRefs + 1
    <3>1. IsFiniteSet(Each(g)) /\ Cardinality(Each(g)) = Cardinality(Each(locks)) + 1
      BY <1>4, <1>6, <2>2, OneMoreOf
    <3> QED
      BY <1>4, <1>5, <1>6, <2>1, <2>2, <3>1
  <2>3. CASE /\ locks[t] > 0
             /\ locks' = [locks EXCEPT ![t] = @ - 1] /\ moduleRefs' = moduleRefs - 1
    <3>1. IsFiniteSet(Each(g)) /\ Cardinality(Each(g)) = Cardinality(Each(locks)) - 1
      BY <1>4, <1>6, <2>3, OneLessOf
    <3>2. Cardinality(Each(g)) \in Nat
      BY <3>1, FS_CardinalityType
    <3>3. g \in [Threads -> Nat]
      BY <1>4, <1>6, <2>3
    <3> QED
      BY <1>4, <1>5, <1>6, <2>1, <2>3, <3>1, <3>2, <3>3
  <2> QED
    BY <1>1, <2>2, <2>3
<1>8. ComType'
  BY <1>1, <1>7 DEF ComInv, ComType
<1>9. References'
  BY <1>1, <1>2, <1>3, <1>7 DEF ComInv, References, Locks
<1> QED
  BY <1>2, <1>8, <1>9 DEF ComInv

\* At first nobody is in the module, and nothing is counted.
LEMMA ComStart == ComInit => ComInv
<1> SUFFICES ASSUME ComInit PROVE ComInv
  OBVIOUS
<1>1. ComType /\ Attended
  BY NowhereAssumption DEF ComInit, ComType, Attended
<1>2. Each([t \in Threads |-> 0]) = {}
  BY DEF Each
<1>3. Locks = {} /\ Living = {}
  BY <1>2 DEF ComInit, Locks, Living
<1>4. ASSUME NEW o \in Objects PROVE Pointers(o) = {} /\ Working(o) = {}
  <2>1. [t \in Threads |-> held[t][o]] = [t \in Threads |-> 0]
    BY DEF ComInit
  <2> QED
    BY <1>2, <2>1 DEF ComInit, Pointers, Working
<1>5. IsFiniteSet({}) /\ Cardinality({}) = 0
  BY FS_EmptySet
<1>6. References
  BY <1>3, <1>4, <1>5 DEF ComInit, References
<1> QED
  BY <1>1, <1>6 DEF ComInv

\* Every step of every thread keeps the counts.
LEMMA ComStep == ComInv /\ [ComNext]_comVars => ComInv'
<1> SUFFICES ASSUME ComInv, [ComNext]_comVars PROVE ComInv'
  OBVIOUS
<1>1. CASE UNCHANGED comVars
  <2>1. /\ Locks' = Locks /\ Living' = Living
        /\ \A o : Pointers(o)' = Pointers(o) /\ Working(o)' = Working(o)
    BY <1>1 DEF comVars, Locks, Living, Pointers, Working
  <2>2. ComType' /\ Attended'
    BY <1>1 DEF comVars, ComInv, ComType, Attended
  <2>3. References'
    BY <1>1, <2>1 DEF comVars, ComInv, References
  <2> QED
    BY <2>2, <2>3 DEF ComInv
<1>2. CASE ComNext
  <2>1. PICK t \in Threads :
          \/ Query(t) \/ Made(t) \/ ReleaseModule(t) \/ Delete(t) \/ LockServer(t)
          \/ \E o \in Objects :
               \/ New(t, "factory", o) \/ New(t, "menu", o) \/ Release(t, o)
               \/ \E u \in Threads : AddRef(t, u, o)
    BY <1>2 DEF ComNext
  <2> QED
    BY <2>1, QueryKeeps, MadeKeeps, ReleaseModuleKeeps, DeleteKeeps, LockServerKeeps,
       NewStep, ReleaseKeeps, AddRefKeeps
<1> QED
  BY <1>1, <1>2

\* The counts say whether the shell uses the module, exactly when nobody is
\* inside.
LEMMA CountsAnswer == ComInv => UnloadIsSafe
<1> SUFFICES ASSUME ComInv PROVE UnloadIsSafe
  OBVIOUS
<1> DEFINE inUse == \E t \in Threads : locks[t] > 0 \/ \E o \in Objects : held[t][o] > 0
<1>1. /\ locks \in [Threads -> Nat] /\ IsFiniteSet(Each(locks))
      /\ moduleRefs = Cardinality(Living) + Cardinality(Each(locks))
  BY DEF ComInv, ComType, References, Locks
<1>2. /\ Cardinality(Each(locks)) \in Nat
      /\ Cardinality(Each(locks)) > 0 <=> \E t \in Threads : locks[t] > 0
  BY <1>1, SomeHas
<1>3. Cardinality(Living) \in Nat /\ (Cardinality(Living) = 0 <=> Living = {})
  BY FiniteParts, FS_EmptySet
<1>4. moduleRefs = 0 <=> Living = {} /\ ~ \E t \in Threads : locks[t] > 0
  BY <1>1, <1>2, <1>3
<1>5. ASSUME NEW t \in Threads, NEW o \in Objects, held[t][o] > 0
      PROVE  o \in Living
  <2>1. refCount[o] > 0 /\ kind[o] # "free"
    BY <1>5, CountsSay
  <2>2. \A u \in Threads : this[u] = o => at[u] # "delete"
    BY <2>1 DEF ComInv, Attended
  <2> QED
    BY <2>1, <2>2 DEF Living
<1>6. moduleRefs = 0 => ~inUse
  BY <1>4, <1>5
<1>7. ASSUME \A t \in Threads : at[t] = "out"
      PROVE  /\ \A o \in Objects : kind[o] # "free" <=> \E t \in Threads : held[t][o] > 0
             /\ moduleRefs = 0 <=> ~inUse
  <2>1. ASSUME NEW o \in Objects, kind[o] # "free" PROVE \E t \in Threads : held[t][o] > 0
    <3>1. refCount[o] # 0 /\ Working(o) = {}
      BY <1>7, <2>1 DEF ComInv, Attended, Working
    <3>2. refCount[o] > 0
      BY <3>1, CountsSay
    <3> QED
      BY <3>1, <3>2, CountsSay
  <2>2. \A o \in Objects : o \in Living => kind[o] # "free"
    BY DEF Living
  <2>3. \A o \in Objects : kind[o] # "free" <=> \E t \in Threads : held[t][o] > 0
    BY <1>5, <2>1, <2>2
  <2>4. Living = {} <=> \A o \in Objects : ~ \E t \in Threads : held[t][o] > 0
    BY <1>5, <2>1 DEF Living
  <2> QED
    BY <1>4, <2>3, <2>4
<1> QED
  BY <1>6, <1>7 DEF UnloadIsSafe, DllCanUnloadNow

\* DllCanUnloadNow says yes only when the shell has no pointer into the module
\* and no lock on it, and, with no call under way, exactly then; no object
\* outlives its last pointer. For any number of threads and objects.
THEOREM UnloadsAreSafe == ComSpec => []UnloadIsSafe
<1>1. ComInit => ComInv
  BY ComStart
<1>2. ComInv /\ [ComNext]_comVars => ComInv'
  BY ComStep
<1>3. ComInv => UnloadIsSafe
  BY CountsAnswer
<1> QED
  BY <1>1, <1>2, <1>3, PTL DEF ComSpec
=============================================================================
