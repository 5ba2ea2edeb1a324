---------------------------- MODULE ScanSession ----------------------------
(* A scan of the desktop application: ScanViewModel on the user-interface  *)
(* thread, ScanEngine::run on a QtConcurrent thread, the callbacks the     *)
(* engine posts back to the event loop, and the tree that TreeBuilder      *)
(* grows meanwhile.  A path is the sequence of its segments.               *)
EXTENDS Naturals, Sequences, SequencesExt, FiniteSets, FiniteSetsExt

CONSTANTS Entries,    \* the paths on disk: everything an iterator may yield
          Kind,       \* FileKind of an entry
          Size,       \* file_size of a regular file
          Requests,   \* the lists of roots the user interface may ask for
          Volumes,    \* the list of roots that enumerateVolumes finds
          Period,     \* entries between two progress reports (1024)
          MaxScans    \* bound: scans of one session

\* What is on disk and what is asked for are paths, and files have sizes.
ASSUME ScanAssumption ==
    /\ \A e \in Entries : e \in Seq(STRING) /\ e # <<>>
    /\ \A list \in Requests \cup {Volumes} : list \in Seq(Seq(STRING))
    /\ \A e \in Entries : Kind[e] = "Regular" => Size[e] \in Nat

VARIABLES busy, shown, files, notice,        \* ScanViewModel
          events,                            \* posted callbacks, oldest first
          cancelRequested, pc, roots, todo, result,  \* ScanEngine::run
          scans                              \* history: scans begun

viewModel == <<busy, shown, files, notice>>
engine    == <<cancelRequested, pc, roots, todo, result>>
scanVars  == <<viewModel, events, engine, scans>>

Nothing == [files |-> 0, bytes |-> 0]

\* ScanResult before the first entry.  The tree maps the path of each node
\* to what it holds itself; <<>> is the root node.
EmptyResult == [errors |-> 0, visited |-> 0, indexed |-> 0, bytes |-> 0,
                volumes |-> <<>>, flat |-> <<>>, tree |-> [p \in {<<>>} |-> Nothing]]

Under(root) == {e \in Entries : IsStrictPrefix(root, e)}
Exists(root) == root \in Entries \/ Under(root) # {}

(***************************************************************************)
(* The tree.                                                               *)
(***************************************************************************)
Counted(own, size) == [files |-> own.files + 1, bytes |-> own.bytes + size]

\* findOrInsertChild, segment by segment: nodes that are missing are added.
Grown(tree, path) ==
    [p \in DOMAIN tree \cup {SubSeq(path, 1, n) : n \in 0 .. Len(path)} |->
       IF p \in DOMAIN tree THEN tree[p] ELSE Nothing]

\* TreeBuilder::add.  Everything but a directory is a file of its parent.
Add(tree, e, size) ==
    IF Kind[e] = "Directory"
    THEN Grown(tree, e)
    ELSE [Grown(tree, Front(e)) EXCEPT ![Front(e)] = Counted(@, size)]

Children(tree, p) == {c \in DOMAIN tree : c # <<>> /\ Front(c) = p}

\* The sum of n[x] over the members of a set.
SumOver(S, n) == Cardinality(UNION {{x} \X (1 .. n[x]) : x \in S})

\* What a node adds up, its children being done: their totals and its own.
Aggregated(tree, total, p) ==
    LET below == Children(tree, p) IN
    [files |-> tree[p].files + SumOver(below, [c \in below |-> total[c].files]),
     bytes |-> tree[p].bytes + SumOver(below, [c \in below |-> total[c].bytes]),
     dirs  |-> SumOver(below, [c \in below |-> 1 + total[c].dirs])]

\* Mutant: the totals of the grandchildren are not taken over.
PropagateOneLevel(tree) ==
    [p \in DOMAIN tree |->
       Aggregated(tree, [c \in DOMAIN tree |-> tree[c] @@ [dirs |-> 0]], p)]

\* propagateTotals, which calls itself for the children of a node first.
PropagateTotals(tree) ==
    LET Total[p \in DOMAIN tree] == Aggregated(tree, Total, p) IN Total

(***************************************************************************)
(* The user-interface thread.                                              *)
(***************************************************************************)
ScanInit ==
    /\ busy = FALSE /\ shown = <<>> /\ files = 0 /\ notice = "none"
    /\ events = <<>>
    /\ cancelRequested = FALSE /\ pc = "idle" /\ roots = <<>> /\ todo = {}
    /\ result = EmptyResult
    /\ scans = 0

\* Mutant: a scan may begin while another is running.
NoCheck == TRUE

\* A second request is ignored while a scan is running.
NotBusy == ~busy

\* ScanViewModel::scanRoots: the scan is handed to a pool thread.
ScanRoots(list) ==
    /\ scans < MaxScans
    /\ NotBusy
    /\ busy' = TRUE
    /\ pc' = "queued" /\ roots' = list
    /\ scans' = scans + 1
    /\ UNCHANGED <<shown, files, notice, events, cancelRequested, todo, result>>

\* ScanViewModel::scanAll.  Its error path does not look at busy.
ScanAll ==
    \/ ScanRoots(Volumes)
    \/ notice' = "error" /\ UNCHANGED <<busy, shown, files, events, engine, scans>>

\* ScanViewModel::cancel, at any time.
CancelScan ==
    /\ cancelRequested' = TRUE
    /\ UNCHANGED <<viewModel, events, pc, roots, todo, result, scans>>

\* Mutant: the error path returns before the flag is taken down.
StaysBusy(e) == e.kind = "failed"

\* Both ends of a scan take the flag down before anything else.
BusyAfter(e) == FALSE

\* The event loop runs the oldest callback: a progress report, or the end
\* of the scan, which fails without an effect on the summaries.
Deliver ==
    /\ events # <<>>
    /\ events' = Tail(events)
    /\ LET e == Head(events) IN
         \/ /\ e.kind = "progress"
            /\ files' = e.files
            /\ UNCHANGED <<busy, shown, notice>>
         \/ /\ e.kind = "failed"
            /\ busy' = BusyAfter(e) /\ notice' = "error"
            /\ UNCHANGED <<shown, files>>
         \/ /\ e.kind = "finished"
            /\ busy' = BusyAfter(e) /\ notice' = "finished" /\ shown' = e.volumes
            /\ UNCHANGED files
    /\ UNCHANGED <<engine, scans>>

(***************************************************************************)
(* The scanning thread.                                                    *)
(***************************************************************************)
\* ScanEngine::run: a cancel() from before this store is forgotten.
RunBegins ==
    /\ pc = "queued"
    /\ cancelRequested' = FALSE
    /\ result' = EmptyResult
    /\ IF roots = <<>>
       THEN pc' = "idle" /\ events' = Append(events, [kind |-> "failed"])
       ELSE pc' = "roots" /\ UNCHANGED events
    /\ UNCHANGED <<viewModel, roots, todo, scans>>

Volume(root) == [root |-> root, bytes |-> 0, files |-> 0, dirs |-> 0]

\* The outer loop of walkWithFilesystem.
NextRoot ==
    /\ pc = "roots" /\ ~cancelRequested /\ roots # <<>>
    /\ IF Exists(Head(roots))
       THEN /\ pc' = "walk"
            /\ todo' = Under(Head(roots))
            /\ result' = [result EXCEPT !.volumes = Append(@, Volume(Head(roots)))]
            /\ UNCHANGED roots
       ELSE /\ result' = [result EXCEPT !.errors = @ + 1]
            /\ roots' = Tail(roots)
            /\ UNCHANGED <<pc, todo>>
    /\ UNCHANGED <<viewModel, events, cancelRequested, scans>>

\* The counters of an entry: regular files and directories.
Count(r, e, size) ==
    LET v == Len(r.volumes) IN
    CASE Kind[e] = "Regular" ->
           [r EXCEPT !.visited = @ + 1, !.indexed = @ + 1, !.bytes = @ + size,
                     !.volumes[v].bytes = @ + size, !.volumes[v].files = @ + 1]
      [] Kind[e] = "Directory" ->
           [r EXCEPT !.visited = @ + 1, !.volumes[v].dirs = @ + 1]
      [] OTHER -> [r EXCEPT !.visited = @ + 1]

\* The inner loop: an entry whose directory has been yielded.  A size that
\* cannot be read is 0.  Every Period-th entry posts a progress report.
Visit ==
    /\ pc = "walk" /\ ~cancelRequested
    /\ \E e \in todo : \E size \in IF Kind[e] = "Regular" THEN {Size[e], 0} ELSE {0} :
         LET r == Count(result, e, size)
         IN /\ Front(e) \notin todo
            /\ todo' = todo \ {e}
            /\ result' = [r EXCEPT !.tree = Add(@, e, size),
                                   !.flat = Append(@, [path |-> e, size |-> size])]
            /\ events' = IF r.visited % Period = 0
                         THEN Append(events, [kind |-> "progress", files |-> r.visited])
                         ELSE events
    /\ UNCHANGED <<viewModel, cancelRequested, pc, roots, scans>>

\* The iterator is at its end: nothing is left, the scan is cancelled, or
\* the iterator met an error, which makes it the end iterator, so that the
\* test of ec in the body is not reached and no error is counted.
RootDone ==
    /\ pc = "walk"
    /\ pc' = "roots" /\ roots' = Tail(roots) /\ todo' = {}
    /\ UNCHANGED <<viewModel, events, cancelRequested, result, scans>>

\* The result is built, and its end posted.  A cancelled scan ends like one
\* that went through.
RunEnds ==
    /\ pc = "roots" /\ (cancelRequested \/ roots = <<>>)
    /\ pc' = "idle" /\ roots' = <<>>
    /\ result' = [result EXCEPT !.tree = PropagateTotals(@)]
    /\ events' = Append(events, [kind |-> "finished", volumes |-> result.volumes])
    /\ UNCHANGED <<viewModel, cancelRequested, todo, scans>>

Scanning == RunBegins \/ NextRoot \/ Visit \/ RootDone \/ RunEnds

ScanNext ==
    \/ \E list \in Requests : ScanRoots(list)
    \/ ScanAll \/ CancelScan \/ Deliver
    \/ Scanning

\* The thread pool runs what it is given, and the event loop turns.
ScanFairness == WF_scanVars(Scanning) /\ WF_scanVars(Deliver)

ScanSpec == ScanInit /\ [][ScanNext]_scanVars /\ ScanFairness

(***************************************************************************)
(* Properties.                                                             *)
(***************************************************************************)
Sizes(r)            == [n \in 1 .. Len(r.flat) |-> r.flat[n].size]
FilesBelow(r, node) == {n \in 1 .. Len(r.flat) : /\ Kind[r.flat[n].path] # "Directory"
                                                 /\ IsStrictPrefix(node, r.flat[n].path)}
NodesBelow(tree, node) == {p \in DOMAIN tree : IsStrictPrefix(node, p)}

\* What TreeBuilder grew while the entries came in, in any order, over
\* several roots and with roots inside each other, has in every node after
\* propagateTotals the files, bytes and directories below it, and the
\* volumes' bytes add up to the same as the whole tree's: tree_model.cpp.
TreeAgrees ==
    LET r == result IN
    pc = "idle" /\ r # EmptyResult =>
      /\ \A p \in DOMAIN r.tree :
           r.tree[p] = [files |-> Cardinality(FilesBelow(r, p)),
                        bytes |-> SumOver(FilesBelow(r, p), Sizes(r)),
                        dirs  |-> Cardinality(NodesBelow(r.tree, p))]
      /\ r.tree[<<>>].bytes = r.bytes
      /\ r.bytes = SumOver(DOMAIN r.volumes, [v \in DOMAIN r.volumes |-> r.volumes[v].bytes])
      /\ r.visited = Len(r.flat)

\* The busy flag of the view model tells the truth about the other thread:
\* while it is down, no scan runs and no callback of one is under way, so
\* the shared engine never serves two scans and nothing of an earlier scan
\* arrives after its end.
BusyCoversTheScan ==
    /\ ~busy => pc = "idle" /\ events = <<>>
    /\ pc # "idle" => \A n \in 1 .. Len(events) : events[n].kind = "progress"

\* Every scan that is begun ends, cancelled or not, and the view model
\* becomes usable again.
ScanEnds == busy ~> ~busy
=============================================================================
