----------------------------- MODULE Duplicates -----------------------------
(* Searches for duplicates: files are collected, measured, and hashed where *)
(* their sizes are alike; files of one digest are a cluster. The page of   *)
(* the application starts a search on a pool thread whenever it is asked,  *)
(* and the command line runs one over several roots. Meanwhile other       *)
(* programs rewrite and delete files. A content is the sequence of its     *)
(* blocks, and the digest of what was read stands for it.                  *)
EXTENDS Naturals, Sequences, SequencesExt, FiniteSets, FiniteSetsExt

CONSTANTS
    Searches,    \* the searches of a behaviour
    FilesIn,     \* [root -> the files below it, as a directory iterator comes across them]
    Asked,       \* the lists of roots that may be asked for
    Disks,       \* contents of the files at the start
    Rewrites,    \* contents that other programs write; Gone deletes
    Gone,
    MinSize,     \* DuplicateOptions::minSize, in blocks
    MaxDisturbances  \* bound: rewrites and failing calls in a behaviour

VARIABLES disk,       \* [file -> content or Gone]
          disturbances,
          search,     \* [Searches -> the state of one search]
          posts,      \* results that wait for the event loop, oldest first
          clusterList, totalRecoverable  \* DuplicatesViewModel

dupVars == <<disk, disturbances, search, posts, clusterList, totalRecoverable>>

AllFiles == UNION {ToSet(FilesIn[r]) : r \in DOMAIN FilesIn}

\* Contents are sequences of blocks, and what is asked for exists.
ASSUME DuplicatesAssumption ==
    /\ \A d \in Disks : /\ AllFiles \subseteq DOMAIN d
                         /\ \A f \in DOMAIN d : d[f] # Gone => d[f] \in Seq(Nat)
    /\ \A content \in Rewrites : content # Gone => content \in Seq(Nat)
    /\ \A list \in Asked : list \in Seq(DOMAIN FilesIn)
    /\ \A r \in DOMAIN FilesIn : FilesIn[r] \in Seq(AllFiles)
    /\ MinSize \in Nat

\* A search that has not begun. pending are the sizes whose groups are not
\* hashed yet, size is the one whose group is; clean and truth are history: no
\* call has failed and no file has changed since the start, and what the files
\* were then.
NotBegun == [at |-> "idle", asked |-> <<>>, roots |-> <<>>, todo |-> <<>>, ec |-> FALSE,
             candidates |-> <<>>, bySize |-> <<>>, pending |-> {}, size |-> 0, byDigest |-> <<>>,
             clusters |-> {}, clean |-> TRUE, truth |-> <<>>]

DupInit ==
    /\ disk \in Disks /\ disturbances = 0
    /\ search = [s \in Searches |-> NotBegun]
    /\ posts = <<>> /\ clusterList = <<>> /\ totalRecoverable = 0

\* Search s goes on with these values; the rest of the state stays.
Goes(s, r) ==
    /\ search' = [search EXCEPT ![s] = r]
    /\ UNCHANGED <<disk, disturbances, posts, clusterList, totalRecoverable>>

\* The same after a system call that failed.
Fails(s, r) ==
    /\ disturbances < MaxDisturbances /\ disturbances' = disturbances + 1
    /\ search' = [search EXCEPT ![s] = [r EXCEPT !.clean = FALSE]]
    /\ UNCHANGED <<disk, posts, clusterList, totalRecoverable>>

\* DuplicatesViewModel::run, which does not ask whether a search is under
\* way, and DuplicatesCommand::run.
Run(s, list) ==
    /\ search[s].at = "idle"
    /\ Goes(s, [NotBegun EXCEPT !.at = "collect", !.asked = list, !.roots = list, !.truth = disk])

\* The next root; its iterator may fail, and then nothing is below it.
OpenRoot(s) ==
    LET r == search[s] IN
    /\ r.at = "collect" /\ r.todo = <<>> /\ r.roots # <<>>
    /\ \/ Goes(s, [r EXCEPT !.roots = Tail(@), !.todo = FilesIn[Head(r.roots)], !.ec = FALSE])
       \/ Fails(s, [r EXCEPT !.roots = Tail(@), !.ec = TRUE])

\* One turn of the directory iterator. A call that fails makes the next
\* file be passed over as well.
Collect(s) ==
    LET r == search[s]
        f == Head(r.todo)
    IN /\ r.at = "collect" /\ r.todo # <<>>
       /\ \/ disk[f] = Gone /\ Goes(s, [r EXCEPT !.todo = Tail(@)])
          \/ disk[f] # Gone /\ r.ec /\ Goes(s, [r EXCEPT !.todo = Tail(@), !.ec = FALSE])
          \/ /\ disk[f] # Gone /\ ~r.ec
             /\ \/ Goes(s, [r EXCEPT !.todo = Tail(@), !.candidates = Append(@, f)])
                \/ Fails(s, [r EXCEPT !.todo = Tail(@), !.ec = TRUE])

\* The increment of the iterator throws: nobody hears of this search again.
CollectThrows(s) ==
    /\ search[s].at = "collect"
    /\ Fails(s, [search[s] EXCEPT !.at = "lost"])

Collected(s) ==
    LET r == search[s] IN
    /\ r.at = "collect" /\ r.todo = <<>> /\ r.roots = <<>>
    /\ Goes(s, [r EXCEPT !.at = "measure", !.todo = r.candidates])

\* map[key].push_back(f)
Pushed(map, key, f) ==
    [k \in DOMAIN map \cup {key} |->
       IF k # key THEN map[k] ELSE IF k \in DOMAIN map THEN Append(map[k], f) ELSE <<f>>]

\* bySize: files that are gone, empty or small are left out.
Measure(s) ==
    LET r == search[s]
        f == Head(r.todo)
        size == Len(disk[f])
    IN /\ r.at = "measure" /\ r.todo # <<>>
       /\ \/ disk[f] = Gone /\ Goes(s, [r EXCEPT !.todo = Tail(@)])
          \/ Fails(s, [r EXCEPT !.todo = Tail(@)])
          \/ /\ disk[f] # Gone
             /\ Goes(s, [r EXCEPT !.todo = Tail(@),
                                  !.bySize = IF size = 0 \/ size < MinSize THEN @
                                             ELSE Pushed(@, size, f)])

\* The keys that more than one file has.
Shared(map) == {k \in DOMAIN map : Len(map[k]) >= 2}

\* Sizes that more than one file has.
Measured(s) ==
    LET r == search[s] IN
    /\ r.at = "measure" /\ r.todo = <<>>
    /\ Goes(s, [r EXCEPT !.at = "group", !.pending = Shared(r.bySize)])

\* The groups come in the order of a hash table.
NextGroup(s) ==
    LET r == search[s] IN
    /\ r.at = "group"
    /\ \E n \in r.pending :
         Goes(s, [r EXCEPT !.at = "hash", !.pending = @ \ {n}, !.size = n, !.todo = r.bySize[n]])

\* Mutant: only the first block is hashed.
FirstBlock(content) == SubSeq(content, 1, 1)

\* xxhash3File reads to the end of the file.
WholeFile(content) == content

\* xxhash3File. A read that fails ends it like the end of the file does, and
\* the digest is that of the blocks read so far.
HashFile(s) ==
    LET r == search[s]
        f == Head(r.todo)
        Digested(d) == [r EXCEPT !.todo = Tail(@), !.byDigest = Pushed(@, d, f)]
    IN /\ r.at = "hash" /\ r.todo # <<>>
       /\ \/ disk[f] = Gone /\ Goes(s, [r EXCEPT !.todo = Tail(@)])
          \/ Fails(s, [r EXCEPT !.todo = Tail(@)])
          \/ disk[f] # Gone /\ Goes(s, Digested(WholeFile(disk[f])))
          \/ /\ disk[f] # Gone
             /\ \E n \in 0 .. Len(disk[f]) - 1 : Fails(s, Digested(SubSeq(disk[f], 1, n)))

\* The digests that more than one file of the group has.
GroupDone(s) ==
    LET r == search[s] IN
    /\ r.at = "hash" /\ r.todo = <<>>
    /\ Goes(s, [r EXCEPT !.at = "group", !.byDigest = <<>>,
                         !.clusters = @ \cup {[size |-> r.size, digest |-> d, files |-> r.byDigest[d]] :
                                              d \in Shared(r.byDigest)}])

\* DuplicateCluster::recoverableBytes.
RecoverableBytes(c) == c.size * (Len(c.files) - 1)
Total(clusters)     == Cardinality(UNION {{c} \X (1 .. RecoverableBytes(c)) : c \in clusters})

\* std::sort: clusters that give back the same come in any order.
Ranked(clusters) ==
    {list \in [1 .. Cardinality(clusters) -> clusters] :
       /\ ToSet(list) = clusters
       /\ \A i, j \in DOMAIN list : i < j => RecoverableBytes(list[i]) >= RecoverableBytes(list[j])}

\* The page posts the clusters to the event loop, those that would give back
\* most first; the command prints their number and total.
SearchEnds(s) ==
    LET r == search[s] IN
    /\ r.at = "group" /\ r.pending = {}
    /\ search' = [search EXCEPT ![s].at = "ended"]
    /\ \/ \E list \in Ranked(r.clusters) :
            posts' = Append(posts, [list |-> list, total |-> Total(r.clusters)])
       \/ UNCHANGED posts
    /\ UNCHANGED <<disk, disturbances, clusterList, totalRecoverable>>

\* The event loop shows the oldest result.
Show ==
    /\ posts # <<>>
    /\ clusterList' = Head(posts).list /\ totalRecoverable' = Head(posts).total
    /\ posts' = Tail(posts)
    /\ UNCHANGED <<disk, disturbances, search>>

\* Another program writes or deletes a file.
Rewrite(f, content) ==
    /\ disturbances < MaxDisturbances /\ disk[f] # content
    /\ disk' = [disk EXCEPT ![f] = content]
    /\ disturbances' = disturbances + 1
    /\ search' = [s \in Searches |-> [search[s] EXCEPT !.clean = @ /\ search[s].at \in {"idle", "ended"}]]
    /\ UNCHANGED <<posts, clusterList, totalRecoverable>>

DupNext ==
    \/ \E s \in Searches :
         \/ \E list \in Asked : Run(s, list)
         \/ OpenRoot(s) \/ Collect(s) \/ CollectThrows(s) \/ Collected(s)
         \/ Measure(s) \/ Measured(s) \/ NextGroup(s) \/ HashFile(s) \/ GroupDone(s) \/ SearchEnds(s)
    \/ Show
    \/ \E f \in DOMAIN disk, content \in Rewrites : Rewrite(f, content)

DupSpec == DupInit /\ [][DupNext]_dupVars

(***************************************************************************)
(* Properties.                                                             *)
(***************************************************************************)
\* The files below some roots, and whether each is come across once.
Reached(list) == UNION {ToSet(FilesIn[list[i]]) : i \in DOMAIN list}
Apart(list) ==
    \A i, j \in DOMAIN list : \A k \in DOMAIN FilesIn[list[i]], l \in DOMAIN FilesIn[list[j]] :
       FilesIn[list[i]][k] = FilesIn[list[j]][l] => i = j /\ k = l

\* The files that a search is for, as they were when it began: those that are
\* not empty or small. Those with the same content as f, of which one stays.
Found(r) == {f \in Reached(r.asked) :
               r.truth[f] # Gone /\ Len(r.truth[f]) > 0 /\ Len(r.truth[f]) >= MinSize}
Same(r, f) == {g \in Found(r) : r.truth[g] = r.truth[f]}
Spare(r)   == {f \in Found(r) : f # CHOOSE g \in Same(r, f) : TRUE}

\* A search during which no call failed and no file changed finds exactly
\* the classes of files with the same content, none of them small, and
\* the bytes that all but one file of each class hold - unless one of its
\* roots lies in another, and a file is taken for a duplicate of itself.
\* And the page always shows the clusters and the total of one search, in
\* whatever order searches that overlap end.
ClustersAreExact ==
    /\ \A s \in Searches :
         LET r == search[s] IN
         r.at = "ended" /\ r.clean /\ Apart(r.asked) =>
           /\ {ToSet(c.files) : c \in r.clusters} =
              {F \in {Same(r, f) : f \in Found(r)} : Cardinality(F) >= 2}
           /\ Total(r.clusters) = Cardinality(UNION {{f} \X (1 .. Len(r.truth[f])) : f \in Spare(r)})
    /\ totalRecoverable = Total(ToSet(clusterList))
=============================================================================
