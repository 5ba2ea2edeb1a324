------------------------------- MODULE MCScan -------------------------------
(* The readers of a disk, each on its own: a behaviour is one of a scan of *)
(* the application, of the master-file-table reader, of the change journal *)
(* reader, or of searches for duplicates.                                  *)
EXTENDS ScanSession, Mft, UsnJournal, Duplicates, TLC

VARIABLE part

MCEntries  == {<<"c", "d">>, <<"c", "d", "f">>, <<"c", "l">>}
MCKind     == <<"c", "d">> :> "Directory" @@ <<"c", "d", "f">> :> "Regular"
              @@ <<"c", "l">> :> "SymbolicLink"
MCSize     == <<"c", "d", "f">> :> 3
MCRequests == {<<>>, <<<<"c">>, <<"c", "d">>>>}
MCVolumes  == <<<<"x">>, <<"c">>>>

\* Records of 16 units in two sectors: 2^4, also by a shift of more bits than a
\* word has, or two clusters of one sector.  Sectors of one unit and of none,
\* and records of one unit.
MCBoots ==
    [bytesPerSector : {8}, sectorsPerCluster : {1}, clustersPerRecord : {-9, 2, 0}]
    \cup [bytesPerSector : {0, 1}, sectorsPerCluster : {1}, clustersPerRecord : {-4}]
MCRecords ==
    [file : BOOLEAN, inUse : BOOLEAN, firstAttribute : {4, 16}, signature : {1},
     usaOffset : {10}, usaCount : {0, 1, 3, 4}, tails : [1 .. 3 -> {1, 2}]]

\* Attributes of four and five units, of none, and of one that wraps; the
\* values of the resident ones start at both ends of the record and beyond.
MCHeaders ==
    [type : {"StandardInformation", "FileName"}, length : {4, 5, 28}, resident : {TRUE},
     valueOffset : {0, 9}, nameLength : {0, 2, 6}, dos : {FALSE}, real : {0, 1}]
    \cup
    [type : {"Terminator", "FileName", "Data", "Other"}, length : {0, 4}, resident : BOOLEAN,
     valueOffset : {0}, nameLength : {2}, dos : {TRUE}, real : {0, 1}]

\* Three files in two roots, and a third root that lies in the first. Two
\* contents are alike in their first block only; a small one is not looked at.
MCFilesIn == [home |-> <<1, 2>>, sub |-> <<2>>, other |-> <<3>>]
MCAsked   == {<<"home">>, <<"home", "other">>, <<"home", "sub">>}
MCDisks   == {<<<<1, 1>>, <<1, 1>>, <<1, 2>>>>, <<<<1, 2>>, <<1, 2>>, <<1, 2>>>>,
              <<<<1>>, <<1, 1, 1>>, <<1>>>>}
MCRewrites == {<<1, 1>>, Gone}

vars == <<part, scanVars, mftVars, usnVars, dupVars>>

\* What a part does not use starts with one value.
Init ==
    /\ part \in {"scan", "mft", "usn", "duplicates"}
    /\ ScanInit /\ MftInit /\ UsnInit /\ DupInit
    /\ part # "mft" => boot = CHOOSE b \in Boots : TRUE
    /\ part # "duplicates" => disk = CHOOSE d \in Disks : TRUE

Next ==
    /\ \/ part = "scan" /\ ScanNext /\ UNCHANGED <<mftVars, usnVars, dupVars>>
       \/ part = "mft" /\ MftNext /\ UNCHANGED <<scanVars, usnVars, dupVars>>
       \/ part = "usn" /\ UsnNext /\ UNCHANGED <<scanVars, mftVars, dupVars>>
       \/ part = "duplicates" /\ DupNext /\ UNCHANGED <<scanVars, mftVars, usnVars>>
    /\ UNCHANGED part

\* The scanning thread and the event loop go on.
Spec ==
    /\ Init /\ [][Next]_vars
    /\ WF_vars(part = "scan" /\ Scanning /\ UNCHANGED <<part, mftVars, usnVars, dupVars>>)
    /\ WF_vars(part = "scan" /\ Deliver /\ UNCHANGED <<part, mftVars, usnVars, dupVars>>)
=============================================================================
