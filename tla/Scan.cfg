SPECIFICATION Spec
CONSTANTS
    Entries <- MCEntries
    Kind <- MCKind
    Size <- MCSize
    Requests <- MCRequests
    Volumes <- MCVolumes
    Period = 2
    MaxScans = 2
    WordBits = 5
    Boots <- MCBoots
    HeaderSize = 4
    StandardSize = 4
    FileNameSize = 6
    NameAt = 5
    MarkSize = 2
    MinRecord = 8
    Records <- MCRecords
    Headers <- MCHeaders
    Batch = 2
    MaxBatches = 2
    MaxUsn = 5
    Block = 2
    Searches = {1, 2}
    FilesIn <- MCFilesIn
    Asked <- MCAsked
    Disks <- MCDisks
    Rewrites <- MCRewrites
    Gone = Gone
    MinSize = 2
    MaxDisturbances = 1
INVARIANTS TreeAgrees BusyCoversTheScan ReadsStayInside NoTornRecord WalkIsBounded ChangesAreComplete ClustersAreExact
PROPERTY ScanEnds
CHECK_DEADLOCK FALSE
