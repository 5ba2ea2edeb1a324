SPECIFICATION Spec
CONSTANTS
    gui = gui  cli = cli
    x1 = x1  x2 = x2
    c1 = c1  c2 = c2
    i1 = i1  i2 = i2  i3 = i3
    Absent = Absent  EmptyDir = EmptyDir  NoItem = NoItem
    Procs = {gui, cli}
    Paths = {x1, x2}
    Contents = {c1, c2}
    Ids = {i1, i2}
    Size <- SizeOne
    Retention <- RetentionOf
    IgnoreInitError = {gui}
    Capturers = {gui}
    MaxIoFaults = 1
    MaxCrashes = 1
    MaxTime = 1
CONSTRAINT OneFailure
SYMMETRY SymmetryShared
INVARIANTS OnePlace BackHome RecordsAgree
PROPERTY CustodySpec
