SPECIFICATION Spec
CONSTANTS
    gui = gui  cli = cli
    x1 = x1  x2 = x2
    c1 = c1  c2 = c2
    i1 = i1  i2 = i2  i3 = i3
    Absent = Absent  EmptyDir = EmptyDir  NoItem = NoItem
    Procs = {gui}
    Paths = {x1, x2}
    Contents = {c1, c2}
    Ids = {i1, i2, i3}
    Size <- SizeOf
    Retention <- RetentionOf
    IgnoreInitError = {gui}
    Capturers = {gui}
    MaxIoFaults = 0
    MaxCrashes = 0
    MaxTime = 3
SYMMETRY Symmetry
INVARIANT Consistent
