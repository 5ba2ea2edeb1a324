SPECIFICATION UtilitiesSpec
CONSTANTS
    w1 = w1  w2 = w2  c1 = c1  c2 = c2
    Workers = {w1, w2}
    Clients = {c1, c2}
    Owner = c1
    Priorities = {0, 1}
    MaxJobs = 3
    p1 = p1  p2 = p2  p3 = p3
    n1 = n1  n2 = n2  n3 = n3  n4 = n4
    Producers = {p1, p2, p3}
    Nodes = {n1, n2, n3, n4}
    Null = Null
    MaxPushes = 4
INVARIANTS ExactlyOnce MemoryIsSafe FirstInFirstOut
PROPERTIES WaitIdleComplete EveryJobRuns WaitIdleEnds DestructorEnds Delivered
