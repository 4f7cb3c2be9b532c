\* One statement or process may fail among the requests of a workload.
SPECIFICATION Spec
CONSTANTS
    a = a  b = b  f = f  g = g  x1 = x1  x2 = x2
    Users = {a, b}
    Files = {f, g}
    Parts = 2
    Workloads <- MCWorkloads
    MaxFaults = 1
    Uploaders = {x1, x2}
CHECK_DEADLOCK FALSE
INVARIANTS TypeOK OneShare SerialCounts BlobBehindInfo RankingExact LockReleased
