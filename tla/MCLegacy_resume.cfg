\* A merge that has removed parts dies, or its next append fails.
SPECIFICATION Spec
CONSTANTS
    a = a  b = b  f = f  g = g  x1 = x1  x2 = x2
    Users = {a, b}
    Files = {f, g}
    Parts = 2
    Workloads <- ChunkWorkloads
    MaxFaults = 1
    Uploaders = {x1, x2}
CHECK_DEADLOCK FALSE
INVARIANT ResumableList
