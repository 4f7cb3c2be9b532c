SPECIFICATION FairSearchSpec
CONSTANTS
    s1 = s1  p1 = p1  w1 = w1  x1 = x1  x2 = x2  q1 = q1
    Workers = {w1}
    Sources = {s1}
    Pages = {p1}
    Keys <- MCKeys
    Starts <- MCStarts
    MaxTasks = 4
    MaxEpoch = 4
    MaxRetry = 1
    NoWorker = NoWorker
    NoKey = NoKey
    ChunkCount <- MCChunkCount
    MaxGen = 5
    MaxRev = 5
    IndexWorkers = {x1, x2}
    Searches = {q1}
    MaxDirty = 6
    MaxBuild = 7
    NoBuilder = NoBuilder
    NoFile = NoFile
CHECK_DEADLOCK FALSE
PROPERTIES TasksEnd IndexSettles
INVARIANTS IndexCovers SearchAvailable
PROPERTIES IndexForward
