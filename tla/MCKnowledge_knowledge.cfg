SPECIFICATION Spec
CONSTANTS
    s1 = s1  s2 = s2  p1 = p1  p2 = p2  w1 = w1  w2 = w2
    Workers = {w1, w2}
    Sources = {s1, s2}
    Pages = {p1, p2}
    Keys <- MCKeys
    Starts <- MCStarts
    MaxTasks = 4
    MaxEpoch = 3
    MaxRetry = 1
    NoWorker = NoWorker
    NoKey = NoKey
    ChunkCount <- MCChunkCount
    MaxGen = 4
    MaxRev = 2
SYMMETRY AnyWorker
CHECK_DEADLOCK FALSE
INVARIANTS TypeOK RetryBudget OneGeneration ReadyComplete DeletedNotCited
PROPERTIES PublishedKept
