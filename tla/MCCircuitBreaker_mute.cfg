\* A probe may end without a report.
SPECIFICATION FairSpec
CONSTANTS
    g1 = g1  g2 = g2
    Workers = {g1}
    Absent = Absent
    Other = Other
    Window = 4
    MinSamples = 3
    FailureRate = 250
    TimeoutRate = 125
    Outcomes = {"ok", "failed"}
    RedisFails = TRUE
    EndsEarly = {"probe"}
PROPERTY UsableWithoutRedis
