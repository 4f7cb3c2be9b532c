\* Two workers share the probe key; Redis and the blob store come and go.
SPECIFICATION FairSpec
CONSTANTS
    g1 = g1  g2 = g2
    Workers = {g1, g2}
    Absent = Absent
    Other = Other
    Window = 4
    MinSamples = 3
    FailureRate = 250
    TimeoutRate = 125
    Outcomes = {"ok", "late"}
    RedisFails = TRUE
    EndsEarly = {"ordinary"}
INVARIANT BreakerTypeOK
PROPERTIES TwoWinsClose ProbeTakenByTimeOnly Settles
