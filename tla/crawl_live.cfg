CONSTANTS
    s = s
    a = a
    b = b
    c = c
    d = d
    t = t
    z = z
    w1 = w1
    w2 = w2
    NoTask = NoTask
    URLs = {s, a, b, t}
    Links <- LimitLinks
    Seeds <- TwoSeeds
    Flaky = {a, b}
    Workers = {w1, w2}
    QueueSize = 0
    MaxDepth = 2
    MaxURLs = 3
    FlushBatch = 2
    DBMayFail = FALSE
SPECIFICATION FairSpec
INVARIANTS
    NoTaskLost
    URLLimitRespected
    CompletedIsClosed
PROPERTIES
    Termination
    ImplementsWorklist
