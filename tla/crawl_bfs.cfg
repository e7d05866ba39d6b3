CONSTANTS
    s = s
    a = a
    b = b
    c = c
    d = d
    t = t
    z = z
    w1 = w1
    w2 = w2
    NoTask = NoTask
    URLs = {s, a, b, c, t, z}
    Links <- DiamondLinks
    Seeds <- OneSeed
    Flaky = {}
    Workers = {w1}
    QueueSize = 1
    MaxDepth = 3
    MaxURLs = 0
    FlushBatch = 3
    DBMayFail = FALSE
SPECIFICATION Spec
INVARIANTS
    BFSDepth
    ReachableCovered
