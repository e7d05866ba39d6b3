CONSTANTS
    s = s
    a = a
    b = b
    t = t
    w1 = w1
    NoTask = NoTask
    URLs = {s, a, b, t}
    Links <- ChainLinks
    Seeds <- OneSeed
    Flaky = {}
    Workers = {w1}
    QueueSize = 1
    MaxDepth = 1
    MaxURLs = 0
    FlushBatch = 1
    DBMayFail = FALSE
    MaxRuns = 3
    MaxCrashes = 1
SPECIFICATION SessionSpec
INVARIANTS
    SessionTypeOK
    
    
    SessionClosed
    
