CONSTANTS
    s = s
    a = a
    b = b
    c = c
    d = d
    t = t
    z = z
    w1 = w1
    w2 = w2
    NoTask = NoTask
    URLs = {s, a, c, d, t, z}
    Lower <- LowerCase
    SkipNames = {"x.pdf"}
    SameDomain = TRUE
    SeedHosts = {"h"}
    Hrefs <- SiteHrefs
    URLOf <- SiteURLs
    Links <- SiteLinks
    Seeds <- OneSeed
    Flaky = {}
    Workers = {w1, w2}
    QueueSize = 1
    MaxDepth = 2
    MaxURLs = 0
    FlushBatch = 2
    DBMayFail = FALSE
SPECIFICATION Spec
INVARIANTS
    TypeOK
    InFlightExact
    QuietAtEnd
    NoTaskLost
    AtMostOnce
    PageOnce
    CompletedIsClosed
    EverythingFlushed
    VisitedSaved
    
PROPERTIES
    DrainKeepsTasks
SYMMETRY Symm
