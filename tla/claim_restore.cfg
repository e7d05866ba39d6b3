CONSTANTS
    h1 = h1
    h2 = h2
    Free = Free
    MaxSession = 2
    MaxRun = 2
    MaxRestart = 1
    PageRuns = {1, 2}
    TickRuns = {}
    Handlers = {h1}
    EarlyResume = FALSE
    SlowStop = FALSE
    DBMayFail = FALSE
SPECIFICATION Spec
PROPERTIES
    RestoreComplete
