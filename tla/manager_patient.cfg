CONSTANTS
    h1 = h1
    h2 = h2
    Free = Free
    MaxSession = 1
    MaxRun = 2
    MaxRestart = 0
    PageRuns = {1, 2}
    TickRuns = {1}
    Handlers = {h1, h2}
    EarlyResume = FALSE
    SlowStop = TRUE
    DBMayFail = FALSE
SPECIFICATION Spec
INVARIANTS
    LiveIsRegistered
    RunningIsLive
    SavedCountTruthful
    
