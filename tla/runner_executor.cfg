SPECIFICATION Spec
CONSTANTS
    r1 = r1
    r2 = r2
    w1 = w1
    w2 = w2
    p1 = p1
    p2 = p2
    k1 = k1
    k2 = k2
    NoRun = NoRun
    NoWorker = NoWorker
    Runs <- OneRun
    Workers <- TwoWorkers
    Passes <- OnePass
    Ticks <- OneTick
    MaxAttempts = 2
    NumSteps = 2
    MaxFaults = 0
    MaxCrashes = 1
    AmbiguousSmtp = FALSE
    TimelyOwners = FALSE
SYMMETRY WorkerSymmetry
INVARIANTS
    TypeOK
    AtMostOnceEmail
    CompletedMeansAllSent
    DrainedMeansDecided
CHECK_DEADLOCK FALSE
