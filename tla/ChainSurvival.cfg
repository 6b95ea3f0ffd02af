\* A sync and the run queue; failures and a crash.
SPECIFICATION Spec
CONSTANTS
    actions = actions
    backup = backup
    runs = runs
    w1 = w1
    w2 = w2
    r1 = r1
    r2 = r2
    Queues = {actions, runs}
    Ensured = {actions}
    Rescued = {}
    Workers = {w1, w2}
    Serves <- TwoWorkers
    Rakes = {r1}
    NoJob = NoJob
    NoQueue = NoQueue
    MaxAttempts = 2
    MaxJobs = 7
    MaxFaults = 2
    MaxCrashes = 1
INVARIANTS TypeOK HoldsItsJob EnsuredChainLives ForksAreCounted
PROPERTIES ChainEndsOnlyByAttempts
