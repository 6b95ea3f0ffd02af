\* A catalogue sync fails once and forks.
SPECIFICATION Spec
CONSTANTS
    actions = actions
    backup = backup
    runs = runs
    w1 = w1
    w2 = w2
    r1 = r1
    r2 = r2
    Queues = {actions}
    Ensured = {actions}
    Rescued = {}
    Workers = {w1}
    Serves <- OneWorker
    Rakes = {r1}
    NoJob = NoJob
    NoQueue = NoQueue
    MaxAttempts = 2
    MaxJobs = 3
    MaxFaults = 1
    MaxCrashes = 0
INVARIANTS QueueProtected
