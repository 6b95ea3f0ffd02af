\* Users edit and destroy schedules while their jobs run and fail.
SPECIFICATION Spec
CONSTANTS
    s1 = s1
    s2 = s2
    w1 = w1
    w2 = w2
    r1 = r1
    Schedules = {s1}
    Recurrences = {1, 2}
    Workers = {w1, w2}
    Rakes = {}
    NoRow = NoRow
    Slack = 1
    Horizon = 1
    MaxAttempts = 2
    MaxJobs = 3
    MaxClock = 4
    MaxEdits = 2
    MaxFaults = 2
    MaxCrashes = 0
CHECK_DEADLOCK FALSE
INVARIANTS TypeOK LoopsAreCounted RunsAreSpaced
