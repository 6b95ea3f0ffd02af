\* Crashes, edits and rake: due jobs are run, loops end only where they may.
SPECIFICATION FairSpec
CONSTANTS
    s1 = s1
    s2 = s2
    w1 = w1
    w2 = w2
    r1 = r1
    Schedules = {s1}
    Recurrences = {1}
    Workers = {w1}
    Rakes = {r1}
    NoRow = NoRow
    Slack = 0
    Horizon = 1
    MaxAttempts = 2
    MaxJobs = 4
    MaxClock = 1
    MaxEdits = 1
    MaxFaults = 0
    MaxCrashes = 1
CHECK_DEADLOCK FALSE
INVARIANT LoopsAreCounted
PROPERTIES DueIsRun DestroyedIsForgotten LoopEndsOnlyByAttempts RakeLeavesNoneBehind
