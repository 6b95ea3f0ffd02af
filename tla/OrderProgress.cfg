\* Two run tests on one browser; bounded faults, nothing ages or vanishes.
SPECIFICATION FairSpec
CONSTANTS
    r1 = r1
    r2 = r2
    chrome = chrome
    firefox = firefox
    RunTests = {r1, r2}
    Browsers = {chrome}
    Archivable = {}
    NSteps = 1
    ObjectSteps = {}
    NoTest = NoTest
    GetLimit = 2
    PostLimit = 1
    FailureWindow = 1
    AgeOutWindow = 2
    MaxAttempts = 2
    MaxFaults = 1
    MaxCrashes = 1
    MaxForgets = 0
    MaxTroubles = 2
    MaxClock = 1
PROPERTIES EventuallySubmitted VerdictRecorded
