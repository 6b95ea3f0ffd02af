\* An order vanishes from the API and nobody restarts the worker.
SPECIFICATION FairSpec
CONSTANTS
    r1 = r1
    r2 = r2
    chrome = chrome
    firefox = firefox
    RunTests = {r1}
    Browsers = {chrome}
    Archivable = {}
    NSteps = 1
    ObjectSteps = {}
    NoTest = NoTest
    GetLimit = 2
    PostLimit = 2
    FailureWindow = 0
    AgeOutWindow = 1
    MaxAttempts = 2
    MaxFaults = 0
    MaxCrashes = 0
    MaxForgets = 1
    MaxTroubles = 1
    MaxClock = 2
PROPERTIES VanishedIsFailed
