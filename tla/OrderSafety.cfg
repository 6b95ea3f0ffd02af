\* One test on two browsers: days pass, the worker may restart, one thing goes wrong.
SPECIFICATION Spec
CONSTANTS
    r1 = r1
    r2 = r2
    chrome = chrome
    firefox = firefox
    RunTests = {r1}
    Browsers = {chrome, firefox}
    Archivable = {chrome, firefox}
    NSteps = 1
    ObjectSteps = {1}
    NoTest = NoTest
    GetLimit = 1
    PostLimit = 2
    FailureWindow = 0
    AgeOutWindow = 1
    MaxAttempts = 2
    MaxFaults = 1
    MaxCrashes = 1
    MaxForgets = 1
    MaxTroubles = 1
    MaxClock = 2
SYMMETRY Symmetry
INVARIANTS TypeOK CompleteBeforeExecution ReleasedOrderIsTracked PassIsReal PassedRunWasExecuted FailureIsRealOrOld
PROPERTIES ApiIdWriteOnce VerdictChangesOnlyByAge LifecycleSpec
