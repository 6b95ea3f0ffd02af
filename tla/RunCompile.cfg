\* Users edit tests and variables while runs are checked and compiled.
SPECIFICATION Spec
CONSTANTS
    u1 = u1
    u2 = u2
    k1 = k1
    k2 = k2
    t1 = t1
    t2 = t2
    open = open
    s1 = s1
    Users = {u1, u2}
    Keys = {k1, k2}
    MaxElements = 2
    Sessions = {s1}
    Testsets = {t1, t2}
    Activities = {open}
    MaxSteps = 2
    MaxRows = 3
    MaxWrites = 1
    None = None
    Gone = Gone
CHECK_DEADLOCK FALSE
SYMMETRY Symmetry
INVARIANTS TypeOK ValueIsFound CheckedStepsKeepObjects RunFollowsTests
