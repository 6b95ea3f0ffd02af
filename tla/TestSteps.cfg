\* Two users edit three tests of a collection at once.
SPECIFICATION Spec
CONSTANTS
    c1 = c1
    t1 = t1
    t2 = t2
    t3 = t3
    a = a
    b = b
    c = c
    s1 = s1
    s2 = s2
    Collections = {c1}
    Testsets = {t1, t2, t3}
    Rows = {a, b, c}
    Sessions = {s1, s2}
    MaxOverlaps = 1
    MaxHidden = 1
    Typed <- TypedLists
    None = None
    Gone = Gone
CHECK_DEADLOCK FALSE
SYMMETRY Symmetry
INVARIANTS TypeOK NoShortCycle NothingDangles OrderIsTotal ReorderHonoured
PROPERTIES OutlineSpec
