\* A browser that returns.
SPECIFICATION FairSpec
CONSTANTS
    n1 = n1
    n2 = n2
    n3 = n3
    p1 = p1
    p2 = p2
    Names = {n1}
    Syncs = {p1}
    Unique = TRUE
    NoName = NoName
    NoRow = NoRow
    MaxRows = 2
    MaxChanges = 2
    MaxAborts = 0
PROPERTIES EventuallyMirrored
