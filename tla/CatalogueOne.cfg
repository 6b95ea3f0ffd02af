\* One sync of activities, names that come and go, passes that die.
SPECIFICATION FairSpec
CONSTANTS
    n1 = n1
    n2 = n2
    n3 = n3
    p1 = p1
    p2 = p2
    Names = {n1, n2, n3}
    Syncs = {p1}
    Unique = FALSE
    NoName = NoName
    NoRow = NoRow
    MaxRows = 9
    MaxChanges = 2
    MaxAborts = 2
INVARIANTS TypeOK NamesAreScarce PassMirrorsList
PROPERTIES EventuallyMirrored
