\* A browser key is unique: the passes of two syncs race.
SPECIFICATION Spec
CONSTANTS
    n1 = n1
    n2 = n2
    n3 = n3
    p1 = p1
    p2 = p2
    Names = {n1, n2}
    Syncs = {p1, p2}
    Unique = TRUE
    NoName = NoName
    NoRow = NoRow
    MaxRows = 4
    MaxChanges = 2
    MaxAborts = 1
INVARIANT NamesAreScarce
PROPERTIES MirrorSpec
