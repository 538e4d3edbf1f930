\* Text that is within the cap in characters and over it in bytes.
SPECIFICATION Spec
CONSTANTS
    d = d
    f = f
    Root = Root
    Hole = Hole
    Absent = Absent
    Folder = Folder
    k1 = k1
    k2 = k2
    Calls = {k1, k2}
    Paths = {d, f}
    ParentOf <- MCParentOf
    Contents <- MCWideContents
    CharsOf <- MCCharsOf
    MaxWrite = 2
    MaxRead = 2
    MaxActions = 2
INVARIANTS
    FilesWithinTheCap
CHECK_DEADLOCK FALSE
