\* A write between the relay of a file and the read of it.
SPECIFICATION Spec
CONSTANTS
    d = d
    f = f
    Root = Root
    Hole = Hole
    Absent = Absent
    Folder = Folder
    k1 = k1
    k2 = k2
    Calls = {k1}
    Paths = {d, f}
    ParentOf <- MCParentOf
    Contents <- MCContents
    CharsOf <- MCCharsOf
    MaxWrite = 2
    MaxRead = 2
    MaxActions = 4
PROPERTIES
    HandedIsRead
CHECK_DEADLOCK FALSE
