\* Four executions, two at once, on a file and a directory that may be one.
SPECIFICATION Spec
CONSTANTS
    d = d
    f = f
    Root = Root
    Hole = Hole
    Absent = Absent
    Folder = Folder
    k1 = k1
    k2 = k2
    Calls = {k1, k2}
    Paths = {d, f}
    ParentOf <- MCParentOf
    Contents <- MCContents
    CharsOf <- MCCharsOf
    MaxWrite = 2
    MaxRead = 2
    MaxActions = 4
INVARIANTS
    EveryDeletionIsReal
    SettledFilesAreWhole
PROPERTIES
    EveryExecutionAnswers
\* The executions explored run out.
CHECK_DEADLOCK FALSE
