\* A start that cannot read the file.
SPECIFICATION Spec
CONSTANTS
    c1 = c1
    c2 = c2
    c3 = c3
    s1 = s1
    NoContext = NoContext
    ContextIds = {c1, c2, s1}
    Calls = {k1}
    MaxEvents = 2
    Seeds = {s1}
    SeedOf <- MCSeedOf
    StoredTables <- MCWorkStored
    FileMayRot = TRUE
    MaxUpdates = 2
    MaxCrashes = 0
PROPERTIES
    SeedingKeepsWork
CHECK_DEADLOCK FALSE
