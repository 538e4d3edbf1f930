\* Another call between the two writes of a crystallization.
SPECIFICATION Spec
CONSTANTS
    c1 = c1
    c2 = c2
    c3 = c3
    s1 = s1
    NoContext = NoContext
    ContextIds = {c1, c2, s1}
    Calls = {k1, k2}
    MaxEvents = 2
    Seeds = {s1}
    SeedOf <- MCSeedOf
    StoredTables <- MCWorkStored
    FileMayRot = FALSE
    MaxUpdates = 3
    MaxCrashes = 0
PROPERTIES
    LogIsComplete
CHECK_DEADLOCK FALSE
