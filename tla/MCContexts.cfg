\* Two calls in flight; writes that fail; a crash and a restart.
SPECIFICATION FairSpec
CONSTANTS
    c1 = c1
    c2 = c2
    c3 = c3
    s1 = s1
    NoContext = NoContext
    ContextIds = {c1, c2, s1}
    Calls = {k1, k2}
    MaxEvents = 2
    Seeds = {s1}
    SeedOf <- MCSeedOf
    StoredTables <- MCStoredTables
    FileMayRot = FALSE
    MaxUpdates = 3
    MaxCrashes = 1
INVARIANTS
    AckedSurvives
    FileIsCurrent
PROPERTIES
    EventsLostOnlyToCrystallize
    EveryCallAnswered
\* The changes explored run out.
CHECK_DEADLOCK FALSE
