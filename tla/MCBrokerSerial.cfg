\* One call at a time: the next one arrives when the last was answered.
SPECIFICATION FairSpec
CONSTANTS
    c1 = c1
    c2 = c2
    Global = Global
    NoRequest = NoRequest
    Contexts <- MCContexts
    Capabilities <- MCCapabilities
    DefaultPolicy <- MCDefaultPolicy
    StoredPolicies <- MCStoredPolicies
    RequestIds = {r1, r2}
    Relay = "agent.relay"
    Calls = {k1}
    KeptPhases <- AuditPhases
    MaxRestarts = 1
    DiskMayFail = FALSE
INVARIANTS
    BothStepsLogged
PROPERTIES
    NoLaunderedGrant
    OutcomeReachesAuditLog
\* The ids of an instance run out.
CHECK_DEADLOCK FALSE
