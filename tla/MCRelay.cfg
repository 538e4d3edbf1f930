\* One approval, one call in flight at the broker, a restart, failing files.
SPECIFICATION FairRelaySpec
CONSTANTS
    c1 = c1
    Global = Global
    NoRequest = NoRequest
    Contexts <- MCContexts
    Capabilities <- MCCapabilities
    DefaultPolicy <- MCDefaultPolicy
    StoredPolicies <- MCStoredPolicies
    RequestIds = {r1}
    Relay = "agent.relay"
    Calls = {k1}
    KeptPhases = {}
    MaxRestarts = 1
    DiskMayFail = TRUE
    Approvals = {a1}
    ApprovalContext = c1
    NeverRelay <- MCNeverRelay
INVARIANTS
    FailsClosed
PROPERTIES
    EveryApprovalSettles
\* A run's approvals run out.
CHECK_DEADLOCK FALSE
