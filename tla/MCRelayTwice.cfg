\* An approval the user allows in the shell.
SPECIFICATION RelaySpec
CONSTANTS
    c1 = c1
    Global = Global
    NoRequest = NoRequest
    Contexts <- MCContexts
    Capabilities <- MCCapabilities
    DefaultPolicy <- MCDefaultPolicy
    StoredPolicies <- MCStoredPolicies
    RequestIds = {r1}
    Relay = "agent.relay"
    Calls = {k1, k2}
    KeptPhases = {}
    MaxRestarts = 0
    DiskMayFail = FALSE
    Approvals = {a1}
    ApprovalContext = c1
    NeverRelay <- MCNeverRelay
INVARIANTS
    PerformedByOne
\* A run's approvals run out.
CHECK_DEADLOCK FALSE
