\* An approval for a capability the user has allowed before.
SPECIFICATION RelaySpec
CONSTANTS
    c1 = c1
    Global = Global
    NoRequest = NoRequest
    Contexts <- MCContexts
    Capabilities <- MCCapabilities
    DefaultPolicy <- MCDefaultPolicy
    StoredPolicies <- MCStoredPolicies
    RequestIds = {r1}
    Relay = "agent.relay"
    Calls = {k1}
    KeptPhases = {}
    MaxRestarts = 0
    DiskMayFail = FALSE
    Approvals = {a1}
    ApprovalContext = c1
    NeverRelay <- MCNeverRelay
PROPERTIES
    OnlyAHumanAllows
\* A run's approvals run out.
CHECK_DEADLOCK FALSE
