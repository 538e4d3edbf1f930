\* Two execute() calls for one request.
SPECIFICATION Spec
CONSTANTS
    c1 = c1
    c2 = c2
    Global = Global
    NoRequest = NoRequest
    Contexts <- MCOneContext
    Capabilities <- MCGuardedCapabilities
    DefaultPolicy <- MCDefaultPolicy
    StoredPolicies <- MCStoredPolicies
    RequestIds = {r1, r2}
    Relay = "agent.relay"
    Calls = {k1, k2}
    KeptPhases = {}
    MaxRestarts = 0
    DiskMayFail = FALSE
INVARIANTS
    RunsOnce
CHECK_DEADLOCK FALSE
