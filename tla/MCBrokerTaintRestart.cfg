\* A restart between a relay and the use of a remembered grant.
SPECIFICATION Spec
CONSTANTS
    c1 = c1
    c2 = c2
    Global = Global
    NoRequest = NoRequest
    Contexts <- MCOneContext
    Capabilities <- MCGuardedCapabilities
    DefaultPolicy <- MCDefaultPolicy
    StoredPolicies <- MCStoredPolicies
    RequestIds = {r1, r2}
    Relay = "agent.relay"
    Calls = {k1}
    KeptPhases = {}
    MaxRestarts = 1
    DiskMayFail = FALSE
PROPERTIES
    NoLaunderedGrantAfterRestart
CHECK_DEADLOCK FALSE
