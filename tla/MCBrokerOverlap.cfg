\* Two calls in flight at once, interleaving at their awaits.
SPECIFICATION Spec
CONSTANTS
    c1 = c1
    c2 = c2
    Global = Global
    NoRequest = NoRequest
    Contexts <- MCOneContext
    Capabilities <- MCGuardedCapabilities
    DefaultPolicy <- MCDefaultPolicy
    StoredPolicies <- MCStoredPolicies
    RequestIds = {r1, r2}
    Relay = "agent.relay"
    Calls = {k1, k2}
    KeptPhases = {}
    MaxRestarts = 0
    DiskMayFail = TRUE
SYMMETRY CallSymmetry
INVARIANTS
    RelayNeverAsked
PROPERTIES
    DenyWins
    RevokedGrantNeverRuns
    ImplementsConsentGate
    EndedNeverRunsAgain
    OutcomeIsNotHidden
    NoHopAfterHop
\* The ids of an instance run out.
CHECK_DEADLOCK FALSE
