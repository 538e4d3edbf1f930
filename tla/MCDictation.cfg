\* Two utterances, one call in flight at the broker, failing files, a restart.
SPECIFICATION DictationSpec
SYMMETRY UtteranceSymmetry
CONSTANTS
    c1 = c1
    Global = Global
    NoRequest = NoRequest
    NoUtterance = NoUtterance
    Contexts <- MCContexts
    Capabilities <- MCCapabilities
    DefaultPolicy <- MCDefaultPolicy
    StoredPolicies <- MCStoredPolicies
    RequestIds = {r1, r2}
    Relay = "agent.relay"
    Calls = {k1}
    KeptPhases = {"executed"}
    MaxRestarts = 1
    DiskMayFail = TRUE
    Utterances = {u1, u2}
    Microphone = "audio.capture"
INVARIANTS
    CapturesAuthorised
    NeverDeaf
PROPERTIES
    NoCaptureAfterLeaving
\* The utterances of a run run out.
CHECK_DEADLOCK FALSE
