\* One utterance is enough.
SPECIFICATION DictationSpec
CONSTANTS
    c1 = c1
    Global = Global
    NoRequest = NoRequest
    NoUtterance = NoUtterance
    Contexts <- MCContexts
    Capabilities <- MCCapabilities
    DefaultPolicy <- MCDefaultPolicy
    StoredPolicies <- MCStoredPolicies
    RequestIds = {r1}
    Relay = "agent.relay"
    Calls = {k1}
    KeptPhases = {"executed"}
    MaxRestarts = 0
    DiskMayFail = FALSE
    Utterances = {u1}
    Microphone = "audio.capture"
PROPERTIES
    OpensOnlyWhileHeld
CHECK_DEADLOCK FALSE
