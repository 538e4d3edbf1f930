\* One intention and a context to switch to.
SPECIFICATION Spec
CONSTANTS
    Asking = {1}
    Hosted = FALSE
    MaxRuns = 1
    MaxClicks = 0
    MaxActs = 1
INVARIANTS
    PromptsAreTheActives
CHECK_DEADLOCK FALSE
