\* Two intentions that may overlap, and two clicks.
SPECIFICATION Spec
CONSTANTS
    Asking = {1}
    Hosted = TRUE
    MaxRuns = 2
    MaxClicks = 2
    MaxActs = 3
INVARIANTS
    ExecuteFollowsItsAllow
PROPERTIES
    RunSettles
\* The page may be left and every call be over.
CHECK_DEADLOCK FALSE
