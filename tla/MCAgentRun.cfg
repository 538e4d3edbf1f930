\* Challenge and hello, and three frames that answer the intention.
SPECIFICATION Spec
CONSTANTS
    Providers <- MCProviders
    MaxFrames = 5
INVARIANTS
    StreamIsTerminated
    SessionIsReleased
    NothingBeforeHello
    AnswersReachTheShell
PROPERTIES
    RunEnds
\* A run ends.
CHECK_DEADLOCK FALSE
