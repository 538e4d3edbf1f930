SPECIFICATION DesktopSpec
CONSTANTS
    ContextIds <- MCContextIds
    Jobs <- MCJobs
    Stored <- MCStored
    Viewports <- MCViewports
    Places <- MCFarPlaces
    Tools <- MCTools
    MaxMoves = 3
    MaxBegins = 0
INVARIANT TitleBarsReachable
CHECK_DEADLOCK FALSE
