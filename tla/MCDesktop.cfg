SPECIFICATION DesktopSpec
CONSTANTS
    ContextIds <- MCContextIds
    Jobs <- MCJobs
    Stored <- MCStored
    Viewports <- MCViewports
    Places <- MCPlaces
    Tools <- MCTools
    MaxMoves = 1
    MaxBegins = 3
INVARIANTS
    WindowsStacked
    IndicatorsAreTruthful
PROPERTIES
    ConfirmSettles
CHECK_DEADLOCK FALSE
