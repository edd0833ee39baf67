CONSTANTS
    Altitudes = {0, 1, 3}
    TakeoffAltitude = 1
    WaypointTimeout = 2
    WarmupCount = 2
    RetryPeriod = 2
    None = None
    MaxDrops = 1
SPECIFICATION FairSpec
INVARIANTS
    StreamHasNoGap
PROPERTIES
    HoverHoldsPosition
    EngagedInTheEnd
