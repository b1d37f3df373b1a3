\* Two viewers, one of which may be slow, a timeout of two ticks, under fairness.
CONSTANTS
    Viewer = {v1, v2}
    Slow = {v1}
    Checker = checker
    Unit = 5000
    Delay = {150}
    Timeout = 2
    MaxInFlight = 2
SPECIFICATION FairSpec
INVARIANT TypeOK
PROPERTIES
    NeverFlattered
    SilentViewerIsShown
    DepartedViewersVanish
