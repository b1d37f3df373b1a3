\* Two viewers and two grids; goroutines overtake each other at any point.
CONSTANTS
    Viewer = {v1, v2}
    Host = host
    Size = {s1, s2}
    MaxQueue = 1
SYMMETRY Symmetry
SPECIFICATION Spec
INVARIANTS
    TypeOK
    GateFollowsWriter
    HostGridIsRestored
    WriterKeepsItsGrid
    LastSizeReachesRelay
PROPERTY TimelyInputOnlyWhileShut
