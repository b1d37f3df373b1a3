\* Two viewers; no symmetry, as liveness is checked.
CONSTANTS
    Viewer = {v1, v2}
    Host = host
    Size = {s1}
    MaxQueue = 1
SPECIFICATION FairSpec
PROPERTY HostGetsTheKeyboard
