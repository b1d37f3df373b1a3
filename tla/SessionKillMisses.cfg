\* The kill switch and a viewer whose old socket died after it resumed.
CONSTANTS
    Conn = {c1, c2, c3}
    Token = {t1, t2}
    Request = {r1}
    Host = host
    None = none
    ReconnectWindow = 1
    HostLockWindow = 1
    MaxNow = 2
SYMMETRY Symmetry
SPECIFICATION Spec
PROPERTIES
    KillReachesEveryone
CHECK_DEADLOCK FALSE
