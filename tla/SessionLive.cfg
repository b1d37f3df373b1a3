\* Two sockets, under fairness; no symmetry, as liveness is checked.
CONSTANTS
    Conn = {c1, c2}
    Token = {t1, t2}
    Request = {r1}
    Host = host
    None = none
    ReconnectWindow = 1
    HostLockWindow = 1
    MaxNow = 2
SPECIFICATION FairSpec
PROPERTIES
    ControlComesBack
    EndedSessionDrains
CHECK_DEADLOCK FALSE
