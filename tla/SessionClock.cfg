\* Two sockets, two attempts at once, and time for tokens and slots to expire.
CONSTANTS
    Conn = {c1, c2}
    Token = {t1, t2}
    Request = {r1, r2}
    Host = host
    None = none
    ReconnectWindow = 1
    HostLockWindow = 1
    MaxNow = 4
SYMMETRY Symmetry
SPECIFICATION Spec
INVARIANTS
    TypeOK
    GroupIsHostControlled
    TokensAreApproved
PROPERTIES
    ControlIsTaken
CHECK_DEADLOCK FALSE
