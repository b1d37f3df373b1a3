\* Three sockets, any of which may resume with any token at any time.
CONSTANTS
    Conn = {c1, c2, c3}
    Token = {t1, t2}
    Request = {r1}
    Host = host
    None = none
    ReconnectWindow = 1
    HostLockWindow = 1
    MaxNow = 2
SYMMETRY Symmetry
SPECIFICATION Spec
CONSTRAINT NoReclaim
INVARIANTS
    RosterIsServed
    WriterIsServed
    EveryParticipantIsListed
PROPERTIES
    KillReachesTheUncrowded
    SlotIsNotStolen
    ResumeDoesNotRegainControl
CHECK_DEADLOCK FALSE
