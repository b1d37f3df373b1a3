\* Two connections, of which one may be slow and may resume; a second attempt of the
\* other is made before the first, approved, has marked it.  No symmetry: liveness.
CONSTANTS
    Conn = {c1, c2}
    Host = host
    None = none
    MaxBacklog = 1
    MaxAttempts = 1
    Slow = {c2}
    MaxChunk = 2
CONSTRAINT SlowResume
SPECIFICATION FairSpec
INVARIANTS
    TypeOK
    NothingIsMissed
    BacklogIsOfOneGrid
PROPERTIES
    ImplementsStream
    HostIsHeard
CHECK_DEADLOCK FALSE
