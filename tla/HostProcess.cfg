\* One host process, either back end, with and without a relay.
SPECIFICATION FairSpec
INVARIANTS
    TypeOK
    NothingIsLeftBehind
PROPERTIES
    HostReturns
\* The host process returns and its goroutines end.
CHECK_DEADLOCK FALSE
