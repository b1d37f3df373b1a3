\* Two viewers, the last event, two requests of the console at a time.
CONSTANTS
    Viewer = {v1, v2}
    Host = host
    MaxEvents = 1
    Request = {r1, r2}
    MaxTyped = 2
SPECIFICATION FairSpec
INVARIANT CommandsAreChunkBlind
PROPERTY ConsoleCatchesUp
