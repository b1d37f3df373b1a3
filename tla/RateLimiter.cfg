\* Four attempts from one address, under fairness; blocked after two failures,
\* two at once.  No symmetry, as liveness is checked.
CONSTANTS
    Attempt = {a1, a2, a3, a4}
    Machine = {m}
    Port = {p1}
    MaxAttempts = 2
    MaxConcurrent = 2
    Cooldown = 2
    MaxNow = 4
    None = none
SPECIFICATION FairSpec
INVARIANTS
    TypeOK
    ReservationsMatch
    HostIsNotFlooded
    CooldownStopsGuessing
    BlockedExactlyInCooldown
PROPERTY PlacesAreGivenBack
CHECK_DEADLOCK FALSE
