---------------------------- MODULE RateLimiter ----------------------------
(***************************************************************************)
(* The rate limiter of one session (internal/relay/ratelimit.go) and the    *)
(* goroutines that use it.  Each auth frame a viewer sends reserves a place *)
(* under its remote address, waits for the host's verdict, and must give    *)
(* the place back exactly once: when the verdict has been recorded, when    *)
(* the kill switch drops it, or at once if it cannot be put to the host.    *)
(* The limiter has its own mutex, so the session's lock orders none of      *)
(* these calls: each is a step of its own.                                  *)
(***************************************************************************)
EXTENDS Naturals, FiniteSets

CONSTANTS
    Attempt,        \* auth frames
    Machine, Port,  \* a remote address is a machine and one of its ports
    MaxAttempts,    \* RateLimitMaxAttempts
    MaxConcurrent,  \* MaxConcurrentAuthAttempts
    Cooldown,       \* RateLimitCooldown
    MaxNow,         \* bound on the clock, for TLC only
    None

Addr == Machine \X Port

ASSUME LimiterAssumption ==
    /\ IsFiniteSet(Attempt)
    /\ None \notin Attempt \cup Addr
    /\ MaxAttempts \in Nat \ {0}
    /\ MaxConcurrent \in Nat \ {0}
    /\ Cooldown \in Nat \ {0}
    /\ MaxNow \in Nat

VARIABLES
    entries,  \* rateLimiter.entries
    pc,       \* where the attempt's auth frame has got to
    from,     \* the remote address of the connection that sent it
    closed,   \* Session.closed
    hostPC,   \* the goroutine that serves the host
    judged,   \* the attempt whose verdict it is recording
    now,
    history   \* what the host has said of each address, for the properties

vars == <<entries, pc, from, closed, hostPC, judged, now, history>>

\* An address without an entry has none of the three.
NoEntry == [present |-> FALSE, fails |-> 0, blockedUntil |-> 0, pending |-> 0]
Entry   == [present : BOOLEAN, fails : Nat, blockedUntil : Nat, pending : Nat]

\* Failures since the last success, the time of the last one, and how many came
\* while the address was blocked, since it last got a place.
NoHistory == [streak |-> 0, last |-> 0, overrun |-> 0]
History   == [streak : Nat, last : Nat, overrun : Nat]

TypeOK ==
    /\ entries \in [Addr -> Entry]
    /\ pc \in [Attempt -> {"new", "refused", "reserved", "unwanted",
                           "waiting", "judged", "dropped", "resolved"}]
    /\ from \in [Attempt -> Addr \cup {None}]
    /\ closed \in BOOLEAN
    /\ hostPC \in {"serving", "recording", "releasing", "killing", "leaving",
                   "gone"}
    /\ judged \in Attempt \cup {None}
    /\ now \in Nat
    /\ history \in [Addr -> History]

Init ==
    /\ entries = [x \in Addr |-> NoEntry]
    /\ pc = [a \in Attempt |-> "new"]
    /\ from = [a \in Attempt |-> None]
    /\ closed = FALSE
    /\ hostPC = "serving"
    /\ judged = None
    /\ now = 1
    /\ history = [x \in Addr |-> NoHistory]

-----------------------------------------------------------------------------
(* The limiter's operations, each under rateLimiter.mu.                    *)

Blocked(x) == now < entries[x].blockedUntil

\* A faulty HasRoom: one place too many.
HasOneMore(x) == entries[x].pending <= MaxConcurrent

HasRoom(x) == entries[x].pending < MaxConcurrent

\* tryReserve, granted.
Reserved(x) ==
    [entries EXCEPT ![x] = [entries[x] EXCEPT !.present = TRUE, !.pending = @ + 1]]

\* A faulty Released: it does not look whether anything is reserved.
ReleasedBlindly(x) == [entries EXCEPT ![x] = [entries[x] EXCEPT !.pending = @ - 1]]

\* release: no entry, or none reserved, is not an error.
Released(x) ==
    IF entries[x].present /\ entries[x].pending > 0
      THEN [entries EXCEPT ![x] = [entries[x] EXCEPT !.pending = @ - 1]]
      ELSE entries

\* A faulty Failed: the cooldown starts one failure late.
FailedLate(x) ==
    [entries EXCEPT
        ![x] = [entries[x] EXCEPT
                  !.present = TRUE,
                  !.fails = @ + 1,
                  !.blockedUntil = IF entries[x].fails >= MaxAttempts
                                     THEN now + Cooldown ELSE @]]

\* recordFailure: from MaxAttempts on, every failure starts the cooldown anew.
Failed(x) ==
    [entries EXCEPT
        ![x] = [entries[x] EXCEPT
                  !.present = TRUE,
                  !.fails = @ + 1,
                  !.blockedUntil = IF entries[x].fails + 1 >= MaxAttempts
                                     THEN now + Cooldown ELSE @]]

\* recordSuccess.
Succeeded(x) ==
    IF entries[x].present
      THEN [entries EXCEPT ![x] = [entries[x] EXCEPT !.fails = 0, !.blockedUntil = 0]]
      ELSE entries

-----------------------------------------------------------------------------
(* The goroutine of a viewer connection: handleAuthAttempt.                *)

\* The frame arrives; the address is blocked, or has too many under way.
Refuse(a, x) ==
    /\ pc[a] = "new"
    /\ Blocked(x) \/ ~HasRoom(x)
    /\ pc' = [pc EXCEPT ![a] = "refused"]
    /\ from' = [from EXCEPT ![a] = x]
    /\ UNCHANGED <<entries, closed, hostPC, judged, now, history>>

TryReserve(a, x) ==
    /\ pc[a] = "new"
    /\ ~Blocked(x) /\ HasRoom(x)
    /\ entries' = Reserved(x)
    /\ pc' = [pc EXCEPT ![a] = "reserved"]
    /\ from' = [from EXCEPT ![a] = x]
    /\ history' = [history EXCEPT ![x].overrun = 0]
    /\ UNCHANGED <<closed, hostPC, judged, now>>

\* The frame cannot be decoded, or the session has ended meanwhile.
GiveUp(a) ==
    /\ pc[a] = "reserved"
    /\ pc' = [pc EXCEPT ![a] = "unwanted"]
    /\ UNCHANGED <<entries, from, closed, hostPC, judged, now, history>>

\* pendingAuth has the attempt, and the host is asked.
Ask(a) ==
    /\ pc[a] = "reserved"
    /\ ~closed
    /\ pc' = [pc EXCEPT ![a] = "waiting"]
    /\ UNCHANGED <<entries, from, closed, hostPC, judged, now, history>>

\* A faulty ReleaseUnwanted: the early return forgets to release.
ReturnUnwanted(a) ==
    /\ pc[a] = "unwanted"
    /\ pc' = [pc EXCEPT ![a] = "resolved"]
    /\ UNCHANGED <<entries, from, closed, hostPC, judged, now, history>>

ReleaseUnwanted(a) ==
    /\ pc[a] = "unwanted"
    /\ entries' = Released(from[a])
    /\ pc' = [pc EXCEPT ![a] = "resolved"]
    /\ UNCHANGED <<from, closed, hostPC, judged, now, history>>

-----------------------------------------------------------------------------
(* The goroutine of the host: handleAuthResponse, handleKillSwitch, the end. *)

\* The verdict on a arrives: it is no longer pending.
Verdict(a) ==
    /\ hostPC = "serving"
    /\ pc[a] = "waiting"
    /\ pc' = [pc EXCEPT ![a] = "judged"]
    /\ hostPC' = "recording"
    /\ judged' = a
    /\ UNCHANGED <<entries, from, closed, now, history>>

RecordFailure ==
    /\ hostPC = "recording"
    /\ LET x == from[judged] IN
         /\ entries' = Failed(x)
         /\ history' = [history EXCEPT
                ![x] = [streak  |-> @.streak + 1,
                        last    |-> now,
                        overrun |-> IF Blocked(x) THEN @.overrun + 1 ELSE @.overrun]]
    /\ hostPC' = "releasing"
    /\ UNCHANGED <<pc, from, closed, judged, now>>

RecordSuccess ==
    /\ hostPC = "recording"
    /\ entries' = Succeeded(from[judged])
    /\ history' = [history EXCEPT ![from[judged]].streak = 0]
    /\ hostPC' = "releasing"
    /\ UNCHANGED <<pc, from, closed, judged, now>>

\* The deferred release, when the result has been written.
ReleaseJudged ==
    /\ hostPC = "releasing"
    /\ entries' = Released(from[judged])
    /\ pc' = [pc EXCEPT ![judged] = "resolved"]
    /\ judged' = None
    /\ hostPC' = "serving"
    /\ UNCHANGED <<from, closed, now, history>>

\* A faulty KillSwitch: it releases none of the attempts it drops.
KillSwitchForgets ==
    /\ hostPC = "serving"
    /\ pc' = [a \in Attempt |-> IF pc[a] = "waiting" THEN "dropped" ELSE pc[a]]
    /\ UNCHANGED <<entries, from, closed, hostPC, judged, now, history>>

\* The kill switch empties pendingAuth under the session's lock ...
KillSwitch ==
    /\ hostPC = "serving"
    /\ pc' = [a \in Attempt |-> IF pc[a] = "waiting" THEN "dropped" ELSE pc[a]]
    /\ hostPC' = "killing"
    /\ UNCHANGED <<entries, from, closed, judged, now, history>>

\* ... and then releases each attempt it found there.
ReleaseDropped(a) ==
    /\ hostPC = "killing"
    /\ pc[a] = "dropped"
    /\ entries' = Released(from[a])
    /\ pc' = [pc EXCEPT ![a] = "resolved"]
    /\ UNCHANGED <<from, closed, hostPC, judged, now, history>>

KillDone ==
    /\ hostPC = "killing"
    /\ \A a \in Attempt : pc[a] # "dropped"
    /\ hostPC' = "serving"
    /\ UNCHANGED <<entries, pc, from, closed, judged, now, history>>

\* end_session, or the host's socket is gone: the session is closed.
EndSession ==
    /\ hostPC = "serving" /\ ~closed
    /\ closed' = TRUE
    /\ UNCHANGED <<entries, pc, from, hostPC, judged, now, history>>

HostDisconnect ==
    /\ hostPC = "serving"
    /\ closed' = TRUE
    /\ hostPC' = "leaving"
    /\ UNCHANGED <<entries, pc, from, judged, now, history>>

ClearSession ==
    /\ hostPC = "leaving"
    /\ entries' = [x \in Addr |-> NoEntry]
    /\ hostPC' = "gone"
    /\ UNCHANGED <<pc, from, closed, judged, now, history>>

Tick ==
    /\ now < MaxNow
    /\ now' = now + 1
    /\ UNCHANGED <<entries, pc, from, closed, hostPC, judged, history>>

-----------------------------------------------------------------------------
ViewerNext(a) ==
    \/ \E x \in Addr : Refuse(a, x) \/ TryReserve(a, x)
    \/ GiveUp(a) \/ Ask(a) \/ ReleaseUnwanted(a)

HostNext ==
    \/ \E a \in Attempt : Verdict(a) \/ ReleaseDropped(a)
    \/ RecordFailure \/ RecordSuccess \/ ReleaseJudged
    \/ KillSwitch \/ KillDone
    \/ EndSession \/ HostDisconnect \/ ClearSession

Next == (\E a \in Attempt : ViewerNext(a)) \/ HostNext \/ Tick

Spec == Init /\ [][Next]_vars

\* Handlers that have begun end, and the host answers what it is asked for as
\* long as it is there (hostauth.VerifyPassword always returns).
Fairness ==
    /\ \A a \in Attempt : /\ WF_vars(GiveUp(a) \/ Ask(a))
                          /\ WF_vars(ReleaseUnwanted(a))
                          /\ SF_vars(Verdict(a))
                          /\ WF_vars(ReleaseDropped(a))
    /\ WF_vars(RecordFailure \/ RecordSuccess)
    /\ WF_vars(ReleaseJudged)
    /\ WF_vars(KillDone)
    /\ WF_vars(ClearSession)

FairSpec == Spec /\ Fairness

-----------------------------------------------------------------------------
(* Safety.                                                                 *)

Holds(a)  == pc[a] \in {"reserved", "unwanted", "waiting", "judged", "dropped"}
Holding(x) == {a \in Attempt : Holds(a) /\ from[a] = x}

\* tryReserve's contract: every reservation is matched by exactly one release.
\* While the session lasts, an address's count is the number of its attempts
\* under way, whatever the kill switch and the verdicts do to them meanwhile.
ReservationsMatch ==
    hostPC # "gone" =>
        \A x \in Addr : entries[x].pending = Cardinality(Holding(x))

\* At most MaxConcurrent attempts of one address are awaiting a verdict, also
\* after the session's entries have been cleared under attempts in flight.
HostIsNotFlooded ==
    \A x \in Addr :
        Cardinality({a \in Attempt : pc[a] = "waiting" /\ from[a] = x})
            <= MaxConcurrent

\* Once an address is blocked, only attempts that were already under way can
\* still fail: fewer than MaxConcurrent, as the failure that started the
\* cooldown held one of the places.
CooldownStopsGuessing ==
    \A x \in Addr : history[x].overrun < MaxConcurrent

\* protocol.md, Rate limiting: an address is blocked exactly while its last
\* MaxAttempts or more verdicts, since a success, were failures and the latest
\* is less than a cooldown old.
BlockedExactlyInCooldown ==
    hostPC # "gone" =>
        \A x \in Addr :
            Blocked(x) <=> /\ history[x].streak >= MaxAttempts
                          /\ now < history[x].last + Cooldown

\* ratelimit.go: reconnecting does not reset the counter.  With two ports to a
\* machine it does: see the README; no configuration checks it.
ReconnectKeepsTheCount ==
    [][\A m \in Machine, p, q \in Port :
         Blocked(<<m, p>>) =>
            entries'[<<m, q>>].pending <= entries[<<m, q>>].pending]_vars

(* Liveness.                                                               *)

\* A place once reserved is given back, unless the host goes away first.
PlacesAreGivenBack ==
    \A a \in Attempt : Holds(a) ~> ~Holds(a) \/ hostPC = "gone"

=============================================================================
