---------------------------- MODULE ViewerHealth ----------------------------
(***************************************************************************)
(* How the relay measures its viewers and tells the host                    *)
(* (internal/relay/health.go, presence.go, connection.go).  At every tick   *)
(* the checker expires overdue pings and sends new ones; pongs are handled  *)
(* by the goroutine of their connection.  Whoever changes something         *)
(* broadcasts a roster: the viewers under session.mu, their measurements    *)
(* one by one after the unlock, and then the writes; rosters of two         *)
(* goroutines overtake each other.  The host keeps the last one it reads.   *)
(*                                                                         *)
(* Time passes in units longer than healthLaggyLimit: the age of a ping is  *)
(* counted in units, and what its pong takes beyond them is a Delay.        *)
(***************************************************************************)
EXTENDS Naturals, Sequences

CONSTANTS
    Viewer,       \* viewer connections
    Slow,         \* those whose page may answer late, or hang
    Checker,      \* runViewerHealth
    Unit, Delay,  \* milliseconds
    Timeout,      \* healthPingTimeout, in units
    MaxInFlight   \* bound: pings a page leaves unanswered, unless for ever

HealthGoodLimit  == 150
HealthLaggyLimit == 500

ASSUME HealthAssumption ==
    /\ Checker \notin Viewer
    /\ Timeout \in Nat \ {0} /\ MaxInFlight \in Nat \ {0}
    /\ Slow \subseteq Viewer /\ Unit \in Nat /\ Delay \subseteq 0 .. Unit - 1 /\ Unit > HealthLaggyLimit

VARIABLES
    member,     \* a viewer is "out", let "in", or "gone"
    pending,    \* connectionHealth: a nonce is set ...
    age,        \* ... and the time since pendingAt
    quality,
    due,        \* the ticker has fired
    targets,    \* the checker's pings that are to be written
    wire,       \* pings a page has and its pongs: each with its true age, and
                \* whether its nonce is the one that is set
    silent,     \* pages that answer nothing any more
    broadcast,  \* each goroutine, in broadcastPresence: how far it is
    draft,      \* ... and the roster it is putting together
    viewers     \* the host's view of them (hostSessionStatus)

checkVars == <<pending, age, quality>>
tellVars  == <<broadcast, draft>>
vars == <<member, checkVars, due, targets, wire, silent, tellVars, viewers>>

Goroutine == Viewer \cup {Checker}
Probe     == [current : BOOLEAN, age : 0 .. Timeout]
Quality   == {"unknown", "good", "laggy", "stalled"}
Roster    == [Viewer -> Quality \cup {"absent"}]
Nobody    == [v \in Viewer |-> "absent"]
In        == {v \in Viewer : member[v] = "in"}

TypeOK ==
    /\ member \in [Viewer -> {"out", "in", "gone"}]
    /\ pending \in [Viewer -> BOOLEAN]
    /\ age \in [Viewer -> 0 .. Timeout]
    /\ quality \in [Viewer -> Quality]
    /\ due \in BOOLEAN
    /\ targets \subseteq Viewer
    /\ wire \in [Viewer -> Seq(Probe)]
    /\ \A v \in Viewer : /\ Len(wire[v]) <= MaxInFlight
                         /\ \A i \in DOMAIN wire[v] :
                              wire[v][i].current => pending[v] /\ i = Len(wire[v])
    /\ silent \subseteq Viewer
    /\ broadcast \in [Goroutine -> {"no", "todo", "writing"}]
    /\ draft \in [Goroutine -> Roster]
    /\ viewers \in Roster

Init ==
    /\ member = [v \in Viewer |-> "out"]
    /\ pending = [v \in Viewer |-> FALSE]
    /\ age = [v \in Viewer |-> 0]
    /\ quality = [v \in Viewer |-> "unknown"]
    /\ due = FALSE /\ targets = {}
    /\ wire = [v \in Viewer |-> <<>>]
    /\ silent = {}
    /\ broadcast = [g \in Goroutine |-> "no"]
    /\ draft = [g \in Goroutine |-> Nobody]
    /\ viewers = Nobody

Free(g)     == broadcast[g] = "no"

\* broadcastPresence up to its writes: the viewers are copied under session.mu,
\* their measurements right after it.
ComposeRoster(g) ==
    draft' = [draft EXCEPT ![g] =
                [v \in Viewer |-> IF member'[v] = "in" THEN quality'[v] ELSE "absent"]]

MustTell(g) == broadcast' = [broadcast EXCEPT ![g] = "writing"] /\ ComposeRoster(g)
Later(n)    == IF n = Timeout THEN n ELSE n + 1

-----------------------------------------------------------------------------
(* The session.                                                            *)

\* The end of handleResume: v is authenticated, then the roster is sent.  (After
\* handleAuthResponse it is sent by the goroutine that serves the host.)
Admit(v) ==
    /\ Free(v) /\ member[v] = "out"
    /\ member' = [member EXCEPT ![v] = "in"]
    /\ UNCHANGED <<checkVars, due, targets, wire, silent, viewers>>
    /\ MustTell(v)

\* handleViewerDisconnect; nobody looks at its measurements again, and a ping
\* under way is lost.
Leave(v) ==
    /\ Free(v) /\ member[v] = "in"
    /\ member' = [member EXCEPT ![v] = "gone"]
    /\ wire' = [wire EXCEPT ![v] = <<>>]
    /\ silent' = silent \ {v} /\ targets' = targets \ {v}
    /\ pending' = [pending EXCEPT ![v] = FALSE] /\ age' = [age EXCEPT ![v] = 0]
    /\ quality' = [quality EXCEPT ![v] = "unknown"]
    /\ MustTell(v)
    /\ UNCHANGED <<due, viewers>>

\* A page hangs with its socket open; pongs it has sent still arrive.
FallSilent(v) ==
    /\ member[v] = "in" /\ v \in Slow \ silent
    /\ silent' = silent \cup {v}
    /\ \E sent \in 0 .. Len(wire[v]) :
         wire' = [wire EXCEPT ![v] = SubSeq(wire[v], 1, sent)]
    /\ UNCHANGED <<member, checkVars, due, targets, tellVars, viewers>>

-----------------------------------------------------------------------------
(* The checker.                                                            *)

\* Time passes, and the ticker fires (its channel holds one tick); pages that are
\* not slow have answered.
Tick ==
    /\ \A v \in Viewer \ Slow : wire[v] = <<>>
    /\ due' = TRUE
    /\ age' = [v \in Viewer |-> IF pending[v] THEN Later(age[v]) ELSE 0]
    /\ wire' = [v \in Viewer |-> [i \in DOMAIN wire[v] |->
                   [current |-> wire[v][i].current, age |-> Later(wire[v][i].age)]]]
    /\ UNCHANGED <<member, pending, quality, targets, silent, tellVars, viewers>>

\* A faulty Overdue: a viewer that has never been measured does not expire.
OverdueMeasured ==
    {v \in In : pending[v] /\ age[v] >= Timeout /\ quality[v] # "unknown"}

\* expireHealthPing's condition.
Overdue == {v \in In : pending[v] /\ age[v] >= Timeout}

\* beginHealthPing, after expireHealthPing.
Pinged == {v \in In : ~pending[v] \/ v \in Overdue}

\* A faulty Superseded: every ping has the same nonce.
SupersededNot(probes) == probes

\* newRandomID: what is on its way has another nonce.
Superseded(probes) == [i \in DOMAIN probes |-> [current |-> FALSE, age |-> probes[i].age]]

\* checkViewerHealth up to the unlock.
CheckViewerHealth ==
    /\ due /\ targets = {} /\ Free(Checker)
    /\ due' = FALSE
    /\ quality' = [v \in Viewer |-> IF v \in Overdue THEN "stalled" ELSE quality[v]]
    /\ pending' = [v \in Viewer |-> pending[v] \/ v \in Pinged]
    /\ wire' = [v \in Viewer |-> IF v \in Pinged THEN Superseded(wire[v]) ELSE wire[v]]
    /\ age' = [v \in Viewer |-> IF v \in Pinged THEN 0 ELSE age[v]]
    /\ targets' = Pinged
    /\ broadcast' = [broadcast EXCEPT ![Checker] = IF Overdue = {} THEN "no" ELSE "todo"]
    /\ UNCHANGED <<member, silent, draft, viewers>>

\* The writes after the unlock, in any order.
SendPing(v) ==
    /\ v \in targets
    /\ targets' = targets \ {v}
    /\ IF v \in silent THEN UNCHANGED wire
       ELSE /\ Len(wire[v]) < MaxInFlight
            /\ wire' = [wire EXCEPT ![v] = Append(@, [current |-> TRUE, age |-> 0])]
    /\ UNCHANGED <<member, checkVars, due, silent, tellVars, viewers>>

-----------------------------------------------------------------------------
(* Pongs.                                                                  *)

HealthQuality(rtt) ==
    CASE rtt <= HealthGoodLimit                            -> "good"
      [] rtt > HealthGoodLimit /\ rtt <= HealthLaggyLimit  -> "laggy"
      [] rtt > HealthLaggyLimit                            -> "stalled"

\* The page's answer to its oldest ping arrives.
Arrives(v) ==
    /\ wire[v] # <<>> /\ member[v] = "in" /\ Free(v)
    /\ wire' = [wire EXCEPT ![v] = Tail(@)]
    /\ UNCHANGED <<member, due, targets, silent, viewers>>

\* recordHealthPong.
Record(v) ==
    /\ \E d \in Delay :
         quality' = [quality EXCEPT ![v] = HealthQuality(age[v] * Unit + d)]
    /\ pending' = [pending EXCEPT ![v] = FALSE]
    /\ age' = [age EXCEPT ![v] = 0]

\* Two faulty handlePong: any pong will do; a roster only if the quality changes.
HandlePongOfAny(v) ==
    /\ Arrives(v)
    /\ IF pending[v] THEN Record(v) /\ MustTell(v)
                     ELSE UNCHANGED <<checkVars, tellVars>>

HandlePongIfChanged(v) ==
    /\ Arrives(v)
    /\ IF Head(wire[v]).current
         THEN /\ Record(v)
              /\ IF quality' = quality THEN UNCHANGED tellVars ELSE MustTell(v)
         ELSE UNCHANGED <<checkVars, tellVars>>

\* handlePong: only the nonce of the pending ping counts.
HandlePong(v) ==
    /\ Arrives(v)
    /\ IF Head(wire[v]).current THEN Record(v) /\ MustTell(v)
                                ELSE UNCHANGED <<checkVars, tellVars>>

-----------------------------------------------------------------------------
(* broadcastPresence.                                                      *)

\* The checker's, when the pings are written.
TellHost ==
    /\ broadcast[Checker] = "todo" /\ targets = {}
    /\ UNCHANGED <<member, checkVars, due, targets, wire, silent, viewers>>
    /\ MustTell(Checker)

\* The write to the host and its updatePresence: rosters are read in the order
\* they are written in.  The viewers' pages are not modelled.
SendRoster(g) ==
    /\ broadcast[g] = "writing"
    /\ viewers' = draft[g]
    /\ broadcast' = [broadcast EXCEPT ![g] = "no"]
    /\ draft' = [draft EXCEPT ![g] = Nobody]
    /\ UNCHANGED <<member, checkVars, due, targets, wire, silent>>

-----------------------------------------------------------------------------
BroadcastPresence(g) ==
    (g = Checker /\ TellHost) \/ SendRoster(g)

Next ==
    \/ Tick \/ CheckViewerHealth
    \/ \E v \in Viewer :
         Admit(v) \/ Leave(v) \/ FallSilent(v) \/ SendPing(v) \/ HandlePong(v)
    \/ \E g \in Goroutine : BroadcastPresence(g)

Spec == Init /\ [][Next]_vars

\* Time passes and goroutines run: their writes return.  A page that has not
\* fallen silent answers, in its own time.  Nobody need come, go or hang.
Fairness ==
    /\ WF_vars(Tick)
    /\ WF_vars(CheckViewerHealth \/ BroadcastPresence(Checker)
                 \/ \E v \in Viewer : SendPing(v))
    /\ \A v \in Viewer : WF_vars(HandlePong(v) \/ BroadcastPresence(v))

FairSpec == Spec /\ Fairness

-----------------------------------------------------------------------------
(* Safety.                                                                 *)

\* A viewer is never shown to be better connected than it is: what a pong is
\* measured by is at least its true round trip, also if it arrives after its
\* ping has expired and the next one has been sent.
NeverFlattered ==
    [][\A v \in Viewer :
         (member'[v] = "in" /\ pending[v] /\ ~pending'[v]
            /\ Head(wire[v]).age > 0) => quality'[v] = "stalled"]_vars

(* Liveness.                                                               *)

\* The host comes to see that a viewer has hung, whatever rosters overtake
\* each other and whatever other viewers come, go and answer meanwhile.
SilentViewerIsShown ==
    \A v \in Viewer : (v \in silent) ~> (viewers[v] = "stalled" \/ member[v] # "in")

\* A roster sent late may show a viewer that has left; as long as somebody else
\* stays, the measurements correct that.  (If nobody does, it stays shown.)
DepartedViewersVanish ==
    \A v \in Viewer : \A w \in Viewer \ {v} :
        (member[v] = "gone" /\ member[w] = "in")
            ~> (viewers[v] = "absent" \/ member[w] = "gone")

=============================================================================
