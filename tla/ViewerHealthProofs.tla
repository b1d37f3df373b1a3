-------------------------- MODULE ViewerHealthProofs --------------------------
(***************************************************************************)
(* What the relay promises about the quality of connections, for any number *)
(* of viewers, any timeout and any number of pings under way: no viewer is  *)
(* shown to be better connected than it is.                                 *)
(***************************************************************************)
EXTENDS ViewerHealth, SequenceTheorems, TLAPS

USE HealthAssumption DEF HealthAssumption, Goroutine, HealthLaggyLimit

-----------------------------------------------------------------------------
(* The pings of one connection that are under way.                         *)

\* At most the last one has the nonce that is set (p: one is set), and it is no
\* older than the time a its pong will be measured by.
Flight(s, p, a) ==
    /\ s \in Seq(Probe) /\ Len(s) <= MaxInFlight
    /\ \A i \in DOMAIN s : s[i].current => p /\ i = Len(s) /\ s[i].age <= a

NoneCurrent(s) == \A i \in DOMAIN s : ~s[i].current

LEMMA Shift ==
  ASSUME NEW n \in Nat \ {0}, NEW i \in 1 .. (n - 1)
  PROVE  i + 1 \in 1 .. n /\ (i + 1 = n => i = n - 1)
OBVIOUS

\* The oldest is answered: the pong of the ping that is set is the last one.
LEMMA FlightTail ==
  ASSUME NEW s, NEW p \in BOOLEAN, NEW a \in Nat, Flight(s, p, a), s # <<>>
  PROVE  /\ Flight(Tail(s), p, a)
         /\ Head(s) \in Probe
         /\ Head(s).current => Tail(s) = <<>> /\ Head(s).age <= a
         /\ NoneCurrent(s) => NoneCurrent(Tail(s)) /\ ~Head(s).current
<1> DEFINE t == Tail(s)
<1>1. s \in Seq(Probe) /\ Len(s) <= MaxInFlight
  BY DEF Flight
<1>2. /\ Len(s) \in Nat \ {0} /\ DOMAIN s = 1 .. Len(s)
      /\ Head(s) = s[1] /\ Head(s) \in Probe
  BY <1>1
<1>3. /\ t \in Seq(Probe) /\ Len(t) = Len(s) - 1 /\ DOMAIN t = 1 .. (Len(s) - 1)
      /\ \A i \in 1 .. (Len(s) - 1) : t[i] = s[i + 1]
  BY <1>1
<1>4. Len(t) = 0 => t = <<>>
  BY <1>3, EmptySeq
<1> HIDE DEF t
<1>5. \A i \in 1 .. (Len(s) - 1) : i + 1 \in DOMAIN s /\ (i + 1 = Len(s) => i = Len(s) - 1)
  BY <1>2, Shift, Zenon
<1>6. Flight(t, p, a)
  <2>1. \A i \in DOMAIN t : t[i].current => p /\ i = Len(t) /\ t[i].age <= a
    BY <1>3, <1>5, Zenon DEF Flight
  <2>2. Len(t) <= MaxInFlight
    BY <1>1, <1>2, <1>3
  <2>3. QED BY <1>3, <2>1, <2>2 DEF Flight
<1>7. ASSUME Head(s).current PROVE t = <<>> /\ Head(s).age <= a
  <2>1. 1 = Len(s) /\ s[1].age <= a
    BY <1>2, <1>7 DEF Flight
  <2>2. Len(t) = 0
    <3>1. Len(t) = Len(s) - 1
      BY <1>3
    <3>2. QED BY <2>1, <3>1
  <2>3. QED BY <1>2, <1>4, <2>1, <2>2, Zenon
<1>8. ASSUME NoneCurrent(s) PROVE NoneCurrent(t) /\ ~Head(s).current
  <2>1. 1 \in DOMAIN s
    BY <1>2
  <2>2. QED BY <1>2, <1>3, <1>5, <1>8, <2>1, Zenon DEF NoneCurrent
<1>9. QED BY <1>2, <1>6, <1>7, <1>8 DEF t

\* A page that hangs has answered the first n.
LEMMA FlightPrefix ==
  ASSUME NEW s, NEW p \in BOOLEAN, NEW a \in Nat, Flight(s, p, a), NEW n \in 0 .. Len(s)
  PROVE  Flight(SubSeq(s, 1, n), p, a) /\ (NoneCurrent(s) => NoneCurrent(SubSeq(s, 1, n)))
<1>1. s \in Seq(Probe) /\ Len(s) \in Nat /\ Len(s) <= MaxInFlight /\ DOMAIN s = 1 .. Len(s)
  BY DEF Flight
<1>2. /\ SubSeq(s, 1, n) \in Seq(Probe) /\ Len(SubSeq(s, 1, n)) = n
      /\ DOMAIN SubSeq(s, 1, n) = 1 .. n
      /\ \A i \in 1 .. n : SubSeq(s, 1, n)[i] = s[i]
  BY <1>1
<1>3. QED BY <1>1, <1>2 DEF Flight, NoneCurrent

LEMMA FlightAppend ==
  ASSUME NEW s, NEW p \in BOOLEAN, NEW a \in Nat, Flight(s, p, a),
         p, NoneCurrent(s), Len(s) < MaxInFlight
  PROVE  Flight(Append(s, [current |-> TRUE, age |-> 0]), p, a)
<1> DEFINE probe == [current |-> TRUE, age |-> 0]
           t == Append(s, probe)
<1>1. s \in Seq(Probe) /\ Len(s) \in Nat /\ DOMAIN s = 1 .. Len(s)
  BY DEF Flight
<1>2. probe \in Probe /\ probe.current = TRUE /\ probe.age = 0
  BY DEF Probe
<1>3. /\ t \in Seq(Probe) /\ Len(t) = Len(s) + 1 /\ DOMAIN t = 1 .. (Len(s) + 1)
      /\ \A i \in 1 .. Len(s) : t[i] = s[i]
      /\ t[Len(s) + 1] = probe
  BY <1>1, <1>2
<1>4. ASSUME NEW i \in DOMAIN t, t[i].current PROVE i = Len(t) /\ t[i].age <= a
  <2>1. i \notin 1 .. Len(s)
    BY <1>1, <1>3, <1>4 DEF NoneCurrent
  <2>2. i = Len(s) + 1
    BY <1>1, <1>3, <2>1
  <2>3. QED BY <1>2, <1>3, <2>2
<1>5. Len(t) <= MaxInFlight
  BY <1>1, <1>3
<1>6. QED BY <1>3, <1>4, <1>5 DEF Flight

\* A new nonce is set: no pong under way counts any more.
LEMMA FlightSuperseded ==
  ASSUME NEW s, NEW p \in BOOLEAN, NEW a \in Nat, Flight(s, p, a)
  PROVE  NoneCurrent(Superseded(s)) /\ Flight(Superseded(s), TRUE, 0)
<1>1. s \in Seq(Probe) /\ Len(s) \in Nat /\ Len(s) <= MaxInFlight /\ DOMAIN s = 1 .. Len(s)
  BY DEF Flight
<1>2. \A i \in DOMAIN s : s[i] \in Probe
  BY <1>1
<1>3. \A i \in DOMAIN s : [current |-> FALSE, age |-> s[i].age] \in Probe
  BY <1>2 DEF Probe
<1>4. /\ Superseded(s) \in Seq(Probe) /\ Len(Superseded(s)) = Len(s)
      /\ DOMAIN Superseded(s) = 1 .. Len(s)
  BY <1>1, <1>3 DEF Superseded
<1>5. \A i \in DOMAIN s : Superseded(s)[i].current = FALSE
  BY DEF Superseded
<1>6. QED BY <1>1, <1>4, <1>5 DEF Flight, NoneCurrent

LEMMA LaterGrows ==
  ASSUME NEW m \in 0 .. Timeout
  PROVE  /\ Later(m) \in 0 .. Timeout
         /\ \A n \in 0 .. Timeout : m <= n => Later(m) <= Later(n)
BY DEF Later

\* Time passes for a ping and for the clock it is measured by alike.
LEMMA FlightLater ==
  ASSUME NEW s, NEW p \in BOOLEAN, NEW a \in 0 .. Timeout, Flight(s, p, a)
  PROVE  LET t == [i \in DOMAIN s |->
                     [current |-> s[i].current, age |-> Later(s[i].age)]] IN
         /\ Flight(t, p, IF p THEN Later(a) ELSE 0)
         /\ NoneCurrent(s) => NoneCurrent(t)
<1> DEFINE t == [i \in DOMAIN s |-> [current |-> s[i].current, age |-> Later(s[i].age)]]
<1>1. s \in Seq(Probe) /\ Len(s) \in Nat /\ Len(s) <= MaxInFlight /\ DOMAIN s = 1 .. Len(s)
  BY DEF Flight
<1>2. \A i \in DOMAIN s : s[i].current \in BOOLEAN /\ s[i].age \in 0 .. Timeout
  <2>1. \A i \in DOMAIN s : s[i] \in Probe
    BY <1>1
  <2>2. QED BY <2>1 DEF Probe
<1>3. \A i \in DOMAIN s : /\ t[i].current = s[i].current /\ t[i].age = Later(s[i].age)
                          /\ t[i] \in Probe
  BY <1>2, LaterGrows DEF Probe
<1>4. t \in Seq(Probe) /\ Len(t) = Len(s) /\ DOMAIN t = 1 .. Len(s)
  BY <1>1, <1>3
<1> HIDE DEF t
<1>5. ASSUME NEW i \in DOMAIN t, t[i].current
      PROVE  p /\ i = Len(t) /\ t[i].age <= Later(a)
  <2>1. i \in DOMAIN s /\ s[i].current
    BY <1>1, <1>3, <1>4, <1>5
  <2>2. p /\ i = Len(s) /\ s[i].age <= a
    BY <2>1 DEF Flight
  <2>3. s[i].age \in 0 .. Timeout /\ t[i].age = Later(s[i].age)
    BY <1>2, <1>3, <2>1
  <2>4. Later(s[i].age) <= Later(a)
    BY <2>2, <2>3, LaterGrows
  <2>5. QED BY <1>4, <2>2, <2>3, <2>4
<1>6. Flight(t, p, IF p THEN Later(a) ELSE 0)
  BY <1>1, <1>4, <1>5 DEF Flight
<1>7. NoneCurrent(s) => NoneCurrent(t)
  BY <1>1, <1>3, <1>4 DEF NoneCurrent
<1>8. QED BY <1>6, <1>7 DEF t

-----------------------------------------------------------------------------
(* The invariant.                                                          *)

\* Pings under way are in order; a viewer that the checker is about to ping has
\* none that still counts; the measurements have their types.
Pings ==
    /\ pending \in [Viewer -> BOOLEAN]
    /\ age \in [Viewer -> 0 .. Timeout]
    /\ quality \in [Viewer -> Quality]
    /\ targets \subseteq Viewer
    /\ wire \in [Viewer -> Seq(Probe)]
    /\ \A v \in Viewer : Flight(wire[v], pending[v], age[v])
    /\ \A v \in targets : pending[v] /\ NoneCurrent(wire[v])

Session ==
    /\ member \in [Viewer -> {"out", "in", "gone"}]
    /\ due \in BOOLEAN /\ silent \subseteq Viewer

Rosters ==
    /\ broadcast \in [Goroutine -> {"no", "todo", "writing"}]
    /\ draft \in [Goroutine -> Roster]
    /\ viewers \in Roster

HealthInv == Session /\ Rosters /\ Pings

LEMMA InvTypes == HealthInv => TypeOK
<1> SUFFICES ASSUME HealthInv PROVE TypeOK
  OBVIOUS
<1>1. \A v \in Viewer :
        /\ wire[v] \in Seq(Probe) /\ Len(wire[v]) <= MaxInFlight
        /\ \A i \in DOMAIN wire[v] : wire[v][i].current => pending[v] /\ i = Len(wire[v])
  BY DEF HealthInv, Pings, Flight
<1>2. QED
  BY <1>1 DEF HealthInv, Session, Rosters, Pings, TypeOK

LEMMA EmptyFlight ==
  \A p \in BOOLEAN, a \in 0 .. Timeout : Flight(<<>>, p, a)
BY DEF Flight

LEMMA InitInv == Init => HealthInv
<1> SUFFICES ASSUME Init PROVE HealthInv
  OBVIOUS
<1>1. Nobody \in Roster
  BY DEF Nobody, Roster
<1>2. Session /\ Rosters
  BY <1>1 DEF Init, Session, Rosters
<1>3. Pings
  <2>1. 0 \in 0 .. Timeout
    OBVIOUS
  <2>2. \A v \in Viewer : wire[v] = <<>> /\ pending[v] = FALSE /\ age[v] = 0
    BY DEF Init
  <2>3. \A v \in Viewer : Flight(wire[v], pending[v], age[v])
    BY <2>1, <2>2, EmptyFlight
  <2>4. wire \in [Viewer -> Seq(Probe)]
    BY DEF Init
  <2>5. QED BY <2>1, <2>3, <2>4 DEF Init, Pings, Quality
<1>4. QED BY <1>2, <1>3 DEF HealthInv

\* A roster that is put together is one.
LEMMA TellTyped ==
  ASSUME Rosters, NEW g \in Goroutine, MustTell(g),
         member' \in [Viewer -> {"out", "in", "gone"}],
         quality' \in [Viewer -> Quality], viewers' = viewers
  PROVE  Rosters'
<1>1. [v \in Viewer |-> IF member'[v] = "in" THEN quality'[v] ELSE "absent"] \in Roster
  BY DEF Roster
<1>2. QED BY <1>1 DEF MustTell, ComposeRoster, Rosters

\* A pong is measured by the time since its ping was begun, and that is at least
\* a unit if time has passed for the ping.
LEMMA MeasuredStalled ==
  ASSUME NEW a \in Nat \ {0}, NEW d \in Delay
  PROVE  HealthQuality(a * Unit + d) = "stalled"
<1>1. a * Unit >= Unit /\ a * Unit \in Nat
  <2>1. PICK b \in Nat : a = b + 1
    <3>1. a - 1 \in Nat /\ a = (a - 1) + 1
      OBVIOUS
    <3>2. QED BY <3>1
  <2>2. b * Unit \in Nat
    OBVIOUS
  <2>3. a * Unit = b * Unit + Unit
    BY <2>1
  <2>4. QED BY <2>2, <2>3
<1>2. d \in Nat
  OBVIOUS
<1>3. a * Unit + d > 500 /\ ~(a * Unit + d <= 500) /\ ~(a * Unit + d <= HealthGoodLimit)
  BY <1>1, <1>2 DEF HealthGoodLimit
<1> DEFINE rtt == a * Unit + d
<1> HIDE DEF rtt
<1>4. rtt > 500 /\ ~(rtt <= 500) /\ ~(rtt <= HealthGoodLimit)
  BY <1>3 DEF rtt
<1>5. HealthQuality(rtt) = "stalled"
  BY <1>4 DEF HealthQuality
<1>6. QED BY <1>5 DEF rtt

LEMMA HealthQualityTyped == \A rtt \in Nat : HealthQuality(rtt) \in Quality
BY DEF HealthQuality, Quality, HealthGoodLimit

-----------------------------------------------------------------------------
(* Steps.                                                                  *)

LEMMA SessionSteps ==
  ASSUME HealthInv, [Next]_vars
  PROVE  Session'
<1> USE DEF HealthInv, Session
<1>1. CASE UNCHANGED vars
  BY <1>1 DEF vars
<1>2. ASSUME NEW v \in Viewer,
             Admit(v) \/ Leave(v) \/ FallSilent(v) \/ SendPing(v) \/ HandlePong(v)
      PROVE  Session'
  BY <1>2 DEF Admit, Leave, FallSilent, SendPing, HandlePong, Arrives
<1>3. CASE Tick \/ CheckViewerHealth
  BY <1>3 DEF Tick, CheckViewerHealth
<1>4. ASSUME NEW g \in Goroutine, BroadcastPresence(g) PROVE Session'
  BY <1>4 DEF BroadcastPresence, TellHost, SendRoster
<1>5. QED BY <1>1, <1>2, <1>3, <1>4 DEF Next

\* What a step of one connection does to the pings.
LEMMA OnePings ==
  ASSUME HealthInv, NEW v \in Viewer, targets' \subseteq targets,
         pending' \in [Viewer -> BOOLEAN], age' \in [Viewer -> 0 .. Timeout],
         quality' \in [Viewer -> Quality], wire' \in [Viewer -> Seq(Probe)],
         \A w \in Viewer : w # v => /\ wire'[w] = wire[w] /\ pending'[w] = pending[w]
                                    /\ age'[w] = age[w],
         Flight(wire'[v], pending'[v], age'[v]),
         v \in targets' => pending'[v] /\ NoneCurrent(wire'[v])
  PROVE  Pings'
<1>1. \A w \in Viewer : Flight(wire'[w], pending'[w], age'[w])
  BY DEF HealthInv, Pings
<1>2. \A w \in targets' : pending'[w] /\ NoneCurrent(wire'[w])
  BY DEF HealthInv, Pings
<1>3. QED BY <1>1, <1>2 DEF HealthInv, Pings

LEMMA HandlePongSteps ==
  ASSUME HealthInv, NEW v \in Viewer, HandlePong(v)
  PROVE  /\ Pings'
         /\ pending[v] /\ ~pending'[v] =>
              \E d \in Delay : /\ quality'[v] = HealthQuality(age[v] * Unit + d)
                               /\ Head(wire[v]).age <= age[v]
         /\ \A w \in Viewer : w # v => pending'[w] = pending[w]
<1>1. /\ wire' = [wire EXCEPT ![v] = Tail(@)] /\ targets' = targets /\ wire[v] # <<>>
      /\ age[v] \in 0 .. Timeout /\ pending[v] \in BOOLEAN
      /\ pending \in [Viewer -> BOOLEAN] /\ age \in [Viewer -> 0 .. Timeout]
      /\ quality \in [Viewer -> Quality] /\ wire \in [Viewer -> Seq(Probe)]
      /\ Flight(wire[v], pending[v], age[v])
      /\ v \in targets => pending[v] /\ NoneCurrent(wire[v])
  BY DEF HealthInv, Pings, HandlePong, Arrives
<1>2. /\ Flight(Tail(wire[v]), pending[v], age[v])
      /\ Head(wire[v]) \in Probe
      /\ Head(wire[v]).current => Tail(wire[v]) = <<>> /\ Head(wire[v]).age <= age[v]
      /\ NoneCurrent(wire[v]) => NoneCurrent(Tail(wire[v])) /\ ~Head(wire[v]).current
  <2>1. age[v] \in Nat
    BY <1>1
  <2>2. QED BY <1>1, <2>1, FlightTail
<1>3. /\ wire'[v] = Tail(wire[v]) /\ wire' \in [Viewer -> Seq(Probe)]
      /\ \A w \in Viewer : w # v => wire'[w] = wire[w]
  <2>1. Tail(wire[v]) \in Seq(Probe)
    BY <1>2 DEF Flight
  <2>2. QED BY <1>1, <2>1
<1>4. CASE Head(wire[v]).current
  <2>1. PICK d \in Delay :
          quality' = [quality EXCEPT ![v] = HealthQuality(age[v] * Unit + d)]
    BY <1>4 DEF HandlePong, Record
  <2>2. pending' = [pending EXCEPT ![v] = FALSE] /\ age' = [age EXCEPT ![v] = 0]
    BY <1>4 DEF HandlePong, Record
  <2>3. age[v] * Unit + d \in Nat
    <3>1. age[v] \in Nat /\ d \in Nat
      BY <1>1
    <3>2. QED BY <3>1
  <2>4. quality' \in [Viewer -> Quality]
    BY <1>1, <2>1, <2>3, HealthQualityTyped
  <2>5. v \notin targets
    BY <1>1, <1>2, <1>4
  <2>6. Flight(wire'[v], pending'[v], age'[v])
    <3>1. wire'[v] = <<>> /\ pending'[v] = FALSE /\ age'[v] = 0
      BY <1>1, <1>2, <1>3, <1>4, <2>2
    <3>2. 0 \in 0 .. Timeout
      OBVIOUS
    <3>3. QED BY <3>1, <3>2, EmptyFlight
  <2>7. Pings'
    <3>1. /\ pending' \in [Viewer -> BOOLEAN] /\ age' \in [Viewer -> 0 .. Timeout]
          /\ \A w \in Viewer : w # v => pending'[w] = pending[w] /\ age'[w] = age[w]
      BY <1>1, <2>2
    <3>2. QED BY <1>1, <1>3, <2>4, <2>5, <2>6, <3>1, OnePings
  <2>8. quality'[v] = HealthQuality(age[v] * Unit + d)
    BY <1>1, <2>1
  <2>9. QED BY <1>1, <1>2, <1>4, <2>2, <2>7, <2>8
<1>5. CASE ~Head(wire[v]).current
  <2>1. UNCHANGED <<pending, age, quality>>
    BY <1>5 DEF HandlePong, checkVars
  <2>2. Flight(wire'[v], pending'[v], age'[v])
    BY <1>2, <1>3, <2>1
  <2>3. v \in targets' => pending'[v] /\ NoneCurrent(wire'[v])
    BY <1>1, <1>2, <1>3, <2>1
  <2>4. Pings'
    BY <1>1, <1>3, <2>1, <2>2, <2>3, OnePings
  <2>5. QED BY <2>1, <2>4
<1>6. QED BY <1>4, <1>5

LEMMA ConnectionPings ==
  ASSUME HealthInv, NEW v \in Viewer, Leave(v) \/ FallSilent(v) \/ SendPing(v)
  PROVE  Pings'
<1> USE DEF HealthInv, Pings
<1>0. /\ age[v] \in 0 .. Timeout /\ age[v] \in Nat /\ pending[v] \in BOOLEAN
      /\ Flight(wire[v], pending[v], age[v])
  OBVIOUS
<1>1. CASE Leave(v)
  <2>1. wire'[v] = <<>> /\ pending'[v] = FALSE /\ age'[v] = 0 /\ 0 \in 0 .. Timeout
    BY <1>1 DEF Leave
  <2>2. Flight(wire'[v], pending'[v], age'[v])
    BY <2>1, EmptyFlight
  <2>3. /\ pending' \in [Viewer -> BOOLEAN] /\ age' \in [Viewer -> 0 .. Timeout]
        /\ quality' \in [Viewer -> Quality] /\ wire' \in [Viewer -> Seq(Probe)]
        /\ \A w \in Viewer : w # v => /\ wire'[w] = wire[w] /\ pending'[w] = pending[w]
                                      /\ age'[w] = age[w]
        /\ targets' \subseteq targets /\ v \notin targets'
    BY <1>1 DEF Leave, Quality
  <2>4. QED BY <2>2, <2>3, OnePings
<1>2. CASE FallSilent(v)
  <2>1. PICK n \in 0 .. Len(wire[v]) : wire' = [wire EXCEPT ![v] = SubSeq(wire[v], 1, n)]
    BY <1>2 DEF FallSilent
  <2>2. UNCHANGED <<pending, age, quality, targets>>
    BY <1>2 DEF FallSilent, checkVars
  <2>3. /\ Flight(SubSeq(wire[v], 1, n), pending[v], age[v])
        /\ NoneCurrent(wire[v]) => NoneCurrent(SubSeq(wire[v], 1, n))
    BY <1>0, FlightPrefix
  <2>4. /\ wire'[v] = SubSeq(wire[v], 1, n) /\ wire' \in [Viewer -> Seq(Probe)]
        /\ \A w \in Viewer : w # v => wire'[w] = wire[w]
    <3>1. SubSeq(wire[v], 1, n) \in Seq(Probe)
      BY <2>3 DEF Flight
    <3>2. QED BY <2>1, <3>1
  <2>5. QED BY <2>2, <2>3, <2>4, OnePings
<1>3. CASE SendPing(v) /\ v \in silent
  BY <1>3 DEF SendPing, checkVars
<1>4. CASE SendPing(v) /\ v \notin silent
  <2>1. /\ v \in targets /\ targets' = targets \ {v} /\ Len(wire[v]) < MaxInFlight
        /\ wire' = [wire EXCEPT ![v] = Append(@, [current |-> TRUE, age |-> 0])]
        /\ UNCHANGED <<pending, age, quality>>
    BY <1>4 DEF SendPing, checkVars
  <2>2. pending[v] /\ NoneCurrent(wire[v])
    BY <2>1
  <2>3. Flight(Append(wire[v], [current |-> TRUE, age |-> 0]), pending[v], age[v])
    BY <1>0, <2>1, <2>2, FlightAppend
  <2>4. /\ wire'[v] = Append(wire[v], [current |-> TRUE, age |-> 0])
        /\ wire' \in [Viewer -> Seq(Probe)]
        /\ \A w \in Viewer : w # v => wire'[w] = wire[w]
    <3>1. Append(wire[v], [current |-> TRUE, age |-> 0]) \in Seq(Probe)
      BY <2>3 DEF Flight
    <3>2. QED BY <2>1, <3>1
  <2>5. QED BY <2>1, <2>3, <2>4, OnePings
<1>5. QED BY <1>1, <1>2, <1>3, <1>4

LEMMA ClockPings ==
  ASSUME HealthInv, Tick
  PROVE  Pings'
<1> USE DEF HealthInv, Pings
<1> DEFINE later(v) == [i \in DOMAIN wire[v] |->
                          [current |-> wire[v][i].current, age |-> Later(wire[v][i].age)]]
<1>1. /\ UNCHANGED <<pending, quality, targets>>
      /\ age' = [v \in Viewer |-> IF pending[v] THEN Later(age[v]) ELSE 0]
      /\ wire' = [v \in Viewer |-> later(v)]
  BY DEF Tick
<1>2. ASSUME NEW v \in Viewer
      PROVE  /\ Flight(wire'[v], pending'[v], age'[v])
             /\ NoneCurrent(wire[v]) => NoneCurrent(wire'[v])
  <2>1. Flight(wire[v], pending[v], age[v]) /\ pending[v] \in BOOLEAN
          /\ age[v] \in 0 .. Timeout
    OBVIOUS
  <2>2. /\ Flight(later(v), pending[v], IF pending[v] THEN Later(age[v]) ELSE 0)
        /\ NoneCurrent(wire[v]) => NoneCurrent(later(v))
    BY <2>1, FlightLater
  <2>3. QED BY <1>1, <2>2, Zenon
<1>3. age' \in [Viewer -> 0 .. Timeout]
  BY <1>1, LaterGrows
<1>4. \A v \in targets' : pending'[v] /\ NoneCurrent(wire'[v])
  BY <1>1, <1>2
<1>5. wire' \in [Viewer -> Seq(Probe)]
  <2>1. \A v \in Viewer : wire'[v] \in Seq(Probe)
    BY <1>2 DEF Flight
  <2>2. QED BY <1>1, <2>1
<1>6. QED BY <1>1, <1>2, <1>3, <1>4, <1>5, Zenon

\* Whoever is pinged gets a new nonce; nobody is who still has one, unless it has
\* expired.
LEMMA CheckPings ==
  ASSUME HealthInv, CheckViewerHealth
  PROVE  Pings'
<1> USE DEF HealthInv, Pings
<1>1. /\ quality' = [v \in Viewer |-> IF v \in Overdue THEN "stalled" ELSE quality[v]]
      /\ pending' = [v \in Viewer |-> pending[v] \/ v \in Pinged]
      /\ wire' = [v \in Viewer |-> IF v \in Pinged THEN Superseded(wire[v]) ELSE wire[v]]
      /\ age' = [v \in Viewer |-> IF v \in Pinged THEN 0 ELSE age[v]]
      /\ targets' = Pinged /\ Pinged \subseteq Viewer
  BY DEF CheckViewerHealth, Pinged, In
<1>2. ASSUME NEW v \in Viewer
      PROVE  /\ Flight(wire'[v], pending'[v], age'[v])
             /\ v \in Pinged => pending'[v] /\ NoneCurrent(wire'[v])
  <2>1. Flight(wire[v], pending[v], age[v]) /\ pending[v] \in BOOLEAN /\ age[v] \in Nat
    OBVIOUS
  <2>2. CASE v \in Pinged
    <3>1. wire'[v] = Superseded(wire[v]) /\ pending'[v] = TRUE /\ age'[v] = 0
      BY <1>1, <2>2
    <3>2. NoneCurrent(Superseded(wire[v])) /\ Flight(Superseded(wire[v]), TRUE, 0)
      BY <2>1, FlightSuperseded, Zenon
    <3>3. Flight(wire'[v], pending'[v], age'[v]) /\ pending'[v] /\ NoneCurrent(wire'[v])
      BY <3>1, <3>2, Zenon
    <3>4. QED BY <3>3
  <2>3. CASE v \notin Pinged
    BY <1>1, <2>1, <2>3
  <2>4. QED BY <2>2, <2>3
<1>3. /\ pending' \in [Viewer -> BOOLEAN] /\ age' \in [Viewer -> 0 .. Timeout]
      /\ quality' \in [Viewer -> Quality]
  BY <1>1 DEF Quality
<1>4. wire' \in [Viewer -> Seq(Probe)]
  <2>1. \A v \in Viewer : wire'[v] \in Seq(Probe)
    BY <1>2 DEF Flight
  <2>2. QED BY <1>1, <2>1
<1>5. QED BY <1>1, <1>2, <1>3, <1>4

LEMMA NextInv == HealthInv /\ [Next]_vars => HealthInv'
<1> SUFFICES ASSUME HealthInv, [Next]_vars PROVE HealthInv'
  OBVIOUS
<1>1. Session'
  BY SessionSteps
<1>2. CASE UNCHANGED vars
  BY <1>1, <1>2 DEF HealthInv, Rosters, Pings, vars, checkVars, tellVars
<1>3. CASE Tick \/ CheckViewerHealth
  <2>1. Pings'
    BY <1>3, ClockPings, CheckPings
  <2>2. Rosters'
    BY <1>3 DEF HealthInv, Rosters, Tick, CheckViewerHealth, tellVars
  <2>3. QED BY <1>1, <2>1, <2>2 DEF HealthInv
<1>4. ASSUME NEW v \in Viewer, Admit(v) PROVE HealthInv'
  <2>1. Pings'
    BY <1>4 DEF Admit, HealthInv, Pings, checkVars
  <2>2. MustTell(v) /\ viewers' = viewers
    BY <1>4 DEF Admit
  <2>3. Rosters'
    BY <1>1, <2>1, <2>2, TellTyped DEF HealthInv, Session, Pings
  <2>4. QED BY <1>1, <2>1, <2>3 DEF HealthInv
<1>5. ASSUME NEW v \in Viewer, Leave(v) PROVE HealthInv'
  <2>1. Pings'
    BY <1>5, ConnectionPings
  <2>2. MustTell(v) /\ viewers' = viewers
    BY <1>5 DEF Leave
  <2>3. Rosters'
    BY <1>1, <2>1, <2>2, TellTyped DEF HealthInv, Session, Pings
  <2>4. QED BY <1>1, <2>1, <2>3 DEF HealthInv
<1>6. ASSUME NEW v \in Viewer, FallSilent(v) \/ SendPing(v) PROVE HealthInv'
  <2>1. Pings'
    BY <1>6, ConnectionPings
  <2>2. Rosters'
    BY <1>6 DEF HealthInv, Rosters, FallSilent, SendPing, tellVars
  <2>3. QED BY <1>1, <2>1, <2>2 DEF HealthInv
<1>7. ASSUME NEW v \in Viewer, HandlePong(v) PROVE HealthInv'
  <2>1. Pings'
    BY <1>7, HandlePongSteps
  <2>2. viewers' = viewers /\ (MustTell(v) \/ UNCHANGED <<broadcast, draft>>)
    BY <1>7 DEF HandlePong, Arrives, tellVars
  <2>3. Rosters'
    <3>1. CASE MustTell(v)
      BY <1>1, <2>1, <2>2, <3>1, TellTyped DEF HealthInv, Session, Pings
    <3>2. CASE UNCHANGED <<broadcast, draft>>
      BY <2>2, <3>2 DEF HealthInv, Rosters
    <3>3. QED BY <2>2, <3>1, <3>2
  <2>4. QED BY <1>1, <2>1, <2>3 DEF HealthInv
<1>8. ASSUME NEW g \in Goroutine, BroadcastPresence(g) PROVE HealthInv'
  <2>1. Pings'
    BY <1>8 DEF BroadcastPresence, TellHost, SendRoster, HealthInv, Pings, checkVars
  <2>2. CASE TellHost
    <3>1. MustTell(Checker) /\ viewers' = viewers
      BY <2>2 DEF TellHost
    <3>2. Rosters'
      BY <1>1, <2>1, <3>1, TellTyped DEF HealthInv, Session, Pings
    <3>3. QED BY <1>1, <2>1, <3>2 DEF HealthInv
  <2>3. CASE SendRoster(g)
    <3>1. Nobody \in Roster
      BY DEF Nobody, Roster
    <3>2. Rosters'
      BY <2>3, <3>1 DEF SendRoster, HealthInv, Rosters
    <3>3. QED BY <1>1, <2>1, <3>2 DEF HealthInv
  <2>4. QED BY <1>8, <2>2, <2>3 DEF BroadcastPresence
<1>9. QED
  BY <1>2, <1>3, <1>4, <1>5, <1>6, <1>7, <1>8 DEF Next

LEMMA AlwaysInv == Spec => []HealthInv
BY InitInv, NextInv, PTL DEF Spec

\* At most one ping under way has the nonce that is set, it is the newest, and
\* there are never more than a page may leave unanswered.
THEOREM TypeCorrect == Spec => []TypeOK
BY AlwaysInv, InvTypes, PTL

\* The only step by which a ping stops being pending while its viewer stays and
\* its round trip is over a unit is its pong, measured as stalled.
LEMMA StepNeverFlatters ==
  ASSUME HealthInv, [Next]_vars, NEW v \in Viewer,
         member'[v] = "in", pending[v], ~pending'[v], Head(wire[v]).age > 0
  PROVE  quality'[v] = "stalled"
<1>1. HandlePong(v)
  <2>1. ~UNCHANGED vars /\ ~Tick
    BY DEF vars, checkVars, Tick
  <2>2. ~CheckViewerHealth
    BY DEF CheckViewerHealth
  <2>3. ASSUME NEW w \in Viewer
        PROVE  ~Admit(w) /\ ~FallSilent(w) /\ ~SendPing(w)
    BY DEF Admit, FallSilent, SendPing, checkVars
  <2>4. ASSUME NEW w \in Viewer
        PROVE  ~Leave(w)
    <3>1. SUFFICES ASSUME Leave(w) PROVE FALSE
      OBVIOUS
    <3>2. v # w
      BY <3>1 DEF Leave, HealthInv, Session
    <3>3. QED BY <3>1, <3>2 DEF Leave, HealthInv, Pings
  <2>5. ASSUME NEW w \in Viewer, w # v
        PROVE  ~HandlePong(w)
    BY <2>5, HandlePongSteps
  <2>6. ASSUME NEW g \in Goroutine PROVE ~BroadcastPresence(g)
    BY DEF BroadcastPresence, TellHost, SendRoster, checkVars
  <2>7. QED BY <2>1, <2>2, <2>3, <2>4, <2>5, <2>6 DEF Next
<1>2. PICK d \in Delay : /\ quality'[v] = HealthQuality(age[v] * Unit + d)
                         /\ Head(wire[v]).age <= age[v]
  BY <1>1, HandlePongSteps
<1>3. age[v] \in Nat \ {0}
  <2>1. Head(wire[v]) \in Probe
    <3>1. wire[v] # <<>> /\ wire[v] \in Seq(Probe)
      BY <1>1 DEF HandlePong, Arrives, HealthInv, Pings
    <3>2. QED BY <3>1
  <2>2. Head(wire[v]).age \in 0 .. Timeout /\ age[v] \in 0 .. Timeout
    BY <2>1 DEF Probe, HealthInv, Pings
  <2> DEFINE h == Head(wire[v]).age
  <2>3. h > 0 /\ h <= age[v] /\ h \in 0 .. Timeout /\ age[v] \in 0 .. Timeout
    BY <1>2, <2>2
  <2> HIDE DEF h
  <2>4. QED BY <2>3
<1>4. QED BY <1>2, <1>3, MeasuredStalled

\* Whenever a pong arrives, before or after its ping has expired, its viewer is
\* shown to be no better connected than the true round trip was: a pong that took
\* a tick or more never counts for the ping of a later tick.
THEOREM NobodyIsFlattered == Spec => NeverFlattered
<1>1. HealthInv /\ [Next]_vars =>
        [\A v \in Viewer :
           (member'[v] = "in" /\ pending[v] /\ ~pending'[v]
              /\ Head(wire[v]).age > 0) => quality'[v] = "stalled"]_vars
  BY StepNeverFlatters
<1>2. QED BY <1>1, AlwaysInv, PTL DEF Spec, NeverFlattered
=============================================================================
