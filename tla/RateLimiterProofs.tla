------------------------- MODULE RateLimiterProofs -------------------------
(***************************************************************************)
(* What the rate limiter guarantees for any number of attempts, addresses   *)
(* and limits.  Types and the progress of attempts come first; then the     *)
(* count of each address is shown to be the number of its attempts under    *)
(* way, and the bounds on guesses follow from that count.                   *)
(***************************************************************************)
EXTENDS RateLimiter, FiniteSetTheorems, TLAPS

USE LimiterAssumption DEF LimiterAssumption

-----------------------------------------------------------------------------
(* Types.                                                                  *)

LEMMA InitTypeCorrect == Init => TypeOK
<1> SUFFICES ASSUME Init PROVE TypeOK
  OBVIOUS
<1>1. NoEntry \in Entry /\ NoHistory \in History
  BY DEF NoEntry, Entry, NoHistory, History
<1>2. entries \in [Addr -> Entry] /\ history \in [Addr -> History]
  BY <1>1 DEF Init
<1>3. QED BY <1>2 DEF Init, TypeOK

\* An update of one address's entry by another entry.
LEMMA EntryUpdate ==
  ASSUME NEW f \in [Addr -> Entry], NEW x, NEW e, x \in Addr => e \in Entry
  PROVE  [f EXCEPT ![x] = e] \in [Addr -> Entry]
OBVIOUS

\* The limiter's four operations keep every count a natural number; release
\* does because it looks before it takes away.
LEMMA OperationsTyped ==
  ASSUME TypeOK, NEW x
  PROVE  /\ Reserved(x) \in [Addr -> Entry]
         /\ Released(x) \in [Addr -> Entry]
         /\ Failed(x) \in [Addr -> Entry]
         /\ Succeeded(x) \in [Addr -> Entry]
<1> USE EntryUpdate
<1>1. entries \in [Addr -> Entry] /\ now \in Nat
  BY DEF TypeOK
<1>2. Reserved(x) \in [Addr -> Entry]
  <2>1. x \in Addr => [entries[x] EXCEPT !.present = TRUE, !.pending = @ + 1]
                        \in Entry
    BY <1>1 DEF Entry
  <2>2. QED BY <1>1, <2>1 DEF Reserved
<1>3. Released(x) \in [Addr -> Entry]
  <2>1. x \in Addr /\ entries[x].pending > 0 =>
          [entries[x] EXCEPT !.pending = @ - 1] \in Entry
    BY <1>1 DEF Entry
  <2>2. QED BY <1>1, <2>1 DEF Released
<1>4. Failed(x) \in [Addr -> Entry]
  <2> DEFINE until == IF entries[x].fails + 1 >= MaxAttempts
                        THEN now + Cooldown ELSE entries[x].blockedUntil
             e     == [entries[x] EXCEPT !.present = TRUE, !.fails = @ + 1,
                                         !.blockedUntil = until]
  <2>1. x \in Addr => until \in Nat
    BY <1>1 DEF Entry
  <2>2. x \in Addr => e \in Entry
    <3> HIDE DEF until
    <3> QED BY <1>1, <2>1 DEF Entry
  <2>3. Failed(x) = [entries EXCEPT ![x] = e]
    BY <1>1 DEF Failed
  <2>4. QED
    <3> HIDE DEF e
    <3> QED BY <1>1, <2>2, <2>3
<1>5. Succeeded(x) \in [Addr -> Entry]
  <2>1. x \in Addr => [entries[x] EXCEPT !.fails = 0, !.blockedUntil = 0]
                        \in Entry
    BY <1>1 DEF Entry
  <2>2. QED BY <1>1, <2>1 DEF Succeeded
<1>6. QED BY <1>2, <1>3, <1>4, <1>5

LEMMA NextTypeCorrect == TypeOK /\ [Next]_vars => TypeOK'
<1> SUFFICES ASSUME TypeOK, [Next]_vars PROVE TypeOK'
  OBVIOUS
<1> USE DEF TypeOK
<1>1. ASSUME NEW a \in Attempt, ViewerNext(a) PROVE TypeOK'
  BY <1>1, OperationsTyped
  DEF ViewerNext, Refuse, TryReserve, GiveUp, Ask, ReleaseUnwanted, History
<1>2. ASSUME NEW a \in Attempt, Verdict(a) \/ ReleaseDropped(a) PROVE TypeOK'
  BY <1>2, OperationsTyped DEF Verdict, ReleaseDropped
<1>3. CASE RecordFailure
  <2>1. entries' \in [Addr -> Entry]
    BY <1>3, OperationsTyped DEF RecordFailure
  <2>2. history' \in [Addr -> History]
    <3> DEFINE x == from[judged]
               over == IF Blocked(x) THEN history[x].overrun + 1
                                     ELSE history[x].overrun
               h == [streak |-> history[x].streak + 1, last |-> now,
                     overrun |-> over]
    <3>1. x \in Addr => over \in Nat /\ history[x].streak + 1 \in Nat
      BY DEF History
    <3>2. x \in Addr => h \in History
      <4> HIDE DEF over
      <4> QED BY <3>1 DEF History
    <3>3. history' = [history EXCEPT ![x] = h]
      BY <1>3 DEF RecordFailure
    <3>4. QED
      <4> HIDE DEF h
      <4> QED BY <3>2, <3>3
  <2>3. QED BY <1>3, <2>1, <2>2 DEF RecordFailure
<1>4. CASE RecordSuccess
  BY <1>4, OperationsTyped DEF RecordSuccess, History
<1>5. CASE ReleaseJudged
  BY <1>5, OperationsTyped DEF ReleaseJudged
<1>6. CASE KillSwitch \/ KillDone \/ EndSession \/ HostDisconnect
  BY <1>6 DEF KillSwitch, KillDone, EndSession, HostDisconnect
<1>7. CASE ClearSession
  BY <1>7 DEF ClearSession, NoEntry, Entry
<1>8. CASE Tick \/ UNCHANGED vars
  BY <1>8 DEF Tick, vars
<1>9. QED
  BY <1>1, <1>2, <1>3, <1>4, <1>5, <1>6, <1>7, <1>8 DEF Next, HostNext

\* The limiter's entries never hold a negative count, whatever is released
\* and however late, also after the session's entries have been cleared.
THEOREM TypeCorrect == Spec => []TypeOK
<1>1. QED BY InitTypeCorrect, NextTypeCorrect, PTL DEF Spec

-----------------------------------------------------------------------------
(* The progress of an attempt.                                             *)

AttemptsInOrder ==
    /\ \A a \in Attempt : Holds(a) => from[a] \in Addr
    /\ hostPC \in {"recording", "releasing"} =>
          judged \in Attempt /\ pc[judged] = "judged"
    /\ \A a \in Attempt : pc[a] = "judged" =>
          hostPC \in {"recording", "releasing"} /\ judged = a
    /\ \A a \in Attempt : pc[a] = "dropped" => hostPC = "killing"
    /\ hostPC \in {"leaving", "gone"} => closed

\* An attempt under way has an address; the one being judged is the only one;
\* one that was dropped is seen to by the kill switch that dropped it.
THEOREM AttemptsCorrect == Spec => []AttemptsInOrder
<1>1. Init => AttemptsInOrder
  BY DEF Init, AttemptsInOrder, Holds
<1>2. TypeOK /\ AttemptsInOrder /\ [Next]_vars => AttemptsInOrder'
  <2> SUFFICES ASSUME TypeOK, AttemptsInOrder, [Next]_vars
               PROVE  AttemptsInOrder'
    OBVIOUS
  <2> USE DEF TypeOK, AttemptsInOrder, Holds
  <2>1. ASSUME NEW a \in Attempt, ViewerNext(a) PROVE AttemptsInOrder'
    BY <2>1 DEF ViewerNext, Refuse, TryReserve, GiveUp, Ask, ReleaseUnwanted
  <2>2. ASSUME NEW a \in Attempt, Verdict(a) PROVE AttemptsInOrder'
    BY <2>2 DEF Verdict
  <2>3. ASSUME NEW a \in Attempt, ReleaseDropped(a) PROVE AttemptsInOrder'
    BY <2>3 DEF ReleaseDropped
  <2>4. CASE RecordFailure \/ RecordSuccess
    BY <2>4 DEF RecordFailure, RecordSuccess
  <2>5. CASE ReleaseJudged
    BY <2>5 DEF ReleaseJudged
  <2>6. CASE KillSwitch \/ KillDone
    BY <2>6 DEF KillSwitch, KillDone
  <2>7. CASE EndSession \/ HostDisconnect \/ ClearSession
    BY <2>7 DEF EndSession, HostDisconnect, ClearSession
  <2>8. CASE Tick \/ UNCHANGED vars
    BY <2>8 DEF Tick, vars
  <2>9. QED
    BY <2>1, <2>2, <2>3, <2>4, <2>5, <2>6, <2>7, <2>8 DEF Next, HostNext
<1>3. QED BY <1>1, <1>2, TypeCorrect, PTL DEF Spec

-----------------------------------------------------------------------------
(* Counting.                                                               *)

LEMMA HoldingIsFinite == \A x : IsFiniteSet(Holding(x)) /\ Holding(x) \subseteq Attempt
<1> TAKE x
<1>1. Holding(x) \subseteq Attempt
  BY DEF Holding
<1>2. QED BY <1>1, FS_Subset

\* How the attempts of an address change: one takes a place, one gives its
\* place back, or they stay the same.
Places(a, x) == \A y \in Addr :
    Holding(y)' = IF y = x THEN Holding(y) \cup {a} ELSE Holding(y)
Leaves(a) == \A y \in Addr :
    Holding(y)' = IF y = from[a] THEN Holding(y) \ {a} ELSE Holding(y)
Keeps == \A y \in Addr : Holding(y)' = Holding(y)

\* tryReserve adds its attempt to its address.
LEMMA ReservingPlaces ==
  ASSUME TypeOK, NEW a \in Attempt, NEW x \in Addr, TryReserve(a, x)
  PROVE  a \notin Holding(x) /\ Places(a, x)
BY DEF TypeOK, TryReserve, Places, Holding, Holds

\* Each of the three releases takes its attempt from its address.
LEMMA ReleasingLeaves ==
  ASSUME TypeOK, AttemptsInOrder, NEW a \in Attempt,
         \/ ReleaseUnwanted(a) \/ ReleaseDropped(a)
         \/ ReleaseJudged /\ a = judged
  PROVE  /\ from[a] \in Addr /\ a \in Holding(from[a])
         /\ entries' = Released(from[a])
         /\ Leaves(a)
<1> USE DEF TypeOK, AttemptsInOrder, Holding, Holds, Leaves
<1>1. CASE ReleaseUnwanted(a)
  BY <1>1 DEF ReleaseUnwanted
<1>2. CASE ReleaseDropped(a)
  BY <1>2 DEF ReleaseDropped
<1>3. CASE ReleaseJudged /\ a = judged
  BY <1>3 DEF ReleaseJudged
<1>4. QED BY <1>1, <1>2, <1>3

\* The steps that neither reserve nor release.
OtherStep ==
    \/ \E a \in Attempt : \/ \E x \in Addr : Refuse(a, x)
                          \/ GiveUp(a) \/ Ask(a) \/ Verdict(a)
    \/ RecordFailure \/ RecordSuccess
    \/ KillSwitch \/ KillDone
    \/ EndSession \/ HostDisconnect \/ ClearSession
    \/ Tick \/ UNCHANGED vars

\* Whatever else happens to an attempt under way, it stays under way.
LEMMA OthersKeep ==
  ASSUME TypeOK, OtherStep PROVE Keeps
<1> USE DEF TypeOK, Keeps, Holding, Holds
<1>1. ASSUME NEW a \in Attempt, NEW x \in Addr, Refuse(a, x) PROVE Keeps
  BY <1>1 DEF Refuse
<1>2. ASSUME NEW a \in Attempt, GiveUp(a) \/ Ask(a) \/ Verdict(a) PROVE Keeps
  BY <1>2 DEF GiveUp, Ask, Verdict
<1>3. CASE KillSwitch
  BY <1>3 DEF KillSwitch
<1>4. CASE UNCHANGED <<pc, from>>
  BY <1>4
<1>5. QED
  BY <1>1, <1>2, <1>3, <1>4
  DEF OtherStep, RecordFailure, RecordSuccess, KillDone, EndSession,
      HostDisconnect, ClearSession, Tick, vars

\* Every step is one of the three kinds.
LEMMA ThreeKindsOfStep ==
  ASSUME TypeOK, AttemptsInOrder, [Next]_vars
  PROVE  \/ \E a \in Attempt, x \in Addr : TryReserve(a, x)
         \/ \E a \in Attempt : \/ ReleaseUnwanted(a) \/ ReleaseDropped(a)
                               \/ ReleaseJudged /\ a = judged
         \/ OtherStep
<1>1. ReleaseJudged => judged \in Attempt
  BY DEF ReleaseJudged, AttemptsInOrder
<1>2. QED BY <1>1 DEF Next, ViewerNext, HostNext, OtherStep

\* release takes one place from an address that has one reserved.
LEMMA ReleasedCounts ==
  ASSUME TypeOK, NEW x \in Addr, entries[x].present, entries[x].pending > 0
  PROVE  /\ Released(x) \in [Addr -> Entry]
         /\ \A y \in Addr : Released(x)[y] =
              IF y = x THEN [entries[x] EXCEPT !.pending = @ - 1] ELSE entries[y]
<1> DEFINE e == [entries[x] EXCEPT !.pending = @ - 1]
<1>1. entries \in [Addr -> Entry]
  BY DEF TypeOK
<1>2. Released(x) = [entries EXCEPT ![x] = e]
  BY <1>1 DEF Released, Entry
<1>3. \A y \in Addr : Released(x)[y] = IF y = x THEN e ELSE entries[y]
  <2> HIDE DEF e
  <2> QED BY <1>1, <1>2
<1>4. QED BY <1>3, OperationsTyped

-----------------------------------------------------------------------------
(* Reservations and releases match.                                        *)

CountsInOrder ==
    hostPC # "gone" =>
        \A x \in Addr : /\ entries[x].pending <= MaxConcurrent
                        /\ entries[x].pending > 0 => entries[x].present

LimiterInv == TypeOK /\ AttemptsInOrder /\ ReservationsMatch /\ CountsInOrder

\* Reserving an attempt counts it once more.
LEMMA ReserveMatches ==
  ASSUME LimiterInv, NEW a \in Attempt, NEW x \in Addr, TryReserve(a, x)
  PROVE  ReservationsMatch' /\ CountsInOrder'
<1>1. hostPC' = hostPC /\ entries' = Reserved(x) /\ HasRoom(x)
  BY DEF TryReserve
<1>2. a \notin Holding(x) /\ Places(a, x)
  BY ReservingPlaces DEF LimiterInv
<1>3. SUFFICES ASSUME hostPC # "gone", NEW y \in Addr
               PROVE  /\ entries'[y].pending = Cardinality(Holding(y)')
                      /\ entries'[y].pending <= MaxConcurrent
                      /\ entries'[y].pending > 0 => entries'[y].present
  BY <1>1 DEF ReservationsMatch, CountsInOrder
<1>4. /\ entries[y] \in Entry
      /\ entries[y].pending = Cardinality(Holding(y))
      /\ entries[y].pending <= MaxConcurrent
      /\ entries[y].pending > 0 => entries[y].present
  BY <1>3 DEF LimiterInv, TypeOK, ReservationsMatch, CountsInOrder
<1>5. CASE y = x
  <2>1. entries'[y] = [entries[y] EXCEPT !.present = TRUE, !.pending = @ + 1]
    <3> DEFINE e == [entries[y] EXCEPT !.present = TRUE, !.pending = @ + 1]
    <3>1. entries \in [Addr -> Entry]
      BY DEF LimiterInv, TypeOK
    <3>2. Reserved(y) = [entries EXCEPT ![y] = e]
      BY <3>1 DEF Reserved, Entry
    <3>3. entries'[y] = e
      <4> HIDE DEF e
      <4> QED BY <1>1, <1>5, <3>1, <3>2
    <3>4. QED BY <3>3
  <2>2. Cardinality(Holding(y)') = Cardinality(Holding(y)) + 1
    BY <1>2, <1>5, HoldingIsFinite, FS_AddElement DEF Places
  <2>3. QED BY <1>1, <1>4, <1>5, <2>1, <2>2 DEF HasRoom, Entry
<1>6. CASE y # x
  <2>1. entries'[y] = entries[y]
    BY <1>1, <1>6 DEF LimiterInv, TypeOK, Reserved
  <2>2. QED BY <1>2, <1>4, <1>6, <2>1 DEF Places
<1>7. QED BY <1>5, <1>6

\* Each release counts its attempt once less, and finds it counted.
LEMMA ReleaseMatches ==
  ASSUME LimiterInv, hostPC # "gone", NEW a \in Attempt,
         a \in Holding(from[a]), from[a] \in Addr,
         entries' = Released(from[a]), Leaves(a)
  PROVE  ReservationsMatch' /\ CountsInOrder'
<1> DEFINE x == from[a]
<1>1. \A y \in Addr : /\ entries[y] \in Entry
                      /\ entries[y].pending = Cardinality(Holding(y))
                      /\ entries[y].pending <= MaxConcurrent
                      /\ entries[y].pending > 0 => entries[y].present
  BY DEF LimiterInv, TypeOK, ReservationsMatch, CountsInOrder
<1>2. Cardinality(Holding(x)) # 0
  BY HoldingIsFinite, FS_EmptySet
<1>3. entries[x].pending > 0 /\ entries[x].present
  BY <1>1, <1>2 DEF Entry
<1>4. SUFFICES ASSUME NEW y \in Addr
               PROVE  /\ entries'[y].pending = Cardinality(Holding(y)')
                      /\ entries'[y].pending <= MaxConcurrent
                      /\ entries'[y].pending > 0 => entries'[y].present
  BY DEF ReservationsMatch, CountsInOrder
<1>5. CASE y = x
  <2>1. entries'[y] = [entries[y] EXCEPT !.pending = @ - 1]
    BY <1>3, <1>5, ReleasedCounts DEF LimiterInv
  <2>2. Cardinality(Holding(y)') = Cardinality(Holding(y)) - 1
    BY <1>5, HoldingIsFinite, FS_RemoveElement DEF Leaves
  <2>3. QED BY <1>1, <1>3, <1>5, <2>1, <2>2 DEF Entry
<1>6. CASE y # x
  <2>1. entries'[y] = entries[y]
    BY <1>3, <1>6, ReleasedCounts DEF LimiterInv
  <2>2. QED BY <1>1, <1>6, <2>1 DEF Leaves
<1>7. QED BY <1>5, <1>6

\* Nothing else changes a count: verdicts do not, nor does the end.
LEMMA OthersMatch ==
  ASSUME LimiterInv, OtherStep
  PROVE  ReservationsMatch' /\ CountsInOrder'
<1>1. Keeps
  BY OthersKeep DEF LimiterInv
<1>2. SUFFICES ASSUME hostPC' # "gone", NEW y \in Addr
               PROVE  /\ entries'[y].pending = Cardinality(Holding(y)')
                      /\ entries'[y].pending <= MaxConcurrent
                      /\ entries'[y].pending > 0 => entries'[y].present
  BY DEF ReservationsMatch, CountsInOrder
<1>3. hostPC # "gone"
  BY <1>2 DEF OtherStep, Refuse, GiveUp, Ask, Verdict, RecordFailure,
     RecordSuccess, KillSwitch, KillDone, EndSession, HostDisconnect,
     ClearSession, Tick, vars
<1>4. /\ entries[y] \in Entry
      /\ entries[y].pending = Cardinality(Holding(y))
      /\ entries[y].pending <= MaxConcurrent
      /\ entries[y].pending > 0 => entries[y].present
  BY <1>3 DEF LimiterInv, TypeOK, ReservationsMatch, CountsInOrder
<1>5. /\ entries'[y].pending = entries[y].pending
      /\ entries[y].present => entries'[y].present
  <2>1. CASE RecordFailure
    BY <1>4, <2>1 DEF RecordFailure, Failed, LimiterInv, TypeOK, Entry
  <2>2. CASE RecordSuccess
    BY <1>4, <2>2 DEF RecordSuccess, Succeeded, LimiterInv, TypeOK, Entry
  <2>3. CASE entries' = entries
    BY <2>3
  <2>4. QED
    BY <1>2, <2>1, <2>2, <2>3
    DEF OtherStep, Refuse, GiveUp, Ask, Verdict, KillSwitch, KillDone,
        EndSession, HostDisconnect, ClearSession, Tick, vars
<1>6. QED BY <1>1, <1>4, <1>5 DEF Keeps

\* ratelimit.go, tryReserve: every reservation is matched by exactly one
\* release, so while the session lasts an address's count is the number of its
\* attempts under way.
THEOREM ReservationsCorrect == Spec => [](ReservationsMatch /\ CountsInOrder)
<1>1. Init => ReservationsMatch /\ CountsInOrder
  <2> SUFFICES ASSUME Init PROVE ReservationsMatch /\ CountsInOrder
    OBVIOUS
  <2>1. \A x \in Addr : Holding(x) = {} /\ entries[x] = NoEntry
    BY DEF Init, Holding, Holds
  <2>2. QED
    BY <2>1, FS_EmptySet DEF ReservationsMatch, CountsInOrder, NoEntry
<1>2. /\ TypeOK /\ AttemptsInOrder
      /\ ReservationsMatch /\ CountsInOrder
      /\ [Next]_vars
      => (ReservationsMatch /\ CountsInOrder)'
  <2> SUFFICES ASSUME LimiterInv, [Next]_vars
               PROVE  (ReservationsMatch /\ CountsInOrder)'
    BY DEF LimiterInv
  <2>1. CASE \E a \in Attempt, x \in Addr : TryReserve(a, x)
    BY <2>1, ReserveMatches
  <2>2. ASSUME NEW a \in Attempt,
               \/ ReleaseUnwanted(a) \/ ReleaseDropped(a)
               \/ ReleaseJudged /\ a = judged
        PROVE  (ReservationsMatch /\ CountsInOrder)'
    <3>1. CASE hostPC = "gone"
      BY <2>2, <3>1 DEF ReservationsMatch, CountsInOrder, ReleaseUnwanted,
                        ReleaseDropped, ReleaseJudged
    <3>2. CASE hostPC # "gone"
      BY <2>2, <3>2, ReleasingLeaves, ReleaseMatches DEF LimiterInv
    <3>3. QED BY <3>1, <3>2
  <2>3. CASE OtherStep
    BY <2>3, OthersMatch
  <2>4. QED BY <2>1, <2>2, <2>3, ThreeKindsOfStep DEF LimiterInv
<1>3. QED BY <1>1, <1>2, TypeCorrect, AttemptsCorrect, PTL DEF Spec


-----------------------------------------------------------------------------
(* Bounds on the guesses.                                                  *)

Waiting(x) == {a \in Attempt : pc[a] = "waiting" /\ from[a] = x}

\* Never more than MaxConcurrent attempts of one address await a verdict.  An
\* attempt can only begin to wait while the session is open, when it is counted.
THEOREM FloodCorrect == Spec => []HostIsNotFlooded
<1>1. Init => HostIsNotFlooded
  <2> SUFFICES ASSUME Init, NEW x \in Addr
               PROVE  Cardinality(Waiting(x)) <= MaxConcurrent
    BY DEF HostIsNotFlooded, Waiting
  <2>1. Waiting(x) = {}
    BY DEF Init, Waiting
  <2>2. QED BY <2>1, FS_EmptySet
<1>2. /\ TypeOK /\ AttemptsInOrder /\ ReservationsMatch /\ CountsInOrder
      /\ HostIsNotFlooded
      /\ [Next]_vars
      => HostIsNotFlooded'
  <2> SUFFICES ASSUME LimiterInv, HostIsNotFlooded, [Next]_vars, NEW x \in Addr
               PROVE  Cardinality(Waiting(x)') <= MaxConcurrent
    BY DEF HostIsNotFlooded, Waiting, LimiterInv
  <2>1. /\ IsFiniteSet(Waiting(x))
        /\ Cardinality(Waiting(x)) \in Nat
        /\ Cardinality(Waiting(x)) <= MaxConcurrent
    <3>1. Waiting(x) \subseteq Attempt
      BY DEF Waiting
    <3>2. QED BY <3>1, FS_Subset, FS_CardinalityType DEF HostIsNotFlooded, Waiting
  <2>2. ASSUME NEW a \in Attempt, Ask(a)
        PROVE  Cardinality(Waiting(x)') <= MaxConcurrent
    <3>1. Waiting(x)' \subseteq Holding(x)
      BY <2>2 DEF Ask, Waiting, Holding, Holds, LimiterInv, TypeOK
    <3>2. Cardinality(Holding(x)) <= MaxConcurrent /\ Cardinality(Holding(x)) \in Nat
      BY <2>2, HoldingIsFinite, FS_CardinalityType
      DEF Ask, LimiterInv, AttemptsInOrder, ReservationsMatch, CountsInOrder
    <3>3. Cardinality(Waiting(x)') <= Cardinality(Holding(x))
      BY <3>1, HoldingIsFinite, FS_Subset
    <3>4. Cardinality(Waiting(x)') \in Nat
      BY <3>1, HoldingIsFinite, FS_Subset, FS_CardinalityType
    <3>5. QED BY <3>2, <3>3, <3>4
  <2>3. CASE \A a \in Attempt : ~Ask(a)
    <3>1. Waiting(x)' \subseteq Waiting(x)
      BY <2>3
      DEF Next, ViewerNext, HostNext, Refuse, TryReserve, GiveUp,
          ReleaseUnwanted, Verdict, RecordFailure, RecordSuccess,
          ReleaseJudged, KillSwitch, ReleaseDropped, KillDone, EndSession,
          HostDisconnect, ClearSession, Tick, vars, Waiting, LimiterInv, TypeOK
    <3>2. Cardinality(Waiting(x)') <= Cardinality(Waiting(x))
      BY <2>1, <3>1, FS_Subset
    <3>3. Cardinality(Waiting(x)') \in Nat
      BY <2>1, <3>1, FS_Subset, FS_CardinalityType
    <3>4. QED BY <2>1, <3>2, <3>3
  <2>4. QED BY <2>2, <2>3
<1>3. QED
  BY <1>1, <1>2, TypeCorrect, AttemptsCorrect, ReservationsCorrect, PTL DEF Spec


\* The attempts of x whose verdict has not been recorded.
Unrecorded(x) ==
    {a \in Holding(x) : hostPC = "releasing" => a # judged}

GuessesInOrder ==
    hostPC # "gone" =>
        \A x \in Addr :
            /\ history[x].overrun + Cardinality(Unrecorded(x)) <= MaxConcurrent
            /\ Blocked(x) => history[x].overrun + Cardinality(Unrecorded(x))
                                < MaxConcurrent

LEMMA UnrecordedIsFinite ==
  \A x : /\ IsFiniteSet(Unrecorded(x))
         /\ Cardinality(Unrecorded(x)) \in Nat
<1> TAKE x
<1>1. Unrecorded(x) \subseteq Holding(x)
  BY DEF Unrecorded
<1>2. QED BY <1>1, HoldingIsFinite, FS_Subset, FS_CardinalityType


\* A step that records no verdict on x, and gives it no place, only makes the
\* bound easier to keep.
LEMMA QuietStep ==
  ASSUME LimiterInv, GuessesInOrder, NEW x \in Addr,
         hostPC # "gone",
         history'[x].overrun = history[x].overrun,
         Unrecorded(x)' \subseteq Unrecorded(x),
         Blocked(x)' => Blocked(x)
  PROVE  /\ history'[x].overrun + Cardinality(Unrecorded(x)') <= MaxConcurrent
         /\ Blocked(x)' => history'[x].overrun + Cardinality(Unrecorded(x)')
                              < MaxConcurrent
<1>1. /\ Cardinality(Unrecorded(x)') <= Cardinality(Unrecorded(x))
      /\ Cardinality(Unrecorded(x)') \in Nat
  BY UnrecordedIsFinite, FS_Subset, FS_CardinalityType
<1>2. history[x].overrun \in Nat
  BY DEF LimiterInv, TypeOK, History
<1>3. Cardinality(Unrecorded(x)) \in Nat
  BY UnrecordedIsFinite
<1>4. QED BY <1>1, <1>2, <1>3 DEF GuessesInOrder

\* Taking a place happens when x is not blocked, and starts a new count.
LEMMA ReserveBounds ==
  ASSUME LimiterInv, GuessesInOrder, ReservationsMatch', CountsInOrder',
         hostPC # "gone",
         NEW a \in Attempt, NEW x \in Addr, TryReserve(a, x)
  PROVE  GuessesInOrder'
<1>1. SUFFICES ASSUME NEW y \in Addr
      PROVE  /\ history'[y].overrun + Cardinality(Unrecorded(y)') <= MaxConcurrent
             /\ Blocked(y)' => history'[y].overrun + Cardinality(Unrecorded(y)')
                                  < MaxConcurrent
  BY DEF GuessesInOrder
<1>2. entries[y] \in Entry /\ history[y] \in History /\ now' = now
  BY DEF LimiterInv, TypeOK, TryReserve
<1>3. entries'[y].blockedUntil = entries[y].blockedUntil
  BY <1>2 DEF LimiterInv, TypeOK, TryReserve, Reserved, Entry
<1>4. CASE y = x
  <2>1. ~Blocked(y)'
    BY <1>2, <1>3, <1>4 DEF Blocked, TryReserve
  <2>2. history'[y].overrun = 0
    BY <1>4 DEF TryReserve, LimiterInv, TypeOK, History
  <2>3. /\ Unrecorded(y)' \subseteq Holding(y)'
        /\ Cardinality(Holding(y)') <= MaxConcurrent
    BY DEF Unrecorded, ReservationsMatch, CountsInOrder, TryReserve
  <2>4. IsFiniteSet(Holding(y)')
    <3>1. Holding(y)' \subseteq Attempt
      BY DEF Holding
    <3>2. QED BY <3>1, FS_Subset
  <2>5. /\ Cardinality(Unrecorded(y)') <= Cardinality(Holding(y)')
        /\ Cardinality(Unrecorded(y)') \in Nat
        /\ Cardinality(Holding(y)') \in Nat
    BY <2>3, <2>4, FS_Subset, FS_CardinalityType
  <2>6. QED BY <2>1, <2>2, <2>3, <2>5
<1>5. CASE y # x
  <2>1. Unrecorded(y)' \subseteq Unrecorded(y)
    BY <1>5, ReservingPlaces DEF Unrecorded, Places, TryReserve, LimiterInv
  <2>2. history'[y].overrun = history[y].overrun
    BY <1>5 DEF TryReserve, LimiterInv, TypeOK
  <2>3. QED BY <1>2, <1>3, <2>1, <2>2, QuietStep DEF Blocked
<1>6. QED BY <1>4, <1>5

\* A failure recorded while x is blocked uses up an attempt that was under way
\* when the cooldown started; one that starts the cooldown had a place itself.
LEMMA FailureBounds ==
  ASSUME LimiterInv, GuessesInOrder, CooldownStopsGuessing, RecordFailure
  PROVE  GuessesInOrder' /\ CooldownStopsGuessing'
<1> DEFINE x == from[judged]
<1>1. /\ judged \in Attempt /\ x \in Addr /\ hostPC = "recording"
      /\ hostPC' = "releasing" /\ judged' = judged /\ now' = now
      /\ pc' = pc /\ from' = from
  BY DEF RecordFailure, LimiterInv, AttemptsInOrder, Holds
<1>2. \A y \in Addr : entries[y] \in Entry /\ history[y] \in History
  BY DEF LimiterInv, TypeOK
<1>3. judged \in Unrecorded(x)
  BY <1>1 DEF Unrecorded, Holding, Holds, LimiterInv, AttemptsInOrder
<1>4. Unrecorded(x)' = Unrecorded(x) \ {judged}
  BY <1>1 DEF Unrecorded, Holding, Holds
<1>5. Cardinality(Unrecorded(x)') + 1 = Cardinality(Unrecorded(x))
  <2>1. Cardinality(Unrecorded(x) \ {judged}) = Cardinality(Unrecorded(x)) - 1
    BY <1>3, UnrecordedIsFinite, FS_RemoveElement
  <2>2. Cardinality(Unrecorded(x)) \in Nat
    BY UnrecordedIsFinite
  <2>3. QED BY <1>4, <2>1, <2>2
<1>6. history'[x].overrun =
        IF Blocked(x) THEN history[x].overrun + 1 ELSE history[x].overrun
  BY <1>1 DEF RecordFailure, LimiterInv, TypeOK
<1>7. /\ history[x].overrun \in Nat
      /\ Cardinality(Unrecorded(x)) \in Nat
      /\ Cardinality(Unrecorded(x)') \in Nat
  BY <1>1, <1>2, <1>4, UnrecordedIsFinite, FS_RemoveElement, FS_CardinalityType
     DEF History
<1>8. /\ history'[x].overrun + Cardinality(Unrecorded(x)') < MaxConcurrent
      /\ history'[x].overrun < MaxConcurrent
  BY <1>1, <1>5, <1>6, <1>7 DEF GuessesInOrder, CooldownStopsGuessing
<1>9. ASSUME NEW y \in Addr, y # x
      PROVE  /\ history'[y].overrun + Cardinality(Unrecorded(y)') <= MaxConcurrent
             /\ Blocked(y)' => history'[y].overrun + Cardinality(Unrecorded(y)')
                                  < MaxConcurrent
             /\ history'[y].overrun < MaxConcurrent
  <2>1. Unrecorded(y)' \subseteq Unrecorded(y)
    BY <1>1 DEF Unrecorded, Holding, Holds
  <2>2. history'[y] = history[y]
    BY <1>9 DEF RecordFailure, LimiterInv, TypeOK
  <2>3. entries'[y] = entries[y]
    BY <1>9 DEF RecordFailure, Failed, LimiterInv, TypeOK
  <2>4. QED
    BY <1>1, <2>1, <2>2, <2>3, QuietStep DEF Blocked, CooldownStopsGuessing
<1>10. history'[x].overrun + Cardinality(Unrecorded(x)') <= MaxConcurrent
  <2>1. history'[x].overrun + Cardinality(Unrecorded(x)') \in Nat
    BY <1>6, <1>7
  <2>2. QED BY <1>8, <2>1
<1>11. ASSUME NEW y \in Addr
       PROVE  /\ history'[y].overrun + Cardinality(Unrecorded(y)') <= MaxConcurrent
              /\ Blocked(y)' => history'[y].overrun + Cardinality(Unrecorded(y)')
                                   < MaxConcurrent
              /\ history'[y].overrun < MaxConcurrent
  <2>1. CASE y = x
    BY <1>1, <1>8, <1>10, <2>1
  <2>2. CASE y # x
    BY <1>9, <2>2
  <2>3. QED BY <2>1, <2>2
<1>12. QED BY <1>11 DEF GuessesInOrder, CooldownStopsGuessing


\* Every other step records no failure and gives no place.
LEMMA RestBounds ==
  ASSUME LimiterInv, AttemptsInOrder', GuessesInOrder, CooldownStopsGuessing,
         [Next]_vars,
         ~RecordFailure,
         \A a \in Attempt, x \in Addr : ~TryReserve(a, x)
  PROVE  GuessesInOrder' /\ CooldownStopsGuessing'
<1>1. SUFFICES ASSUME NEW y \in Addr
      PROVE  /\ history'[y].overrun < MaxConcurrent
             /\ hostPC' # "gone" =>
                  /\ history'[y].overrun + Cardinality(Unrecorded(y)')
                        <= MaxConcurrent
                  /\ Blocked(y)' =>
                       history'[y].overrun + Cardinality(Unrecorded(y)')
                          < MaxConcurrent
  BY DEF GuessesInOrder, CooldownStopsGuessing
<1>2. history'[y].overrun = history[y].overrun
  <2>1. CASE RecordSuccess
    BY <2>1 DEF RecordSuccess, LimiterInv, TypeOK, History
  <2>2. CASE history' = history
    BY <2>2
  <2>3. QED
    BY <2>1, <2>2
    DEF Next, ViewerNext, HostNext, Refuse, GiveUp, Ask, ReleaseUnwanted,
        Verdict, ReleaseJudged, KillSwitch, ReleaseDropped, KillDone,
        EndSession, HostDisconnect, ClearSession, Tick, vars
<1>3. SUFFICES ASSUME hostPC' # "gone"
               PROVE  /\ hostPC # "gone"
                      /\ Unrecorded(y)' \subseteq Unrecorded(y)
                      /\ Blocked(y)' => Blocked(y)
  BY <1>2, QuietStep DEF CooldownStopsGuessing
<1>4. hostPC # "gone"
  BY <1>3
  DEF Next, ViewerNext, HostNext, Refuse, GiveUp, Ask, ReleaseUnwanted,
      Verdict, RecordSuccess, ReleaseJudged, KillSwitch, ReleaseDropped,
      KillDone, EndSession, HostDisconnect, ClearSession, Tick, vars
<1>5. Unrecorded(y)' \subseteq Unrecorded(y)
  <2> USE DEF Unrecorded, Holding, Holds, LimiterInv, TypeOK
  <2>1. ASSUME NEW a \in Attempt, ViewerNext(a)
        PROVE  Unrecorded(y)' \subseteq Unrecorded(y)
    BY <2>1 DEF ViewerNext, Refuse, GiveUp, Ask, ReleaseUnwanted
  <2>2. ASSUME NEW a \in Attempt, Verdict(a) \/ ReleaseDropped(a)
        PROVE  Unrecorded(y)' \subseteq Unrecorded(y)
    BY <2>2 DEF Verdict, ReleaseDropped
  <2>3. CASE RecordSuccess
    BY <2>3 DEF RecordSuccess
  <2>4. CASE ReleaseJudged
    BY <2>4 DEF ReleaseJudged, AttemptsInOrder
  <2>5. CASE KillSwitch \/ KillDone
    BY <2>5 DEF KillSwitch, KillDone
  <2>6. CASE EndSession \/ HostDisconnect \/ ClearSession
    BY <2>6 DEF EndSession, HostDisconnect, ClearSession
  <2>7. CASE Tick \/ UNCHANGED vars
    BY <2>7 DEF Tick, vars
  <2>8. QED
    BY <2>1, <2>2, <2>3, <2>4, <2>5, <2>6, <2>7 DEF Next, HostNext
<1>6. Blocked(y)' => Blocked(y)
  <2>1. entries[y] \in Entry /\ now \in Nat
    BY DEF LimiterInv, TypeOK
  <2>2. now' = now \/ now' = now + 1
    BY DEF Next, ViewerNext, HostNext, Refuse, GiveUp, Ask, ReleaseUnwanted,
           Verdict, RecordSuccess, ReleaseJudged, KillSwitch, ReleaseDropped,
           KillDone, EndSession, HostDisconnect, ClearSession, Tick, vars
  <2>3. \/ entries'[y].blockedUntil = entries[y].blockedUntil
        \/ entries'[y].blockedUntil = 0
    <3> USE DEF LimiterInv, TypeOK, Entry
    <3>1. ASSUME NEW x, entries' = Released(x)
          PROVE  entries'[y].blockedUntil = entries[y].blockedUntil
      BY <3>1 DEF Released
    <3>2. CASE RecordSuccess
      BY <3>2 DEF RecordSuccess, Succeeded
    <3>3. CASE entries' = entries
      BY <3>3
    <3>4. QED
      BY <1>3, <3>1, <3>2, <3>3
      DEF Next, ViewerNext, HostNext, Refuse, GiveUp, Ask, ReleaseUnwanted,
          Verdict, ReleaseJudged, KillSwitch, ReleaseDropped, KillDone,
          EndSession, HostDisconnect, ClearSession, Tick, vars
  <2>4. QED BY <2>1, <2>2, <2>3 DEF Blocked, Entry
<1>7. QED BY <1>4, <1>5, <1>6

\* Once an address is blocked, fewer than MaxConcurrent more of its attempts
\* can fail, whatever the order of verdicts, releases and the kill switch.
THEOREM GuessesCorrect == Spec => [](CooldownStopsGuessing /\ GuessesInOrder)
<1>1. Init => CooldownStopsGuessing /\ GuessesInOrder
  <2> SUFFICES ASSUME Init PROVE CooldownStopsGuessing /\ GuessesInOrder
    OBVIOUS
  <2>1. \A x \in Addr : Unrecorded(x) = {}
    BY DEF Init, Unrecorded, Holding, Holds
  <2>2. \A x \in Addr : Cardinality(Unrecorded(x)) = 0
    BY <2>1, FS_EmptySet
  <2>3. \A x \in Addr : history[x].overrun = 0 /\ ~Blocked(x)
    BY DEF Init, NoHistory, NoEntry, Blocked
  <2>4. QED BY <2>2, <2>3 DEF CooldownStopsGuessing, GuessesInOrder
<1>2. /\ LimiterInv /\ LimiterInv'
      /\ CooldownStopsGuessing /\ GuessesInOrder
      /\ [Next]_vars
      => (CooldownStopsGuessing /\ GuessesInOrder)'
  <2> SUFFICES ASSUME LimiterInv, LimiterInv', [Next]_vars,
                      CooldownStopsGuessing, GuessesInOrder
               PROVE  (CooldownStopsGuessing /\ GuessesInOrder)'
    OBVIOUS
  <2>1. ASSUME NEW a \in Attempt, NEW x \in Addr, TryReserve(a, x)
        PROVE  (CooldownStopsGuessing /\ GuessesInOrder)'
    <3>1. CooldownStopsGuessing'
      <4> SUFFICES ASSUME NEW y \in Addr PROVE history'[y].overrun < MaxConcurrent
        BY DEF CooldownStopsGuessing
      <4>1. history'[y].overrun = IF y = x THEN 0 ELSE history[y].overrun
        BY <2>1 DEF TryReserve, LimiterInv, TypeOK, History
      <4>2. QED BY <4>1 DEF CooldownStopsGuessing
    <3>2. CASE hostPC = "gone"
      BY <2>1, <3>1, <3>2 DEF TryReserve, GuessesInOrder
    <3>3. CASE hostPC # "gone"
      BY <2>1, <3>1, <3>3, ReserveBounds DEF LimiterInv
    <3>4. QED BY <3>2, <3>3
  <2>2. CASE RecordFailure
    BY <2>2, FailureBounds
  <2>3. CASE ~RecordFailure /\ \A a \in Attempt, x \in Addr : ~TryReserve(a, x)
    BY <2>3, RestBounds DEF LimiterInv
  <2>4. QED BY <2>1, <2>2, <2>3
<1>3. Spec => []LimiterInv
  BY TypeCorrect, AttemptsCorrect, ReservationsCorrect, PTL DEF LimiterInv
<1>4. QED BY <1>1, <1>2, <1>3, PTL DEF Spec


-----------------------------------------------------------------------------
(* When an address is blocked.                                             *)

BlocksInOrder ==
    hostPC # "gone" =>
        \A x \in Addr :
            /\ entries[x].fails = history[x].streak
            /\ entries[x].blockedUntil = IF history[x].streak >= MaxAttempts
                                           THEN history[x].last + Cooldown ELSE 0
            /\ ~entries[x].present => history[x].streak = 0

LEMMA BlocksStep == TypeOK /\ BlocksInOrder /\ [Next]_vars => BlocksInOrder'
<1> SUFFICES ASSUME TypeOK, BlocksInOrder, [Next]_vars,
                    hostPC' # "gone", NEW y \in Addr
    PROVE  /\ entries'[y].fails = history'[y].streak
           /\ entries'[y].blockedUntil = IF history'[y].streak >= MaxAttempts
                                           THEN history'[y].last + Cooldown ELSE 0
           /\ ~entries'[y].present => history'[y].streak = 0
  BY DEF BlocksInOrder
<1>1. hostPC # "gone"
  BY DEF Next, ViewerNext, HostNext, Refuse, TryReserve, GiveUp, Ask,
         ReleaseUnwanted, Verdict, RecordFailure, RecordSuccess, ReleaseJudged,
         KillSwitch, ReleaseDropped, KillDone, EndSession, HostDisconnect,
         ClearSession, Tick, vars
<1>2. /\ entries[y].fails = history[y].streak
      /\ entries[y].blockedUntil = IF history[y].streak >= MaxAttempts
                                     THEN history[y].last + Cooldown ELSE 0
      /\ ~entries[y].present => history[y].streak = 0
      /\ entries[y] \in Entry /\ history[y] \in History
  BY <1>1 DEF BlocksInOrder, TypeOK
<1> USE DEF TypeOK, Entry, History
<1>3. CASE RecordFailure
  BY <1>2, <1>3 DEF RecordFailure, Failed
<1>4. CASE RecordSuccess
  BY <1>2, <1>4 DEF RecordSuccess, Succeeded
<1>5. ASSUME NEW a \in Attempt, NEW x \in Addr, TryReserve(a, x)
      PROVE  /\ entries'[y].fails = entries[y].fails
             /\ entries'[y].blockedUntil = entries[y].blockedUntil
             /\ entries[y].present => entries'[y].present
             /\ history'[y].streak = history[y].streak
             /\ history'[y].last = history[y].last
  BY <1>5 DEF TryReserve, Reserved
<1>6. ASSUME NEW x, entries' = Released(x), history' = history
      PROVE  /\ entries'[y].fails = entries[y].fails
             /\ entries'[y].blockedUntil = entries[y].blockedUntil
             /\ entries[y].present => entries'[y].present
  BY <1>6 DEF Released
<1>7. CASE UNCHANGED <<entries, history>>
  BY <1>2, <1>7
<1>8. QED
  BY <1>1, <1>2, <1>3, <1>4, <1>5, <1>6, <1>7
  DEF Next, ViewerNext, HostNext, Refuse, GiveUp, Ask, ReleaseUnwanted,
      Verdict, ReleaseJudged, KillSwitch, ReleaseDropped, KillDone,
      EndSession, HostDisconnect, ClearSession, Tick, vars

\* protocol.md, Rate limiting: an address is blocked exactly while its last
\* MaxAttempts or more verdicts were failures and the latest of them is less
\* than a cooldown old.
THEOREM BlocksCorrect == Spec => []BlockedExactlyInCooldown
<1>1. Init => BlocksInOrder
  BY DEF Init, BlocksInOrder, NoEntry, NoHistory
<1>2. TypeOK /\ BlocksInOrder => BlockedExactlyInCooldown
  BY DEF TypeOK, BlocksInOrder, BlockedExactlyInCooldown, Blocked, History
<1>3. QED BY <1>1, <1>2, BlocksStep, TypeCorrect, PTL DEF Spec
=============================================================================
