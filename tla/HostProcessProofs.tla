--------------------------- MODULE HostProcessProofs ---------------------------
(***************************************************************************)
(* What is left of a host process when its main goroutine returns, whatever *)
(* came first of signals, the program's end, a lost relay and a failed      *)
(* start: no goroutine that it waits for, no connection and no handle.      *)
(***************************************************************************)
EXTENDS HostProcess, TLAPS

-----------------------------------------------------------------------------
(* The calls of startPTY.                                                  *)

LEMMA StepsOfStart ==
  /\ DOMAIN StartSteps = 1 .. 10 /\ Len(StartSteps) = 10 /\ Len(OpenSteps) = 3
  /\ StartSteps[1] = Step({"inRead", "inWrite"}, {}, {})
  /\ StartSteps[2] = Step({"outRead", "outWrite"}, {}, {"inRead", "inWrite"})
  /\ StartSteps[3] = Step({"console"}, {"inRead", "outWrite"},
                          {"inRead", "outWrite", "inWrite", "outRead"})
  /\ StartSteps[4] = Step({"job"}, {}, {})
  /\ StartSteps[5] = Step({}, {}, {"job"})
  /\ StartSteps[6] = Step({"attributes"}, {}, {"job"})
  /\ StartSteps[7] = Step({}, {}, {"job"})
  /\ StartSteps[8] = Step({"process", "thread"}, {}, {"job"})
  /\ StartSteps[9] = Step({}, {}, {"process", "job"})
  /\ StartSteps[10] = Step({}, Deferred, {"process", "job"})
BY DEF StartSteps, OpenSteps, SpawnSteps

LEMMA WhatCallsDo ==
  /\ StartSteps[1].gets = {"inRead", "inWrite"} /\ StartSteps[1].closes = {}
  /\ StartSteps[2].gets = {"outRead", "outWrite"} /\ StartSteps[2].closes = {}
  /\ StartSteps[3].gets = {"console"} /\ StartSteps[3].closes = {"inRead", "outWrite"}
  /\ StartSteps[4].gets = {"job"} /\ StartSteps[4].closes = {}
  /\ StartSteps[5].gets = {} /\ StartSteps[5].closes = {}
  /\ StartSteps[6].gets = {"attributes"} /\ StartSteps[6].closes = {}
  /\ StartSteps[7].gets = {} /\ StartSteps[7].closes = {}
  /\ StartSteps[8].gets = {"process", "thread"} /\ StartSteps[8].closes = {}
  /\ StartSteps[9].gets = {} /\ StartSteps[9].closes = {}
  /\ StartSteps[10].gets = {} /\ StartSteps[10].closes = {"attributes", "thread"}
BY StepsOfStart DEF Step, Deferred

LEMMA WhatCallsUndo ==
  /\ StartSteps[1].undo = {} /\ StartSteps[2].undo = {"inRead", "inWrite"}
  /\ StartSteps[3].undo = {"inRead", "outWrite", "inWrite", "outRead"}
  /\ StartSteps[4].undo = {}
  /\ \A k \in 5 .. 8 : StartSteps[k].undo = {"job"}
  /\ \A k \in 9 .. 10 : StartSteps[k].undo = {"process", "job"}
<1>1. /\ \A k \in 5 .. 8 : k \in {5, 6, 7, 8}
      /\ \A k \in 9 .. 10 : k \in {9, 10}
  OBVIOUS
<1>2. QED BY <1>1, StepsOfStart DEF Step

Gets(k)   == UNION {StartSteps[i].gets : i \in 1 .. k - 1}
Closes(k) == UNION {StartSteps[i].closes : i \in 1 .. k - 1}

LEMMA NothingMore == \A S : S \cup {} = S
OBVIOUS

\* What the calls take and give back, one call at a time.
LEMMA OneCallMore ==
  ASSUME NEW k \in 1 .. 10
  PROVE  /\ Gets(k + 1) = Gets(k) \cup StartSteps[k].gets
         /\ Closes(k + 1) = Closes(k) \cup StartSteps[k].closes
<1>1. \A i : i \in 1 .. (k + 1) - 1 <=> i \in 1 .. k - 1 \/ i = k
  OBVIOUS
<1>2. QED BY <1>1 DEF Gets, Closes

LEMMA NoCall == Gets(1) = {} /\ Closes(1) = {}
BY DEF Gets, Closes

LEMMA AllCalls ==
  /\ Gets(2) = {"inRead", "inWrite"} /\ Closes(2) = {}
  /\ Gets(3) = {"inRead", "inWrite", "outRead", "outWrite"} /\ Closes(3) = {}
  /\ Gets(4) = {"inRead", "inWrite", "outRead", "outWrite", "console"}
  /\ \A k \in 4 .. 10 : Closes(k) = {"inRead", "outWrite"}
  /\ \A k \in 5 .. 6 : Gets(k) = Gets(4) \cup {"job"}
  /\ \A k \in 7 .. 8 : Gets(k) = Gets(4) \cup {"job", "attributes"}
  /\ \A k \in 9 .. 11 : Gets(k) = Gets(4) \cup {"job", "attributes", "process", "thread"}
  /\ Closes(11) = {"inRead", "outWrite", "attributes", "thread"}
<1>1. \A k \in 1 .. 10 : /\ Gets(k + 1) = Gets(k) \cup StartSteps[k].gets
                         /\ Closes(k + 1) = Closes(k) \cup StartSteps[k].closes
  BY OneCallMore
<1>2. Gets(2) = {"inRead", "inWrite"} /\ Closes(2) = {}
  <2>1. 1 \in 1 .. 10 /\ 1 + 1 = 2
    OBVIOUS
  <2>2. /\ Gets(2) = Gets(1) \cup StartSteps[1].gets
        /\ Closes(2) = Closes(1) \cup StartSteps[1].closes
    BY <1>1, <2>1
  <2>3. QED BY NoCall, <2>2, NothingMore, WhatCallsDo
<1>3. Gets(3) = {"inRead", "inWrite", "outRead", "outWrite"} /\ Closes(3) = {}
  <2>1. 2 \in 1 .. 10 /\ 2 + 1 = 3
    OBVIOUS
  <2>2. /\ Gets(3) = Gets(2) \cup StartSteps[2].gets
        /\ Closes(3) = Closes(2) \cup StartSteps[2].closes
    BY <1>1, <2>1
  <2>3. QED BY <1>2, <2>2, NothingMore, WhatCallsDo
<1>4. /\ Gets(4) = {"inRead", "inWrite", "outRead", "outWrite", "console"}
      /\ Closes(4) = {"inRead", "outWrite"}
  <2>1. 3 \in 1 .. 10 /\ 3 + 1 = 4
    OBVIOUS
  <2>2. /\ Gets(4) = Gets(3) \cup StartSteps[3].gets
        /\ Closes(4) = Closes(3) \cup StartSteps[3].closes
    BY <1>1, <2>1
  <2>3. QED BY <1>3, <2>2, NothingMore, WhatCallsDo
<1>5. Gets(5) = Gets(4) \cup {"job"} /\ Closes(5) = Closes(4)
  <2>1. 4 \in 1 .. 10 /\ 4 + 1 = 5
    OBVIOUS
  <2>2. /\ Gets(5) = Gets(4) \cup StartSteps[4].gets
        /\ Closes(5) = Closes(4) \cup StartSteps[4].closes
    BY <1>1, <2>1
  <2>3. QED BY <2>2, NothingMore, WhatCallsDo
<1>6. Gets(6) = Gets(5) /\ Closes(6) = Closes(5)
  <2>1. 5 \in 1 .. 10 /\ 5 + 1 = 6
    OBVIOUS
  <2>2. /\ Gets(6) = Gets(5) \cup StartSteps[5].gets
        /\ Closes(6) = Closes(5) \cup StartSteps[5].closes
    BY <1>1, <2>1
  <2>3. QED BY <2>2, NothingMore, WhatCallsDo
<1>7. Gets(7) = Gets(6) \cup {"attributes"} /\ Closes(7) = Closes(6)
  <2>1. 6 \in 1 .. 10 /\ 6 + 1 = 7
    OBVIOUS
  <2>2. /\ Gets(7) = Gets(6) \cup StartSteps[6].gets
        /\ Closes(7) = Closes(6) \cup StartSteps[6].closes
    BY <1>1, <2>1
  <2>3. QED BY <2>2, NothingMore, WhatCallsDo
<1>8. Gets(8) = Gets(7) /\ Closes(8) = Closes(7)
  <2>1. 7 \in 1 .. 10 /\ 7 + 1 = 8
    OBVIOUS
  <2>2. /\ Gets(8) = Gets(7) \cup StartSteps[7].gets
        /\ Closes(8) = Closes(7) \cup StartSteps[7].closes
    BY <1>1, <2>1
  <2>3. QED BY <2>2, NothingMore, WhatCallsDo
<1>9. Gets(9) = Gets(8) \cup {"process", "thread"} /\ Closes(9) = Closes(8)
  <2>1. 8 \in 1 .. 10 /\ 8 + 1 = 9
    OBVIOUS
  <2>2. /\ Gets(9) = Gets(8) \cup StartSteps[8].gets
        /\ Closes(9) = Closes(8) \cup StartSteps[8].closes
    BY <1>1, <2>1
  <2>3. QED BY <2>2, NothingMore, WhatCallsDo
<1>10. Gets(10) = Gets(9) /\ Closes(10) = Closes(9)
  <2>1. 9 \in 1 .. 10 /\ 9 + 1 = 10
    OBVIOUS
  <2>2. /\ Gets(10) = Gets(9) \cup StartSteps[9].gets
        /\ Closes(10) = Closes(9) \cup StartSteps[9].closes
    BY <1>1, <2>1
  <2>3. QED BY <2>2, NothingMore, WhatCallsDo
<1>11. Gets(11) = Gets(10) /\ Closes(11) = Closes(10) \cup {"attributes", "thread"}
  <2>1. 10 \in 1 .. 10 /\ 10 + 1 = 11
    OBVIOUS
  <2>2. /\ Gets(11) = Gets(10) \cup StartSteps[10].gets
        /\ Closes(11) = Closes(10) \cup StartSteps[10].closes
    BY <1>1, <2>1
  <2>3. QED BY <2>2, NothingMore, WhatCallsDo
<1>12. /\ \A k \in 4 .. 10 : k \in {4, 5, 6, 7, 8, 9, 10}
       /\ \A k \in 5 .. 6 : k \in {5, 6}
       /\ \A k \in 7 .. 8 : k \in {7, 8}
       /\ \A k \in 9 .. 11 : k \in {9, 10, 11}
  OBVIOUS
<1>13. \A k \in 4 .. 10 : Closes(k) = {"inRead", "outWrite"}
  BY <1>4, <1>5, <1>6, <1>7, <1>8, <1>9, <1>10, <1>12, Zenon
<1>14. /\ \A k \in 5 .. 6 : Gets(k) = Gets(4) \cup {"job"}
       /\ \A k \in 7 .. 8 : Gets(k) = Gets(4) \cup {"job", "attributes"}
  BY <1>5, <1>6, <1>7, <1>8, <1>12
<1>15. \A k \in 9 .. 11 :
         Gets(k) = Gets(4) \cup {"job", "attributes", "process", "thread"}
  <2>1. Gets(9) = Gets(4) \cup {"job", "attributes", "process", "thread"}
    BY <1>5, <1>6, <1>7, <1>8, <1>9
  <2>2. QED BY <1>10, <1>11, <1>12, <2>1, Zenon
<1>16. Closes(11) = {"inRead", "outWrite", "attributes", "thread"}
  BY <1>11, <1>13
<1>17. QED BY <1>2, <1>3, <1>4, <1>13, <1>14, <1>15, <1>16

\* Whichever call of startPTY fails, its error paths give everything back.
THEOREM FailedStartKeepsNothing == \A k \in DOMAIN StartSteps : HeldAfterFailure(k) = {}
<1>1. \A k : HeldBefore(k) = Gets(k) \ Closes(k)
  BY Zenon DEF HeldBefore, Gets, Closes
<1>2. \A k \in 1 .. 3 : ~(k > Len(OpenSteps))
  BY StepsOfStart
<1>3. \A k \in 4 .. 10 : k > Len(OpenSteps)
  BY StepsOfStart
<1>4. HeldAfterFailure(1) = {} /\ HeldAfterFailure(2) = {} /\ HeldAfterFailure(3) = {}
  <2>1. \A k \in 1 .. 3 : HeldAfterFailure(k) = (Gets(k) \ Closes(k)) \ StartSteps[k].undo
    BY <1>1, <1>2 DEF HeldAfterFailure
  <2>2. /\ (Gets(1) \ Closes(1)) \ StartSteps[1].undo = {}
        /\ (Gets(2) \ Closes(2)) \ StartSteps[2].undo = {}
        /\ (Gets(3) \ Closes(3)) \ StartSteps[3].undo = {}
    <3>1. Gets(1) = {} /\ Gets(2) = {"inRead", "inWrite"}
      BY NoCall, AllCalls
    <3>2. Gets(3) = {"inRead", "inWrite", "outRead", "outWrite"}
      BY AllCalls
    <3>3. StartSteps[2].undo = {"inRead", "inWrite"}
      BY WhatCallsUndo
    <3>4. StartSteps[3].undo = {"inRead", "outWrite", "inWrite", "outRead"}
      BY WhatCallsUndo
    <3>5. QED BY <3>1, <3>2, <3>3, <3>4
  <2>3. QED BY <2>1, <2>2
<1>5. HeldAfterFailure(4) = {}
  <2>1. HeldBefore(4) = Gets(4) \ Closes(4)
    BY <1>1
  <2>2. Closes(4) = {"inRead", "outWrite"} /\ 4 > Len(OpenSteps)
    BY <1>3, AllCalls
  <2>3. QED BY <2>1, <2>2, AllCalls DEF HeldAfterFailure, Console
<1>6. ASSUME NEW k \in 5 .. 8 PROVE HeldAfterFailure(k) = {}
  <2>1. HeldBefore(k) = Gets(k) \ Closes(k)
    BY <1>1
  <2>2. k \in 5 .. 6 \/ k \in 7 .. 8
    OBVIOUS
  <2>3. Gets(k) \subseteq Gets(4) \cup {"job", "attributes"}
    BY <2>2, AllCalls
  <2>4. StartSteps[k].undo = {"job"} /\ Closes(k) = {"inRead", "outWrite"}
           /\ k > Len(OpenSteps)
    BY <1>3, AllCalls, WhatCallsUndo
  <2>5. QED BY <2>1, <2>3, <2>4, AllCalls DEF HeldAfterFailure, Console, Deferred
<1>7. ASSUME NEW k \in 9 .. 10 PROVE HeldAfterFailure(k) = {}
  <2>1. HeldBefore(k) = Gets(k) \ Closes(k)
    BY <1>1
  <2>2. Gets(k) = Gets(4) \cup {"job", "attributes", "process", "thread"}
    BY AllCalls
  <2>3. StartSteps[k].undo = {"process", "job"} /\ Closes(k) = {"inRead", "outWrite"}
           /\ k > Len(OpenSteps)
    BY <1>3, AllCalls, WhatCallsUndo
  <2>4. QED BY <2>1, <2>2, <2>3, AllCalls DEF HeldAfterFailure, Console, Deferred
<1>8. \A k \in DOMAIN StartSteps :
        k = 1 \/ k = 2 \/ k = 3 \/ k = 4 \/ k \in 5 .. 8 \/ k \in 9 .. 10
  BY StepsOfStart
<1>9. QED BY <1>4, <1>5, <1>6, <1>7, <1>8

LEMMA WhatIsHeld ==
  HeldWhenStarted = {"inWrite", "outRead", "console", "job", "process"}
<1>1. HeldWhenStarted = HeldBefore(11)
  <2>1. Len(StartSteps) + 1 = 11
    BY StepsOfStart
  <2>2. QED BY <2>1 DEF HeldWhenStarted
<1>2. HeldBefore(11) = Gets(11) \ Closes(11)
  BY Zenon DEF HeldBefore, Gets, Closes
<1>3. Gets(11) = Gets(4) \cup {"job", "attributes", "process", "thread"}
  BY AllCalls
<1>4. /\ Gets(4) = {"inRead", "inWrite", "outRead", "outWrite", "console"}
      /\ Closes(11) = {"inRead", "outWrite", "attributes", "thread"}
  BY AllCalls
<1> HIDE DEF Gets, Closes
<1>5. Gets(11) \ Closes(11) = {"inWrite", "outRead", "console", "job", "process"}
  BY <1>3, <1>4
<1>6. QED BY <1>1, <1>2, <1>5

-----------------------------------------------------------------------------
(* Who is writing.                                                         *)

Place == Sent \cup
  {"start", "copying", "exiting", "join_resize", "close_pty", "stop_soft",
   "join_soft", "join_panic", "close_ws", "join_loop",
   "returned", "waiting", "reading", "typing", "sized", "closing", "done"}

\* Whoever is at a frame is in the queue for it, once; and nobody else is.
Queue ==
    /\ at \in [Goroutine -> Place]
    /\ writers \in Seq(Goroutine)
    /\ \A g \in Goroutine : at[g] \in Sent <=> \E i \in DOMAIN writers : writers[i] = g
    /\ \A i, j \in DOMAIN writers : writers[i] = writers[j] => i = j

\* A goroutine that is not writing goes on to where it does not write.
LEMMA MoveKeepsQueue ==
  ASSUME Queue, NEW g \in Goroutine, NEW pc \in Place \ Sent, at[g] \notin Sent,
         Goto(g, pc), writers' = writers
  PROVE  Queue'
<1>1. at' = [at EXCEPT ![g] = pc]
  BY DEF Goto
<1>2. at' \in [Goroutine -> Place]
  BY <1>1 DEF Queue
<1>3. \A h \in Goroutine : at'[h] \in Sent <=> at[h] \in Sent
  BY <1>1 DEF Queue
<1>4. QED BY <1>2, <1>3 DEF Queue

LEMMA SendKeepsQueue ==
  ASSUME Queue, NEW g \in Goroutine, NEW f \in Sent, at[g] \notin Sent, Send(g, f)
  PROVE  Queue'
<1>1. at' = [at EXCEPT ![g] = f] /\ writers' = Append(writers, g)
  BY DEF Send, Goto
<1>2. at' \in [Goroutine -> Place]
  BY <1>1 DEF Queue, Place
<1>3. writers \in Seq(Goroutine) /\ Len(writers) \in Nat /\ DOMAIN writers = 1 .. Len(writers)
  BY DEF Queue
<1>4. /\ writers' \in Seq(Goroutine) /\ DOMAIN writers' = 1 .. (Len(writers) + 1)
      /\ \A i \in 1 .. Len(writers) : writers'[i] = writers[i]
      /\ writers'[Len(writers) + 1] = g
  BY <1>1, <1>3
<1>5. \A i \in DOMAIN writers : writers[i] # g
  BY DEF Queue
<1>6. \A i \in 1 .. (Len(writers) + 1) : i \in 1 .. Len(writers) \/ i = Len(writers) + 1
  BY <1>3
<1>7. Len(writers) + 1 \in 1 .. (Len(writers) + 1)
        /\ \A i \in 1 .. Len(writers) : i \in 1 .. (Len(writers) + 1)
  BY <1>3
<1>8. \A i, j \in DOMAIN writers' : writers'[i] = writers'[j] => i = j
  BY <1>3, <1>4, <1>5, <1>6 DEF Queue
<1>9. ASSUME NEW h \in Goroutine
      PROVE  at'[h] \in Sent <=> \E i \in DOMAIN writers' : writers'[i] = h
  <2>1. CASE h = g
    BY <1>1, <1>4, <1>7, <2>1 DEF Queue
  <2>2. CASE h # g
    <3>1. at'[h] = at[h]
      BY <1>1, <2>2 DEF Queue
    <3>2. (\E i \in DOMAIN writers' : writers'[i] = h)
             <=> \E i \in DOMAIN writers : writers[i] = h
      BY <1>3, <1>4, <1>6, <1>7, <2>2
    <3>3. QED BY <3>1, <3>2 DEF Queue
  <2>3. QED BY <2>1, <2>2
<1>10. QED BY <1>2, <1>4, <1>8, <1>9 DEF Queue

\* The first in the queue leaves it, and no longer is in it.
LEMMA HeadLeaves ==
  ASSUME Queue, writers # <<>>
  PROVE  /\ Head(writers) \in Goroutine /\ at[Head(writers)] \in Sent
         /\ Tail(writers) \in Seq(Goroutine)
         /\ \A i, j \in DOMAIN Tail(writers) : Tail(writers)[i] = Tail(writers)[j] => i = j
         /\ \A h : (\E i \in DOMAIN Tail(writers) : Tail(writers)[i] = h)
                      <=> h # Head(writers) /\ \E i \in DOMAIN writers : writers[i] = h
<1> DEFINE t == Tail(writers)
           n == Len(writers)
<1>1. /\ writers \in Seq(Goroutine) /\ n \in Nat \ {0} /\ DOMAIN writers = 1 .. n
      /\ Head(writers) = writers[1] /\ Head(writers) \in Goroutine
      /\ \A i, j \in DOMAIN writers : writers[i] = writers[j] => i = j
  BY DEF Queue
<1>2. /\ t \in Seq(Goroutine) /\ DOMAIN t = 1 .. (n - 1)
      /\ \A i \in 1 .. (n - 1) : t[i] = writers[i + 1]
  BY <1>1
<1> HIDE DEF t, n
<1>3. \A i \in 1 .. (n - 1) : i + 1 \in 1 .. n /\ i + 1 # 1
  BY <1>1
<1>4. \A i \in 1 .. n : i = 1 \/ (i - 1 \in 1 .. (n - 1) /\ (i - 1) + 1 = i)
  BY <1>1
<1>5. 1 \in 1 .. n
  BY <1>1
<1>6. at[Head(writers)] \in Sent
  BY <1>1, <1>5 DEF Queue
<1>7. ASSUME NEW i \in DOMAIN t, NEW j \in DOMAIN t, t[i] = t[j] PROVE i = j
  <2>1. i + 1 = j + 1
    BY <1>1, <1>2, <1>3, <1>7
  <2>2. i \in Nat /\ j \in Nat
    BY <1>2
  <2>3. QED BY <2>1, <2>2
<1>8. ASSUME NEW h
      PROVE  (\E i \in DOMAIN t : t[i] = h)
                <=> h # Head(writers) /\ \E i \in DOMAIN writers : writers[i] = h
  <2>1. ASSUME NEW i \in DOMAIN t, t[i] = h
        PROVE  h # Head(writers) /\ \E j \in DOMAIN writers : writers[j] = h
    BY <1>1, <1>2, <1>3, <1>5, <2>1
  <2>2. ASSUME h # Head(writers), NEW i \in DOMAIN writers, writers[i] = h
        PROVE  \E j \in DOMAIN t : t[j] = h
    <3>1. i # 1 /\ i \in 1 .. n
      BY <1>1, <2>2
    <3>2. i - 1 \in 1 .. (n - 1) /\ (i - 1) + 1 = i
      BY <1>4, <3>1
    <3>3. t[i - 1] = h
      BY <1>2, <2>2, <3>2
    <3>4. QED BY <1>2, <3>2, <3>3
  <2>3. QED BY <2>1, <2>2
<1>9. QED BY <1>1, <1>2, <1>6, <1>7, <1>8 DEF t

\* The end of a frame: its writer is where it goes on, or last in the queue again.
LEMMA EndWriteKeepsQueue ==
  ASSUME Queue, NEW g \in Goroutine, EndWrite(g)
  PROVE  /\ Queue' /\ at[g] \in Sent
         /\ \/ Goto(g, AfterWrite(g))
            \/ g = "panic" /\ Goto(g, "end_session")
<1>1. /\ writers # <<>> /\ g = Head(writers) /\ at[g] \in Sent
      /\ Tail(writers) \in Seq(Goroutine)
      /\ \A i, j \in DOMAIN Tail(writers) : Tail(writers)[i] = Tail(writers)[j] => i = j
      /\ \A h : (\E i \in DOMAIN Tail(writers) : Tail(writers)[i] = h)
                   <=> h # g /\ \E i \in DOMAIN writers : writers[i] = h
  BY HeadLeaves DEF EndWrite
<1> DEFINE t == Tail(writers)
<1>2. CASE Goto(g, AfterWrite(g)) /\ writers' = Tail(writers)
  <2>1. AfterWrite(g) \in Place \ Sent
    BY DEF AfterWrite, Place, Sent
  <2>2. at' \in [Goroutine -> Place] /\ at'[g] \notin Sent
    BY <1>2, <2>1 DEF Queue, Goto
  <2>3. \A h \in Goroutine : h # g => at'[h] = at[h]
    BY <1>2 DEF Queue, Goto
  <2>4. ASSUME NEW h \in Goroutine
        PROVE  at'[h] \in Sent <=> \E i \in DOMAIN writers' : writers'[i] = h
    BY <1>1, <1>2, <2>2, <2>3 DEF Queue
  <2>5. QED BY <1>1, <1>2, <2>2, <2>4 DEF Queue
<1>3. CASE /\ g = "panic" /\ Goto(g, "end_session")
           /\ writers' = Append(Tail(writers), g)
  <2>1. /\ t \in Seq(Goroutine) /\ Len(t) \in Nat /\ DOMAIN t = 1 .. Len(t)
    BY <1>1
  <2>2. \A i \in DOMAIN t : t[i] # g
    BY <1>1
  <2>3. \A i, j \in DOMAIN t : t[i] = t[j] => i = j
    BY <1>1
  <2>4. \A h \in Goroutine : (\E i \in DOMAIN t : t[i] = h)
                               <=> h # g /\ at[h] \in Sent
    BY <1>1 DEF Queue
  <2> HIDE DEF t
  <2>5. /\ writers' \in Seq(Goroutine) /\ DOMAIN writers' = 1 .. (Len(t) + 1)
        /\ \A i \in 1 .. Len(t) : writers'[i] = t[i]
        /\ writers'[Len(t) + 1] = g
    BY <1>3, <2>1 DEF t
  <2>6. /\ \A i \in 1 .. (Len(t) + 1) : i \in 1 .. Len(t) \/ i = Len(t) + 1
        /\ Len(t) + 1 \in 1 .. (Len(t) + 1)
        /\ \A i \in 1 .. Len(t) : i \in 1 .. (Len(t) + 1)
    BY <2>1
  <2>7. at' = [at EXCEPT ![g] = "end_session"] /\ "end_session" \in Sent
    BY <1>3 DEF Goto, Sent
  <2>8. at' \in [Goroutine -> Place]
    BY <2>7 DEF Queue, Place
  <2>9. \A i, j \in DOMAIN writers' : writers'[i] = writers'[j] => i = j
    BY <2>1, <2>2, <2>3, <2>5, <2>6
  <2>10. ASSUME NEW h \in Goroutine
         PROVE  at'[h] \in Sent <=> \E i \in DOMAIN writers' : writers'[i] = h
    <3>1. CASE h = g
      BY <2>5, <2>6, <2>7, <3>1 DEF Queue
    <3>2. CASE h # g
      <4>1. at'[h] = at[h]
        BY <2>7, <3>2 DEF Queue
      <4>2. (\E i \in DOMAIN writers' : writers'[i] = h) <=> \E i \in DOMAIN t : t[i] = h
        BY <2>1, <2>5, <2>6, <3>2
      <4>3. QED BY <2>4, <3>2, <4>1, <4>2
    <3>3. QED BY <3>1, <3>2
  <2>11. QED BY <1>1, <1>3, <2>5, <2>8, <2>9, <2>10 DEF Queue
<1>4. QED BY <1>2, <1>3 DEF EndWrite

-----------------------------------------------------------------------------
(* How far main has come, and what is gone by then.                        *)

Running    == {"copying", "output", "exiting"}
PanicDone  == {"end_session", "close_ws", "join_loop", "returned"}
SoftDone   == {"join_panic"} \cup PanicDone
PtyClosed  == {"stop_soft", "join_soft"} \cup SoftDone
ResizeDone == {"close_pty"} \cup PtyClosed
ChildDone  == {"join_resize"} \cup ResizeDone

TakenDown ==
    /\ at["main"] \in {"start"} \cup Running \cup ChildDone
    /\ at["main"] = "start" =>
         /\ child = "none" /\ held = {}
         /\ \A g \in {"kill", "resize", "loop", "keys", "watch"} : at[g] = "done"
    /\ at["main"] \in {"start"} \cup PtyClosed => ~ptyOpen
    /\ at["main"] \in ChildDone => child # "running"
    /\ at["main"] \in {"join_resize", "close_pty"} => at["watch"] = "done"
    /\ at["main"] \in ResizeDone => at["resize"] = "done"
    /\ at["main"] \in SoftDone => at["soft"] = "done"
    /\ at["main"] \in PanicDone => at["panic"] = "done"
    /\ at["main"] \in {"join_loop", "returned"} => net = "closed"
    /\ at["main"] = "returned" => at["loop"] = "done"
    /\ ~relayed => net = "closed" /\ at["loop"] = "done"
    /\ held \subseteq HeldWhenStarted
    /\ at["main"] \in PtyClosed => held = {}
    /\ at["main"] # "start" /\ at["watch"] = "done" => "console" \notin held

Bounds ==
    /\ backend \in {"unix", "windows"} /\ relayed \in BOOLEAN
    /\ net \in {"up", "down", "closed"}
    /\ panicked \in BOOLEAN
    /\ closed \subseteq {"resize", "watch", "soft", "panic", "panicKill"}
    /\ child \in {"none", "running", "exited"} /\ others \in {"none", "group", "apart"}
    /\ output \in {"open", "ended"} /\ ptyOpen \in BOOLEAN
    /\ inside \subseteq {"loop", "resize"}

ProcessInv == Queue /\ Bounds /\ TakenDown

LEMMA InvTypes == ProcessInv => TypeOK
<1> SUFFICES ASSUME ProcessInv PROVE TypeOK
  OBVIOUS
<1>1. held \subseteq UNION {StartSteps[i].gets : i \in DOMAIN StartSteps}
  <2>1. /\ 1 \in DOMAIN StartSteps /\ 2 \in DOMAIN StartSteps /\ 3 \in DOMAIN StartSteps
        /\ 4 \in DOMAIN StartSteps /\ 8 \in DOMAIN StartSteps
    BY StepsOfStart
  <2>2. {"inRead", "inWrite"} \cup {"outRead", "outWrite"} \cup {"console"} \cup {"job"}
           \cup {"process", "thread"}
          \subseteq UNION {StartSteps[i].gets : i \in DOMAIN StartSteps}
    BY <2>1, WhatCallsDo
  <2>3. QED BY <2>2, WhatIsHeld DEF ProcessInv, TakenDown
<1>2. QED BY <1>1 DEF ProcessInv, Queue, Bounds, Place, TypeOK

LEMMA InitInv == Init => ProcessInv
<1> SUFFICES ASSUME Init PROVE ProcessInv
  OBVIOUS
<1>1. Queue
  BY DEF Init, Queue, Place, Sent, Goroutine, Joined
<1>2. Bounds
  BY DEF Init, Bounds
<1>3. TakenDown
  BY DEF Init, TakenDown, Running, PanicDone, SoftDone, PtyClosed, ResizeDone, ChildDone,
         Goroutine, Joined
<1>4. QED BY <1>1, <1>2, <1>3 DEF ProcessInv

\* The steps of goroutines other than main that do not touch what main waits
\* for: nobody who is done goes on.
LEMMA OthersKeep ==
  ASSUME ProcessInv, NEW g \in Goroutine \ {"main"}, NEW pc \in Place,
         at[g] # "done", Goto(g, pc),
         UNCHANGED <<relayed, ptyOpen>>,
         child' = child \/ (g = "kill" /\ child' = "exited"),
         held' = held \/ held' = held \ {"console"},
         net' = net \/ net' = "closed",
         g = "watch" => pc # "done" \/ held' = held \ {"console"}
  PROVE  TakenDown'
<1>1. at' = [at EXCEPT ![g] = pc] /\ at \in [Goroutine -> Place]
  BY DEF Goto, ProcessInv, Queue
<1>2. /\ \A h \in Goroutine : h # g => at'[h] = at[h]
      /\ \A h \in Goroutine : at[h] = "done" => at'[h] = "done"
      /\ at'["main"] = at["main"] /\ at'[g] = pc
  BY <1>1 DEF Goroutine, Joined
<1>3. \A h \in {"kill", "resize", "loop", "keys", "watch", "soft", "panic"} :
        h \in Goroutine
  BY DEF Goroutine, Joined
<1>4. at["main"] # "start" \/ g \notin {"kill", "resize", "loop", "keys", "watch"}
  BY DEF ProcessInv, TakenDown
<1>5. at["main"] = "start" => child' = "none" /\ held' = {}
  BY <1>4 DEF ProcessInv, TakenDown
<1>6. child # "running" => child' # "running"
  OBVIOUS
<1>7. held' \subseteq held /\ (held = {} => held' = {})
  OBVIOUS
<1>8. at'["main"] # "start" /\ at'["watch"] = "done" => "console" \notin held'
  <2>1. CASE g = "watch"
    BY <1>2, <2>1 DEF ProcessInv, TakenDown
  <2>2. CASE g # "watch"
    BY <1>2, <1>3, <1>7, <2>2 DEF ProcessInv, TakenDown
  <2>3. QED BY <2>1, <2>2
<1>9. net = "closed" => net' = "closed"
  OBVIOUS
<1>10. at["main"] = "start" =>
         \A h \in {"kill", "resize", "loop", "keys", "watch"} : at'[h] = "done"
  BY <1>2, <1>3 DEF ProcessInv, TakenDown
<1>11. QED
  BY <1>2, <1>3, <1>5, <1>6, <1>7, <1>8, <1>9, <1>10 DEF ProcessInv, TakenDown

-----------------------------------------------------------------------------
(* Steps.                                                                  *)

LEMMA NextBounds ==
  ASSUME ProcessInv, [Next]_vars
  PROVE  Bounds'
<1> USE DEF ProcessInv, Bounds, netVars, ptyVars
<1>1. CASE UNCHANGED vars
  BY <1>1 DEF vars
<1>2. ASSUME NEW g \in Goroutine, EndWrite(g) \/ Stop(g) PROVE Bounds'
  BY <1>2 DEF EndWrite, Stop
<1>3. ASSUME NEW g \in {"loop", "resize"}, EnterResize(g) \/ LeaveResize(g)
      PROVE  Bounds'
  BY <1>3 DEF EnterResize, LeaveResize
<1>4. CASE LoseRelay \/ StartFails \/ Copy \/ OutputEnds
  BY <1>4 DEF LoseRelay, StartFails, Copy, OutputEnds
<1>5. CASE Start
  <2>1. others' \in {"none", "group", "apart"}
    BY <1>5 DEF Start
  <2>2. QED BY <1>5, <2>1 DEF Start
<1>6. CASE Main \/ CloseRelay("panic")
  <2>1. CASE Main
    <3>1. /\ UNCHANGED <<backend, relayed, panicked, child, others, output, inside>>
          /\ net' \in {net, "closed"} /\ ptyOpen' \in BOOLEAN
          /\ closed' \subseteq {"resize", "watch", "soft", "panic", "panicKill"}
      BY <2>1 DEF Main, CopyEnds, Wait, JoinResize, ClosePty, StopSoft, JoinSoft,
                  JoinPanic, CloseRelay, JoinLoop, CloseChan
    <3>2. net' \in {"up", "down", "closed"}
      BY <3>1
    <3>3. QED BY <3>1, <3>2
  <2>2. CASE CloseRelay("panic")
    BY <2>2 DEF CloseRelay
  <2>3. QED BY <1>6, <2>1, <2>2
<1>7. CASE PanicSignal \/ ClosePanicKill \/ SoftSignal \/ KillTree
  <2>1. CASE PanicSignal \/ ClosePanicKill \/ SoftSignal
    BY <2>1 DEF PanicSignal, ClosePanicKill, SoftSignal, CloseChan
  <2>2. CASE KillTree
    BY <2>2 DEF KillTree
  <2>3. QED BY <1>7, <2>1, <2>2
<1>8. CASE \/ Exit \/ OthersExit \/ WatchConsole
           \/ ResizeEvent \/ ReadFrame \/ Typed \/ LoopEnds \/ TypeReclaim
  BY <1>8 DEF Exit, OthersExit, WatchConsole, ResizeEvent, ReadFrame, Typed, LoopEnds,
              TypeReclaim
<1>9. QED BY <1>1, <1>2, <1>3, <1>4, <1>5, <1>6, <1>7, <1>8 DEF Next

\* One goroutine goes on, and writes or does not.
Steps(g, pc) ==
    /\ at[g] \notin Sent
    /\ \/ pc \in Place \ Sent /\ Goto(g, pc) /\ writers' = writers
       \/ pc \in Sent /\ Send(g, pc)

LEMMA StepsKeepQueue ==
  ASSUME Queue, NEW g \in Goroutine, NEW pc, Steps(g, pc)
  PROVE  Queue' /\ at' = [at EXCEPT ![g] = pc] /\ pc \in Place
BY MoveKeepsQueue, SendKeepsQueue DEF Steps, Send, Goto, Place

\* The steps of goroutines other than main, and of the wrapped program.
LEMMA OthersStep ==
  ASSUME ProcessInv, NEW g \in Goroutine \ {"main"}, NEW pc, Steps(g, pc),
         at[g] # "done", UNCHANGED <<relayed, ptyOpen>>,
         child' = child \/ (g = "kill" /\ child' = "exited"),
         held' = held \/ held' = held \ {"console"},
         net' = net \/ net' = "closed",
         g = "watch" => pc # "done" \/ held' = held \ {"console"}
  PROVE  Queue' /\ TakenDown'
<1>1. Queue' /\ pc \in Place /\ at' = [at EXCEPT ![g] = pc]
  BY StepsKeepQueue DEF ProcessInv
<1>2. Goto(g, pc)
  BY <1>1 DEF Goto
<1>3. QED BY <1>1, <1>2, OthersKeep

LEMMA SignalSteps ==
  ASSUME ProcessInv,
         \/ PanicSignal \/ CloseRelay("panic") \/ ClosePanicKill \/ SoftSignal \/ KillTree
         \/ ResizeEvent \/ ReadFrame \/ Typed \/ LoopEnds \/ TypeReclaim \/ WatchConsole
  PROVE  Queue' /\ TakenDown'
<1> USE DEF netVars, ptyVars, Goroutine, Joined
<1>1. CASE PanicSignal
  <2>1. Steps("panic", IF relayed THEN "kill_switch" ELSE "closing")
    BY <1>1 DEF PanicSignal, Steps, Sent, Place
  <2>2. QED BY <1>1, <2>1, OthersStep DEF PanicSignal
<1>2. CASE CloseRelay("panic")
  <2>1. Steps("panic", "closing")
    BY <1>2 DEF CloseRelay, Steps, Sent, Place
  <2>2. QED BY <1>2, <2>1, OthersStep DEF CloseRelay
<1>3. CASE ClosePanicKill
  <2>1. Steps("panic", "done")
    BY <1>3 DEF ClosePanicKill, Steps, Sent, Place
  <2>2. QED BY <1>3, <2>1, OthersStep DEF ClosePanicKill
<1>4. CASE SoftSignal
  <2>1. PICK f \in {"take_control", "kill_switch"} : Send("soft", f)
    BY <1>4 DEF SoftSignal
  <2>2. Steps("soft", f)
    BY <1>4, <2>1 DEF SoftSignal, Steps, Sent
  <2>3. QED BY <1>4, <2>2, OthersStep DEF SoftSignal
<1>5. CASE KillTree
  <2>1. Steps("kill", "done")
    BY <1>5 DEF KillTree, Steps, Sent, Place
  <2>2. QED BY <1>5, <2>1, OthersStep DEF KillTree
<1>6. CASE ResizeEvent
  <2>1. Steps("resize", IF relayed THEN "host_size" ELSE "sized")
    BY <1>6 DEF ResizeEvent, Steps, Sent, Place
  <2>2. QED BY <1>6, <2>1, OthersStep DEF ResizeEvent
<1>7. CASE ReadFrame
  <2>1. PICK pc \in {"auth_response", "typing", "sized"} : Steps("loop", pc)
    BY <1>7 DEF ReadFrame, Steps, Sent, Place
  <2>2. QED BY <1>7, <2>1, OthersStep DEF ReadFrame
<1>8. CASE Typed
  <2>1. Steps("loop", "reading")
    BY <1>8 DEF Typed, Steps, Sent, Place
  <2>2. QED BY <1>8, <2>1, OthersStep DEF Typed
<1>9. CASE LoopEnds
  <2>1. Steps("loop", "done")
    BY <1>9 DEF LoopEnds, Steps, Sent, Place
  <2>2. QED BY <1>9, <2>1, OthersStep DEF LoopEnds
<1>10. CASE TypeReclaim
  <2>1. Steps("keys", "take_control")
    BY <1>10 DEF TypeReclaim, Steps, Sent
  <2>2. QED BY <1>10, <2>1, OthersStep DEF TypeReclaim
<1>11. CASE WatchConsole
  <2>1. Steps("watch", "done")
    BY <1>11 DEF WatchConsole, Steps, Sent, Place
  <2>2. QED BY <1>11, <2>1, OthersStep DEF WatchConsole, ClosedByWatch
<1>12. QED
  BY <1>1, <1>2, <1>3, <1>4, <1>5, <1>6, <1>7, <1>8, <1>9, <1>10, <1>11

LEMMA ResizeAndStopSteps ==
  ASSUME ProcessInv,
         \/ \E g \in Goroutine : Stop(g)
         \/ \E g \in {"loop", "resize"} : LeaveResize(g)
  PROVE  Queue' /\ TakenDown'
<1> USE DEF netVars, ptyVars, Goroutine, Joined
<1>1. ASSUME NEW g \in Goroutine, Stop(g) PROVE Queue' /\ TakenDown'
  <2>1. g \in {"panic", "soft", "resize", "kill"}
    BY <1>1 DEF Stop, StopChannel
  <2>2. Steps(g, "done")
    BY <1>1 DEF Stop, Steps, Sent, Place
  <2>3. QED BY <1>1, <2>1, <2>2, OthersStep DEF Stop
<1>2. ASSUME NEW g \in {"loop", "resize"}, LeaveResize(g) PROVE Queue' /\ TakenDown'
  <2>1. Steps(g, IF g = "loop" THEN "reading" ELSE "waiting")
    BY <1>2 DEF LeaveResize, Steps, Sent, Place
  <2>2. QED BY <1>2, <2>1, OthersStep DEF LeaveResize
<1>3. QED BY <1>1, <1>2

\* Nobody moves.
LEMMA StillSteps ==
  ASSUME ProcessInv,
         \/ \E g \in {"loop", "resize"} : EnterResize(g)
         \/ LoseRelay \/ OutputEnds \/ Exit \/ OthersExit \/ UNCHANGED vars
  PROVE  Queue' /\ TakenDown'
<1> USE DEF ProcessInv, netVars, ptyVars
<1>1. UNCHANGED <<at, writers, relayed, held, ptyOpen>>
  BY DEF EnterResize, LoseRelay, OutputEnds, Exit, OthersExit, vars
<1>2. /\ net' = net \/ (net = "up" /\ net' = "down")
      /\ child' = child \/ (child = "running" /\ child' = "exited")
  BY DEF EnterResize, LoseRelay, OutputEnds, Exit, OthersExit, vars
<1>3. Queue'
  BY <1>1 DEF Queue
<1>4. TakenDown'
  BY <1>1, <1>2 DEF TakenDown
<1>5. QED BY <1>3, <1>4

LEMMA EndWriteStep ==
  ASSUME ProcessInv, NEW g \in Goroutine, EndWrite(g)
  PROVE  Queue' /\ TakenDown'
<1>1. /\ Queue' /\ at[g] \in Sent
      /\ Goto(g, AfterWrite(g)) \/ (g = "panic" /\ Goto(g, "end_session"))
  BY EndWriteKeepsQueue DEF ProcessInv
<1>2. /\ UNCHANGED <<relayed, net, child, held, ptyOpen>>
  BY DEF EndWrite, ptyVars
<1>3. AfterWrite(g) \in Place \ {"done"} /\ "end_session" \in Place \ {"done"}
  BY DEF AfterWrite, Place, Sent
<1>4. CASE g # "main"
  <2>1. at[g] # "done"
    BY <1>1 DEF Sent
  <2>2. QED BY <1>1, <1>2, <1>3, <1>4, <2>1, OthersKeep
<1>5. CASE g = "main"
  <2>1. at["main"] = "output" \/ at["main"] = "end_session"
    BY <1>1, <1>5 DEF ProcessInv, TakenDown, Sent, Running, ChildDone, ResizeDone,
       PtyClosed, SoftDone, PanicDone
  <2>2. at' = [at EXCEPT !["main"] = IF at["main"] = "output" THEN "copying" ELSE "close_ws"]
    BY <1>1, <1>5 DEF AfterWrite, Goto
  <2>3. \A h \in Goroutine \ {"main"} : at'[h] = at[h]
    BY <2>2 DEF ProcessInv, Queue
  <2>4. at'["main"] = IF at["main"] = "output" THEN "copying" ELSE "close_ws"
    BY <1>5, <2>2 DEF ProcessInv, Queue
  <2>5. TakenDown'
    BY <1>2, <2>1, <2>3, <2>4 DEF ProcessInv, TakenDown, Running, ChildDone, ResizeDone,
       PtyClosed, SoftDone, PanicDone, Goroutine, Joined
  <2>6. QED BY <1>1, <2>5
<1>6. QED BY <1>4, <1>5

\* A step of main leaves the places of the others alone.
LEMMA MainMoves ==
  ASSUME ProcessInv, NEW pc, Steps("main", pc)
  PROVE  /\ Queue' /\ at'["main"] = pc
         /\ \A g \in {"kill", "resize", "loop", "keys", "watch", "soft", "panic"} :
              at'[g] = at[g]
<1>1. Queue' /\ at' = [at EXCEPT !["main"] = pc]
  BY StepsKeepQueue DEF ProcessInv, Goroutine
<1>2. QED BY <1>1 DEF ProcessInv, Queue, Goroutine, Joined

LEMMA StartFailsStep == ProcessInv /\ StartFails => Queue' /\ TakenDown'
<1> SUFFICES ASSUME ProcessInv, StartFails PROVE Queue' /\ TakenDown'
  OBVIOUS
<1> USE DEF ProcessInv, TakenDown, Running, ChildDone, ResizeDone, PtyClosed, SoftDone,
            PanicDone, netVars
<1>1. Steps("main", "stop_soft")
  BY DEF StartFails, Steps, Sent, Place
<1>2. held' = {}
  BY FailedStartKeepsNothing DEF StartFails
<1>3. /\ Queue' /\ at'["main"] = "stop_soft" /\ at["main"] = "start"
      /\ \A g \in {"kill", "resize", "loop", "keys", "watch", "soft", "panic"} :
           at'[g] = at[g]
  BY <1>1, MainMoves DEF StartFails
<1>4. UNCHANGED <<relayed, net, child, ptyOpen>>
  BY DEF StartFails
<1>5. QED BY <1>2, <1>3, <1>4

LEMMA StartStep == ProcessInv /\ Start => Queue' /\ TakenDown'
<1> SUFFICES ASSUME ProcessInv, Start PROVE Queue' /\ TakenDown'
  OBVIOUS
<1>1. PICK terminal \in BOOLEAN :
         at' = [at EXCEPT !["main"]   = "copying",
                          !["kill"]   = "waiting",
                          !["resize"] = IF terminal THEN "waiting" ELSE "done",
                          !["loop"]   = IF relayed THEN "reading" ELSE "done",
                          !["keys"]   = IF relayed THEN "reading" ELSE "done",
                          !["watch"]  = IF backend = "windows" THEN "waiting" ELSE "done"]
  BY DEF Start
<1>2. at["main"] = "start"
        /\ \A g \in {"kill", "resize", "loop", "keys", "watch"} : at[g] = "done"
  BY DEF Start, ProcessInv, TakenDown
<1>3. at' \in [Goroutine -> Place] /\ \A g \in Goroutine : at'[g] \in Sent <=> at[g] \in Sent
  BY <1>1, <1>2 DEF ProcessInv, Queue, Place, Sent, Goroutine, Joined
<1>4. Queue'
  BY <1>3 DEF Start, netVars, ProcessInv, Queue
<1>5. /\ at'["main"] = "copying" /\ (~relayed => at'["loop"] = "done")
      /\ at'["watch"] = IF backend = "windows" THEN "waiting" ELSE "done"
  BY <1>1 DEF ProcessInv, Queue, Goroutine, Joined
<1>6. held' \subseteq HeldWhenStarted /\ (at'["watch"] = "done" => held' = {})
  BY <1>5 DEF Start
<1>7. UNCHANGED <<relayed, net>>
  BY DEF Start, netVars
<1>8. QED
  BY <1>4, <1>5, <1>6, <1>7 DEF ProcessInv, TakenDown, Running, ChildDone, ResizeDone,
     PtyClosed, SoftDone, PanicDone

LEMMA MainSteps ==
  ASSUME ProcessInv, Copy \/ Main
  PROVE  Queue' /\ TakenDown'
<1> USE DEF ProcessInv, TakenDown, Running, ChildDone, ResizeDone, PtyClosed, SoftDone,
            PanicDone, netVars, ptyVars
<1>0. ASSUME NEW pc, Steps("main", pc),
             UNCHANGED <<relayed, child, held, ptyOpen>>,
             net' = net \/ net' = "closed",
             \/ at["main"] = "copying" /\ pc \in {"output", "exiting"}
             \/ at["main"] = "exiting" /\ pc = "join_resize" /\ child # "running"
                  /\ at["watch"] = "done"
             \/ at["main"] = "join_resize" /\ pc = "close_pty" /\ at["resize"] = "done"
             \/ at["main"] = "stop_soft" /\ pc = "join_soft"
             \/ at["main"] = "join_soft" /\ pc = "join_panic" /\ at["soft"] = "done"
             \/ at["main"] = "join_panic" /\ pc = "end_session" /\ at["panic"] = "done"
             \/ at["main"] = "join_panic" /\ pc = "returned" /\ at["panic"] = "done"
                  /\ ~relayed
             \/ at["main"] = "close_ws" /\ pc = "join_loop" /\ net' = "closed"
             \/ at["main"] = "join_loop" /\ pc = "returned" /\ at["loop"] = "done"
      PROVE  Queue' /\ TakenDown'
  <2>1. /\ Queue' /\ at'["main"] = pc
        /\ \A g \in {"kill", "resize", "loop", "keys", "watch", "soft", "panic"} :
             at'[g] = at[g]
    BY <1>0, MainMoves
  <2>2. QED BY <1>0, <2>1
<1>1. CASE Copy
  <2>1. Steps("main", "output")
    BY <1>1 DEF Copy, Steps, Sent
  <2>2. QED BY <1>0, <1>1, <2>1 DEF Copy
<1>2. CASE CopyEnds
  <2>1. Steps("main", "exiting")
    BY <1>2 DEF CopyEnds, Steps, Sent, Place
  <2>2. QED BY <1>0, <1>2, <2>1 DEF CopyEnds
<1>3. CASE Wait
  <2>1. Steps("main", "join_resize")
    BY <1>3 DEF Wait, Steps, Sent, Place
  <2>2. QED BY <1>0, <1>3, <2>1 DEF Wait
<1>4. CASE JoinResize
  <2>1. Steps("main", "close_pty")
    BY <1>4 DEF JoinResize, Steps, Sent, Place
  <2>2. QED BY <1>0, <1>4, <2>1 DEF JoinResize
<1>5. CASE ClosePty
  <2>1. Steps("main", "stop_soft")
    BY <1>5 DEF ClosePty, Steps, Sent, Place
  <2>2. held' = {}
    BY <1>5, WhatIsHeld DEF ClosePty, ClosedByClose
  <2>3. /\ Queue' /\ at'["main"] = "stop_soft" /\ at["main"] = "close_pty"
        /\ \A g \in {"kill", "resize", "loop", "keys", "watch", "soft", "panic"} :
             at'[g] = at[g]
    BY <1>5, <2>1, MainMoves DEF ClosePty
  <2>4. UNCHANGED <<relayed, net, child>> /\ ~ptyOpen'
    BY <1>5 DEF ClosePty
  <2>5. QED BY <2>2, <2>3, <2>4
<1>6. CASE StopSoft
  <2>1. Steps("main", "join_soft")
    BY <1>6 DEF StopSoft, Steps, Sent, Place
  <2>2. QED BY <1>0, <1>6, <2>1 DEF StopSoft
<1>7. CASE JoinSoft
  <2>1. Steps("main", "join_panic")
    BY <1>7 DEF JoinSoft, Steps, Sent, Place
  <2>2. QED BY <1>0, <1>7, <2>1 DEF JoinSoft
<1>8. CASE JoinPanic /\ relayed
  <2>1. Steps("main", "end_session")
    BY <1>8 DEF JoinPanic, Steps, Sent
  <2>2. QED BY <1>0, <1>8, <2>1 DEF JoinPanic
<1>9. CASE JoinPanic /\ ~relayed
  <2>1. Steps("main", "returned")
    BY <1>9 DEF JoinPanic, Steps, Sent, Place
  <2>2. QED BY <1>0, <1>9, <2>1 DEF JoinPanic
<1>10. CASE CloseRelay("main")
  <2>1. Steps("main", "join_loop")
    BY <1>10 DEF CloseRelay, Steps, Sent, Place
  <2>2. QED BY <1>0, <1>10, <2>1 DEF CloseRelay
<1>11. CASE JoinLoop
  <2>1. Steps("main", "returned")
    BY <1>11 DEF JoinLoop, Steps, Sent, Place
  <2>2. QED BY <1>0, <1>11, <2>1 DEF JoinLoop
<1>12. QED
  BY <1>1, <1>2, <1>3, <1>4, <1>5, <1>6, <1>7, <1>8, <1>9, <1>10, <1>11 DEF Main

LEMMA NextInv == ProcessInv /\ [Next]_vars => ProcessInv'
<1> SUFFICES ASSUME ProcessInv, [Next]_vars PROVE ProcessInv'
  OBVIOUS
<1>1. Queue' /\ TakenDown'
  BY SignalSteps, ResizeAndStopSteps, StillSteps, EndWriteStep, StartFailsStep, StartStep,
     MainSteps DEF Next
<1>2. QED BY <1>1, NextBounds DEF ProcessInv

LEMMA AlwaysInv == Spec => []ProcessInv
BY InitInv, NextInv, PTL DEF Spec

\* The goroutines that write are exactly those in the queue for the connection,
\* and each is in it once, however many write at a time.
THEOREM TypeCorrect == Spec => []TypeOK
BY AlwaysInv, InvTypes, PTL

\* When the main goroutine returns, after an exit of the program, a signal, a lost
\* relay or a start that failed at whichever call, everything it waits for has
\* ended and everything it took has been given back.
THEOREM NothingStays == Spec => []NothingIsLeftBehind
<1>1. ProcessInv => NothingIsLeftBehind
  BY DEF ProcessInv, TakenDown, NothingIsLeftBehind, Joined, ChildDone, ResizeDone,
         PtyClosed, SoftDone, PanicDone
<1>2. QED BY <1>1, AlwaysInv, PTL
=============================================================================
