------------------------- MODULE ControlPlaneProofs -------------------------
(***************************************************************************)
(* What holds for any number of viewers, sizes and queued frames, whatever  *)
(* goroutine overtakes which.  The grid, and the way of the host's window   *)
(* size to the relay.  The gate of the host's keyboard: the argument        *)
(* follows the relay's last word about the writer, which is unwritten, or   *)
(* in the socket, or read by the host.  It is the last one the host will    *)
(* read unless the words of two changes were unwritten at the same time,    *)
(* which is what crossed records.                                           *)
(***************************************************************************)
EXTENDS ControlPlane, TLAPS

USE PlaneAssumption DEF PlaneAssumption

-----------------------------------------------------------------------------
(* Types.                                                                  *)

LEMMA FramesTyped ==
  ASSUME NEW w \in Writer, NEW s \in Size
  PROVE  /\ ControlChanged(w, s) \in FrameToHost
         /\ Resize(w, s) \in FrameToHost
         /\ TakeControlFrame \in FrameToRelay
         /\ HostSize(s) \in FrameToRelay
BY DEF ControlChanged, Resize, TakeControlFrame, HostSize,
       FrameToHost, FrameToRelay

LEMMA InputTyped ==
  ASSUME NEW v \in Viewer, NEW late \in BOOLEAN
  PROVE  Input(v, late) \in FrameToHost
BY DEF Input, FrameToHost

\* One frame is a sequence of frames.
LEMMA OneFrame ==
  ASSUME NEW S, NEW f \in S PROVE <<f>> \in Seq(S) /\ <<>> \in Seq(S)
OBVIOUS

\* A queue of frames stays one when its head is taken or a queue is added.
LEMMA QueueTyped ==
  ASSUME NEW S, NEW q \in Seq(S), NEW r \in Seq(S)
  PROVE  /\ q \o r \in Seq(S)
         /\ q # <<>> => Head(q) \in S /\ Tail(q) \in Seq(S)
OBVIOUS

\* Marking the inputs late leaves every goroutine with its sort of frame.
LEMMA OvertakenTyped ==
  ASSUME TypeOK PROVE Overtaken \in [Viewer -> Seq(FrameToHost)]
<1>1. ASSUME NEW v \in Viewer
      PROVE  <<Input(v, TRUE)>> \in Seq(FrameToHost)
  BY InputTyped, OneFrame
<1>2. QED BY <1>1 DEF TypeOK, Overtaken

\* The goroutine of a viewer keeps the types.
LEMMA ViewerTyped ==
  ASSUME TypeOK, NEW v \in Viewer, ViewerNext(v)
  PROVE  TypeOK'
<1> USE DEF TypeOK, Nothing, watchVars, loopVars
<1>1. v \in Writer /\ Host \in Writer
  BY DEF Writer
<1>0. \A w : WriterChanges(w) => activeWriterID' = w /\ crossed' \in BOOLEAN
  BY DEF WriterChanges
<1>2. ASSUME NEW s \in Size, TakeControl(v, s) PROVE TypeOK'
  <2>1. <<ControlChanged(v, s)>> \in Seq(FrameToHost)
    BY <1>1, FramesTyped, OneFrame
  <2>2. unwritten' \in [Viewer -> Seq(FrameToHost)]
    BY <1>2, <2>1, OvertakenTyped DEF TakeControl
  <2>3. QED BY <1>0, <1>1, <1>2, <2>2 DEF TakeControl
<1>3. ASSUME NEW s \in Size, HandleResize(v, s) PROVE TypeOK'
  BY <1>1, <1>3, FramesTyped, OneFrame DEF HandleResize
<1>4. CASE HandleInput(v)
  BY <1>1, <1>4, InputTyped, OneFrame DEF HandleInput
<1>5. CASE HandleViewerDisconnect(v)
  <2>1. <<ControlChanged(Host, hostGrid)>> \in Seq(FrameToHost)
    BY <1>1, FramesTyped, OneFrame
  <2>2. CASE activeWriterID = v
    <3>1. unwritten' \in [Viewer -> Seq(FrameToHost)]
      BY <1>5, <2>1, <2>2, OvertakenTyped DEF HandleViewerDisconnect
    <3>2. QED BY <1>0, <1>1, <1>5, <2>2, <3>1 DEF HandleViewerDisconnect
  <2>3. CASE activeWriterID # v
    BY <1>5, <2>3 DEF HandleViewerDisconnect
  <2>4. QED BY <2>2, <2>3
<1>6. CASE Join(v)
  BY <1>6 DEF Join
<1>7. CASE WriteToHost(v)
  <2>1. toHost' \in Seq(FrameToHost)
    BY <1>7, QueueTyped DEF WriteToHost
  <2>2. QED BY <1>7, <2>1 DEF WriteToHost
<1>8. QED
  BY <1>2, <1>3, <1>4, <1>5, <1>6, <1>7 DEF ViewerNext

\* The goroutine of the host, and the lock window, keep the types.
LEMMA RelayTyped ==
  ASSUME TypeOK, RelayNext PROVE TypeOK'
<1> USE DEF TypeOK, Nothing, watchVars, loopVars
<1>1. Host \in Writer
  BY DEF Writer
<1>2. ASSUME NEW type, HostFrame(type)
      PROVE  /\ toRelay' \in Seq(FrameToRelay)
             /\ type = "host_size" => Head(toRelay).size \in Size
  <2>1. Head(toRelay) \in FrameToRelay /\ toRelay' \in Seq(FrameToRelay)
    BY <1>2, QueueTyped DEF HostFrame
  <2>2. QED BY <1>2, <2>1 DEF FrameToRelay, TakeControlFrame, HostFrame
<1>3. CASE HostTakeControl
  <2>1. crossed' \in BOOLEAN /\ activeWriterID' = Host
    BY <1>3 DEF HostTakeControl, WriterChanges
  <2>2. unwritten' \in [Viewer -> Seq(FrameToHost)]
    BY <1>3, OvertakenTyped DEF HostTakeControl
  <2>3. <<ControlChanged(Host, hostGrid)>> \in Seq(FrameToHost)
    BY <1>1, FramesTyped, OneFrame
  <2>4. QED BY <1>1, <1>2, <1>3, <2>1, <2>2, <2>3 DEF HostTakeControl
<1>4. CASE HandleHostSize
  BY <1>2, <1>4 DEF HandleHostSize
<1>5. CASE WriteHostUnwritten
  <2>1. toHost' \in Seq(FrameToHost)
    BY <1>5, QueueTyped DEF WriteHostUnwritten
  <2>2. QED BY <1>5, <2>1 DEF WriteHostUnwritten
<1>6. CASE LockExpires
  BY <1>6 DEF LockExpires
<1>7. QED BY <1>3, <1>4, <1>5, <1>6 DEF RelayNext

\* The actions of the host process keep the types.
LEMMA HostTyped ==
  ASSUME TypeOK, Reclaim \/ LoopNext \/ WatchNext
  PROVE  TypeOK'
<1> USE DEF TypeOK, relayVars, watchVars, loopVars
<1>1. Host \in Writer
  BY DEF Writer
<1>2. ASSUME NEW f \in FrameToRelay
      PROVE  Append(toRelay, f) \in Seq(FrameToRelay)
  OBVIOUS
<1>3. CASE Reclaim
  BY <1>1, <1>2, <1>3, FramesTyped DEF Reclaim
<1>4. CASE ReadControlChanged \/ ReadResize \/ ReadInput
  <2>1. toHost # <<>> /\ toHost' = Tail(toHost)
    BY <1>4 DEF ReadControlChanged, ReadResize, ReadInput, Reading
  <2>2. Head(toHost) \in FrameToHost /\ toHost' \in Seq(FrameToHost)
    BY <2>1, QueueTyped
  <2>3. Head(toHost).type # "input" =>
          Head(toHost).size \in Size /\ Head(toHost).writer \in Writer
    BY <2>2 DEF FrameToHost
  <2>4. ReadInput \/ Head(toHost).type # "input"
    BY <1>4 DEF ReadControlChanged, ReadResize, Reading
  <2>5. QED
    BY <1>4, <2>2, <2>3, <2>4 DEF ReadControlChanged, ReadResize, ReadInput
<1>5. CASE StoreActive
  BY <1>5 DEF StoreActive
<1>6. CASE \E s \in Size : TerminalResized(s)
  BY <1>6 DEF TerminalResized
<1>7. CASE ForwardSignal \/ WatchGate \/ WatchResize
  BY <1>7 DEF ForwardSignal, WatchGate, WatchResize
<1>8. CASE WatchEvent
  <2>1. toRelay' \in Seq(FrameToRelay)
    BY <1>1, <1>2, <1>8, FramesTyped DEF WatchEvent
  <2>2. QED BY <1>8, <2>1 DEF WatchEvent
<1>9. QED
  BY <1>3, <1>4, <1>5, <1>6, <1>7, <1>8 DEF LoopNext, WatchNext

\* Every frame that is queued anywhere is one the receiving side knows.
THEOREM TypeCorrect == Spec => []TypeOK
<1>1. Init => TypeOK
  <2> SUFFICES ASSUME Init PROVE TypeOK
    OBVIOUS
  <2>1. Host \in Writer /\ <<>> \in Seq(FrameToHost) /\ <<>> \in Seq(FrameToRelay)
    BY DEF Writer
  <2>2. unwritten \in [Viewer -> Seq(FrameToHost)]
    BY <2>1 DEF Init, Nothing
  <2>3. connected \in [Viewer -> BOOLEAN]
    BY DEF Init
  <2>4. asked \in [Viewer -> Size] /\ grid \in Size /\ hostGrid \in Size
        /\ ptySize \in Size /\ termSize \in Size /\ seen \in Size
    BY DEF Init
  <2>5. QED BY <2>1, <2>2, <2>3, <2>4 DEF Init, TypeOK, Nothing
<1>2. TypeOK /\ [Next]_vars => TypeOK'
  <2> SUFFICES ASSUME TypeOK, [Next]_vars PROVE TypeOK'
    OBVIOUS
  <2>1. CASE UNCHANGED vars
    BY <2>1 DEF TypeOK, vars, relayVars, watchVars, loopVars
  <2>2. QED
    BY <2>1, ViewerTyped, RelayTyped, HostTyped DEF Next
<1>3. QED BY <1>1, <1>2, PTL DEF Spec

-----------------------------------------------------------------------------
(* The grid.                                                               *)

\* Whoever writes, the grid is the one it is entitled to.  No order of the
\* goroutines breaks it, since the writer and the grid change together.
LEMMA GridCorrect == Spec => [](HostGridIsRestored /\ WriterKeepsItsGrid)
<1> DEFINE Inv == HostGridIsRestored /\ WriterKeepsItsGrid
<1>1. Init => Inv
  BY DEF Init, HostGridIsRestored, WriterKeepsItsGrid
<1>2. TypeOK /\ Inv /\ [Next]_vars => Inv'
  <2> SUFFICES ASSUME TypeOK, Inv, [Next]_vars PROVE Inv'
    OBVIOUS
  <2> USE DEF TypeOK, Writer, HostGridIsRestored, WriterKeepsItsGrid
  <2>1. ASSUME NEW v \in Viewer, NEW s \in Size,
               TakeControl(v, s) \/ HandleResize(v, s)
        PROVE  Inv'
    BY <2>1 DEF TakeControl, HandleResize, WriterChanges
  <2>2. ASSUME NEW v \in Viewer, HandleViewerDisconnect(v) PROVE Inv'
    BY <2>2 DEF HandleViewerDisconnect, WriterChanges
  <2>3. CASE HostTakeControl \/ HandleHostSize
    BY <2>3 DEF HostTakeControl, HandleHostSize, WriterChanges
  <2>4. CASE UNCHANGED <<activeWriterID, grid, hostGrid, asked>>
    BY <2>4
  <2>5. QED
    BY <2>1, <2>2, <2>3, <2>4
    DEF Next, ViewerNext, RelayNext, LoopNext, WatchNext, HandleInput, Join,
        WriteToHost, WriteHostUnwritten, LockExpires, Reclaim,
        ReadControlChanged, StoreActive, ReadResize, ReadInput,
        TerminalResized, ForwardSignal, WatchEvent, WatchGate, WatchResize,
        relayVars, vars
<1>3. QED BY <1>1, <1>2, TypeCorrect, PTL DEF Spec

\* While the host writes, the grid is its latest size, however control came
\* back to it: by its own take_control or because the writer left.
THEOREM HostGridRestored == Spec => []HostGridIsRestored
BY GridCorrect, PTL

\* While a viewer writes, the grid is the one it asked for last: nobody else's
\* resize, and no new size of the host's window, changes it.
THEOREM WriterGridKept == Spec => []WriterKeepsItsGrid
BY GridCorrect, PTL

-----------------------------------------------------------------------------
(* The size of the host's window on its way to the relay.                  *)

IsSize(f) == f.type = "host_size"

\* The last host_size of q is this size.
LastSizeIs(q, s) ==
  \E i \in 1 .. Len(q) :
    /\ IsSize(q[i]) /\ q[i].size = s
    /\ \A j \in 1 .. Len(q) : j > i => ~IsSize(q[j])

\* Either the watcher has yet to look at the window, or the window's size is
\* the last one sent, or it is the one the relay has.
SizeUnderWay ==
  \/ sigwinch \/ resizeEvent
  \/ LastSizeIs(toRelay, termSize)
  \/ /\ hostGrid = termSize
     /\ \A i \in 1 .. Len(toRelay) : ~IsSize(toRelay[i])

LEMMA FramesDiffer ==
  ASSUME NEW s \in Size
  PROVE  /\ IsSize(HostSize(s)) /\ HostSize(s).size = s
         /\ ~IsSize(TakeControlFrame)
BY DEF IsSize, HostSize, TakeControlFrame

\* Another frame behind the queue: the last size stays, or is the new one.
LEMMA SizeSent ==
  ASSUME NEW q \in Seq(FrameToRelay), NEW f \in FrameToRelay
  PROVE  /\ IsSize(f) => LastSizeIs(Append(q, f), f.size)
         /\ ~IsSize(f) =>
              /\ \A s \in Size : LastSizeIs(q, s) => LastSizeIs(Append(q, f), s)
              /\ (\A i \in 1 .. Len(q) : ~IsSize(q[i])) =>
                   \A i \in 1 .. Len(Append(q, f)) : ~IsSize(Append(q, f)[i])
<1> DEFINE r == Append(q, f)
<1>1. /\ Len(r) = Len(q) + 1 /\ Len(q) \in Nat /\ r[Len(r)] = f
      /\ \A i \in 1 .. Len(q) : r[i] = q[i]
  OBVIOUS
<1>2. \A i \in 1 .. Len(r) : i \in 1 .. Len(q) \/ i = Len(r)
  BY <1>1
<1>3. 1 .. Len(q) \subseteq 1 .. Len(r) /\ Len(r) \in 1 .. Len(r)
  BY <1>1
<1> HIDE DEF r
<1>4. IsSize(f) => LastSizeIs(r, f.size)
  BY <1>1, <1>3 DEF LastSizeIs
<1>5. ASSUME ~IsSize(f), NEW s \in Size, LastSizeIs(q, s)
      PROVE  LastSizeIs(r, s)
  <2>1. PICK i \in 1 .. Len(q) :
          /\ IsSize(q[i]) /\ q[i].size = s
          /\ \A j \in 1 .. Len(q) : j > i => ~IsSize(q[j])
    BY <1>5 DEF LastSizeIs
  <2>2. i \in 1 .. Len(r) /\ IsSize(r[i]) /\ r[i].size = s
    BY <1>1, <1>3, <2>1
  <2>3. \A j \in 1 .. Len(r) : j > i => ~IsSize(r[j])
    BY <1>1, <1>2, <1>5, <2>1
  <2>4. QED BY <2>2, <2>3 DEF LastSizeIs
<1>6. ASSUME ~IsSize(f), \A i \in 1 .. Len(q) : ~IsSize(q[i])
      PROVE  \A i \in 1 .. Len(r) : ~IsSize(r[i])
  BY <1>1, <1>2, <1>6
<1>7. QED BY <1>4, <1>5, <1>6 DEF r

\* The head of the queue is taken: the last size was it, or is still queued.
LEMMA SizeTaken ==
  ASSUME NEW q \in Seq(FrameToRelay), q # <<>>, NEW s \in Size
  PROVE  /\ LastSizeIs(q, s) =>
              \/ LastSizeIs(Tail(q), s)
              \/ /\ IsSize(Head(q)) /\ Head(q).size = s
                 /\ \A i \in 1 .. Len(Tail(q)) : ~IsSize(Tail(q)[i])
         /\ (\A i \in 1 .. Len(q) : ~IsSize(q[i])) =>
              \A i \in 1 .. Len(Tail(q)) : ~IsSize(Tail(q)[i])
<1> DEFINE r == Tail(q)
<1>1. /\ Len(q) = Len(r) + 1 /\ Len(r) \in Nat /\ q[1] = Head(q)
      /\ \A i \in 1 .. Len(r) : r[i] = q[i + 1]
  OBVIOUS
<1>2. \A i \in 1 .. Len(r) : i + 1 \in 1 .. Len(q) /\ i + 1 > 1
  BY <1>1
<1> HIDE DEF r
<1>3. ASSUME LastSizeIs(q, s)
      PROVE  \/ LastSizeIs(r, s)
             \/ /\ IsSize(Head(q)) /\ Head(q).size = s
                /\ \A i \in 1 .. Len(r) : ~IsSize(r[i])
  <2>1. PICK i \in 1 .. Len(q) :
          /\ IsSize(q[i]) /\ q[i].size = s
          /\ \A j \in 1 .. Len(q) : j > i => ~IsSize(q[j])
    BY <1>3 DEF LastSizeIs
  <2>2. CASE i = 1
    BY <1>1, <1>2, <2>1, <2>2
  <2>3. CASE i # 1
    <3>1. PICK k \in 1 .. Len(r) : k + 1 = i
      <4>1. i - 1 \in 1 .. Len(r) /\ (i - 1) + 1 = i
        BY <1>1, <2>3
      <4>2. QED BY <4>1
    <3>2. IsSize(r[k]) /\ r[k].size = s
      BY <1>1, <2>1, <3>1
    <3>3. \A j \in 1 .. Len(r) : j > k => j + 1 > i
      BY <3>1
    <3>4. \A j \in 1 .. Len(r) : j > k => ~IsSize(r[j])
      BY <1>1, <1>2, <2>1, <3>3
    <3>5. QED BY <3>2, <3>4 DEF LastSizeIs
  <2>4. QED BY <2>2, <2>3
<1>4. (\A i \in 1 .. Len(q) : ~IsSize(q[i])) => \A i \in 1 .. Len(r) : ~IsSize(r[i])
  BY <1>1, <1>2
<1>5. QED BY <1>3, <1>4 DEF r

\* No change of the host's window is lost in the two channels of capacity one:
\* once they and the socket are empty the relay has the window's size.
THEOREM NoResizeIsLost == Spec => []LastSizeReachesRelay
<1>1. Init => SizeUnderWay
  BY DEF Init, SizeUnderWay
<1>2. TypeOK /\ SizeUnderWay /\ [Next]_vars => SizeUnderWay'
  <2> SUFFICES ASSUME TypeOK, SizeUnderWay, [Next]_vars PROVE SizeUnderWay'
    OBVIOUS
  <2>1. toRelay \in Seq(FrameToRelay) /\ termSize \in Size
    BY DEF TypeOK
  <2>2. CASE HostTakeControl \/ HandleHostSize
    <3>1. toRelay # <<>> /\ toRelay' = Tail(toRelay)
      BY <2>2 DEF HostTakeControl, HandleHostSize, HostFrame
    <3>2. UNCHANGED <<sigwinch, resizeEvent, termSize>>
      BY <2>2 DEF HostTakeControl, HandleHostSize, watchVars
    <3>3. IF IsSize(Head(toRelay)) THEN hostGrid' = Head(toRelay).size
                                   ELSE hostGrid' = hostGrid
      BY <2>2 DEF HostTakeControl, HandleHostSize, HostFrame, IsSize
    <3>4. (\A i \in 1 .. Len(toRelay) : ~IsSize(toRelay[i])) => ~IsSize(Head(toRelay))
      BY <2>1, <3>1
    <3> DEFINE t == Tail(toRelay)
    <3>5. /\ LastSizeIs(toRelay, termSize) =>
               \/ LastSizeIs(t, termSize)
               \/ /\ IsSize(Head(toRelay)) /\ Head(toRelay).size = termSize
                  /\ \A i \in 1 .. Len(t) : ~IsSize(t[i])
          /\ (\A i \in 1 .. Len(toRelay) : ~IsSize(toRelay[i])) =>
               \A i \in 1 .. Len(t) : ~IsSize(t[i])
      BY <2>1, <3>1, SizeTaken
    <3>6. toRelay' = t
      BY <3>1
    <3> HIDE DEF t
    <3>7. QED BY <3>2, <3>3, <3>4, <3>5, <3>6 DEF SizeUnderWay
  <2>3. CASE Reclaim
    <3>1. TakeControlFrame \in FrameToRelay /\ ~IsSize(TakeControlFrame)
      BY <2>1, FramesDiffer DEF FrameToRelay
    <3>2. UNCHANGED <<sigwinch, resizeEvent, termSize, hostGrid>>
          /\ toRelay' = Append(toRelay, TakeControlFrame)
      BY <2>3 DEF Reclaim, relayVars, watchVars
    <3>3. QED BY <2>1, <3>1, <3>2, SizeSent DEF SizeUnderWay
  <2>4. CASE WatchEvent
    <3>1. HostSize(termSize) \in FrameToRelay
      BY <2>1 DEF FrameToRelay, HostSize
    <3>2. LastSizeIs(Append(toRelay, HostSize(termSize)), termSize)
      BY <2>1, <3>1, SizeSent, FramesDiffer
    <3>3. toRelay' = Append(toRelay, HostSize(termSize)) /\ termSize' = termSize
      BY <2>4 DEF WatchEvent
    <3>4. QED BY <3>2, <3>3 DEF SizeUnderWay
  <2>5. CASE (\E s \in Size : TerminalResized(s)) \/ ForwardSignal
    BY <2>5 DEF TerminalResized, ForwardSignal, SizeUnderWay
  <2>6. CASE UNCHANGED <<sigwinch, resizeEvent, termSize, hostGrid, toRelay>>
    BY <2>6 DEF SizeUnderWay
  <2>7. ASSUME NEW v \in Viewer, ViewerNext(v)
        PROVE  UNCHANGED <<sigwinch, resizeEvent, termSize, hostGrid, toRelay>>
    BY <2>7 DEF ViewerNext, TakeControl, HandleResize, HandleInput, Join,
                HandleViewerDisconnect, WriteToHost, watchVars
  <2>8. QED
    BY <2>2, <2>3, <2>4, <2>5, <2>6, <2>7
    DEF Next, RelayNext, LoopNext, WatchNext, WriteHostUnwritten, LockExpires,
        ReadControlChanged, StoreActive, ReadResize, ReadInput, WatchGate,
        WatchResize, relayVars, watchVars, vars
<1>3. TypeOK /\ SizeUnderWay => LastSizeReachesRelay
  BY DEF TypeOK, SizeUnderWay, LastSizeReachesRelay, LastSizeIs
<1>4. QED BY <1>1, <1>2, <1>3, TypeCorrect, PTL DEF Spec

-----------------------------------------------------------------------------
(* What the host believes, and will believe.                               *)

IsControl(f) == f.type = "control_changed"

\* The host, as a pair of what it is storing and what it has stored, takes
\* itself for the writer.
Believes == IF storing = "no" THEN isActiveWriter ELSE storing = Host

\* A host that believes h and reads the first i frames of q believes b then.
Told(q, h, i, b) ==
  \/ \E j \in 1 .. i :
       /\ IsControl(q[j]) /\ (q[j].writer = Host <=> b)
       /\ \A k \in 1 .. i : k > j => ~IsControl(q[k])
  \/ (h <=> b) /\ \A k \in 1 .. i : ~IsControl(q[k])

\* What is told by the first frames depends on those alone.
LEMMA ToldByPrefix ==
  ASSUME NEW q, NEW r, NEW h, NEW i \in Nat, NEW b,
         \A k \in 1 .. i : r[k] = q[k], Told(q, h, i, b)
  PROVE  Told(r, h, i, b)
BY DEF Told

\* A frame more: a control_changed decides, any other frame changes nothing.
LEMMA ToldByOneMore ==
  ASSUME NEW q, NEW h, NEW i \in Nat, NEW b
  PROVE  /\ IsControl(q[i + 1]) /\ (q[i + 1].writer = Host <=> b)
              => Told(q, h, i + 1, b)
         /\ ~IsControl(q[i + 1]) /\ Told(q, h, i, b) => Told(q, h, i + 1, b)
<1>1. \A k \in 1 .. (i + 1) : k \in 1 .. i \/ k = i + 1
  OBVIOUS
<1>2. 1 .. i \subseteq 1 .. (i + 1) /\ i + 1 \in 1 .. (i + 1)
  OBVIOUS
<1>3. \A k \in 1 .. (i + 1) : ~(k > i + 1)
  OBVIOUS
<1>4. IsControl(q[i + 1]) /\ (q[i + 1].writer = Host <=> b) => Told(q, h, i + 1, b)
  BY <1>2, <1>3 DEF Told
<1>5. ASSUME ~IsControl(q[i + 1]), Told(q, h, i, b) PROVE Told(q, h, i + 1, b)
  <2>1. CASE (h <=> b) /\ \A k \in 1 .. i : ~IsControl(q[k])
    BY <1>1, <1>5, <2>1 DEF Told
  <2>2. CASE \E j \in 1 .. i :
               /\ IsControl(q[j]) /\ (q[j].writer = Host <=> b)
               /\ \A k \in 1 .. i : k > j => ~IsControl(q[k])
    <3>1. PICK j \in 1 .. i :
               /\ IsControl(q[j]) /\ (q[j].writer = Host <=> b)
               /\ \A k \in 1 .. i : k > j => ~IsControl(q[k])
      BY <2>2
    <3>2. \A k \in 1 .. (i + 1) : k > j => ~IsControl(q[k])
      BY <1>1, <1>5, <3>1
    <3>3. j \in 1 .. (i + 1)
      BY <1>2
    <3>4. QED BY <3>1, <3>2, <3>3 DEF Told
  <2>3. QED BY <1>5, <2>1, <2>2 DEF Told
<1>6. QED BY <1>4, <1>5

\* The host reads the head: what it will believe later is the same.
LEMMA ToldAfterReading ==
  ASSUME NEW q \in Seq(FrameToHost), q # <<>>, NEW h, NEW g, NEW b,
         NEW i \in Nat, i + 1 \in 1 .. Len(q),
         IF IsControl(Head(q)) THEN g <=> (Head(q).writer = Host) ELSE g <=> h,
         Told(q, h, i + 1, b)
  PROVE  Told(Tail(q), g, i, b)
<1> DEFINE t == Tail(q)
<1>1. /\ q[1] = Head(q) /\ \A k \in 1 .. i : t[k] = q[k + 1]
      /\ \A k \in 1 .. i : k + 1 \in 1 .. (i + 1)
      /\ \A k \in 1 .. i : k + 1 > 1
      /\ 1 \in 1 .. (i + 1)
  OBVIOUS
<1> HIDE DEF t
<1>2. CASE (h <=> b) /\ \A k \in 1 .. (i + 1) : ~IsControl(q[k])
  <2>1. \A k \in 1 .. i : ~IsControl(t[k])
    BY <1>1, <1>2
  <2>2. g <=> b
    BY <1>1, <1>2
  <2>3. QED BY <2>1, <2>2 DEF Told, t
<1>3. CASE \E j \in 1 .. (i + 1) :
             /\ IsControl(q[j]) /\ (q[j].writer = Host <=> b)
             /\ \A k \in 1 .. (i + 1) : k > j => ~IsControl(q[k])
  <2>1. PICK j \in 1 .. (i + 1) :
             /\ IsControl(q[j]) /\ (q[j].writer = Host <=> b)
             /\ \A k \in 1 .. (i + 1) : k > j => ~IsControl(q[k])
    BY <1>3
  <2>2. CASE j = 1
    <3>1. \A k \in 1 .. i : ~IsControl(t[k])
      BY <1>1, <2>1, <2>2
    <3>2. g <=> b
      BY <1>1, <2>1, <2>2
    <3>3. QED BY <3>1, <3>2 DEF Told, t
  <2>3. CASE j # 1
    <3>1. PICK m \in 1 .. i : m + 1 = j
      <4>1. j - 1 \in 1 .. i /\ (j - 1) + 1 = j
        BY <2>3
      <4>2. QED BY <4>1
    <3>2. IsControl(t[m]) /\ (t[m].writer = Host <=> b)
      BY <1>1, <2>1, <3>1
    <3>3. \A k \in 1 .. i : k > m => k + 1 > j
      BY <3>1
    <3>4. \A k \in 1 .. i : k > m => ~IsControl(t[k])
      BY <1>1, <2>1, <3>3
    <3>5. QED BY <3>2, <3>4 DEF Told, t
  <2>4. QED BY <2>2, <2>3
<1>4. QED BY <1>2, <1>3 DEF Told

-----------------------------------------------------------------------------
(* The inductive invariant.                                                *)

\* What the goroutine that serves w has yet to write to the host.
Pending(w) == IF w = Host THEN hostUnwritten ELSE unwritten[w]

\* It is one frame; an input comes from w, and a word about the writer names
\* the host or w.
OneFrameEach ==
  \A w \in Writer : Pending(w) # Nothing =>
    \E f \in FrameToHost :
      /\ Pending(w) = <<f>>
      /\ f.type = "input" => f.writer = w
      /\ IsControl(f) => f.writer \in {Host, w}

\* It is a word about the writer.
Speaks(w) == Holds(Pending(w), "control_changed")

Silence == \A w \in Writer : ~Speaks(w)

\* Unless the words have crossed, at most one is yet to be written, and it is
\* about the writer that the session has.
OneSpeaks ==
  ~crossed => \A v, w \in Writer : Speaks(v) =>
    /\ Head(Pending(v)).writer = activeWriterID
    /\ Speaks(w) => v = w

\* An input that nothing overtook.
Timely(f) == f.type = "input" /\ f.late = FALSE

\* While it is not written, no word about the writer is unwritten either, and
\* the host is not the writer.
TimelyIsCurrent ==
  \A w \in Writer, f \in FrameToHost : Pending(w) = <<f>> /\ Timely(f) =>
    ~crossed /\ Silence /\ activeWriterID # Host

\* Unless a word about the writer is yet to be written, or the words crossed,
\* the host believes what the relay has once it has read its socket.
Agreed ==
  ~crossed /\ Silence => Told(toHost, Believes, Len(toHost), activeWriterID = Host)

\* Whoever reads up to a timely input does not take itself for the writer then.
InputsTold ==
  \A i \in 1 .. Len(toHost) : Timely(toHost[i]) => Told(toHost, Believes, i, FALSE)

GateInv == OneFrameEach /\ OneSpeaks /\ TimelyIsCurrent /\ Agreed /\ InputsTold

\* What a goroutine with one frame holds.
LEMMA SoleFrame ==
  ASSUME NEW f, NEW w \in Writer
  PROVE  /\ <<f>> # Nothing /\ Head(<<f>>) = f
         /\ Pending(w) = <<f>> => (Speaks(w) <=> IsControl(f))
         /\ Pending(w) = Nothing => ~Speaks(w)
BY DEF Nothing, Speaks, Holds, IsControl

LEMMA GateInit == Init => GateInv
<1> SUFFICES ASSUME Init PROVE GateInv
  OBVIOUS
<1>1. \A w \in Writer : Pending(w) = Nothing
  BY DEF Init, Pending, Writer
<1>2. toHost = <<>> /\ Len(toHost) = 0 /\ Believes /\ activeWriterID = Host
  BY DEF Init, Believes
<1>3. OneFrameEach /\ OneSpeaks /\ TimelyIsCurrent
  BY <1>1, SoleFrame DEF OneFrameEach, OneSpeaks, TimelyIsCurrent
<1>4. Told(toHost, Believes, 0, activeWriterID = Host)
  BY <1>2 DEF Told
<1>5. Told(toHost, Believes, Len(toHost), activeWriterID = Host)
  BY <1>2, <1>4, Zenon
<1>6. Agreed
  BY <1>5 DEF Agreed
<1>7. InputsTold
  BY <1>2 DEF InputsTold
<1>8. QED BY <1>3, <1>6, <1>7 DEF GateInv

-----------------------------------------------------------------------------
(* What the steps do to it.                                                *)

\* The goroutine of w changes the writer, and has a word about it to write.
LEMMA GateChanged ==
  ASSUME TypeOK, GateInv, NEW w \in Writer, NEW f \in FrameToHost,
         IsControl(f), f.writer = activeWriterID', activeWriterID' \in {Host, w},
         Pending(w)' = <<f>>,
         \A x \in Writer : x # w =>
           Pending(x)' = IF Holds(Pending(x), "input") THEN <<Input(x, TRUE)>>
                                                       ELSE Pending(x),
         (\E x \in Writer : x # w /\ Speaks(x)) => crossed',
         UNCHANGED <<toHost, isActiveWriter, storing>>
  PROVE  GateInv'
<1>1. Believes' = Believes
  BY DEF Believes
<1>2. Speaks(w)' /\ Head(Pending(w))' = f
  BY SoleFrame DEF Speaks, Holds, IsControl
<1>3. ASSUME NEW x \in Writer, x # w
      PROVE  \/ Pending(x)' = <<Input(x, TRUE)>> /\ Holds(Pending(x), "input")
             \/ Pending(x)' = Pending(x) /\ ~Holds(Pending(x), "input")
  BY <1>3
<1>4. ASSUME NEW x \in Writer, x # w, Speaks(x)' PROVE Speaks(x)
  <2>1. CASE Pending(x)' = Pending(x)
    BY <1>4, <2>1 DEF Speaks
  <2>2. CASE Pending(x)' = <<Input(x, TRUE)>>
    BY <1>4, <2>2, SoleFrame DEF Speaks, Holds, Input
  <2>3. QED BY <1>3, <1>4, <2>1, <2>2
<1>5. OneFrameEach'
  <2> SUFFICES ASSUME NEW x \in Writer, Pending(x)' # Nothing
               PROVE  \E g \in FrameToHost :
                        /\ Pending(x)' = <<g>>
                        /\ g.type = "input" => g.writer = x
                        /\ IsControl(g) => g.writer \in {Host, x}
    BY DEF OneFrameEach, IsControl, Nothing
  <2>1. CASE x = w
    BY <2>1 DEF IsControl
  <2>2. CASE x # w /\ Pending(x)' = Pending(x)
    BY <2>2, Zenon DEF GateInv, OneFrameEach
  <2>3. CASE x # w /\ Pending(x)' = <<Input(x, TRUE)>> /\ Holds(Pending(x), "input")
    <3>1. PICK g \in FrameToHost :
            Pending(x) = <<g>> /\ (g.type = "input" => g.writer = x)
      BY <2>3 DEF GateInv, OneFrameEach, Holds
    <3>2. g.type = "input"
      BY <2>3, <3>1, SoleFrame DEF Holds
    <3>3. x \in Viewer
      BY <3>1, <3>2 DEF FrameToHost
    <3>4. Input(x, TRUE) \in FrameToHost
      BY <3>3, InputTyped
    <3>5. QED BY <2>3, <3>4 DEF Input, IsControl
  <2>4. QED BY <1>3, <2>1, <2>2, <2>3
<1>6. OneSpeaks'
  <2> SUFFICES ASSUME ~crossed' PROVE \A x \in Writer : Speaks(x)' => x = w
    BY <1>2 DEF OneSpeaks
  <2>1. QED BY <1>4
<1>7. TimelyIsCurrent'
  <2> SUFFICES ASSUME NEW x \in Writer, NEW g \in FrameToHost,
                      Pending(x)' = <<g>>, Timely(g)
               PROVE  FALSE
    BY DEF TimelyIsCurrent, Timely
  <2>1. x # w
    BY <1>2, SoleFrame DEF Timely, IsControl
  <2>2. Holds(Pending(x), "input") => g = Input(x, TRUE)
    BY <2>1, SoleFrame
  <2>3. ~Holds(Pending(x), "input") => Pending(x) = <<g>>
    BY <2>1
  <2>4. QED BY <2>2, <2>3, SoleFrame DEF Timely, Input, Holds
<1>8. Agreed'
  BY <1>2 DEF Agreed, Silence
<1>9. InputsTold'
  BY <1>1 DEF GateInv, InputsTold, Told, Timely
<1>10. QED BY <1>5, <1>6, <1>7, <1>8, <1>9 DEF GateInv

\* The goroutine of w has a frame to write that says nothing of the writer.
LEMMA GateAdded ==
  ASSUME TypeOK, GateInv, NEW w \in Writer, NEW f \in FrameToHost,
         ~IsControl(f), f.type = "input" => f.writer = w,
         Timely(f) => ~crossed /\ activeWriterID = w /\ w # Host,
         Pending(w) = Nothing, Pending(w)' = <<f>>,
         \A x \in Writer : x # w => Pending(x)' = Pending(x),
         UNCHANGED <<activeWriterID, crossed, toHost, isActiveWriter, storing>>
  PROVE  GateInv'
<1>1. Believes' = Believes
  BY DEF Believes
<1>2. \A x \in Writer : Speaks(x)' <=> Speaks(x)
  BY SoleFrame DEF Speaks, Holds, IsControl
<1>3. Silence' <=> Silence
  BY <1>2 DEF Silence
<1>4. OneFrameEach'
  <2> SUFFICES ASSUME NEW x \in Writer, Pending(x)' # Nothing
               PROVE  \E g \in FrameToHost :
                        /\ Pending(x)' = <<g>>
                        /\ g.type = "input" => g.writer = x
                        /\ IsControl(g) => g.writer \in {Host, x}
    BY DEF OneFrameEach, IsControl, Nothing
  <2>1. CASE x = w
    BY <2>1
  <2>2. CASE x # w
    BY <2>2, Zenon DEF GateInv, OneFrameEach
  <2>3. QED BY <2>1, <2>2
<1>5. OneSpeaks'
  <2>1. ~Speaks(w)
    BY SoleFrame
  <2>2. \A x \in Writer : Speaks(x) => Head(Pending(x))' = Head(Pending(x))
    BY <2>1
  <2>3. QED BY <1>2, <2>2 DEF GateInv, OneSpeaks
<1>6. TimelyIsCurrent'
  <2> SUFFICES ASSUME NEW x \in Writer, NEW g \in FrameToHost,
                      Pending(x)' = <<g>>, Timely(g)
               PROVE  ~crossed /\ Silence /\ activeWriterID # Host
    BY <1>3 DEF TimelyIsCurrent, Timely
  <2>1. CASE x # w
    BY <2>1 DEF GateInv, TimelyIsCurrent
  <2>2. CASE x = w
    <3>1. f = g
      BY <2>2, SoleFrame
    <3>2. ~crossed /\ activeWriterID = w /\ w # Host
      BY <3>1
    <3>3. ASSUME NEW y \in Writer, Speaks(y) PROVE FALSE
      <4>1. PICK h \in FrameToHost :
              Pending(y) = <<h>> /\ (IsControl(h) => h.writer \in {Host, y})
        BY <3>3 DEF GateInv, OneFrameEach, Speaks, Holds
      <4>2. IsControl(h) /\ h.writer = activeWriterID
        BY <3>2, <3>3, <4>1, SoleFrame DEF GateInv, OneSpeaks
      <4>3. y = w
        BY <3>2, <4>1, <4>2
      <4>4. QED BY <3>3, <4>3, SoleFrame
    <3>4. QED BY <3>2, <3>3 DEF Silence
  <2>3. QED BY <2>1, <2>2
<1>7. Agreed'
  BY <1>1, <1>3 DEF GateInv, Agreed, Told
<1>8. InputsTold'
  BY <1>1 DEF GateInv, InputsTold, Told, Timely
<1>9. QED BY <1>4, <1>5, <1>6, <1>7, <1>8 DEF GateInv

\* A goroutine writes its frame into the host's socket.
LEMMA GateWritten ==
  ASSUME TypeOK, GateInv, NEW w \in Writer, Pending(w) # Nothing,
         toHost' = toHost \o Pending(w),
         \A x \in Writer : Pending(x)' = IF x = w THEN Nothing ELSE Pending(x),
         UNCHANGED <<activeWriterID, crossed, isActiveWriter, storing>>
  PROVE  GateInv'
<1>1. PICK f \in FrameToHost : Pending(w) = <<f>>
  BY DEF GateInv, OneFrameEach
<1> DEFINE n == Len(toHost)
<1>2. /\ toHost \in Seq(FrameToHost) /\ n \in Nat
      /\ Len(toHost') = n + 1 /\ toHost'[n + 1] = f
      /\ \A k \in 1 .. n : toHost'[k] = toHost[k]
  BY <1>1 DEF TypeOK
<1>3. \A k \in 1 .. Len(toHost') : k \in 1 .. n \/ k = n + 1
  BY <1>2
<1>4. \A i \in 1 .. n : i \in Nat /\ \A k \in 1 .. i : toHost'[k] = toHost[k]
  BY <1>2
<1>5. Believes' = Believes
  BY DEF Believes
<1>6. /\ ~Speaks(w)'
      /\ \A x \in Writer : x # w => Pending(x)' = Pending(x) /\ (Speaks(x)' <=> Speaks(x))
  BY DEF Speaks, Holds
<1>7. Speaks(w) <=> IsControl(f)
  BY <1>1, SoleFrame
<1> DEFINE b == activeWriterID = Host
<1>8. b' = b /\ b \in BOOLEAN
  OBVIOUS
<1> HIDE DEF n, b
\* What the host will believe when it has read the frame.
<1>9. ASSUME ~crossed, Silence' PROVE Told(toHost', Believes, n + 1, b)
  <2>1. CASE IsControl(f)
    <3>1. f.writer = activeWriterID
      BY <1>1, <1>7, <1>9, <2>1, SoleFrame DEF GateInv, OneSpeaks
    <3>2. IsControl(toHost'[n + 1]) /\ (toHost'[n + 1].writer = Host <=> b)
      BY <1>2, <2>1, <3>1 DEF b
    <3>3. QED BY <1>2, <3>2, ToldByOneMore
  <2>2. CASE ~IsControl(f)
    <3>1. Silence
      BY <1>6, <1>7, <1>9, <2>2 DEF Silence
    <3>2. Told(toHost, Believes, n, b)
      BY <1>9, <3>1, Zenon DEF GateInv, Agreed, n, b
    <3>3. Told(toHost', Believes, n, b)
      BY <1>2, <3>2, ToldByPrefix
    <3>4. ~IsControl(toHost'[n + 1])
      BY <1>2, <2>2
    <3>5. QED BY <1>2, <3>3, <3>4, ToldByOneMore
  <2>3. QED BY <2>1, <2>2
<1>10. Agreed'
  <2> SUFFICES ASSUME ~crossed, Silence'
               PROVE  Told(toHost', Believes', Len(toHost'), b')
    BY Zenon DEF Agreed, b
  <2>1. QED BY <1>2, <1>5, <1>8, <1>9
<1>11. InputsTold'
  <2> SUFFICES ASSUME NEW i \in 1 .. Len(toHost'), Timely(toHost'[i])
               PROVE  Told(toHost', Believes, i, FALSE)
    BY <1>5, Zenon DEF InputsTold, Timely
  <2>1. CASE i \in 1 .. n
    <3>1. Told(toHost, Believes, i, FALSE)
      BY <1>2, <2>1 DEF GateInv, InputsTold, n
    <3>2. QED BY <1>4, <2>1, <3>1, ToldByPrefix
  <2>2. CASE i = n + 1
    <3>1. Timely(f)
      BY <1>2, <2>2
    <3>2. ~crossed /\ Silence /\ activeWriterID # Host
      BY <1>1, <3>1 DEF GateInv, TimelyIsCurrent
    <3>3. Silence' /\ b = FALSE
      BY <1>6, <3>2 DEF Silence, b
    <3>4. QED BY <1>9, <2>2, <3>2, <3>3
  <2>3. QED BY <1>3, <2>1, <2>2
<1>12. OneFrameEach'
  <2> SUFFICES ASSUME NEW x \in Writer, Pending(x)' # Nothing
               PROVE  \E g \in FrameToHost :
                        /\ Pending(x)' = <<g>>
                        /\ g.type = "input" => g.writer = x
                        /\ IsControl(g) => g.writer \in {Host, x}
    BY DEF OneFrameEach, IsControl, Nothing
  <2>1. x # w /\ Pending(x)' = Pending(x)
    OBVIOUS
  <2>2. QED BY <2>1, Zenon DEF GateInv, OneFrameEach
<1>13. OneSpeaks'
  <2>1. \A x \in Writer : Speaks(x)' => x # w
    BY <1>6
  <2>2. QED BY <1>6, <2>1 DEF GateInv, OneSpeaks
<1>14. TimelyIsCurrent'
  <2> SUFFICES ASSUME NEW x \in Writer, NEW g \in FrameToHost,
                      Pending(x)' = <<g>>, Timely(g)
               PROVE  ~crossed /\ Silence' /\ activeWriterID # Host
    BY DEF TimelyIsCurrent, Timely
  <2>1. x # w
    BY SoleFrame
  <2>2. ~crossed /\ Silence /\ activeWriterID # Host
    BY <2>1 DEF GateInv, TimelyIsCurrent
  <2>3. QED BY <1>6, <2>2 DEF Silence
<1>15. QED BY <1>10, <1>11, <1>12, <1>13, <1>14 DEF GateInv

\* Nothing is said and nothing is left unsaid.
LEMMA UnsaidKept ==
  ASSUME GateInv, UNCHANGED <<activeWriterID, crossed, unwritten, hostUnwritten>>
  PROVE  OneFrameEach' /\ OneSpeaks' /\ TimelyIsCurrent' /\ (Silence' <=> Silence)
<1>1. \A x \in Writer : Pending(x)' = Pending(x)
  BY DEF Pending
<1>2. OneFrameEach'
  BY <1>1 DEF GateInv, OneFrameEach, IsControl, Nothing
<1>3. \A x \in Writer : Speaks(x)' <=> Speaks(x)
  BY <1>1 DEF Speaks
<1>4. OneSpeaks'
  BY <1>1, <1>3 DEF GateInv, OneSpeaks
<1>5. Silence' <=> Silence
  BY <1>3 DEF Silence
<1>6. TimelyIsCurrent'
  BY <1>1, <1>5 DEF GateInv, TimelyIsCurrent, Timely
<1>7. QED BY <1>2, <1>4, <1>5, <1>6

\* The host reads a frame, and believes what it says about the writer.
LEMMA GateRead ==
  ASSUME TypeOK, GateInv, toHost # <<>>, toHost' = Tail(toHost),
         IF IsControl(Head(toHost)) THEN Believes' <=> (Head(toHost).writer = Host)
                                    ELSE Believes' <=> Believes,
         UNCHANGED <<activeWriterID, crossed, unwritten, hostUnwritten>>
  PROVE  GateInv'
<1> DEFINE n == Len(toHost')
<1>1. /\ toHost \in Seq(FrameToHost) /\ n \in Nat /\ n + 1 = Len(toHost)
      /\ \A i \in 1 .. n : toHost'[i] = toHost[i + 1]
      /\ \A i \in 0 .. n : i \in Nat /\ i + 1 \in 1 .. Len(toHost)
      /\ 1 .. n \subseteq 0 .. n /\ n \in 0 .. n
  BY DEF TypeOK
<1>2. ASSUME NEW i \in 0 .. n, NEW b, Told(toHost, Believes, i + 1, b)
      PROVE  Told(toHost', Believes', i, b)
  BY <1>1, <1>2, ToldAfterReading
<1> HIDE DEF n
<1>3. Agreed'
  <2> DEFINE b == activeWriterID = Host
  <2> SUFFICES ASSUME ~crossed, Silence'
               PROVE  Told(toHost', Believes', Len(toHost'), b)
    BY Zenon DEF Agreed
  <2>1. Silence
    BY UnsaidKept
  <2>2. Told(toHost, Believes, Len(toHost), b)
    BY <2>1, Zenon DEF GateInv, Agreed
  <2> HIDE DEF b
  <2>3. Told(toHost, Believes, n + 1, b)
    BY <1>1, <2>2, Zenon
  <2>4. Told(toHost', Believes', n, b)
    BY <1>1, <1>2, <2>3
  <2>5. QED BY <2>4, Zenon DEF n
<1>4. InputsTold'
  <2> SUFFICES ASSUME NEW i \in 1 .. n, Timely(toHost'[i])
               PROVE  Told(toHost', Believes', i, FALSE)
    BY Zenon DEF InputsTold, Timely, n
  <2>1. Timely(toHost[i + 1]) /\ i + 1 \in 1 .. Len(toHost) /\ i \in 0 .. n
    BY <1>1
  <2>2. Told(toHost, Believes, i + 1, FALSE)
    BY <2>1 DEF GateInv, InputsTold
  <2>3. QED BY <1>2, <2>1, <2>2
<1>5. QED BY <1>3, <1>4, UnsaidKept DEF GateInv

LEMMA GateStutter ==
  ASSUME GateInv, Believes' <=> Believes,
         UNCHANGED <<activeWriterID, crossed, unwritten, hostUnwritten, toHost>>
  PROVE  GateInv'
<1>1. Believes' = Believes
  OBVIOUS
<1>2. Agreed'
  BY <1>1, UnsaidKept DEF GateInv, Agreed, Told, IsControl
<1>3. InputsTold'
  BY <1>1 DEF GateInv, InputsTold, Told, IsControl, Timely
<1>4. QED BY <1>2, <1>3, UnsaidKept DEF GateInv

\* A change of the writer by the goroutine of w, which has this to say of it.
LEMMA GateTurned ==
  ASSUME TypeOK, GateInv, NEW w \in Writer, NEW x \in {Host, w}, NEW s \in Size,
         Pending(w) = Nothing, Pending(w)' = <<ControlChanged(x, s)>>,
         WriterChanges(x),
         \A v \in Viewer : v # w => unwritten'[v] = Overtaken[v],
         w # Host => hostUnwritten' = hostUnwritten,
         UNCHANGED <<toHost, isActiveWriter, storing>>
  PROVE  GateInv'
<1> DEFINE f == ControlChanged(x, s)
<1>1. f \in FrameToHost /\ IsControl(f) /\ f.writer = activeWriterID'
  BY FramesTyped DEF Writer, ControlChanged, IsControl, WriterChanges
<1>2. activeWriterID' \in {Host, w}
  BY DEF WriterChanges
<1>3. \A v \in Viewer : v # Host /\ Pending(v) = unwritten[v] /\ Pending(v)' = unwritten'[v]
  BY DEF Pending
<1>4. ASSUME NEW y \in Writer, y # w
      PROVE  Pending(y)' = IF Holds(Pending(y), "input") THEN <<Input(y, TRUE)>>
                                                         ELSE Pending(y)
  <2>1. CASE y \in Viewer
    BY <1>3, <1>4, <2>1 DEF Overtaken
  <2>2. CASE y = Host
    <3>1. ~Holds(Pending(Host), "input")
      <4> SUFFICES ASSUME Holds(Pending(Host), "input") PROVE FALSE
        OBVIOUS
      <4>1. PICK g \in FrameToHost :
              Pending(Host) = <<g>> /\ (g.type = "input" => g.writer = Host)
        BY DEF GateInv, OneFrameEach, Holds, Writer
      <4>2. g.type = "input" /\ g.writer \in Viewer
        BY <4>1, SoleFrame DEF Holds, FrameToHost
      <4>3. QED BY <4>1, <4>2
    <3>2. Pending(Host)' = Pending(Host)
      BY <1>4, <2>2 DEF Pending
    <3>3. QED BY <2>2, <3>1, <3>2
  <2>3. QED BY <2>1, <2>2 DEF Writer
<1>5. ASSUME NEW y \in Writer, y # w, Speaks(y) PROVE crossed'
  <2>1. CASE y = Host
    BY <1>5, <2>1 DEF Pending, Speaks, Holds, WriterChanges
  <2>2. CASE y \in Viewer
    BY <1>3, <1>5, <2>2 DEF Speaks, WriterChanges
  <2>3. QED BY <2>1, <2>2 DEF Writer
<1>6. Pending(w)' = <<f>>
  OBVIOUS
<1> HIDE DEF f
<1>7. QED BY <1>1, <1>2, <1>4, <1>5, <1>6, GateChanged

\* The goroutine of a viewer.
LEMMA GateViewer ==
  ASSUME TypeOK, GateInv, NEW v \in Viewer, ViewerNext(v)
  PROVE  GateInv'
<1>1. v \in Writer /\ Host \in Writer /\ v # Host /\ unwritten \in [Viewer -> Seq(FrameToHost)]
  BY DEF Writer, TypeOK
<1>2. ASSUME NEW f \in FrameToHost, Ready(v), ~IsControl(f),
             f.type = "input" => f.writer = v,
             Timely(f) => ~crossed /\ activeWriterID = v,
             unwritten' = [unwritten EXCEPT ![v] = <<f>>],
             UNCHANGED <<activeWriterID, crossed, hostUnwritten, toHost, loopVars>>
      PROVE  GateInv'
  <2>1. Pending(v) = Nothing /\ Pending(v)' = <<f>>
    BY <1>1, <1>2 DEF Ready, Pending
  <2>2. \A x \in Writer : x # v => Pending(x)' = Pending(x)
    BY <1>1, <1>2 DEF Pending, Writer
  <2>3. UNCHANGED <<toHost, isActiveWriter, storing>>
    BY <1>2 DEF loopVars
  <2>4. QED BY <1>1, <1>2, <2>1, <2>2, <2>3, GateAdded
<1>3. ASSUME NEW x \in {Host, v}, NEW s \in Size, Ready(v), WriterChanges(x),
             unwritten' = [Overtaken EXCEPT ![v] = <<ControlChanged(x, s)>>],
             UNCHANGED <<hostUnwritten, toHost, loopVars>>
      PROVE  GateInv'
  <2>1. Overtaken \in [Viewer -> Seq(FrameToHost)]
    BY OvertakenTyped
  <2>2. Pending(v) = Nothing /\ Pending(v)' = <<ControlChanged(x, s)>>
    BY <1>1, <1>3, <2>1 DEF Ready, Pending
  <2>3. \A u \in Viewer : u # v => unwritten'[u] = Overtaken[u]
    BY <1>3, <2>1
  <2>4. UNCHANGED <<toHost, isActiveWriter, storing>>
    BY <1>3 DEF loopVars
  <2>5. QED BY <1>1, <1>3, <2>2, <2>3, <2>4, GateTurned
<1>4. ASSUME NEW s \in Size, TakeControl(v, s) PROVE GateInv'
  BY <1>3, <1>4 DEF TakeControl
<1>5. ASSUME NEW s \in Size, HandleResize(v, s) PROVE GateInv'
  <2>1. Resize(v, s) \in FrameToHost
    BY <1>1, FramesTyped
  <2>2. ~IsControl(Resize(v, s)) /\ Resize(v, s).type # "input"
    BY DEF IsControl, Resize
  <2>3. QED BY <1>2, <1>5, <2>1, <2>2 DEF HandleResize, Timely
<1>6. CASE HandleInput(v)
  <2>1. Input(v, crossed) \in FrameToHost
    BY <1>1, InputTyped DEF TypeOK
  <2>2. /\ ~IsControl(Input(v, crossed)) /\ Input(v, crossed).writer = v
        /\ Timely(Input(v, crossed)) => ~crossed /\ activeWriterID = v
    BY <1>6 DEF IsControl, Input, Timely, HandleInput
  <2>3. QED BY <1>2, <1>6, <2>1, <2>2 DEF HandleInput
<1>7. CASE HandleViewerDisconnect(v)
  <2>1. CASE activeWriterID = v
    <3>1. Host \in {Host, v} /\ hostGrid \in Size
      BY DEF TypeOK
    <3>2. QED BY <1>3, <1>7, <2>1, <3>1 DEF HandleViewerDisconnect
  <2>2. CASE activeWriterID # v
    <3>1. UNCHANGED <<activeWriterID, crossed, unwritten, hostUnwritten, toHost,
                      isActiveWriter, storing>>
      BY <1>7, <2>2 DEF HandleViewerDisconnect, loopVars
    <3>2. QED BY <3>1, GateStutter DEF Believes
  <2>3. QED BY <2>1, <2>2
<1>8. CASE Join(v)
  <2>1. UNCHANGED <<activeWriterID, crossed, unwritten, hostUnwritten, toHost,
                    isActiveWriter, storing>>
    BY <1>8 DEF Join, loopVars
  <2>2. QED BY <2>1, GateStutter DEF Believes
<1>9. CASE WriteToHost(v)
  <2>1. Pending(v) = unwritten[v] /\ Pending(v) # Nothing
    BY <1>1, <1>9 DEF Pending, WriteToHost
  <2>2. \A x \in Writer : Pending(x)' = IF x = v THEN Nothing ELSE Pending(x)
    BY <1>1, <1>9 DEF Pending, Writer, WriteToHost
  <2>3. /\ toHost' = toHost \o Pending(v)
        /\ UNCHANGED <<activeWriterID, crossed, isActiveWriter, storing>>
    BY <1>9, <2>1 DEF WriteToHost, loopVars
  <2>4. QED BY <1>1, <2>1, <2>2, <2>3, GateWritten
<1>10. QED
  BY <1>4, <1>5, <1>6, <1>7, <1>8, <1>9 DEF ViewerNext

\* The goroutine that serves the host.
LEMMA GateRelay ==
  ASSUME TypeOK, GateInv, RelayNext
  PROVE  GateInv'
<1>1. Host \in Writer /\ Host \in {Host, Host}
  BY DEF Writer
<1>2. CASE HostTakeControl
  <2>1. /\ Pending(Host) = Nothing /\ Pending(Host)' = <<ControlChanged(Host, hostGrid)>>
        /\ WriterChanges(Host) /\ unwritten' = Overtaken
    BY <1>2 DEF HostTakeControl, HostFrame, Pending
  <2>2. UNCHANGED <<toHost, isActiveWriter, storing>> /\ hostGrid \in Size
    BY <1>2 DEF HostTakeControl, loopVars, TypeOK
  <2>3. QED BY <1>1, <2>1, <2>2, GateTurned
<1>3. CASE HandleHostSize \/ LockExpires
  <2>1. UNCHANGED <<activeWriterID, crossed, unwritten, hostUnwritten, toHost,
                    isActiveWriter, storing>>
    BY <1>3 DEF HandleHostSize, LockExpires, loopVars
  <2>2. QED BY <2>1, GateStutter DEF Believes
<1>4. CASE WriteHostUnwritten
  <2>1. Pending(Host) = hostUnwritten /\ Pending(Host) # Nothing
    BY <1>4 DEF Pending, WriteHostUnwritten
  <2>2. \A x \in Writer : Pending(x)' = IF x = Host THEN Nothing ELSE Pending(x)
    BY <1>4 DEF Pending, WriteHostUnwritten
  <2>3. /\ toHost' = toHost \o Pending(Host)
        /\ UNCHANGED <<activeWriterID, crossed, isActiveWriter, storing>>
    BY <1>4, <2>1 DEF WriteHostUnwritten, loopVars
  <2>4. QED BY <1>1, <2>1, <2>2, <2>3, GateWritten
<1>5. QED BY <1>2, <1>3, <1>4 DEF RelayNext

\* The message loop, the watcher and the user of the host process.
LEMMA GateHost ==
  ASSUME TypeOK, GateInv, Reclaim \/ LoopNext \/ WatchNext
  PROVE  GateInv'
<1>1. CASE ReadControlChanged
  <2>1. toHost # <<>> /\ toHost' = Tail(toHost) /\ IsControl(Head(toHost))
    BY <1>1 DEF ReadControlChanged, Reading, IsControl
  <2>2. Head(toHost) \in FrameToHost
    BY <2>1, QueueTyped DEF TypeOK
  <2>3. Head(toHost).writer \in Writer
    BY <2>1, <2>2 DEF FrameToHost, IsControl
  <2>4. Believes' <=> (Head(toHost).writer = Host)
    BY <1>1, <2>3 DEF ReadControlChanged, Believes, Writer
  <2>5. UNCHANGED <<activeWriterID, crossed, unwritten, hostUnwritten>>
    BY <1>1 DEF ReadControlChanged, relayVars
  <2>6. QED BY <2>1, <2>4, <2>5, GateRead
<1>2. CASE ReadResize \/ ReadInput
  <2>1. toHost # <<>> /\ toHost' = Tail(toHost) /\ ~IsControl(Head(toHost))
    BY <1>2 DEF ReadResize, ReadInput, Reading, IsControl
  <2>2. UNCHANGED <<activeWriterID, crossed, unwritten, hostUnwritten, isActiveWriter,
                    storing>>
    BY <1>2 DEF ReadResize, ReadInput, relayVars, loopVars
  <2>3. Believes' = Believes
    BY <2>2 DEF Believes
  <2>4. QED BY <2>1, <2>2, <2>3, GateRead
<1>3. CASE StoreActive
  <2>1. UNCHANGED <<activeWriterID, crossed, unwritten, hostUnwritten, toHost>>
    BY <1>3 DEF StoreActive, relayVars
  <2>2. Believes' <=> Believes
    BY <1>3 DEF StoreActive, Believes
  <2>3. QED BY <2>1, <2>2, GateStutter
<1>4. CASE Reclaim \/ WatchNext
  <2>1. UNCHANGED <<activeWriterID, crossed, unwritten, hostUnwritten, toHost,
                    isActiveWriter, storing>>
    BY <1>4 DEF Reclaim, WatchNext, TerminalResized, ForwardSignal, WatchEvent,
                WatchGate, WatchResize, relayVars, loopVars
  <2>2. QED BY <2>1, GateStutter DEF Believes
<1>5. QED BY <1>1, <1>2, <1>3, <1>4 DEF LoopNext

LEMMA GateInductive == Spec => [](TypeOK /\ GateInv)
<1>1. TypeOK /\ GateInv /\ [Next]_vars => GateInv'
  <2> SUFFICES ASSUME TypeOK, GateInv, [Next]_vars PROVE GateInv'
    OBVIOUS
  <2>1. CASE UNCHANGED vars
    BY <2>1, GateStutter DEF vars, relayVars, loopVars, Believes
  <2>2. QED
    BY <2>1, GateViewer, GateRelay, GateHost DEF Next
<1>2. QED BY <1>1, GateInit, TypeCorrect, PTL DEF Spec

-----------------------------------------------------------------------------
(* The gate.                                                               *)

\* Unless the words of two changes of the writer crossed, the gate of
\* isActiveWriter is open, with nothing under way any more, exactly if the relay
\* has the host as the writer: however inputs, resizes and the writes of the
\* other goroutines fall in between.
THEOREM GateFollows == Spec => []GateFollowsWriter
<1>1. TypeOK /\ GateInv => GateFollowsWriter
  <2> SUFFICES ASSUME TypeOK, GateInv, ~crossed, Settled
               PROVE  isActiveWriter <=> activeWriterID = Host
    BY DEF GateFollowsWriter, KeyboardFollowsWriter
  <2>1. \A w \in Writer : Pending(w) = Nothing
    BY DEF Settled, AllWritten, Pending, Writer
  <2>2. Told(toHost, Believes, Len(toHost), activeWriterID = Host)
    BY <2>1 DEF GateInv, Agreed, Silence, Speaks, Holds
  <2>3. Len(toHost) = 0
    BY DEF Settled
  <2>4. Believes <=> activeWriterID = Host
    BY <2>2, <2>3 DEF Told
  <2>5. QED BY <2>4 DEF Settled, Believes
<1>2. QED BY <1>1, GateInductive, PTL

\* An input that no change of the writer overtook on its way into the socket is
\* read by the host with its own keyboard shut.
THEOREM InputWhileShut == Spec => TimelyInputOnlyWhileShut
<1> DEFINE Step == \A v \in Viewer : Applied(Input(v, FALSE)) => ~isActiveWriter
<1>1. TypeOK /\ GateInv /\ [Next]_vars => Step
  <2> SUFFICES ASSUME TypeOK, GateInv, [Next]_vars,
                      NEW u \in Viewer, Applied(Input(u, FALSE))
               PROVE  ~isActiveWriter
    OBVIOUS
  <2>0. /\ toHost # <<>> /\ toHost' = Tail(toHost)
        /\ Timely(Head(toHost)) /\ ~IsControl(Head(toHost))
    BY DEF Applied, Input, Timely, IsControl
  <2>1. /\ toHost \in Seq(FrameToHost) /\ toHost[1] = Head(toHost)
        /\ 1 \in 1 .. Len(toHost) /\ Len(toHost') < Len(toHost) /\ toHost' # toHost
    BY <2>0 DEF TypeOK
  <2>2. Told(toHost, Believes, 1, FALSE)
    BY <2>0, <2>1 DEF GateInv, InputsTold
  <2>3. ~Believes
    BY <2>0, <2>1, <2>2 DEF Told
  <2>4. CASE LoopNext
    <3>1. storing = "no"
      BY <2>1, <2>4 DEF LoopNext, ReadControlChanged, StoreActive, ReadResize,
                        ReadInput, Reading
    <3>2. QED BY <2>3, <3>1 DEF Believes
  <2>5. ASSUME NEW v \in Viewer, WriteToHost(v) PROVE FALSE
    <3>1. unwritten[v] \in Seq(FrameToHost)
      BY DEF TypeOK
    <3>2. Len(toHost') >= Len(toHost)
      BY <2>1, <2>5, <3>1 DEF WriteToHost
    <3>3. QED BY <2>1, <3>2
  <2>6. CASE WriteHostUnwritten
    <3>1. Len(toHost') >= Len(toHost)
      BY <2>1, <2>6 DEF WriteHostUnwritten, TypeOK
    <3>2. QED BY <2>1, <3>1
  <2>7. CASE UNCHANGED toHost
    BY <2>1, <2>7
  <2>8. QED
    BY <2>4, <2>5, <2>6, <2>7
    DEF Next, ViewerNext, RelayNext, WatchNext, TakeControl, HandleResize,
        HandleInput, HandleViewerDisconnect, Join, HostTakeControl,
        HandleHostSize, LockExpires, Reclaim, TerminalResized, ForwardSignal,
        WatchEvent, WatchGate, WatchResize, vars
<1>2. QED BY <1>1, GateInductive, PTL DEF Spec, TimelyInputOnlyWhileShut
=============================================================================
