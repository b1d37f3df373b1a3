---------------------------- MODULE ControlPlane ----------------------------
(***************************************************************************)
(* Who drives the terminal, and at which size, on its way through the two   *)
(* programs: the relay changes the writer and the grid under session.mu and *)
(* writes what it has to tell the host after unlocking                      *)
(* (internal/relay/control.go); the host's message loop applies it to the   *)
(* PTY and to the gate of the local keyboard (cmd/getsloth/auth.go), while  *)
(* its resize watcher follows the terminal window (cmd/getsloth/pty.go).    *)
(* The session is in remote mode and every viewer here has been let in; how *)
(* viewers come and go is in module Session.                                *)
(***************************************************************************)
EXTENDS Naturals, Sequences

CONSTANTS
    Viewer,     \* authenticated viewers, each served by its own goroutine
    Host,
    Size,       \* terminal grids that validTerminalSize accepts
    MaxQueue    \* how many frames a socket takes before its writer waits

ASSUME PlaneAssumption ==
    /\ Host \notin Viewer
    /\ "no" \notin Viewer \cup {Host}  \* storing = "no": nothing to store
    /\ MaxQueue \in Nat \ {0}

VARIABLES
    \* The fields of Session that session.mu guards.
    activeWriterID, grid, hostGrid,
    locked,     \* less than HostLockWindow since lastHostReclaim
    \* The relay's goroutines.
    connected,  \* the viewer's read loop runs
    unwritten,  \* what a viewer's goroutine has yet to write to the host
    hostUnwritten,
    \* The host's websocket.
    toHost, toRelay,
    \* The host process.
    isActiveWriter,           \* the gate of the local keyboard
    ptySize, termSize,
    sigwinch, resizeEvent,    \* the two channels of capacity one
    watcher, seen,            \* the goroutine of watchResize
    storing,                  \* the message loop, between resize and Store
    \* History.
    asked,    \* the last grid each viewer asked for
    crossed   \* at the last change of the writer, another was still unwritten

relayVars   == <<activeWriterID, grid, hostGrid, locked, connected, unwritten,
                 hostUnwritten, asked, crossed>>
watchVars   == <<termSize, sigwinch, resizeEvent, watcher, seen>>
loopVars    == <<isActiveWriter, storing>>
vars        == <<relayVars, toHost, toRelay, ptySize, watchVars, loopVars>>

Writer == Viewer \cup {Host}

-----------------------------------------------------------------------------
(* Frames.                                                                 *)

ControlChanged(w, s) == [type |-> "control_changed", writer |-> w, size |-> s]

\* A faulty Resize: the frame is of a type meant for the relay.
ResizeMistyped(v, s) == [type |-> "host_size", writer |-> v, size |-> s]

Resize(v, s)         == [type |-> "resize", writer |-> v, size |-> s]
\* late is history: what the relay knew of the writer may have been overtaken.
Input(v, late)       == [type |-> "input", writer |-> v, late |-> late]
HostSize(s)          == [type |-> "host_size", size |-> s]
\* The size of the host's take_control is not looked at.
TakeControlFrame     == [type |-> "take_control"]

FrameToHost  == [type : {"control_changed", "resize"}, writer : Writer,
                  size : Size]
                \cup [type : {"input"}, writer : Viewer, late : BOOLEAN]
FrameToRelay == [type : {"host_size"}, size : Size] \cup {TakeControlFrame}

\* What a goroutine has to write is a sequence of at most one frame.
Nothing == <<>>

TypeOK ==
    /\ activeWriterID \in Writer
    /\ grid \in Size /\ hostGrid \in Size
    /\ locked \in BOOLEAN
    /\ connected \in [Viewer -> BOOLEAN]
    /\ unwritten \in [Viewer -> Seq(FrameToHost)]
    /\ hostUnwritten \in Seq(FrameToHost)
    /\ toHost \in Seq(FrameToHost)
    /\ toRelay \in Seq(FrameToRelay)
    /\ isActiveWriter \in BOOLEAN
    /\ ptySize \in Size /\ termSize \in Size /\ seen \in Size
    /\ sigwinch \in BOOLEAN /\ resizeEvent \in BOOLEAN
    /\ watcher \in {"waiting", "sent", "resizing"}
    /\ storing \in {"no"} \cup Writer
    /\ asked \in [Viewer -> Size]
    /\ crossed \in BOOLEAN

\* After session_config and startPTY: every size is the terminal's, the host
\* writes, and resizeEvents has put one event into its channel.
Init ==
    /\ activeWriterID = Host
    /\ \E s \in Size :
         /\ grid = s /\ hostGrid = s /\ ptySize = s /\ termSize = s /\ seen = s
         /\ asked = [v \in Viewer |-> s]
    /\ locked = FALSE
    /\ connected = [v \in Viewer |-> TRUE]
    /\ unwritten = [v \in Viewer |-> Nothing]
    /\ hostUnwritten = Nothing
    /\ toHost = <<>> /\ toRelay = <<>>
    /\ isActiveWriter = TRUE
    /\ sigwinch = FALSE /\ resizeEvent = TRUE
    /\ watcher = "waiting"
    /\ storing = "no"
    /\ crossed = FALSE

-----------------------------------------------------------------------------
(* The relay: the lock sections of control.go.                             *)

AllWritten == hostUnwritten = Nothing /\ \A v \in Viewer : unwritten[v] = Nothing

Holds(u, type) == u # Nothing /\ Head(u).type = type

\* History: the writer changes.  Another goroutine may have a word of an earlier
\* change to write yet, and the inputs that are still to be written are late.
WriterChanges(w) ==
    /\ activeWriterID' = w
    /\ crossed' = \/ hostUnwritten # Nothing
                  \/ \E v \in Viewer : Holds(unwritten[v], "control_changed")

Overtaken == [v \in Viewer |-> IF Holds(unwritten[v], "input")
                                 THEN <<Input(v, TRUE)>> ELSE unwritten[v]]

\* The goroutine of v handles its next frame, or finds the socket dead.
Ready(v) == connected[v] /\ unwritten[v] = Nothing

\* handleTakeControl, sent by viewer v.
TakeControl(v, s) ==
    /\ Ready(v)
    /\ ~locked
    /\ WriterChanges(v)
    /\ grid' = s
    /\ asked' = [asked EXCEPT ![v] = s]
    /\ unwritten' = [Overtaken EXCEPT ![v] = <<ControlChanged(v, s)>>]
    /\ UNCHANGED <<hostGrid, locked, connected, hostUnwritten, toHost, toRelay,
                   ptySize, watchVars, loopVars>>

\* A faulty HandleResize: it does not look who the active writer is.
HandleResizeOfAnyone(v, s) ==
    /\ Ready(v)
    /\ grid' = s
    /\ asked' = [asked EXCEPT ![v] = s]
    /\ unwritten' = [unwritten EXCEPT ![v] = <<Resize(v, s)>>]
    /\ UNCHANGED <<activeWriterID, hostGrid, locked, connected, hostUnwritten,
                   crossed, toHost, toRelay, ptySize, watchVars, loopVars>>

\* handleResize: only the active writer's browser resizes the PTY.
HandleResize(v, s) ==
    /\ Ready(v)
    /\ activeWriterID = v
    /\ grid' = s
    /\ asked' = [asked EXCEPT ![v] = s]
    /\ unwritten' = [unwritten EXCEPT ![v] = <<Resize(v, s)>>]
    /\ UNCHANGED <<activeWriterID, hostGrid, locked, connected, hostUnwritten,
                   crossed, toHost, toRelay, ptySize, watchVars, loopVars>>

\* A faulty HandleInput: anybody's input is forwarded.
HandleInputOfAnyone(v) ==
    /\ Ready(v)
    /\ unwritten' = [unwritten EXCEPT ![v] = <<Input(v, crossed)>>]
    /\ UNCHANGED <<activeWriterID, grid, hostGrid, locked, connected,
                   hostUnwritten, asked, crossed, toHost, toRelay, ptySize,
                   watchVars, loopVars>>

\* handleInput: the writer is looked up under the lock, the input written after.
HandleInput(v) ==
    /\ Ready(v)
    /\ activeWriterID = v
    /\ unwritten' = [unwritten EXCEPT ![v] = <<Input(v, crossed)>>]
    /\ UNCHANGED <<activeWriterID, grid, hostGrid, locked, connected,
                   hostUnwritten, asked, crossed, toHost, toRelay, ptySize,
                   watchVars, loopVars>>

\* Two faulty HandleViewerDisconnect: the grid is not restored; or the host is
\* not told.
DisconnectKeepsGrid(v) ==
    /\ Ready(v)
    /\ connected' = [connected EXCEPT ![v] = FALSE]
    /\ IF activeWriterID = v
         THEN /\ WriterChanges(Host)
              /\ unwritten' = [Overtaken EXCEPT
                                 ![v] = <<ControlChanged(Host, grid)>>]
         ELSE UNCHANGED <<activeWriterID, crossed, unwritten>>
    /\ UNCHANGED <<grid, hostGrid, locked, hostUnwritten, asked, toHost, toRelay,
                   ptySize, watchVars, loopVars>>

DisconnectSilently(v) ==
    /\ Ready(v)
    /\ connected' = [connected EXCEPT ![v] = FALSE]
    /\ IF activeWriterID = v
         THEN /\ WriterChanges(Host)
              /\ grid' = hostGrid
              /\ unwritten' = Overtaken
         ELSE UNCHANGED <<activeWriterID, crossed, grid, unwritten>>
    /\ UNCHANGED <<hostGrid, locked, hostUnwritten, asked, toHost, toRelay,
                   ptySize, watchVars, loopVars>>

\* handleViewerDisconnect: if v was the writer, the host is, at its own size.
HandleViewerDisconnect(v) ==
    /\ Ready(v)
    /\ connected' = [connected EXCEPT ![v] = FALSE]
    /\ IF activeWriterID = v
         THEN /\ WriterChanges(Host)
              /\ grid' = hostGrid
              /\ unwritten' = [Overtaken EXCEPT
                                 ![v] = <<ControlChanged(Host, hostGrid)>>]
         ELSE UNCHANGED <<activeWriterID, crossed, grid, unwritten>>
    /\ UNCHANGED <<hostGrid, locked, hostUnwritten, asked, toHost, toRelay,
                   ptySize, watchVars, loopVars>>

\* Another viewer, or the same one again, is let in.
Join(v) ==
    /\ ~connected[v] /\ unwritten[v] = Nothing
    /\ connected' = [connected EXCEPT ![v] = TRUE]
    /\ UNCHANGED <<activeWriterID, grid, hostGrid, locked, unwritten,
                   hostUnwritten, asked, crossed, toHost, toRelay, ptySize,
                   watchVars, loopVars>>

\* writeJSON to the host, after the unlock.
WriteToHost(v) ==
    /\ unwritten[v] # Nothing
    /\ Len(toHost) < MaxQueue
    /\ toHost' = toHost \o unwritten[v]
    /\ unwritten' = [unwritten EXCEPT ![v] = Nothing]
    /\ UNCHANGED <<activeWriterID, grid, hostGrid, locked, connected,
                   hostUnwritten, asked, crossed, toRelay, ptySize, watchVars, loopVars>>

\* The goroutine that serves the host: its next frame is of this type.
HostFrame(type) ==
    /\ hostUnwritten = Nothing
    /\ toRelay # <<>> /\ Head(toRelay).type = type
    /\ toRelay' = Tail(toRelay)

\* A faulty HostTakeControl: the host is not told.
HostTakeControlSilently ==
    /\ HostFrame("take_control")
    /\ WriterChanges(Host)
    /\ grid' = hostGrid
    /\ locked' = TRUE
    /\ unwritten' = Overtaken
    /\ UNCHANGED <<hostGrid, connected, hostUnwritten, asked, toHost, ptySize,
                   watchVars, loopVars>>

\* handleTakeControl, sent by the host.
HostTakeControl ==
    /\ HostFrame("take_control")
    /\ WriterChanges(Host)
    /\ grid' = hostGrid
    /\ locked' = TRUE
    /\ unwritten' = Overtaken
    /\ hostUnwritten' = <<ControlChanged(Host, hostGrid)>>
    /\ UNCHANGED <<hostGrid, connected, asked, toHost, ptySize, watchVars,
                   loopVars>>

\* handleHostSize: the size is remembered, and used while the host writes.
HandleHostSize ==
    /\ HostFrame("host_size")
    /\ hostGrid' = Head(toRelay).size
    /\ grid' = IF activeWriterID = Host THEN Head(toRelay).size ELSE grid
    /\ UNCHANGED <<activeWriterID, locked, connected, unwritten, hostUnwritten,
                   asked, crossed, toHost, ptySize, watchVars, loopVars>>

WriteHostUnwritten ==
    /\ hostUnwritten # Nothing
    /\ Len(toHost) < MaxQueue
    /\ toHost' = toHost \o hostUnwritten
    /\ hostUnwritten' = Nothing
    /\ UNCHANGED <<activeWriterID, grid, hostGrid, locked, connected, unwritten,
                   asked, crossed, toRelay, ptySize, watchVars, loopVars>>

\* HostLockWindow has passed since the last reclaim.
LockExpires ==
    /\ locked
    /\ locked' = FALSE
    /\ UNCHANGED <<activeWriterID, grid, hostGrid, connected, unwritten,
                   hostUnwritten, asked, crossed, toHost, toRelay, ptySize,
                   watchVars, loopVars>>

-----------------------------------------------------------------------------
(* The host process.                                                       *)

\* Ctrl-] r, SIGUSR2 or the console: the host wants the terminal back.
Reclaim ==
    /\ Len(toRelay) < MaxQueue
    /\ toRelay' = Append(toRelay, TakeControlFrame)
    /\ UNCHANGED <<relayVars, toHost, ptySize, watchVars, loopVars>>

\* The message loop between two frames.
Reading(type) ==
    /\ storing = "no"
    /\ toHost # <<>> /\ Head(toHost).type = type
    /\ toHost' = Tail(toHost)

\* control_changed: the PTY takes its size ...
ReadControlChanged ==
    /\ Reading("control_changed")
    /\ ptySize' = Head(toHost).size
    /\ storing' = Head(toHost).writer
    /\ UNCHANGED <<relayVars, toRelay, watchVars, isActiveWriter>>

\* ... and then the gate is set.
StoreActive ==
    /\ storing # "no"
    /\ isActiveWriter' = (storing = Host)
    /\ storing' = "no"
    /\ UNCHANGED <<relayVars, toHost, toRelay, ptySize, watchVars>>

ReadResize ==
    /\ Reading("resize")
    /\ ptySize' = Head(toHost).size
    /\ UNCHANGED <<relayVars, toRelay, watchVars, loopVars>>

\* input: written to the PTY without another look at the gate.
ReadInput ==
    /\ Reading("input")
    /\ UNCHANGED <<relayVars, toRelay, ptySize, watchVars, loopVars>>

\* The user resizes the terminal window: SIGWINCH.
TerminalResized(s) ==
    /\ s # termSize
    /\ termSize' = s
    /\ sigwinch' = TRUE
    /\ UNCHANGED <<relayVars, toHost, toRelay, ptySize, resizeEvent, watcher,
                   seen, loopVars>>

\* A faulty ForwardSignal: an event is passed on only to a waiting watcher.
ForwardIfWaiting ==
    /\ sigwinch
    /\ sigwinch' = FALSE
    /\ resizeEvent' = (resizeEvent \/ watcher = "waiting")
    /\ UNCHANGED <<relayVars, toHost, toRelay, ptySize, termSize, watcher, seen,
                   loopVars>>

\* The goroutine of resizeEvents: an event more, unless one is waiting.
ForwardSignal ==
    /\ sigwinch
    /\ sigwinch' = FALSE
    /\ resizeEvent' = TRUE
    /\ UNCHANGED <<relayVars, toHost, toRelay, ptySize, termSize, watcher, seen,
                   loopVars>>

\* watchResize takes an event, reads the size and sends it ...
WatchEvent ==
    /\ watcher = "waiting" /\ resizeEvent
    /\ Len(toRelay) < MaxQueue
    /\ resizeEvent' = FALSE
    /\ seen' = termSize
    /\ toRelay' = Append(toRelay, HostSize(termSize))
    /\ watcher' = "sent"
    /\ UNCHANGED <<relayVars, toHost, ptySize, termSize, sigwinch, loopVars>>

\* ... looks at the gate ...
WatchGate ==
    /\ watcher = "sent"
    /\ watcher' = IF isActiveWriter THEN "resizing" ELSE "waiting"
    /\ UNCHANGED <<relayVars, toHost, toRelay, ptySize, termSize, sigwinch,
                   resizeEvent, seen, loopVars>>

\* ... and resizes the PTY.
WatchResize ==
    /\ watcher = "resizing"
    /\ ptySize' = seen
    /\ watcher' = "waiting"
    /\ UNCHANGED <<relayVars, toHost, toRelay, termSize, sigwinch, resizeEvent,
                   seen, loopVars>>

-----------------------------------------------------------------------------
ViewerNext(v) ==
    \/ \E s \in Size : TakeControl(v, s) \/ HandleResize(v, s)
    \/ HandleInput(v)
    \/ HandleViewerDisconnect(v) \/ Join(v)
    \/ WriteToHost(v)

RelayNext == HostTakeControl \/ HandleHostSize \/ WriteHostUnwritten \/ LockExpires

LoopNext == ReadControlChanged \/ StoreActive \/ ReadResize \/ ReadInput

WatchNext ==
    \/ \E s \in Size : TerminalResized(s)
    \/ ForwardSignal \/ WatchEvent \/ WatchGate \/ WatchResize

Next ==
    \/ \E v \in Viewer : ViewerNext(v)
    \/ RelayNext \/ Reclaim \/ LoopNext \/ WatchNext

Spec == Init /\ [][Next]_vars

\* Goroutines are scheduled and frames arrive; and a host whose keyboard is
\* shut off reclaims, again if need be.  A socket that several goroutines write
\* to is full now and then, and none of them is passed over for ever.
Fairness ==
    /\ \A v \in Viewer : SF_vars(WriteToHost(v))
    /\ WF_vars(HostTakeControl) /\ WF_vars(HandleHostSize)
    /\ SF_vars(WriteHostUnwritten)
    /\ WF_vars(LoopNext)
    /\ SF_vars(~isActiveWriter /\ Reclaim)
    /\ WF_vars(ForwardSignal)
    /\ SF_vars(WatchEvent)
    /\ WF_vars(WatchGate) /\ WF_vars(WatchResize)

FairSpec == Spec /\ Fairness

-----------------------------------------------------------------------------
(* Safety.                                                                 *)

\* docs/protocol.md, Control model: while the host is the writer the canonical
\* grid is its latest size, however control came back to it.
HostGridIsRestored == activeWriterID = Host => grid = hostGrid

\* While a viewer is the writer the grid is the one it asked for last: neither
\* another viewer nor the host's window resizes the PTY under it.
WriterKeepsItsGrid == activeWriterID # Host => grid = asked[activeWriterID]

\* The relay learns the last size of the host's window: no SIGWINCH is lost in
\* the two channels of capacity one.
LastSizeReachesRelay ==
    ~sigwinch /\ ~resizeEvent /\ toRelay = <<>> => hostGrid = termSize

\* Nothing is on its way between the programs or inside them.
Settled ==
    /\ AllWritten /\ toHost = <<>> /\ toRelay = <<>>
    /\ storing = "no"
    /\ ~sigwinch /\ ~resizeEvent /\ watcher = "waiting"

\* docs/protocol.md: exactly one connection is the active writer, the host's
\* keyboard included.  Once everything has arrived, the keyboard is open
\* exactly if the relay has the host as the writer.  The code does not guarantee
\* it: see the README.
KeyboardFollowsWriter == Settled => (isActiveWriter <=> activeWriterID = Host)

\* What the code does guarantee: they agree unless the last change of the writer
\* crossed an earlier one whose word was not yet written; and from the next
\* change that crosses none they agree again.
GateFollowsWriter == ~crossed => KeyboardFollowsWriter

\* docs/protocol.md: there is one canonical PTY grid, and the host's latest
\* size is restored when it reclaims.  Once everything has arrived the PTY has
\* the size the relay believes it has.  The code does not guarantee it: see the
\* README.
GridSettles == Settled => ptySize = grid

Applied(f) == toHost # <<>> /\ toHost' = Tail(toHost) /\ f = Head(toHost)

\* docs/protocol.md: input is applied to the PTY only if its sender is the
\* writer: none is applied once the host's own keyboard is open again.  The code
\* does not guarantee it: see the README.
InputOnlyWhileShut ==
    [][\A v \in Viewer, late \in BOOLEAN :
         Applied(Input(v, late)) => ~isActiveWriter]_vars

\* What the code does guarantee: only input that a change of the writer overtook
\* between its lookup and its write, or that was looked up when the words about
\* the writer had crossed, is applied with the keyboard open.
TimelyInputOnlyWhileShut ==
    [][\A v \in Viewer : Applied(Input(v, FALSE)) => ~isActiveWriter]_vars

(* Liveness.                                                               *)

\* docs/protocol.md: the host's override always works in the end.
HostGetsTheKeyboard == ~isActiveWriter ~> isActiveWriter

=============================================================================
