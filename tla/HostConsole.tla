----------------------------- MODULE HostConsole -----------------------------
(***************************************************************************)
(* The host's side of a session and its control console: the message loop   *)
(* keeps the gate and the status (main.go, auth.go), the control server     *)
(* hands out snapshots and carries out actions, a goroutine per connection  *)
(* (host_control_server.go), and the console polls it                       *)
(* (host_control_bubbletea.go).  What the relay makes of a reclaim is the   *)
(* subject of ControlPlane; here it may send any frame at any time.         *)
(*                                                                         *)
(* A snapshot is fresh as long as the status is the one it was taken of.    *)
(***************************************************************************)
EXTENDS HostStatus, HostInput

CONSTANTS
    Request,   \* bound: requests of the console that are under way at a time
    MaxTyped   \* bound on what is typed in one chunk

ASSUME ConsoleAssumption ==
    /\ Host \notin Viewer /\ MaxEvents \in Nat /\ MaxTyped \in Nat
    /\ Request # {}

VARIABLES
    link,           \* the relay connection: "up", "down", or its loop has "ended"
    gate,           \* isActiveWriter
    status,         \* hostSessionStatus
    prefixPending,  \* of gatedWriter
    server,         \* hostControlServer
    console,        \* the console's window: "open" or "closed", as the server
    shown,          \* the console's snapshot: "fresh" or "stale"
    request         \* each of the console's chains of requests: "none" yet, at
                    \* "tick", "asking" for a snapshot, asking for "reclaim" or
                    \* "kill", or with an answer: "fresh", "stale" or "error"

consoleVars == <<console, shown, request>>
vars == <<link, gate, status, prefixPending, server, consoleVars>>

\* The console has been launched with a first snapshot and asks for another.
Init ==
    /\ link = "up" /\ gate = TRUE
    /\ status = NewStatus
    /\ prefixPending = FALSE
    /\ server = "open" /\ console = "open" /\ shown = "fresh"
    /\ \E r \in Request :
         request = [q \in Request |-> IF q = r THEN "asking" ELSE "none"]

\* The status becomes s: what was taken of the old one is stale.
SetStatus(s) ==
    /\ status' = s
    /\ IF s = status THEN UNCHANGED <<shown, request>>
       ELSE /\ shown' = "stale"
            /\ request' = [r \in Request |-> IF request[r] = "fresh" THEN "stale"
                                                                     ELSE request[r]]

-----------------------------------------------------------------------------
(* runHostMessageLoop.                                                     *)

\* A roster; the host is in it unless it was not yet, or no longer, there.
Presence ==
    /\ link = "up"
    /\ \E roster \in SUBSET Viewer, writers \in {{w} : w \in Writer} \cup {{}} :
         /\ writers \subseteq roster \cup {Host}
         /\ SetStatus(UpdatePresence(status, roster, writers))
    /\ UNCHANGED <<link, gate, prefixPending, server, console>>

ControlChanged ==
    /\ link = "up"
    /\ \E w \in Writer :
         /\ gate' = (w = Host)
         /\ SetStatus(UpdateControl(status, w))
    /\ UNCHANGED <<link, prefixPending, server, console>>

ChatMessage ==
    /\ link = "up"
    /\ SetStatus(NoteChat(status))
    /\ UNCHANGED <<link, gate, prefixPending, server, console>>

LoseRelay ==
    /\ link = "up" /\ link' = "down"
    /\ UNCHANGED <<gate, status, prefixPending, server, consoleVars>>

\* The loop returns, and its deferred setDisconnected runs; the gate stays.
LoopEnds ==
    /\ link = "down" /\ link' = "ended"
    /\ SetStatus(SetDisconnected(status))
    /\ UNCHANGED <<gate, prefixPending, server, console>>

-----------------------------------------------------------------------------
(* The host's own keyboard and signals.                                    *)

Chunk == UNION {[1 .. n -> Byte] : n \in 1 .. MaxTyped}

\* gatedWriter; a reclaim is a frame to the relay, if there still is one.
Type(chunk) ==
    /\ prefixPending' = Write(Idle(prefixPending), chunk, gate).pending
    /\ UNCHANGED <<link, gate, status, server, consoleVars>>

\* killViewers, sent by SIGUSR1: noted if the frame could be written.
SoftKill ==
    /\ link = "up"
    /\ SetStatus(NoteKillSwitch(status))
    /\ UNCHANGED <<link, gate, prefixPending, server, console>>

\* cleanup begins with controlServer.Close.
CloseServer ==
    /\ server = "open" /\ server' = "closed"
    /\ UNCHANGED <<link, gate, status, prefixPending, consoleVars>>

-----------------------------------------------------------------------------
(* hostControlServer.handle, a goroutine per request.                      *)

\* At(r, s, t): request r goes on from stage s to t.
At(r, s, t) == request[r] = s /\ request' = [request EXCEPT ![r] = t]

\* invoke("reclaim"): the write to the relay may fail once the relay is lost.
InvokeReclaim(r) ==
    /\ At(r, "reclaim", "asking") \/ (link # "up" /\ At(r, "reclaim", "error"))
    /\ UNCHANGED <<link, gate, status, prefixPending, server, console, shown>>

\* invoke("kill"): killViewers, then as for a snapshot.
InvokeKill(r) ==
    /\ request[r] = "kill"
    /\ \/ /\ status' = NoteKillSwitch(status) /\ shown' = "stale"
          /\ request' = [q \in Request |->
                           IF q = r THEN "asking"
                           ELSE IF request[q] = "fresh" THEN "stale" ELSE request[q]]
       \/ link # "up" /\ At(r, "kill", "error") /\ UNCHANGED <<status, shown>>
    /\ UNCHANGED <<link, gate, prefixPending, server, console>>

\* The snapshot; a connection that was accepted outlives Close.
Answer(r) ==
    /\ At(r, "asking", "fresh")
    /\ UNCHANGED <<link, gate, status, prefixPending, server, console, shown>>

\* The connection fails.
Fail(r) ==
    /\ \E s \in {"asking", "reclaim", "kill"} : At(r, s, "error")
    /\ UNCHANGED <<link, gate, status, prefixPending, server, console, shown>>

-----------------------------------------------------------------------------
(* hostControlTUI.Update.                                                  *)

\* A faulty SnapshotMsg: nothing is asked again after an error.
SnapshotMsgOnce(r) ==
    /\ console = "open"
    /\ \/ At(r, "fresh", "tick") /\ shown' = "fresh"
       \/ At(r, "stale", "tick") /\ shown' = "stale"
       \/ At(r, "error", "none") /\ UNCHANGED shown
    /\ UNCHANGED <<link, gate, status, prefixPending, server, console>>

\* hostControlSnapshotMsg, of whichever request comes first: the snapshot is
\* replaced unless there was an error, and a tick is due in a second either way.
SnapshotMsg(r) ==
    /\ console = "open"
    /\ \/ At(r, "fresh", "tick") /\ shown' = "fresh"
       \/ At(r, "stale", "tick") /\ shown' = "stale"
       \/ At(r, "error", "tick") /\ UNCHANGED shown
    /\ UNCHANGED <<link, gate, status, prefixPending, server, console>>

\* The socket is dialled, in vain once the server has been closed.
Dialled(stage) == IF server = "open" THEN stage ELSE "error"

RefreshMsg(r) ==
    /\ console = "open" /\ At(r, "tick", Dialled("asking"))
    /\ UNCHANGED <<link, gate, status, prefixPending, server, console, shown>>

\* [r] or [k]: a request of its own, which polls as well from then on.
ActionKey(r) ==
    /\ console = "open"
    /\ \E action \in {"reclaim", "kill"} : At(r, "none", Dialled(action))
    /\ UNCHANGED <<link, gate, status, prefixPending, server, console, shown>>

Quit ==
    /\ console = "open" /\ console' = "closed"
    /\ UNCHANGED <<link, gate, status, prefixPending, server, shown, request>>

-----------------------------------------------------------------------------
Serve(r) == InvokeReclaim(r) \/ InvokeKill(r) \/ Answer(r)

Next ==
    \/ Presence \/ ControlChanged \/ ChatMessage \/ LoseRelay \/ LoopEnds
    \/ (\E chunk \in Chunk : Type(chunk)) \/ SoftKill \/ CloseServer \/ Quit
    \/ \E r \in Request :
         Serve(r) \/ Fail(r) \/ SnapshotMsg(r) \/ RefreshMsg(r) \/ ActionKey(r)

Spec == Init /\ [][Next]_vars

\* Goroutines are scheduled, timers fire, and dialling does not fail for ever.
Fairness ==
    /\ WF_vars(LoopEnds)
    /\ \A r \in Request : SF_vars(Answer(r)) /\ WF_vars(Serve(r) \/ Fail(r))
                          /\ WF_vars(SnapshotMsg(r) \/ RefreshMsg(r))

FairSpec == Spec /\ Fairness

-----------------------------------------------------------------------------
(* Safety.                                                                 *)

\* However the host's keys come in chunks, and whether or not a prefix is
\* pending from before, the same commands are carried out and the same bytes
\* reach the program as their sequence means: commands work whatever the gate.
CommandsAreChunkBlind ==
    \A typed \in Chunk : \A cut \in 0 .. Len(typed) :
        Write(Write(Idle(prefixPending), SubSeq(typed, 1, cut), gate),
              SubSeq(typed, cut + 1, Len(typed)), gate)
          = Meaning(IF prefixPending THEN <<Prefix>> \o typed ELSE typed, gate)

(* Liveness.                                                               *)

\* Once the status is left alone, the console comes to show it and goes on
\* showing it, although answers may overtake each other: unless it is closed or
\* the host process has gone, which it does not show.
ConsoleCatchesUp ==
    \/ []<><<status' # status>>_vars
    \/ <>[](shown = "fresh")
    \/ <>(console = "closed" \/ server = "closed")

=============================================================================
