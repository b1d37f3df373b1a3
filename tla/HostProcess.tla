---------------------------- MODULE HostProcess ----------------------------
(***************************************************************************)
(* The life of one getsloth process on the host: runCLIWithLauncher and run *)
(* (cmd/getsloth/main.go, pty.go) with the goroutines they start, the one   *)
(* relay connection all of them write to (relay_client.go), and the PTY of  *)
(* either back end (pty_unix.go, pty_windows.go).  Goroutines:              *)
(*   main    starts the program, copies its output, takes everything down;  *)
(*   panic   SIGINT/SIGTERM: cuts the relay off, then has the tree killed;  *)
(*   kill    kills the tree when panicKill is closed;                       *)
(*   soft    SIGUSR1/SIGUSR2;    resize  watchResize;                       *)
(*   loop    runHostMessageLoop; keys    the local keyboard, Ctrl-] r;      *)
(*   watch   on Windows, closes the console when the program exits.         *)
(***************************************************************************)
EXTENDS ConPty

VARIABLES
    backend,    \* "unix" or "windows"
    relayed,    \* connectHost succeeded
    at,         \* how far each goroutine is
    writers,    \* who is in WriteJSON: the first holds safeConn.mu
    net,        \* the relay connection
    closed,     \* the channels closed so far
    panicked,   \* a panic signal was delivered
    child,      \* the wrapped program
    others,     \* what else holds its terminal: processes of its group, or at
                \* least one that is in another (a job of a shell, a daemon)
    output,     \* what main reads the program's output from
    ptyOpen,    \* run has not called proc.Close
    inside,     \* goroutines inside resize's system call
    held        \* on Windows, what is to be given back

ptyVars == <<child, others, output, ptyOpen, inside, held>>
netVars == <<writers, net>>
vars    == <<backend, relayed, at, netVars, closed, panicked, ptyVars>>

\* Whom cleanup and run wait for: neither for kill nor for keys.
Joined    == {"panic", "soft", "loop", "resize"}
Goroutine == Joined \cup {"main", "kill", "keys", "watch"}
Sent      == {"output", "end_session", "kill_switch", "take_control",
              "auth_response", "host_size"}

TypeOK ==
    /\ backend \in {"unix", "windows"} /\ relayed \in BOOLEAN
    /\ at \in [Goroutine -> Sent \cup
         {"start", "copying", "exiting", "join_resize", "close_pty", "stop_soft",
          "join_soft", "join_panic", "close_ws", "join_loop",
          "returned", "waiting", "reading", "typing", "sized", "closing", "done"}]
    /\ writers \in Seq(Goroutine)
    /\ \A g \in Goroutine : at[g] \in Sent <=> \E i \in DOMAIN writers : writers[i] = g
    /\ net \in {"up", "down", "closed"}
    /\ panicked \in BOOLEAN
    /\ closed \subseteq {"resize", "watch", "soft", "panic", "panicKill"}
    /\ child \in {"none", "running", "exited"} /\ others \in {"none", "group", "apart"}
    /\ output \in {"open", "ended"} /\ ptyOpen \in BOOLEAN
    /\ inside \subseteq {"loop", "resize"}
    /\ held \subseteq UNION {StartSteps[i].gets : i \in DOMAIN StartSteps}

\* The relay has been dialled, the signal goroutines run, run begins.
Init ==
    /\ backend \in {"unix", "windows"} /\ relayed \in BOOLEAN
    /\ at = [g \in Goroutine |->
               IF g = "main" THEN "start"
               ELSE IF g = "panic" \/ (g = "soft" /\ relayed) THEN "waiting" ELSE "done"]
    /\ net = IF relayed THEN "up" ELSE "closed"
    /\ writers = <<>> /\ closed = {} /\ panicked = FALSE
    /\ child = "none" /\ others = "none" /\ output = "open" /\ ptyOpen = FALSE
    /\ inside = {} /\ held = {}

Goto(g, pc)  == at' = [at EXCEPT ![g] = pc]
CloseChan(c) == closed' = closed \cup {c}
Broken       == net \in {"down", "closed"}

-----------------------------------------------------------------------------
(* safeConn.                                                               *)

\* g calls WriteJSON.
Send(g, frame) == Goto(g, frame) /\ writers' = Append(writers, g)

\* Where each goroutine goes on after its frame.
AfterWrite(g) ==
    CASE g = "main"   -> IF at[g] = "output" THEN "copying" ELSE "close_ws"
      [] g = "panic"  -> "close_ws"
      [] g = "soft"   -> "waiting"
      [] g = "resize" -> "sized"
      [] OTHER        -> "reading"

\* A faulty EndWrite: the mutex is not taken again for the second frame.
EndWriteOnce(g) ==
    /\ writers # <<>> /\ g = Head(writers)
    /\ writers' = Tail(writers)
    /\ Goto(g, IF at[g] = "kill_switch" /\ g = "panic" THEN "end_session"
                                                       ELSE AfterWrite(g))
    /\ UNCHANGED <<backend, relayed, net, closed, panicked, ptyVars>>

\* The write returns, with an error if the connection is gone; on a network that
\* stalls it takes its time, and everybody who wants to write waits behind it.
EndWrite(g) ==
    /\ writers # <<>> /\ g = Head(writers)
    /\ IF at[g] = "kill_switch" /\ g = "panic"
         THEN Goto(g, "end_session") /\ writers' = Append(Tail(writers), g)
         ELSE Goto(g, AfterWrite(g)) /\ writers' = Tail(writers)
    /\ UNCHANGED <<backend, relayed, net, closed, panicked, ptyVars>>

LoseRelay ==
    /\ net = "up" /\ net' = "down"
    /\ UNCHANGED <<backend, relayed, at, writers, closed, panicked, ptyVars>>

-----------------------------------------------------------------------------
(* main.                                                                   *)

\* startPTY fails: at its k-th call on Windows, or as a whole.
StartFails ==
    /\ at["main"] = "start"
    /\ held' \in IF backend = "unix" THEN {{}}
                 ELSE {HeldAfterFailure(k) : k \in DOMAIN StartSteps}
    /\ Goto("main", "stop_soft")
    /\ UNCHANGED <<backend, relayed, netVars, closed, panicked, child, others,
                   output, ptyOpen, inside>>

\* The program runs and so do the goroutines that run starts; there is a
\* resize watcher if stdin is a terminal, a message loop if there is a relay.
Start ==
    /\ at["main"] = "start"
    /\ \E terminal \in BOOLEAN :
         at' = [at EXCEPT !["main"]   = "copying",
                          !["kill"]   = "waiting",
                          !["resize"] = IF terminal THEN "waiting" ELSE "done",
                          !["loop"]   = IF relayed THEN "reading" ELSE "done",
                          !["keys"]   = IF relayed THEN "reading" ELSE "done",
                          !["watch"]  = IF backend = "windows" THEN "waiting" ELSE "done"]
    /\ child' = "running" /\ ptyOpen' = TRUE
    /\ others' \in IF backend = "unix" THEN {"none", "group", "apart"} ELSE {"none"}
    /\ held' = IF backend = "windows" THEN HeldWhenStarted ELSE {}
    /\ UNCHANGED <<backend, relayed, netVars, closed, panicked, output, inside>>

\* io.Copy to the terminal and the relayOutputWriter: one chunk.
Copy ==
    /\ at["main"] = "copying" /\ relayed /\ output = "open"
    /\ Send("main", "output")
    /\ UNCHANGED <<backend, relayed, net, closed, panicked, ptyVars>>

\* Unix: reading fails once nobody holds the terminal any more.
OutputEnds ==
    /\ backend = "unix" /\ output = "open" /\ child = "exited" /\ others = "none"
    /\ output' = "ended"
    /\ UNCHANGED <<backend, relayed, at, netVars, closed, panicked, child, others,
                   ptyOpen, inside, held>>

CopyEnds ==
    /\ at["main"] = "copying" /\ output = "ended"
    /\ Goto("main", "exiting")
    /\ UNCHANGED <<backend, relayed, netVars, closed, panicked, ptyVars>>

\* proc.wait returns, and the deferred stopResize closes its channel.
Wait ==
    /\ at["main"] = "exiting" /\ child = "exited" /\ at["watch"] = "done"
    /\ CloseChan("resize") /\ Goto("main", "join_resize")
    /\ UNCHANGED <<backend, relayed, netVars, panicked, ptyVars>>

\* ... waits for the watcher; then the deferred close of stopPanicWatch.
JoinResize ==
    /\ at["main"] = "join_resize" /\ at["resize"] = "done"
    /\ CloseChan("watch") /\ Goto("main", "close_pty")
    /\ UNCHANGED <<backend, relayed, netVars, panicked, ptyVars>>

\* proc.Close: on Unix not while resize holds unixPTY.mu.
ClosePty ==
    /\ at["main"] = "close_pty"
    /\ backend = "unix" => inside = {}
    /\ ptyOpen' = FALSE
    /\ held' = held \ ClosedByClose
    /\ Goto("main", "stop_soft")
    /\ UNCHANGED <<backend, relayed, netVars, closed, panicked, child, others,
                   output, inside>>

\* cleanup, with its three joins.
StopSoft ==
    /\ at["main"] = "stop_soft"
    /\ CloseChan("soft") /\ Goto("main", "join_soft")
    /\ UNCHANGED <<backend, relayed, netVars, panicked, ptyVars>>

JoinSoft ==
    /\ at["main"] = "join_soft" /\ at["soft"] = "done"
    /\ CloseChan("panic") /\ Goto("main", "join_panic")
    /\ UNCHANGED <<backend, relayed, netVars, panicked, ptyVars>>

JoinPanic ==
    /\ at["main"] = "join_panic" /\ at["panic"] = "done"
    /\ IF relayed THEN Send("main", "end_session")
                  ELSE Goto("main", "returned") /\ UNCHANGED writers
    /\ UNCHANGED <<backend, relayed, net, closed, panicked, ptyVars>>

\* ws.Close, by main or by the panic goroutine: it does not take the mutex.
CloseRelay(g) ==
    /\ g \in {"main", "panic"} /\ at[g] = "close_ws"
    /\ net' = "closed"
    /\ Goto(g, IF g = "main" THEN "join_loop" ELSE "closing")
    /\ UNCHANGED <<backend, relayed, writers, closed, panicked, ptyVars>>

JoinLoop ==
    /\ at["main"] = "join_loop" /\ at["loop"] = "done"
    /\ Goto("main", "returned")
    /\ UNCHANGED <<backend, relayed, netVars, closed, panicked, ptyVars>>

-----------------------------------------------------------------------------
(* Signals.                                                                *)

\* SIGINT or SIGTERM, selected before the stop channel is closed (a signal that
\* is pending then may be selected too: as if it had been, just before).
PanicSignal ==
    /\ at["panic"] = "waiting" /\ "panic" \notin closed
    /\ panicked' = TRUE
    /\ IF relayed THEN Send("panic", "kill_switch")
                  ELSE Goto("panic", "closing") /\ UNCHANGED writers
    /\ UNCHANGED <<backend, relayed, net, closed, ptyVars>>

ClosePanicKill ==
    /\ at["panic"] = "closing"
    /\ CloseChan("panicKill") /\ Goto("panic", "done")
    /\ UNCHANGED <<backend, relayed, netVars, panicked, ptyVars>>

SoftSignal ==
    /\ at["soft"] = "waiting" /\ "soft" \notin closed
    /\ \E frame \in {"take_control", "kill_switch"} : Send("soft", frame)
    /\ UNCHANGED <<backend, relayed, net, closed, panicked, ptyVars>>

\* A goroutine that waits sees its stop channel closed.
StopChannel == [panic |-> "panic", soft |-> "soft", resize |-> "resize", kill |-> "watch"]

Stop(g) ==
    /\ g \in DOMAIN StopChannel
    /\ at[g] = "waiting" /\ StopChannel[g] \in closed
    /\ Goto(g, "done")
    /\ UNCHANGED <<backend, relayed, netVars, closed, panicked, ptyVars>>

\* killTree: on Windows the job, which is everybody; on Unix the process group of
\* the program, and nobody who has left it.
KillTree ==
    /\ at["kill"] = "waiting" /\ "panicKill" \in closed
    /\ child' = "exited" /\ others' = IF others = "apart" THEN "apart" ELSE "none"
    /\ Goto("kill", "done")
    /\ UNCHANGED <<backend, relayed, netVars, closed, panicked, output, ptyOpen,
                   inside, held>>

-----------------------------------------------------------------------------
(* The wrapped program, and the goroutines that work for it.               *)

Exit ==
    /\ child = "running" /\ child' = "exited"
    /\ UNCHANGED <<backend, relayed, at, netVars, closed, panicked, others, output,
                   ptyOpen, inside, held>>

OthersExit ==
    /\ others # "none" /\ others' = "none"
    /\ UNCHANGED <<backend, relayed, at, netVars, closed, panicked, child, output,
                   ptyOpen, inside, held>>

\* A faulty WatchConsole: the console is closed only once nobody reads it.
WatchConsoleLate ==
    /\ at["watch"] = "waiting" /\ child = "exited" /\ at["main"] = "exiting"
    /\ output' = "ended" /\ held' = held \ ClosedByWatch
    /\ Goto("watch", "done")
    /\ UNCHANGED <<backend, relayed, netVars, closed, panicked, child, others,
                   ptyOpen, inside>>

\* winPTY.watch: closes the console, for which somebody must be reading, and
\* with it the output; then p.exited.
WatchConsole ==
    /\ at["watch"] = "waiting" /\ child = "exited" /\ at["main"] = "copying"
    /\ output' = "ended" /\ held' = held \ ClosedByWatch
    /\ Goto("watch", "done")
    /\ UNCHANGED <<backend, relayed, netVars, closed, panicked, child, others,
                   ptyOpen, inside>>

\* watchResize: the window has changed.
ResizeEvent ==
    /\ at["resize"] = "waiting" /\ "resize" \notin closed
    /\ IF relayed THEN Send("resize", "host_size")
                  ELSE Goto("resize", "sized") /\ UNCHANGED writers
    /\ UNCHANGED <<backend, relayed, net, closed, panicked, ptyVars>>

\* conn.resize.  On Unix one goroutine at a time, and not once the descriptor
\* is closed.
EnterResize(g) ==
    /\ at[g] = "sized" /\ g \notin inside
    /\ backend = "unix" => inside = {} /\ ptyOpen
    /\ inside' = inside \cup {g}
    /\ UNCHANGED <<backend, relayed, at, netVars, closed, panicked, child, others,
                   output, ptyOpen, held>>

\* Resized; or there was nothing to resize: the PTY is closed, or the window has
\* changed while a viewer is the active writer.
LeaveResize(g) ==
    /\ at[g] = "sized"
    /\ g \in inside \/ g = "resize" \/ ~ptyOpen
    /\ inside' = inside \ {g}
    /\ Goto(g, IF g = "loop" THEN "reading" ELSE "waiting")
    /\ UNCHANGED <<backend, relayed, netVars, closed, panicked, child, others, output,
                   ptyOpen, held>>

\* runHostMessageLoop: a password to verify, a viewer's input, a viewer's size.
ReadFrame ==
    /\ at["loop"] = "reading" /\ ~Broken
    /\ \/ Send("loop", "auth_response")
       \/ \E pc \in {"typing", "sized"} : Goto("loop", pc) /\ UNCHANGED writers
    /\ UNCHANGED <<backend, relayed, net, closed, panicked, ptyVars>>

\* ptmx.Write: the program reads it, or the PTY is closed.
Typed ==
    /\ at["loop"] = "typing"
    /\ Goto("loop", "reading")
    /\ UNCHANGED <<backend, relayed, netVars, closed, panicked, ptyVars>>

LoopEnds ==
    /\ at["loop"] = "reading" /\ Broken
    /\ Goto("loop", "done")
    /\ UNCHANGED <<backend, relayed, netVars, closed, panicked, ptyVars>>

\* Ctrl-] r on the host's keyboard; nobody waits for this goroutine.
TypeReclaim ==
    /\ at["keys"] = "reading"
    /\ Send("keys", "take_control")
    /\ UNCHANGED <<backend, relayed, net, closed, panicked, ptyVars>>

-----------------------------------------------------------------------------
Main ==
    \/ CopyEnds \/ Wait \/ JoinResize \/ ClosePty \/ StopSoft \/ JoinSoft
    \/ JoinPanic \/ CloseRelay("main") \/ JoinLoop

Next ==
    \/ \E g \in Goroutine : EndWrite(g) \/ Stop(g)
    \/ \E g \in {"loop", "resize"} : EnterResize(g) \/ LeaveResize(g)
    \/ LoseRelay \/ StartFails \/ Start \/ Copy \/ OutputEnds \/ Main
    \/ PanicSignal \/ CloseRelay("panic") \/ ClosePanicKill \/ SoftSignal \/ KillTree
    \/ Exit \/ OthersExit \/ WatchConsole
    \/ ResizeEvent \/ ReadFrame \/ Typed \/ LoopEnds \/ TypeReclaim

Spec == Init /\ [][Next]_vars

\* Goroutines are scheduled, a write ends in time, and both mutexes let in
\* whoever waits.  The program need not exit, nor read what is typed; nobody
\* need send a signal.
Fairness ==
    /\ WF_vars(StartFails \/ Start) /\ WF_vars(Main) /\ SF_vars(ClosePty)
    /\ WF_vars(\E g \in Goroutine : EndWrite(g))
    /\ \A g \in DOMAIN StopChannel : WF_vars(Stop(g))
    /\ \A g \in {"loop", "resize"} : WF_vars(EnterResize(g) \/ LeaveResize(g))
    /\ WF_vars(CloseRelay("panic")) /\ WF_vars(ClosePanicKill) /\ WF_vars(KillTree)
    /\ WF_vars(OutputEnds) /\ SF_vars(WatchConsole)
    /\ WF_vars(Typed /\ ~ptyOpen) /\ WF_vars(LoopEnds)

FairSpec == Spec /\ Fairness

-----------------------------------------------------------------------------
(* Safety.                                                                 *)

\* When runCLI returns, however it came to that, the goroutines that it waits for
\* have ended, the relay connection is closed, the program has exited, and on
\* Windows every handle has been given back: also those taken before the call of
\* startPTY that failed.
NothingIsLeftBehind ==
    at["main"] = "returned" =>
        /\ \A g \in Joined : at[g] = "done"
        /\ net = "closed" /\ ~ptyOpen
        /\ child # "running" /\ held = {}

\* cmd/getsloth/main.go: returning must not leave handlers that could target a
\* later session's process group.  It may: run does not wait for the goroutine
\* that kills the tree, and a signal that comes during cleanup still closes
\* panicKill, so that the goroutine has both channels to choose from.
NoHandlerIsLeft ==
    ~(at["main"] = "returned" /\ at["kill"] = "waiting" /\ "panicKill" \in closed)

(* Liveness.                                                               *)

\* The host command returns when the program and what holds its terminal have
\* exited, when it could not be started, and after a panic signal if nobody who
\* holds the terminal is out of the kill's reach: no order of signals, stalled
\* writes and joins leaves cleanup waiting.
HostReturns ==
    (\/ panicked /\ at["main"] # "start" /\ others # "apart"
     \/ child = "exited" /\ others = "none"
     \/ at["main"] = "stop_soft") ~> (at["main"] = "returned")

\* cmd/getsloth/pty.go: a panic kill terminates the wrapped command and every
\* process it spawned.  On Unix it does not reach those in another process group.
PanicKillsTheTree == panicked ~> (others = "none")

=============================================================================
