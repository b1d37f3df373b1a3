# getsloth in TLA+

A verification development of getsloth: a host wraps a command in a PTY and
shares it through a relay with viewers in a browser. The modules here model the
relay (membership, control, the rate limiter, output and its replay, the
measurement of viewers) and the host process (its goroutines from start to
cleanup, its keyboard, its control console). TLC checks them on small
instances; TLAPS proves their safety properties, all of them, for every instance.

Contents: [the system](#the-system) ·
[modules and code](#modules-and-code) · [runs](#runs) ·
[what the code does otherwise](#what-the-code-does-otherwise) ·
[proofs](#proofs) · [limits](#limits) · [plan](#plan)

## The system

Three programs talk over websockets:

    viewer page  <-- websocket -->  relay  <-- websocket -->  host process
    (web/src)                      (internal/relay)           (cmd/getsloth)
                                                              owns the PTY

The relay is trusted with routing and with who may write, not with the
password: a viewer's encrypted guess is passed on to the host, and the host
sends its verdict back.

### Components

| component | state it keeps | operations | made correct by |
|---|---|---|---|
| Session (`internal/relay/session.go`, `auth.go`, `killswitch.go`, `server.go`) | roster `viewers`, `pendingAuth`, `tokens`, Remote slot and its deadline, `closed`; `session.mu` | join, auth attempt, verdict, resume, disconnect, kill switch, teardown | the roster names those who are served; the slot is not stolen; kill and end reach everyone; tokens die with the kill switch |
| Control (`internal/relay/control.go`) | active writer, grid, host's grid, time of the last reclaim | `take_control`, `input`, `resize`, `host_size`, disconnect | one writer at a time; the host overrides; the grid follows the writer |
| Rate limiter (`internal/relay/ratelimit.go`) | per session and address: failures, end of cooldown, reservations; a mutex of its own | reserve, release, record failure, record success, clear | one release for each reservation; a bound on what the host is asked; a bound on guesses |
| Connection (`internal/relay/connection.go`) | id, authenticated, health record, write lock | set, write, close | a frame at a time per socket |
| Output and replay (`internal/relay/session.go`) | backlog of 256 chunks, dropped when the grid changes | broadcast, replay to a newcomer | newcomers see a suffix of the output in order |
| Viewer health (`internal/relay/health.go`) | outstanding ping, round trip, misses | ping, pong, expire | a late pong is not taken for an answer to a later ping |
| Presence (`internal/relay/presence.go`) | none | send the roster to all | the last roster sent is the newest |
| Chat (`internal/relay/chat.go`) | none | rebroadcast | only members send and receive |
| Host life cycle (`cmd/getsloth/main.go`, `relay_client.go`) | goroutines for signals, panic kill, message loop; cleanup list | start, exit, panic kill, cleanup | every exit joins every goroutine |
| Host message loop (`cmd/getsloth/auth.go`) | the gate `isActiveWriter` | verdicts, `control_changed`, `input`, `resize` | the gate follows the relay |
| Host input gate (`cmd/getsloth/pty.go`) | prefix state, gate | copy stdin to the PTY | no keystroke passes a shut gate; commands work whatever the gate |
| PTY back ends (`pty_unix.go`, `pty_windows.go`) | the process, the channels of `resizeEvents` | resize, kill, wait | the last resize is not lost |
| Status and console (`host_status.go`, `host_control_*.go`) | snapshot of the session, listening socket | update, snapshot, act | actions reach a live session only |
| Viewer client (`web/src/ws-client.ts`) | socket, backoff, token, deadline | connect, resume, give up | one socket at a time; gives up in the end |
| Viewer page (`web/src/*.ts`) | what the page shows of the control state | render, send | does not send when it is not the writer |
| Password and keys, wire types, QR code, console layout, relay `main` | none of interest here | | cryptography, declarations, formatting |

### How they interact, and what is hard

- Each websocket is read by one goroutine. Those of the viewers and the host's
  share the `Session` under `session.mu`, **but write to sockets, mark
  connections authenticated and close kicked sockets after unlocking.** Most of
  the questions asked here are about what happens between an unlock and the
  write that follows it.
- A page that loses its socket comes back with a resume token on a new one. Its
  **old socket may be found dead before or after that**: `handleViewerDisconnect`
  for the old one and `handleResume` for the new one run in either order, on
  the same identity. And **any connection may resume at any time**, one that is
  let in under another identity among them.
- An attempt to log in crosses the relay twice (viewer to host, verdict back).
  In between the viewer may leave, the kill switch may be used, the session may
  end; on each path the limiter's reservation must be released once.
- Two deadlines matter: the reconnect window of tokens and of the Remote slot,
  and the lock window after a reclaim.
- On the host, the message loop sets the size and then the gate, while the
  resize watcher reads the gate and then sets the size.

- Output is broadcast by the goroutine that serves the host, and replayed to a
  resumed connection by that connection's own goroutine **beside live output**;
  both write to sockets without a deadline, so one full socket holds up
  everybody its writer would serve next.
- Rosters are put together by whoever changed something and **overtake each
  other**; pongs may arrive after their ping has been given up.
- The host process ends in many orders: the program exits or is killed, the
  relay is lost, a signal arrives while main is already leaving, writes stall.
  **Every goroutine writes through one mutex**, and cleanup joins them in turn.
- The host's commands are a prefix and a letter that **may be split between two
  reads**, with other keys around them.

The hazards are listed with their lines in `PROJECT.json`; each names the
properties that cover it, or says why there is none.

## Modules and code

| module | what it is |
|---|---|
| `Session` | membership, tokens, Remote slot, active writer of one session |
| `RateLimiter` | the limiter of one session and everybody who calls it |
| `ControlPlane` | writer and grid, from the relay's lock sections through the host's socket to the gate and the PTY |
| `OutputFanout` | broadcast, backlog and replay of output, with sockets that fill up and connections that drop |
| `OutputStream` | what a viewer is promised of the output; implemented by `OutputFanout` |
| `ViewerHealth` | pings, pongs, expiry, and the rosters that carry them to the host |
| `HostProcess` | all goroutines of one host process from start to cleanup; extends `ConPty` |
| `ConPty` | what starting a program on Windows takes and gives back, call by call |
| `HostConsole` | message loop, status, control server and polling console; extends `HostStatus` and `HostInput` |
| `HostStatus` | what the host knows of its session, one operator per method |
| `HostInput` | the host's keyboard, and what its commands mean |
| `ConsoleScreen` | the console's keys, clicks, sizes and views; extends `ConsoleLayout` |
| `ConsoleLayout` | how the console divides the terminal |
| `MCSession`, `MCRateLimiter`, `MCControlPlane`, `MCOutputFanout` | symmetry, and bounds stated as state constraints, for TLC |
| `SessionProofs` | theorems about `Session` |
| `RateLimiterProofs`, `ControlPlaneProofs`, `OutputFanoutProofs`, `ViewerHealthProofs`, `HostProcessProofs` | theorems about the module named |
| `ConsoleProofs` | induction and folds; theorems about `HostInput` and `HostConsole`, `ConsoleLayout` and `ConsoleScreen` |

The modules overlap at named places rather than being one product, which TLC
could not explore. `Session` decides who is in and who may write; `ControlPlane`
takes the viewers as given and follows control to the PTY; `OutputFanout` takes
admissions and grid changes as given and follows output to the pages;
`HostConsole` lets the relay send any frame at any time. Each chooses freely
what another decides, so none relies on a promise of the other except as said in
its section.

Definitions whose comment begins with "A faulty" are deliberate mistakes. They
are used by no specification: `PROJECT.json` pairs each with the property that
notices it.

### Session

State: the fields of `Session` with their names; `registered` is the entry of
the `Registry`; `pc`, `connID`, `authenticated` are a `Connection` and how far
the goroutine serving it has got; `hostPC`, `granting`, `closing` are the
goroutine serving the host, with the local variables it holds across an unlock;
`link` is the socket as the page sees it. `now` is the clock. Three history
variables: `approved`, the identities let in since the last kill switch;
`crowded`, the connections that were at some time served under one identity
with another one; `abandoned`, whether the last connection of the writer's
identity has taken another identity by a resume.

One action is one stretch of a handler which no other goroutine can interrupt
visibly, that is, up to an unlock:

| code | actions |
|---|---|
| `handleViewer` | `Connect` (lookup and upgrade), `AddViewer`, then frames |
| `handleAuthAttempt` | `HandleAuthAttempt` |
| `handleAuthResponse` | `VerdictRefused`, or `VerdictAccepted` then `FinishGrant` (`setAuthenticated` comes after the unlock) |
| `handleResume` | `ResumeRefused`, or `ResumeAccepted` then `FinishResume` |
| `handleTakeControl` | `TakeControl`, `HostTakeControl` |
| `handleViewerDisconnect` | `HandleViewerDisconnect` |
| `handleKillSwitch` | `KillSwitch`, then `CloseNext` for each socket, then `ClosingDone` |
| `teardown`, end of `handleHost` | `EndSession` or `HostDisconnect`, then the same loop |
| the page | `Connect`, `Drop` |

A connection's random id is the connection itself. Times: 0 is Go's zero time.
A host sends `session_config` before its PTY is ready and so before it answers
anything (`main.go`), hence `configured` in the guards of the host's frames.

Nothing restricts the environment: a connection that is served sends any frame
at any time, `resume` with any token that was issued among them, before and after
it is let in, and whoever else answers to the token's identity. That is more
than a page does (it resumes as the first frame of a new socket), and all that
`handleViewerMessage` allows. What goes wrong then goes wrong for a reason the
history variables name, and the properties except just that: two connections
under one identity, of which one removes the other's entry, and a writer that
takes another identity.

### RateLimiter

`entries` is the map of the limiter (one session's part), `pc` where each auth
frame has got to, `hostPC`/`judged` the host's goroutine recording a verdict or
releasing after a kill switch. The limiter is called outside `session.mu`, so
every call is a step of its own. `history` counts what the host has said of each
address since its last success, independently of the entries, so that properties
do not restate the code. An address is a pair machine, port: the code uses
`r.RemoteAddr`.

### ControlPlane

The relay's half is `control.go`: every handler is a lock section that changes
`activeWriterID`, `grid` (`cols`, `rows`), `hostGrid` and leaves one frame in
`unwritten` of the goroutine that runs it; `WriteToHost` is the later
`host.writeJSON`. `locked` stands for the lock window being open. `toHost` and
`toRelay` are the two directions of the host's websocket, bounded by `MaxQueue`
(a writer waits when it is full). The host's half is `runHostMessageLoop`
(`ReadControlChanged`, then `StoreActive`: resize and gate are two steps),
`resizeEvents` (`ForwardSignal`, two channels of capacity one) and `watchResize`
(`WatchEvent`, `WatchGate`, `WatchResize`). Three history variables: `asked`, the
grid each viewer asked for last; `crossed`, whether at the last change of the
writer another goroutine had its `control_changed` of an earlier one still to
write; and `late` of an input that a change of the writer overtook between
`handleInput`'s lookup and its write.

A goroutine that has unlocked may be overtaken by any other before it writes, as
the code permits.

Sizes the code rejects (`validTerminalSize`) change nothing and are not
enumerated. A viewer of this module is an identity that has been let in; group
mode, in which viewers' frames of this kind are refused, is in `Session`.

### OutputFanout, OutputStream

`backlog`, `roster` (`viewers`), `pending` (how many attempts of a connection are in
`pendingAuth`) and `issued` (identities that tokens were made for) are fields of
`Session`; `id`, `authenticated`, `link` and `full` belong to a `Connection` and its
socket. A goroutine is a connection's read loop or the host's. What it holds
across unlocks is `step`, `letIn`, `rest` (letting a connection in: verdict or
resume, `auth_result`, replay) and `sending` (the loop after a broadcast).

| code | actions |
|---|---|
| `broadcastOutput` | `BroadcastOutput`, then `SendNext` for each target |
| `handleAuthAttempt` | `Attempt`: only here is it looked whether the connection is authenticated |
| `handleAuthResponse`, refused | `Refuse`, then `SendNext` |
| `handleAuthResponse`, accepted | `Admit`, `Mark`, `Answer`, `Snapshot`, `ReplayNext`, `ReplayDone`, all by the host's goroutine |
| `handleResume`, accepted | `Resume`, then the same steps by the connection's goroutine |
| `handleHostSize`, `handleResize`, `handleTakeControl` | `SetsGrid`, then `SendNext` |
| `handleViewerDisconnect` | `Leave`, then `SendNext` if the host's grid comes back |
| `writeJSON` | `Write`: at once if the connection is gone, otherwise when it has room |
| page, network | `Drain`, `Drop` |

A chunk is its number. `printed`, `changedAt`, `joined` and `got` are history
variables. Who is the writer is not kept: any change of the grid its handlers
can make may happen, which includes those the writer would make; only whether the
grid changed, which empties the backlog, is told apart. Several attempts of a
connection may be approved, since the relay looks at `authenticated` when an
attempt arrives and not when its verdict does; a connection may resume at any
time, any identity let in before. Both replay the backlog again. The kill switch
is left to `Session`.

`OutputStream` is a counter and, for each viewer, a sequence without gaps that
starts in the last `Window` chunks; being let in again begins a new one. The
refinement maps what was sent, since it was last approved, to a viewer that has
only come in by verdicts to `shown`, and one that has resumed to a viewer that has
not started. For the latter the promise does not hold; see below.

### ViewerHealth

`pending`, `age`, `quality` are `connectionHealth`; `due` is the ticker's
channel of capacity one, `targets` the pings the checker has to write, `wire`
the pings a page has and its pongs, `broadcast`/`draft` the roster a goroutine
is putting together, `viewers` the host's view. `checkViewerHealth` is
`CheckViewerHealth` (the lock section with `expireHealthPing` and
`beginHealthPing`), `SendPing` for each target, and `TellHost` if something
expired; `handlePong` is `HandlePong`; `broadcastPresence` is `ComposeRoster`
and the later `SendRoster`. Time is counted in units longer than
`healthLaggyLimit`; what a pong takes beyond whole units is chosen from `Delay`,
so `HealthQuality` sees milliseconds. A nonce is represented by whether it is
the one that is set.

### HostProcess, ConPty

`at` is where each of eight goroutines is: `main` (`runCLIWithLauncher`, `run`,
`cleanup`), `panic` and `soft` (signals), `kill` (panic kill in `run`),
`resize` (`watchResize`), `loop` (`runHostMessageLoop`), `keys` (the local
keyboard) and, on Windows, `watch`. `writers` is the queue at `safeConn.mu`: a
goroutine in it is in `WriteJSON`, the first one writing. `closed` is the set of
stop channels that have been closed, `inside` the goroutines inside a resize
call, `held` the Windows handles not given back. The back end and whether there
is a relay are chosen at the start and stay.

`main` runs `Start` or `StartFails`, `Copy` (one chunk, to the relay),
`CopyEnds`, `Wait`, `JoinResize`, `ClosePty` and the calls of `cleanup`
(`StopSoft`, `JoinSoft`, `JoinPanic`, `CloseRelay`, `JoinLoop`). A panic signal
writes two frames, then closes the connection, then `panicKill`
(`PanicSignal`, `EndWrite` twice, `CloseRelay`, `ClosePanicKill`). On Unix
output ends when nobody holds the terminal any more. `others` says whether some
process other than the program does: none, one of the program's process group, or
one apart from it (a job of an interactive shell, a child that called `setsid`).
`KillTree` on Unix ends the group, and not who is apart; on Windows it ends the job
object, to which every process belongs. There `watch` closes the pseudoconsole
once the program has exited, which only returns while somebody reads, and with
it the output ends. `Joined` are the goroutines that `run` and `cleanup` wait for:
all but `kill` and `keys`.

`ConPty` lists the ten system calls of `startPTY` and `spawn` with the handles
each takes, those that are closed next whatever happens, and those its error
path closes; `HeldAfterFailure(k)` is what is left when the k-th fails.

### HostStatus, HostInput, HostConsole

`HostStatus` has one operator for each method of `hostSessionStatus`; an event
is its kind. `HostInput!Write` is `gatedWriter.Write`, a fold over the bytes of a
chunk; `Meaning` is the reference, defined over all that was typed without
going byte by byte. `HostConsole` puts them together: the message loop
(`Presence`, `ControlChanged`, `ChatMessage`, `LoopEnds`), the keyboard
(`Type`), the kill signal (`SoftKill`), and the console's chains of requests.
`request[r]` is where a chain is, from `RefreshMsg` or `ActionKey` in the console
through `InvokeReclaim`, `InvokeKill` and `Answer` in the server to `SnapshotMsg`
back in the console. Snapshots are fresh or stale, that is, taken of the status
as it is or of an earlier one.

### ConsoleLayout, ConsoleScreen

A block is the width, height and filled area of rendered text. The operators
follow the functions of `host_control_layout.go` (`Shares` is `splitRows`,
`ViewerPanels`, `GraphMain`, `UsersMain`, `JoinMain`, `Console`), with the
contents of panels abstracted to their sizes. `ConsoleScreen` is what changes
them: keys (`Press`, `Tab`, `SelectView`), clicks on the keybar by column
(`Click`), the terminal's size, and the number of viewers in a snapshot. Keys with
names count by their first letter, as in the code. Its initial states, steps and
specification are called `ScreenInit`, `ScreenNext` and `ScreenSpec`, since
`ConsoleProofs` extends this module and `HostConsole`.

## Runs

| run | bounds | checks |
|---|---|---|
| `session_sockets` | 3 sockets, 2 tokens, 1 request, clock to 2, no reclaim by the host; 2.9 M states | `RosterIsServed`, `WriterIsServed`, `EveryParticipantIsListed`, `KillReachesTheUncrowded`, `SlotIsNotStolen`, `ResumeDoesNotRegainControl` |
| `session_clock` | 2 sockets, 2 tokens, 2 requests, clock to 4; 1.4 M states | `TypeOK`, `GroupIsHostControlled`, `TokensAreApproved`, `ControlIsTaken` |
| `session_live` | 2 sockets, 2 tokens, 1 request, clock to 2, no symmetry; 600 k states | `ControlComesBack`, `EndedSessionDrains` |
| `session_kill_misses` | 3 sockets, 2 tokens, 1 request, clock to 2; a violation | `KillReachesEveryone` |
| `limiter` | 4 attempts, 1 address, limits 2 and 2, cooldown 2, clock to 4, no symmetry; 127 k states | `TypeOK`, `ReservationsMatch`, `HostIsNotFlooded`, `CooldownStopsGuessing`, `BlockedExactlyInCooldown`, `PlacesAreGivenBack` |
| `control` | 2 viewers, 2 sizes, queues of 1; 6.0 M states | `TypeOK`, `GateFollowsWriter`, `HostGridIsRestored`, `WriterKeepsItsGrid`, `LastSizeReachesRelay`, `TimelyInputOnlyWhileShut` |
| `control_live` | 2 viewers, 1 size, queues of 1, no symmetry; 131 k states | `HostGetsTheKeyboard` |
| `fanout` | 2 connections of which one may be slow and resume, 2 chunks, backlog of 1, no symmetry; 1.3 M states | `TypeOK`, `NothingIsMissed`, `BacklogIsOfOneGrid`, `ImplementsStream`, `HostIsHeard` |
| `health` | 2 viewers of which 1 slow, timeout of 2 ticks, 2 pings in flight; 318 k states | `TypeOK`, `NeverFlattered`, `SilentViewerIsShown`, `DepartedViewersVanish` |
| `host_process` | one process, both back ends, with and without a relay; 395 k states | `TypeOK`, `NothingIsLeftBehind`, `HostReturns` |
| `console` | 2 viewers, the last event, 2 chains of requests, chunks of up to 2 bytes; 298 k states | `CommandsAreChunkBlind`, `ConsoleCatchesUp` |
| `screen` | 6 widths, 13 heights, up to 9 viewers, with and without a QR code; 18.7 k states | `EveryRowIsSpent` |

What they show, in short.

- However sockets, resumes, verdicts, kill switches and the end of the session
  interleave, and whatever a connection sends when, the roster names who is
  served and the writer is served, unless it took another identity; whoever never
  had its identity together with another connection is listed, is reached by the
  kill switch, and does not regain control by resuming; the slot goes
  to nobody else while a token of its holder lives (`session_sockets`). Tokens die
  with the kill switch, and control is taken only outside the lock window and
  never in a group (`session_clock`). Control comes back to the host and an ended
  session empties (`session_live`).
- Reservations and releases match on all paths, and the two limits are really
  limits (`limiter`).
- The grid is the writer's. The host's gate follows the relay's writer unless two
  changes of it cross, and input that none overtook is applied only while the
  host's keyboard is shut (`control`); the host's override works in the end
  whatever crosses (`control_live`).
- Whoever is let in has been sent the whole backlog, replayed or live, and the
  backlog never mixes grids; what a viewer admitted by verdicts sees is a gapless
  stream, begun afresh by each; a slow or dropped viewer does not silence the host
  for ever (`fanout`).
- No viewer is shown better connected than it is, one that hangs is shown
  stalled, and one that has left disappears while somebody else stays
  (`health`).
- In whatever order the program exits, signals arrive, the relay is lost and
  writes stall, the host command returns once nobody out of the reach of a kill
  holds its terminal, with the goroutines it waits for ended, the connection
  closed and every Windows handle given back (`host_process`).
- Commands on the host's keyboard are found wherever reads cut them, and the
  console comes to show the session as it is (`console`); its panels cover the
  terminal exactly (`screen`).

Why the bounds are enough to be interesting. Three sockets are an identity, its
reconnection and a stranger, the smallest cast of every known problem with
resumes; two tokens let a stranger hold one meanwhile. What the code does not
guarantee of `Session` is found within the bounds of `session_sockets` (`NoReclaim`,
a state constraint, keeps the host from reclaiming there, which `session_clock`
does not).
With windows of 1 a clock of 2 lets each deadline pass, one of 4 lets them start
again. In the limiter two
failures block and two places are all there are, so a fourth attempt meets both
limits; addresses do not interact, and the theorems hold for any number of them
and of attempts. In `control` a `control_changed`, the frames before and after it
and an input can be under way together, one in the queue and one unwritten in each
goroutine; two viewers take control from each other and from the host. In
`fanout` the second chunk pushes the first out of the backlog; a further attempt of
a connection is made between its approval and `setAuthenticated`, and approved when it
is in, so that it is replayed the backlog again; the connection that may be slow
resumes its own identity, or the other's, beside one being served. `SlowResume`, a
state constraint, keeps the run small: who may be slow asks only once, and the
other neither resumes nor changes the grid. The theorems need none of this.
In `health` a timeout of two ticks lets a
pong come in time, in the tick of its expiry, or after the next ping has been
sent. `host_process` needs no bound: its state is finite. Two chains in `console`
are what it takes for one answer to overtake another; chunks of two bytes,
preceded by a pending prefix or not, hold every transition of the keyboard's two
states and every cut of a command. The sizes of `screen` lie below, at and above
each threshold of the layout, and nine viewers fill more rows of panels than the
middle heights have.

`CHECK_DEADLOCK FALSE` is set where the system really stops: in `Session` and
`RateLimiter` sockets, attempts and the clock run out and everybody may be gone;
in `OutputFanout` all chunks are printed and all connections down; the host
process returns; the console quits. `ControlPlane`, `ViewerHealth` and
`HostConsole` never stop and are checked for deadlock: full queues in both
directions do not block each other.

Between them the passing runs take every action of every module.

### Fairness

`Session` and `RateLimiter`: weak fairness for what a goroutine does without
waiting for anybody, once it has begun (the Go scheduler); in `Session` strong
fairness for the read loop of a dead socket to fail, which may first read the
frames that had arrived, but only finitely many (TCP, or the relay's health check
closes the socket). Nobody
is obliged to type, connect, reconnect or end anything. In `RateLimiter` the
verdict on an attempt has strong fairness: the host answers each `auth_request`
(`VerifyPassword` always returns), though the kill switch may be in progress
again and again.

`ControlPlane`: writes to the host's socket have strong fairness, in both
directions: several goroutines contend for its write lock and its buffer, and
Go's mutex hands itself to a waiter after a millisecond, so nobody waits for
ever. `HostGetsTheKeyboard` also assumes that a host whose keyboard is shut goes
on asking for it. A single reclaim opens the keyboard, but a `control_changed`
that crossed it may shut it again: see below.

`OutputFanout`: strong fairness for the host's goroutine, for the same reason,
since other goroutines write to the connection it waits for; weak fairness for
pages to read what they are sent while they are there. The latter is not in the
code's hands: there is no write deadline, and a page that never reads again on a
connection that never fails holds the host's goroutine for ever. The run shows
that nothing else does.

`ViewerHealth`: time passes, the checker and each viewer's goroutine run and
their writes return, and a page that has not hung answers. `HostProcess`: weak
fairness for goroutines, for a write to end in time (TCP gives up), for killing
the tree and for output to end once nobody holds the terminal; strong fairness
for `ClosePty`, which waits for a mutex, and for closing the pseudoconsole, which
can go on whenever main reads. The program need not exit, nor read what is typed
to it; nobody need send a signal. `HostConsole`: the message loop notices a lost
relay, timers fire, requests go on; and dialling the console's socket does not
fail for ever (strong fairness of `Answer`).

## What the code does otherwise

Each of these is a sentence of the repository, stated as a property of its module,
that the code does not keep. The run `session_kill_misses` shows the first, and
`PROJECT.json` quotes the sentence under `findings`. TLC finds a counterexample to each
of the others within a minute when its property is put into the configuration named
in place of the properties there; they are no runs of their own.

1. `KillReachesEveryone`: `handleViewerDisconnect` deletes `session.viewers[id]`
   without looking whether the entry is still its own. If a page has resumed on a
   new socket before the relay finds the old one dead, the entry of the *new* one
   is deleted. That viewer is sent nothing more, and the kill switch does not
   disconnect it. (`session_kill_misses`)
2. `OneRemoteIdentity`: the same late disconnect starts the deadline of the Remote
   slot although its identity is connected; once it has passed, a second identity
   is let in beside the first. (`SessionKillMisses.cfg`; docs/protocol.md:86)
3. `OneConnectionWrites`: the writer's connection resumes with the token of another
   identity, which `handleResume` does not refuse to one that is let in. Control
   stays with an identity nobody answers to, and the connection's disconnect does
   not return it. (`SessionKillMisses.cfg`; docs/protocol.md:282)
4. `KeyboardFollowsWriter`: two goroutines change the writer in one order and write
   `control_changed` in the other. The host's gate then keeps the older one: a host
   that is the writer finds its keyboard shut, or one that is not finds it open.
   (`ControlLive.cfg` with `SPECIFICATION Spec`; docs/protocol.md:282-284)
5. `GridSettles`: a window resize that crosses a change of control leaves the PTY at
   another size than the relay's grid: the watcher has read the gate (or sees it
   before `control_changed` is applied) and resizes afterwards. (`Control.cfg`; docs/protocol.md:310)
6. `InputOnlyWhileShut`: a viewer's input is checked under the lock and written
   after it, and can be applied after the reclaim. (`ControlLive.cfg` with `SPECIFICATION Spec`; docs/protocol.md:299)
7. `NoHandlerIsLeft`: `run` tells the goroutine that kills the tree to stop but does
   not wait for it. A panic signal that comes during cleanup closes `panicKill`
   too, and the goroutine, if it has not run yet, may choose that after the host
   command has returned. (`HostProcess.cfg`; `main.go:246-247`)
8. `PanicKillsTheTree`: on Unix the kill goes to the program's process group, and
   jobs of an interactive shell or `setsid` children are in others. One of them
   that holds the terminal also keeps the host command from returning.
   (`HostProcess.cfg`; `pty.go:36-41`)

For 1 to 4 and 6 the passing runs check, and theorems prove, what the code does
guarantee: `KillReachesTheUncrowded`, `SlotIsNotStolen`, `WriterIsServed`,
`GateFollowsWriter` and `TimelyInputOnlyWhileShut` except the situation that the
violation needs, as a history variable records it.

One more is stated in its module and checked by no run: `ReconnectKeepsTheCount`
(`RateLimiter`, `RateLimiter.cfg` with `Port = {p1, p2}`). The limiter's key contains
the port, so a new connection starts with an empty count.

What else the modelling showed, of which no property is made:

- A viewer leaves while its attempt awaits the verdict; the verdict gives it the
  slot with no deadline (`auth.go:184-187`). Every other viewer is refused until the
  host uses the kill switch.
- Several attempts of one connection may be approved, since `isAuthenticated` is
  looked at only when an attempt arrives (`auth.go:60`): it is sent the backlog once
  more for each.
- The relay is lost while a viewer is the writer: the message loop returns
  (`auth.go:31`, `35-38`), nothing opens the gate again, and a reclaim
  (`main.go:193-195`, `216`) has nobody to go to. The host's keyboard stays shut
  although "host can always reclaim it instantly" (the repository's
  `README.md:84-85`).
- A resumed connection may be sent a chunk twice, live before replayed, and
  chunks out of order, as its replay runs beside live output; its `auth_result`
  may carry a grid that has changed since (`auth.go:230`). A replay under way
  goes on with the chunks it has copied although the grid has changed.
- A roster written late may show a viewer that has left; if nobody else stays,
  nothing corrects it. The clock of a ping starts before the pings of the other
  viewers are written, so that its round trip is overstated, never understated.
  Pings are written one after the other without a deadline: a connection that is
  full and frozen holds the checker up.
- On Windows a resize is not kept from running while the pseudoconsole is being
  closed. The goroutine that reads the local keyboard is not joined. Panic kill writes to the relay before it
  kills (`main.go:257-263`): behind a write that stalls, the program lives on
  until it ends.
- A roster that names the new writer before `control_changed` does swallows the
  event "took control". Each `[r]` or `[k]` starts a polling chain of its own, so
  that the samples come more often than once a second. Once the host process has
  gone, the console goes on showing the last snapshot, which may say LIVE.
- On a terminal with fewer rows than the layout needs, lines are lost at the
  top, and clicks on row 1 are still taken for the keybar. A named key counts by
  its first letter (`host_control_bubbletea.go:71`): the right arrow reclaims,
  Insert shows the invite, Ctrl-C copies it.
- What is typed into the page while it reconnects goes to a socket that is still
  connecting, whose `send` throws (`ws-client.ts:218`).

## Proofs

Checked by TLAPS for every value of the constants that satisfies the named
assumption of the module (`ConstantsAssumption`, `LimiterAssumption`,
`PlaneAssumption`, `FanoutAssumption`, `HealthAssumption`, `ConsoleAssumption`,
`ScreenAssumption`; `HostProcess` has no constants): ids are distinct, windows, limits and queue lengths are positive
numbers, the limiter's set of attempts is finite, a unit of `ViewerHealth` is
longer than `healthLaggyLimit`. One assumption is about the encoding: `storing`
holds an id or `"no"`, so no id is `"no"` (ids are 32 hexadecimal digits).

Every safety invariant and action property of the passing runs is stated by a
theorem. An entry in brackets is what makes the
property inductive; these invariants were checked by TLC before they were
proved, and are stated next to the theorem that needs them.

| theorem | states | argument |
|---|---|---|
| `SessionProofs!TypeCorrect` | `[]TypeOK` | inductive as it stands |
| `SessionProofs!RosterCorrect` | `[]RosterIsServed` | inductive with the types |
| `SessionProofs!WriterCorrect` | `[]WriterIsServed` | inductive with the types: of the steps that take an identity from an authenticated connection, the disconnect gives control back and the resume sets `abandoned` if nobody else answers to it |
| `SessionProofs!GroupCorrect` | `[]GroupIsHostControlled` | strengthened by `NobodyIsInYet`: before `session_config` nobody is authenticated and no token exists |
| `SessionProofs!TokensCorrect` | `[]TokensAreApproved` | inductive with the types |
| `SessionProofs!ControlTaken` | `ControlIsTaken` | each action: only `take_control` makes a viewer the writer, and it looks at the lock window first. What a disconnect or a reclaim gives back goes to the host, which is no connection |
| `SessionProofs!ParticipantsListed` | `[]EveryParticipantIsListed` | [`EveryoneServedIsListed`, with `HostInOrder`, `IdentitiesAreBorn` (no token, attempt or other connection has the id of a connection not registered yet) and `TogetherIsCrowded`.] Only a connection that answers to the same identity removes or replaces an entry, and then both are crowded |
| `SessionProofs!SessionEndReaches` | `[]NobodyOutlivesTheSession` | a corollary, checked by no run: the roster is empty once closed |
| `SessionProofs!KillReaches` | `KillReachesTheUncrowded` | who is served and not crowded is in the roster (`EveryoneServedIsListed`), which is what the kill switch copies |
| `SessionProofs!ResumeLeavesControl` | `ResumeDoesNotRegainControl` | the writer is an identity of somebody served (`WriterIsServed`); were it this connection's, two would answer to it and both be crowded |
| `SessionProofs!SlotIsKept` | `SlotIsNotStolen` | [`SlotInOrder`: a slot with a deadline shares it with every token of its identity], since what sets or clears one does the other |
| `RateLimiterProofs!TypeCorrect` | `[]TypeOK` | no count becomes negative, since `release` looks first |
| `RateLimiterProofs!ReservationsCorrect` | `[]ReservationsMatch` | a count equals the cardinality of the attempts holding a place; needs where the host's goroutine can be (`AttemptsInOrder`), and cardinality lemmas for one element added or removed |
| `RateLimiterProofs!FloodCorrect` | `[]HostIsNotFlooded` | from the count while the host is there; afterwards nobody starts to wait, as the session is closed |
| `RateLimiterProofs!GuessesCorrect` | `[]CooldownStopsGuessing` | failures since the block plus places still held stay below `MaxConcurrent` |
| `RateLimiterProofs!BlocksCorrect` | `[]BlockedExactlyInCooldown` | entry and history agree, on the streak and on the end of the cooldown |
| `ControlPlaneProofs!TypeCorrect` | `[]TypeOK` | inductive |
| `ControlPlaneProofs!HostGridRestored`, `WriterGridKept` | `[]HostGridIsRestored`, `[]WriterKeepsItsGrid` | inductive together with the types |
| `ControlPlaneProofs!NoResizeIsLost` | `[]LastSizeReachesRelay` | [`SizeUnderWay`: a signal or an event is pending, or the last `host_size` on its way is the terminal's size, or none is on its way and the relay has that size] |
| `ControlPlaneProofs!GateFollows`, `InputWhileShut` | `[]GateFollowsWriter`, `TimelyInputOnlyWhileShut` | [`GateInv`, see below] |
| `OutputFanoutProofs!TypeCorrect` | `[]TypeOK` | [`Orderly`: which goroutine is at which step with whom, and that only who was let in is authenticated] |
| `OutputFanoutProofs!OneGridInTheBacklog` | `[]BacklogIsOfOneGrid` | [`OneGrid`: the change came no later than the last chunk] |
| `OutputFanoutProofs!NoChunkIsMissed` | `[]NothingIsMissed` | [`Kept`: whoever is there has a chunk of the backlog, or the broadcast still has it for them, or the goroutine that lets them in has it left to replay or has not copied the backlog yet] |
| `OutputFanoutProofs!StreamIsImplemented` | `ImplementsStream`, the refinement of `OutputStream` | [`InSequence`: the backlog and what is left to replay end with the last chunk; a viewer admitted by verdicts has got to just before the chunk it is sent next, or, while the host's goroutine lets it in again, has got nothing since.] Every step is then `Print`, the start, the next chunk or a new beginning of one viewer, or a stutter |
| `ViewerHealthProofs!TypeCorrect` | `[]TypeOK` | [`HealthInv`, as below] |
| `ViewerHealthProofs!NobodyIsFlattered` | `NeverFlattered` | [`Pings`: at most the last ping under way has the nonce that is set, it is no older than what its pong will be measured by, and a viewer about to be pinged has none under way that counts] |
| `HostProcessProofs!FailedStartKeepsNothing` | `HeldAfterFailure(k) = {}` for each call `k` | the ten calls one by one |
| `HostProcessProofs!TypeCorrect` | `[]TypeOK` | [`Queue`: whoever is at a frame is in the queue for the write mutex, once] |
| `HostProcessProofs!NothingStays` | `[]NothingIsLeftBehind` | [`TakenDown`: each position of main implies what has been joined, closed and given back by then; `FailedStartKeepsNothing` for a start that fails] |
| `ConsoleProofs!WriteMeans` | two calls of `Write` on the two halves of any keys come to the `Meaning` of the whole | see below |
| `ConsoleProofs!CommandsFound` | `[]CommandsAreChunkBlind` | [`Flags`: gate and pending prefix are Booleans], then `WriteMeans` |
| `ConsoleProofs!LiveIsTrue`, `ConsoleKeepsPolling` | `[]LiveUntilTheLoopEnds`, `[]PollingGoesOn`: the status is live until the message loop returns and never again; some request of the console is under way or due | [`HostInv`: with the stages a request can be at.] Nothing noted in the status touches the flag; no step ends a chain |
| `ConsoleProofs!ConsoleFills` | `Console(...)` is a full block as wide and high as the terminal, or the least there must be | see below |
| `ConsoleProofs!ScreenSpent` | `[]EveryRowIsSpent` | [`Sizes`: what the layout is computed from are natural numbers], then `ConsoleFills` |
| `ConsoleProofs!ClicksAreClear` | `[]ButtonsLieApart`: no column of the keybar belongs to two buttons, and the least width has room for all | the columns the buttons start at, from the fold |

The longest arguments:

- `GateInv` follows the relay's last word about the writer. Each goroutine has at
  most one frame to write (`OneFrameEach`). Unless changes crossed, at most one of
  those is about the writer, and it names the present one (`OneSpeaks`). Whoever
  reads `toHost` to its end, starting from the gate or from the value being
  stored, believes what the relay does unless that word is still to be written
  (`Agreed`). An unwritten input that nothing overtook has no such word beside it
  (`TimelyIsCurrent`), so whoever reads one believes that the keyboard is shut
  (`InputsTold`).
- What the folds of the keyboard and of the layout compute is shown by induction.
  The library's induction theorems take an operator as parameter, which no
  prover here can instantiate; but that `<` on the naturals is well-founded, and
  that a non-empty set has a minimal element then, are statements about sets.
  From them come `SetInduction` and `UpTo` (a set with 0 and with n for each n - 1
  of it contains 0 .. N) and `FoldExists` (the function by which the community
  modules define a fold exists). `WriteRuns`, `RowRuns`, `ColumnRuns`, `ButtonRuns`
  and `FlattenRuns` then give the values that each fold goes through, one per
  element.
- `WriteMeans`: `Meaning` says which prefix opens a command by the parity of the
  run it ends. `OpensNext` turns that into a recurrence: each prefix opens one
  unless the prefix before did. With it each key has the effect on the writer
  that it has on the meaning (`KeyByKey`), so that the states the whole takes an
  idle writer through (`MeaningRuns`) are those that the halves take it through,
  one after the other, the second from what the first left pending
  (`WriteAlong`).
- `ConsoleFills`: blocks of one height fill a row and blocks of one width a column
  (`BlocksJoin`); widths of which the last takes the rest add up to the whole
  (`RowOfParts`), and so do the shares of the rows (`ColumnOfShares`). In
  `ViewerPanelsFill` no row of the grid is empty, since as many rows as viewers
  need leave one for the last (`RowsNeeded`).

No theorem restricts the environment: neither the order in which goroutines run
and write, nor what a connection sends and when, nor the clock.

Model-checked only: the liveness properties (`ControlComesBack`,
`EndedSessionDrains`, `PlacesAreGivenBack`, `HostGetsTheKeyboard`, `HostIsHeard`,
`DepartedViewersVanish`, `SilentViewerIsShown`, `HostReturns`,
`ConsoleCatchesUp`). Fairness and `ENABLED` are beyond the prover.

No module here declares a recursive operator. The EXCEPT expressions of
`RateLimiter` and `OutputFanout` are written without a nested `@`, which the
prover does not expand as TLC does.

## Limits

- One session, one relay. Sessions share the limiter's map and the registry but
  their keys are disjoint.
- In `Session`, `ControlPlane` and `ViewerHealth` writes to viewers do not wait;
  what waiting does is the subject of `OutputFanout`. Sockets that are up do not
  lose, duplicate or reorder frames (they are TCP).
- `HostInput` takes the gate once for a chunk where `gatedWriter` looks at it for each
  byte: a change of control in the middle of what one read returned is left out.
- `OutputFanout` leaves out the kill switch; chat, presence and
  error replies to the viewers' pages are modelled nowhere.
- `ViewerHealth` leaves out that drawing a nonce may fail. `HostProcess` leaves
  out errors of the local terminal and of stdout.
- `HostConsole` does not check what the status says, only that it gets to the
  console; names, measurements and histories of samples are left out.

### Not modelled

- The viewer's page (`web/src`): its own backoff and deadline are in
  `ws-client.ts`, one object driven by one event loop. What the relay can see of
  it, a socket opened, dropped or opened again at any time or never and any
  frame sent, is chosen freely in `Session`, so that the relay's properties do not
  depend on it.
- Drawing: charts, the QR code, the dashboard of small windows,
  `session_mode_tui.go` (a menu of the two modes), the text mode of the console.
  They are functions of a snapshot and keep no state that others see.
- Cryptography: the password's verdict is a choice of the host.
- The wire types are declarations, and the relay's executable flags and a
  listener. How Windows polls the size of a window is abstracted to a resize event.

## Plan

Done: all modules listed above, and the proofs of all safety properties of their
runs. What is left, most useful first:

1. The viewer's page, whose backoff and deadline race the relay's token window;
   and the error replies and chat messages on their way to it.
2. The gate of `HostInput` byte by byte.
