---------------------------- MODULE OutputFanout ----------------------------
(***************************************************************************)
(* Output on its way from the host to the viewers (internal/relay): the     *)
(* goroutine that serves the host broadcasts each chunk and keeps the last  *)
(* ones as a backlog, which is replayed to whoever is let in.  A verdict is *)
(* carried out by that same goroutine, a resume by the goroutine of the     *)
(* connection that resumes, so that its replay runs beside live output.     *)
(* Frames are put together under session.mu and written after the unlock,   *)
(* one connection at a time, and a connection that does not read holds its  *)
(* writer up.  Of the terminal's grid only its changes matter here, which   *)
(* empty the backlog; who makes them is the subject of ControlPlane, and    *)
(* who may be let in, of Session: here a verdict may be yes for every       *)
(* attempt, and a resume name every identity that was ever let in.          *)
(***************************************************************************)
EXTENDS Naturals, Sequences, Functions

CONSTANTS
    Conn,        \* viewer websockets
    Host,        \* the goroutine that serves the host
    None,
    MaxBacklog,  \* maxOutputBacklogChunks
    MaxAttempts, \* MaxConcurrentAuthAttempts, of a connection that is alone
    Slow,        \* connections that may read too slowly for a while
    MaxChunk     \* bound on the output, for TLC only

ASSUME FanoutAssumption ==
    /\ Host \notin Conn
    /\ None \notin Conn
    /\ MaxBacklog \in Nat \ {0} /\ MaxAttempts \in Nat
    /\ MaxChunk \in Nat /\ Slow \subseteq Conn

VARIABLES
    \* The fields of Session that session.mu guards.
    backlog,
    roster,   \* viewers, from an identity to the connection it is served on
    pending,  \* how many entries of pendingAuth are for a connection
    issued,   \* the identities that a token was made for
    \* The Connection records and their sockets.
    id, authenticated, link,
    full,     \* the socket takes no more until its page reads
    \* Each goroutine: how far it has got with letting a connection in ...
    step, letIn, rest,
    \* ... and the frame it is writing to several connections.
    sending,
    \* History: the chunks printed, and those before the last change of the grid;
    \* how each viewer was let in, and what it was sent since it last was.
    printed, changedAt, joined, got

backlogVars == <<backlog, changedAt>>
sessionVars == <<backlogVars, roster, pending, issued>>
connVars    == <<id, authenticated, link, joined>>
jobVars     == <<step, letIn, rest>>
pageVars    == <<full, got>>
vars        == <<sessionVars, connVars, jobVars, sending, pageVars, printed>>

Goroutine == Conn \cup {Host}
Chunk     == 1 .. MaxChunk

Output(n) == [type |-> "output", chunk |-> n]
Notice    == [type |-> "notice"]  \* of a size, of control, or an auth_result
Frame     == [type : {"output"}, chunk : Chunk] \cup {Notice}

NothingToSend == [frame |-> None, to |-> {}]

Steps == {"idle", "accepted", "marked", "answered", "replaying"}

Idle(g) == step[g] = "idle" /\ sending[g].to = {}

TypeOK ==
    /\ backlog \in Seq(Chunk) /\ Len(backlog) <= MaxBacklog
    /\ roster \in [Conn -> Conn \cup {None}]
    /\ pending \in [Conn -> 0 .. MaxAttempts]
    /\ issued \subseteq Conn
    /\ id \in [Conn -> Conn]
    /\ authenticated \in [Conn -> BOOLEAN]
    /\ link \in [Conn -> {"up", "down", "gone"}]
    /\ full \in [Conn -> BOOLEAN]
    /\ step \in [Goroutine -> Steps]
    /\ letIn \in [Goroutine -> Conn \cup {None}]
    /\ rest \in [Goroutine -> Seq(Chunk)]
    /\ sending \in [Goroutine -> [frame : Frame, to : SUBSET Conn]
                                  \cup {NothingToSend}]
    /\ printed \in 0 .. MaxChunk /\ changedAt \in 0 .. MaxChunk
    /\ joined \in [Conn -> {"no", "verdict", "resume"}]
    /\ got \in [Conn -> Seq(Chunk)]

\* Everybody's socket is open and in the roster, under an identity of its own
\* that is called like the connection; nobody has been let in.
Init ==
    /\ backlog = <<>>
    /\ roster = [i \in Conn |-> i] /\ id = [c \in Conn |-> c]
    /\ pending = [c \in Conn |-> 0] /\ issued = {}
    /\ authenticated = [c \in Conn |-> FALSE]
    /\ link = [c \in Conn |-> "up"]
    /\ full = [c \in Conn |-> FALSE]
    /\ step = [g \in Goroutine |-> "idle"]
    /\ letIn = [g \in Goroutine |-> None]
    /\ rest = [g \in Goroutine |-> <<>>]
    /\ sending = [g \in Goroutine |-> NothingToSend]
    /\ printed = 0 /\ changedAt = 0
    /\ joined = [c \in Conn |-> "no"]
    /\ got = [c \in Conn |-> <<>>]

-----------------------------------------------------------------------------
(* Broadcasts: what is done under the lock.                                *)

Listed(c) == \E i \in Conn : roster[i] = c

\* A faulty Targets: a viewer whose replay is going on is left out.
TargetsThrough == {c \in Conn : /\ Listed(c) /\ authenticated[c]
                                /\ \A g \in Goroutine : letIn[g] # c}

\* authenticatedViewersLocked.
Targets == {c \in Conn : Listed(c) /\ authenticated[c]}

Broadcast(g, frame, to) ==
    sending' = [sending EXCEPT ![g] = [frame |-> frame, to |-> to]]

\* Two faulty Recent: the oldest chunks are kept; nothing is ever dropped.
RecentOldest(chunks)    == SubSeq(chunks, 1, IF Len(chunks) > MaxBacklog
                                               THEN MaxBacklog ELSE Len(chunks))
RecentUnbounded(chunks) == chunks

\* The last maxOutputBacklogChunks chunks.
Recent(chunks) == IF Len(chunks) > MaxBacklog THEN Tail(chunks) ELSE chunks

\* broadcastOutput up to the unlock.
BroadcastOutput ==
    /\ Idle(Host)
    /\ printed < MaxChunk
    /\ printed' = printed + 1
    /\ backlog' = Recent(Append(backlog, printed'))
    /\ Broadcast(Host, Output(printed'), Targets)
    /\ UNCHANGED <<changedAt, roster, pending, issued, connVars, jobVars, pageVars>>

\* The canonical grid is set; a backlog drawn for another one goes.
SetGrid ==
    \/ UNCHANGED backlogVars
    \/ backlog' = <<>> /\ changedAt' = printed

\* Goroutine g sets it: handleHostSize while the host is the writer, or its
\* handleTakeControl; handleResize or handleTakeControl of a viewer.
SetsGrid(g) ==
    /\ Idle(g)
    /\ g # Host => link[g] = "up" /\ authenticated[g]
    /\ SetGrid
    /\ Broadcast(g, Notice, Targets)
    /\ UNCHANGED <<roster, pending, issued, connVars, jobVars, pageVars, printed>>

\* handleViewerDisconnect deletes the entry of its identity, whose connection it
\* may not be any more.
Unlist(c) ==
    /\ Idle(c) /\ link[c] = "down"
    /\ link' = [link EXCEPT ![c] = "gone"]
    /\ roster' = [roster EXCEPT ![id[c]] = None]
    /\ UNCHANGED <<pending, issued, id, authenticated, joined, jobVars, pageVars,
                   printed>>

\* A faulty Leave: the backlog survives the change of the grid.
LeaveBacklog(c) ==
    /\ Unlist(c)
    /\ \/ UNCHANGED <<backlogVars, sending>>
       \/ /\ authenticated[c]
          /\ changedAt' = printed
          /\ Broadcast(c, Notice, Targets')
          /\ UNCHANGED backlog

\* If its identity was the writer, the host's grid comes back.
Leave(c) ==
    /\ Unlist(c)
    /\ \/ UNCHANGED <<backlogVars, sending>>
       \/ /\ authenticated[c]
          /\ backlog' = <<>> /\ changedAt' = printed
          /\ Broadcast(c, Notice, Targets')

-----------------------------------------------------------------------------
(* Letting a connection in: by the host's goroutine or by its own.          *)

\* handleAuthAttempt: only here is it looked whether c has been let in, so that
\* several attempts of c may await their verdicts.
Attempt(c) ==
    /\ Idle(c) /\ link[c] = "up" /\ ~authenticated[c]
    /\ pending[c] < MaxAttempts
    /\ pending' = [pending EXCEPT ![c] = @ + 1]
    /\ UNCHANGED <<backlogVars, roster, issued, connVars, jobVars, sending, pageVars,
                   printed>>

\* The host's goroutine takes a verdict on an attempt of c.
Verdict(c) ==
    /\ Idle(Host) /\ pending[c] > 0
    /\ pending' = [pending EXCEPT ![c] = @ - 1]

\* handleAuthResponse, the verdict is no, or the slot is occupied.
Refuse(c) ==
    /\ Verdict(c)
    /\ Broadcast(Host, Notice, {c})
    /\ UNCHANGED <<backlogVars, roster, issued, connVars, jobVars, pageVars, printed>>

\* The lock section, after which c is let in by goroutine g.
Begin(g, c, how) ==
    /\ step' = [step EXCEPT ![g] = "accepted"]
    /\ letIn' = [letIn EXCEPT ![g] = c]
    /\ joined' = [joined EXCEPT ![c] = how]
    /\ got' = [got EXCEPT ![c] = <<>>]
    /\ UNCHANGED <<backlogVars, authenticated, link, rest, sending, full, printed>>

\* handleAuthResponse, the verdict is yes.
Admit(c) ==
    /\ Verdict(c)
    /\ issued' = issued \cup {c}
    /\ Begin(Host, c, IF joined[c] = "resume" THEN "resume" ELSE "verdict")
    /\ UNCHANGED <<roster, id>>

\* handleResume: at any time c sends a token, and answers to its identity then.
Resume(c, i) ==
    /\ Idle(c) /\ link[c] = "up"
    /\ i \in issued
    /\ id' = [id EXCEPT ![c] = i]
    /\ roster' = [roster EXCEPT ![id[c]] = None, ![i] = c]
    /\ Begin(c, c, "resume")
    /\ UNCHANGED <<pending, issued>>

\* setAuthenticated, after the unlock.
Mark(g) ==
    /\ step[g] = "accepted"
    /\ authenticated' = [authenticated EXCEPT ![letIn[g]] = TRUE]
    /\ step' = [step EXCEPT ![g] = "marked"]
    /\ UNCHANGED <<sessionVars, id, link, joined, letIn, rest, sending,
                   pageVars, printed>>

\* replayOutputTo up to the unlock.
Snapshot(g) ==
    /\ step[g] = "answered"
    /\ rest' = [rest EXCEPT ![g] = backlog]
    /\ step' = [step EXCEPT ![g] = "replaying"]
    /\ UNCHANGED <<sessionVars, connVars, letIn, sending, pageVars, printed>>

ReplayDone(g) ==
    /\ step[g] = "replaying" /\ rest[g] = <<>>
    /\ step' = [step EXCEPT ![g] = "idle"]
    /\ letIn' = [letIn EXCEPT ![g] = None]
    /\ UNCHANGED <<sessionVars, connVars, rest, sending, pageVars, printed>>

-----------------------------------------------------------------------------
(* Writes.                                                                 *)

\* A faulty CanWrite: the writer waits for a connection that is gone.
CanWriteWaiting(c) == ~full[c]

\* writeJSON returns: at once if the connection is gone, else when it has room.
CanWrite(c) == link[c] # "up" \/ ~full[c]

\* writeJSON: a frame that c receives, if it is still there.
Write(c, frame) ==
    /\ CanWrite(c)
    /\ IF link[c] # "up" THEN UNCHANGED pageVars
       ELSE /\ \E b \in BOOLEAN : (b => c \in Slow) /\ full' = [full EXCEPT ![c] = b]
            /\ got' = IF frame.type = "output"
                        THEN [got EXCEPT ![c] = Append(@, frame.chunk)] ELSE got

\* The loop after the unlock of a broadcast.
SendNext(g, c) ==
    /\ c \in sending[g].to
    /\ Write(c, sending[g].frame)
    /\ sending' = [sending EXCEPT ![g] =
                     IF sending[g].to = {c} THEN NothingToSend
                     ELSE [frame |-> sending[g].frame, to |-> sending[g].to \ {c}]]
    /\ UNCHANGED <<sessionVars, connVars, jobVars, printed>>

\* auth_result.
Answer(g) ==
    /\ step[g] = "marked"
    /\ Write(letIn[g], Notice)
    /\ step' = [step EXCEPT ![g] = "answered"]
    /\ UNCHANGED <<sessionVars, connVars, letIn, rest, sending, printed>>

\* The loop of replayOutputTo.
ReplayNext(g) ==
    /\ step[g] = "replaying" /\ rest[g] # <<>>
    /\ Write(letIn[g], Output(Head(rest[g])))
    /\ rest' = [rest EXCEPT ![g] = Tail(@)]
    /\ UNCHANGED <<sessionVars, connVars, step, letIn, sending, printed>>

\* The page reads what its socket holds.
Drain(c) ==
    /\ full[c] /\ link[c] = "up"
    /\ full' = [full EXCEPT ![c] = FALSE]
    /\ UNCHANGED <<sessionVars, connVars, jobVars, sending, got, printed>>

Drop(c) ==
    /\ link[c] = "up"
    /\ link' = [link EXCEPT ![c] = "down"]
    /\ UNCHANGED <<sessionVars, id, authenticated, joined, jobVars, sending,
                   pageVars, printed>>

-----------------------------------------------------------------------------
Work(g) ==
    \/ Mark(g) \/ Answer(g) \/ Snapshot(g) \/ ReplayNext(g) \/ ReplayDone(g)
    \/ \E c \in Conn : SendNext(g, c)

Next ==
    \/ BroadcastOutput
    \/ \E c \in Conn :
         \/ \E i \in Conn : Resume(c, i)
         \/ Attempt(c) \/ Admit(c) \/ Refuse(c) \/ Leave(c)
         \/ Drain(c) \/ Drop(c)
    \/ \E g \in Goroutine : SetsGrid(g) \/ Work(g)

Spec == Init /\ [][Next]_vars

\* The goroutine that serves the host is scheduled and, when it waits to write
\* to a connection, gets its turn among its writers (writeMu is starvation-free);
\* a page reads what it is sent while it is there.
Fairness ==
    /\ SF_vars(Work(Host))
    /\ \A c \in Slow : WF_vars(Drain(c))

FairSpec == Spec /\ Fairness

-----------------------------------------------------------------------------
(* Safety.                                                                 *)

\* Letting c in is over, and it is still there.
Through(c) ==
    /\ joined[c] # "no" /\ Listed(c) /\ link[c] = "up"
    /\ \A g \in Goroutine : letIn[g] # c

\* No viewer misses a chunk: whatever is in the backlog has been written to
\* everyone who is through, live or replayed, or is being written now.  It
\* rests on the order in handleResume: a connection is marked authenticated
\* before the backlog is copied, so no chunk falls between copy and broadcast.
NothingIsMissed ==
    \A c \in Conn : Through(c) =>
        \A n \in Range(backlog) :
            \/ n \in Range(got[c])
            \/ sending[Host].frame = Output(n) /\ c \in sending[Host].to

\* docs/session-modes-v0-plan.md: the backlog holds nothing that was received
\* before the last change of the grid, whichever handler changed it.
BacklogIsOfOneGrid == \A n \in Range(backlog) : n > changedAt

(* Refinement.                                                             *)

\* What viewers let in by a verdict are sent is an OutputStream, which begins
\* afresh when a further attempt of theirs is approved: one goroutine prints,
\* replays and broadcasts, so replay and live output never mix.  (A connection
\* that ever resumed may be sent chunks out of order.)
Stream == INSTANCE OutputStream
            WITH Viewer <- Conn, Window <- MaxBacklog,
                 shown <- [c \in Conn |->
                             IF joined[c] = "resume" THEN <<>> ELSE got[c]]

ImplementsStream == Stream!Spec

(* Liveness.                                                               *)

\* The goroutine that serves the host always comes back to read the host's
\* next frame: dropped viewers and full sockets do not hold it up for ever.
HostIsHeard == []<>Idle(Host)

=============================================================================
