------------------------------ MODULE Session ------------------------------
(***************************************************************************)
(* One relay session (internal/relay): who is connected, who has been let  *)
(* in by the host, who may come back with a resume token, which identity   *)
(* occupies the single Remote slot and who is the active writer.           *)
(*                                                                         *)
(* Every websocket is served by its own goroutine, and the host's websocket *)
(* by one more.  They share the Session record under session.mu but do a   *)
(* good deal after unlocking: marking the connection authenticated, closing *)
(* the kicked sockets, writing the results.  An action below is one stretch *)
(* of a handler between two such points, so that every interleaving of the *)
(* goroutines which another goroutine can observe is a behaviour here.     *)
(* A viewer's connection may send any frame at any time, a resume with any  *)
(* token among them.  Frames whose only effect is what a peer sees          *)
(* (presence, control_changed, output, errors) and the terminal geometry    *)
(* are not part of this module.                                            *)
(***************************************************************************)
EXTENDS Naturals

CONSTANTS
    Conn,             \* viewer websockets; each one's random id is itself
    Token,            \* resume tokens the relay may issue
    Request,          \* request ids of the attempts awaiting a verdict
    Host,             \* the id "host"
    None,             \* no connection, no token
    ReconnectWindow,  \* how long an interrupted identity may be resumed
    HostLockWindow,   \* how long a reclaim shuts the viewers out
    MaxNow            \* bound on the clock, for TLC only

ASSUME ConstantsAssumption ==
    /\ Host \notin Conn
    /\ None \notin Conn \cup Token \cup {Host}
    /\ ReconnectWindow \in Nat \ {0}
    /\ HostLockWindow \in Nat \ {0}
    /\ MaxNow \in Nat

VARIABLES
    \* The fields of Session that session.mu guards.
    mode, closed, viewers, pendingAuth, tokens,
    remoteViewerID, remoteSlotExpiry, activeWriterID, lastHostReclaim,
    \* The Registry entry.
    registered,
    \* The Connection records and the goroutines that serve them.
    pc, connID, authenticated,
    \* The goroutine that serves the host.
    hostPC, granting, closing, configured,
    link,       \* each viewer's socket, as its page sees it
    now,        \* the clock
    \* History.
    approved,   \* the identities approved since the last kill switch
    crowded,    \* served connections that once had an identity together with another
    abandoned   \* the last connection that was the writer has taken another identity

sessionVars == <<mode, closed, viewers, pendingAuth, tokens, remoteViewerID,
                 remoteSlotExpiry, activeWriterID, lastHostReclaim>>
connVars    == <<pc, connID, authenticated>>
hostVars    == <<hostPC, granting, closing, configured>>
history     == <<approved, crowded, abandoned>>
vars        == <<sessionVars, registered, connVars, hostVars, link, now, history>>

-----------------------------------------------------------------------------
(* Values.  The zero time.Time is 0; the clock starts at 1.                *)

Zero     == 0
NoRecord == [connectionID |-> None, expiresAt |-> Zero]
NoAuth   == [viewerID |-> None, conn |-> None]

TokenRecord == [connectionID : Conn \cup {None}, expiresAt : Nat]
PendingAuth == [viewerID : Conn, conn : Conn] \cup {NoAuth}

Issued(t)  == tokens[t].connectionID # None
Pending(r) == pendingAuth[r].conn # None
\* The goroutine of c has registered the connection and has not returned.
Serving(c) == pc[c] \in {"reading", "resumed"}
\* A viewer in the full sense: let in, and still connected.
Participant(c) == Serving(c) /\ authenticated[c] /\ link[c] = "up"

TypeOK ==
    /\ mode \in {"remote", "group"}
    /\ closed \in BOOLEAN
    /\ viewers \in [Conn -> Conn \cup {None}]
    /\ pendingAuth \in [Request -> PendingAuth]
    /\ tokens \in [Token -> TokenRecord]
    /\ remoteViewerID \in Conn \cup {None}
    /\ remoteSlotExpiry \in Nat
    /\ activeWriterID \in Conn \cup {Host}
    /\ lastHostReclaim \in Nat
    /\ registered \in BOOLEAN
    /\ pc \in [Conn -> {"idle", "accepted", "reading", "resumed", "done"}]
    /\ connID \in [Conn -> Conn]
    /\ authenticated \in [Conn -> BOOLEAN]
    /\ hostPC \in {"serving", "granting", "closing", "leaving", "gone"}
    /\ granting \in Conn \cup {None}
    /\ closing \in SUBSET Conn
    /\ configured \in BOOLEAN
    /\ link \in [Conn -> {"up", "down"}]
    /\ now \in Nat
    /\ approved \in SUBSET Conn
    /\ crowded \in SUBSET Conn
    /\ abandoned \in BOOLEAN

\* Registry.Create and handleHost: the host is connected, nobody else is.
Init ==
    /\ mode = "remote"
    /\ closed = FALSE
    /\ viewers = [i \in Conn |-> None]
    /\ pendingAuth = [r \in Request |-> NoAuth]
    /\ tokens = [t \in Token |-> NoRecord]
    /\ remoteViewerID = None
    /\ remoteSlotExpiry = Zero
    /\ activeWriterID = Host
    /\ lastHostReclaim = Zero
    /\ registered = TRUE
    /\ pc = [c \in Conn |-> "idle"]
    /\ connID = [c \in Conn |-> c]
    /\ authenticated = [c \in Conn |-> FALSE]
    /\ hostPC = "serving"
    /\ granting = None
    /\ closing = {}
    /\ configured = FALSE
    /\ link = [c \in Conn |-> "down"]
    /\ now = 1
    /\ approved = {} /\ crowded = {} /\ abandoned = FALSE

-----------------------------------------------------------------------------
(* The pages and the network.                                              *)

\* RelayClient.connect opens a socket, a page's first or one to come back on;
\* handleViewer looks the session up before it upgrades the request.
Connect(c) ==
    /\ pc[c] = "idle"
    /\ pc' = [pc EXCEPT ![c] = IF registered THEN "accepted" ELSE "done"]
    /\ link' = [link EXCEPT ![c] = IF registered THEN "up" ELSE "down"]
    /\ UNCHANGED <<sessionVars, registered, connID, authenticated, hostVars,
                   now, history>>

\* The socket of c goes down under the page: the tab closed, the network
\* went away.  The relay does not know yet.
Drop(c) ==
    /\ link[c] = "up"
    /\ link' = [link EXCEPT ![c] = "down"]
    /\ UNCHANGED <<sessionVars, registered, connVars, hostVars, now, history>>

\* Time passes, by any amount.
Tick ==
    /\ now' \in now + 1 .. MaxNow
    /\ UNCHANGED <<sessionVars, registered, connVars, hostVars, link, history>>

-----------------------------------------------------------------------------
(* The goroutine that serves viewer connection c.                          *)

\* A faulty AddViewer: it does not look whether the session has ended.
AddViewerUnchecked(c) ==
    /\ pc[c] = "accepted"
    /\ pc' = [pc EXCEPT ![c] = "reading"]
    /\ viewers' = [viewers EXCEPT ![connID[c]] = c]
    /\ UNCHANGED <<mode, closed, pendingAuth, tokens, remoteViewerID,
                   remoteSlotExpiry, activeWriterID, lastHostReclaim,
                   registered, connID, authenticated, hostVars, link, now,
                   history>>

\* addViewer: a session that ended since the lookup turns the viewer away.
AddViewer(c) ==
    /\ pc[c] = "accepted"
    /\ IF closed
         THEN /\ pc' = [pc EXCEPT ![c] = "done"]
              /\ link' = [link EXCEPT ![c] = "down"]
              /\ UNCHANGED viewers
         ELSE /\ pc' = [pc EXCEPT ![c] = "reading"]
              /\ viewers' = [viewers EXCEPT ![connID[c]] = c]
              /\ UNCHANGED link
    /\ UNCHANGED <<mode, closed, pendingAuth, tokens, remoteViewerID,
                   remoteSlotExpiry, activeWriterID, lastHostReclaim,
                   registered, connID, authenticated, hostVars, now,
                   history>>

\* handleAuthAttempt.  An attempt the rate limiter refuses changes nothing
\* here; the limiter has a module of its own.
HandleAuthAttempt(c, r) ==
    /\ pc[c] = "reading"
    /\ ~authenticated[c]
    /\ ~closed
    /\ ~Pending(r)
    /\ pendingAuth' = [pendingAuth EXCEPT
                         ![r] = [viewerID |-> connID[c], conn |-> c]]
    /\ UNCHANGED <<mode, closed, viewers, tokens, remoteViewerID,
                   remoteSlotExpiry, activeWriterID, lastHostReclaim,
                   registered, connVars, hostVars, link, now, history>>

\* A token past its deadline is refused; one at its deadline is not.
Expired(t) == tokens[t].expiresAt # Zero /\ now > tokens[t].expiresAt

\* Two faulty Rekeyed: the entry under the random id stays behind; or it goes
\* and none takes its place.
RekeyedTwice(c, i)   == [viewers EXCEPT ![i] = c]
RekeyedNowhere(c, i) == [viewers EXCEPT ![connID[c]] = None]

\* The roster once c answers to identity i instead of its own random id.
Rekeyed(c, i) == [viewers EXCEPT ![connID[c]] = None, ![i] = c]

\* handleResume, a token past its deadline: it is deleted, and with it the slot
\* kept for its identity.  (One the session does not know changes nothing.)
ResumeRefused(c, t) ==
    /\ pc[c] = "reading"
    /\ Issued(t) /\ Expired(t)
    /\ tokens' = [tokens EXCEPT ![t] = NoRecord]
    /\ IF remoteViewerID = tokens[t].connectionID
         THEN remoteViewerID' = None /\ remoteSlotExpiry' = Zero
         ELSE UNCHANGED <<remoteViewerID, remoteSlotExpiry>>
    /\ UNCHANGED <<mode, closed, viewers, pendingAuth, activeWriterID,
                   lastHostReclaim, registered, connVars, hostVars, link, now,
                   history>>

\* Who else answers to identity i.
Sharing(c, i) == {d \in Conn \ {c} : Serving(d) /\ connID[d] = i}

\* handleResume up to the unlock: c takes over the identity of the token,
\* whatever it has been so far.
ResumeAccepted(c, t) ==
    /\ pc[c] = "reading"
    /\ Issued(t) /\ ~Expired(t)
    /\ LET i == tokens[t].connectionID IN
         /\ viewers' = Rekeyed(c, i)
         /\ connID' = [connID EXCEPT ![c] = i]
         /\ tokens' = [tokens EXCEPT ![t].expiresAt = Zero]
         /\ IF mode = "remote"
              THEN remoteViewerID' = i /\ remoteSlotExpiry' = Zero
              ELSE UNCHANGED <<remoteViewerID, remoteSlotExpiry>>
         /\ crowded' = IF Sharing(c, i) = {} THEN crowded
                       ELSE crowded \cup Sharing(c, i) \cup {c}
         /\ abandoned' = \/ abandoned
                         \/ /\ activeWriterID = connID[c] /\ i # connID[c]
                            /\ \A d \in Sharing(c, connID[c]) : ~authenticated[d]
    /\ pc' = [pc EXCEPT ![c] = "resumed"]
    /\ UNCHANGED <<mode, closed, pendingAuth, activeWriterID, lastHostReclaim,
                   registered, authenticated, hostVars, link, now, approved>>

\* handleResume after the unlock: setAuthenticated, then the result.
FinishResume(c) ==
    /\ pc[c] = "resumed"
    /\ pc' = [pc EXCEPT ![c] = "reading"]
    /\ authenticated' = [authenticated EXCEPT ![c] = TRUE]
    /\ UNCHANGED <<sessionVars, registered, connID, hostVars, link, now, history>>

LockedOut == lastHostReclaim # Zero /\ now - lastHostReclaim < HostLockWindow

\* Two faulty MayTakeControl: the mode, or the lock window, is not looked at.
MayTakeControlInGroup == ~LockedOut
MayTakeControlAtOnce  == mode # "group"

\* handleTakeControl's conditions on a viewer.
MayTakeControl == mode # "group" /\ ~LockedOut

\* handleTakeControl, sent by viewer c with valid dimensions.
TakeControl(c) ==
    /\ pc[c] = "reading" /\ authenticated[c]
    /\ MayTakeControl
    /\ activeWriterID' = connID[c] /\ abandoned' = FALSE
    /\ UNCHANGED <<mode, closed, viewers, pendingAuth, tokens, remoteViewerID,
                   remoteSlotExpiry, lastHostReclaim, registered, connVars,
                   hostVars, link, now, approved, crowded>>

\* Two faulty WriterWithout: control stays with the one who left, or goes to
\* nobody.
WriterUnchanged(i) == activeWriterID
WriterNobody(i)    == IF activeWriterID = i THEN None ELSE activeWriterID

\* Who writes once the connection known as i has left.
WriterWithout(i) == IF activeWriterID = i THEN Host ELSE activeWriterID

\* The tokens of identity i may be used for ReconnectWindow longer.
Countdown(i) ==
    [t \in Token |-> IF tokens[t].connectionID = i
                       THEN [tokens[t] EXCEPT !.expiresAt = now + ReconnectWindow]
                       ELSE tokens[t]]

\* handleViewerDisconnect, once the read loop of c fails.
HandleViewerDisconnect(c) ==
    /\ pc[c] = "reading" /\ link[c] = "down"
    /\ pc' = [pc EXCEPT ![c] = "done"]
    /\ LET i == connID[c] IN
         /\ viewers' = [viewers EXCEPT ![i] = None]
         /\ tokens' = IF authenticated[c] THEN Countdown(i) ELSE tokens
         /\ remoteSlotExpiry' =
              IF authenticated[c] /\ mode = "remote" /\ remoteViewerID = i
                THEN now + ReconnectWindow ELSE remoteSlotExpiry
         /\ activeWriterID' = WriterWithout(i)
         /\ abandoned' = (abandoned /\ activeWriterID # i)
    /\ crowded' = crowded \ {c}
    /\ UNCHANGED <<mode, closed, pendingAuth, remoteViewerID, lastHostReclaim,
                   registered, connID, authenticated, hostVars, link, now,
                   approved>>

-----------------------------------------------------------------------------
(* The goroutine that serves the host.                                     *)

\* configure.  The host sends session_config before anything else, so it is
\* processed before the first verdict, reclaim or kill switch.
Configure(m) ==
    /\ hostPC = "serving" /\ ~configured
    /\ mode' = m
    /\ configured' = TRUE
    /\ UNCHANGED <<closed, viewers, pendingAuth, tokens, remoteViewerID,
                   remoteSlotExpiry, activeWriterID, lastHostReclaim,
                   registered, connVars, hostPC, granting, closing, link, now,
                   history>>

\* A faulty SlotRefuses: only a slot that is counting down is protected.
SlotRefusesInterrupted(i) ==
    /\ mode = "remote" /\ remoteViewerID \notin {None, i}
    /\ now < remoteSlotExpiry

\* The Remote slot belongs to another identity than i, and is not up for grabs:
\* it is in use (no deadline) or its deadline has not come.
SlotRefuses(i) ==
    /\ mode = "remote" /\ remoteViewerID \notin {None, i}
    /\ remoteSlotExpiry = Zero \/ now < remoteSlotExpiry

\* handleAuthResponse, a verdict that lets nobody in: the password was wrong,
\* or the slot is taken.
VerdictRefused(r) ==
    /\ hostPC = "serving" /\ configured
    /\ Pending(r)
    /\ pendingAuth' = [pendingAuth EXCEPT ![r] = NoAuth]
    /\ UNCHANGED <<mode, closed, viewers, tokens, remoteViewerID,
                   remoteSlotExpiry, activeWriterID, lastHostReclaim,
                   registered, connVars, hostVars, link, now, history>>

\* handleAuthResponse up to the second unlock, the password was right: the
\* identity takes the slot and a new token is recorded for it.
VerdictAccepted(r, t) ==
    /\ hostPC = "serving" /\ configured
    /\ Pending(r)
    /\ ~Issued(t)
    /\ LET i == pendingAuth[r].viewerID IN
         /\ ~SlotRefuses(i)
         /\ IF mode = "remote"
              THEN remoteViewerID' = i /\ remoteSlotExpiry' = Zero
              ELSE UNCHANGED <<remoteViewerID, remoteSlotExpiry>>
         /\ tokens' = [tokens EXCEPT
                         ![t] = [connectionID |-> i, expiresAt |-> Zero]]
         /\ approved' = approved \cup {i}
    /\ granting' = pendingAuth[r].conn
    /\ hostPC' = "granting"
    /\ pendingAuth' = [pendingAuth EXCEPT ![r] = NoAuth]
    /\ UNCHANGED <<mode, closed, viewers, activeWriterID, lastHostReclaim,
                   registered, connVars, closing, configured, link, now, crowded,
                   abandoned>>

\* handleAuthResponse after the unlock: setAuthenticated, then the result.
FinishGrant ==
    /\ hostPC = "granting"
    /\ authenticated' = [authenticated EXCEPT ![granting] = TRUE]
    /\ granting' = None
    /\ hostPC' = "serving"
    /\ UNCHANGED <<sessionVars, registered, pc, connID, closing, configured,
                   link, now, history>>

\* handleTakeControl, sent by the host: it always succeeds.
HostTakeControl ==
    /\ hostPC = "serving" /\ configured
    /\ activeWriterID' = Host /\ abandoned' = FALSE
    /\ lastHostReclaim' = now
    /\ UNCHANGED <<mode, closed, viewers, pendingAuth, tokens, remoteViewerID,
                   remoteSlotExpiry, registered, connVars, hostVars, link, now,
                   approved, crowded>>

Roster == {c \in Conn : \E i \in Conn : viewers[i] = c}

\* A faulty TokensAfterKill: the kicked viewers may come back.
TokensKept == tokens

TokensAfterKill == [t \in Token |-> NoRecord]

\* handleKillSwitch up to the unlock.
KillSwitch ==
    /\ hostPC = "serving" /\ configured
    /\ closing' = Roster
    /\ viewers' = [i \in Conn |-> None]
    /\ tokens' = TokensAfterKill
    /\ remoteViewerID' = None
    /\ remoteSlotExpiry' = Zero
    /\ pendingAuth' = [r \in Request |-> NoAuth]
    /\ hostPC' = "closing"
    /\ approved' = {}
    /\ UNCHANGED <<mode, closed, activeWriterID, lastHostReclaim, registered,
                   connVars, granting, configured, link, now, crowded, abandoned>>

\* teardown up to the unlock, on end_session (the goroutine goes on reading)
\* or because the host's socket is gone (it is about to return).
Teardown(next) ==
    /\ hostPC = "serving"
    /\ closing' = Roster
    /\ viewers' = [i \in Conn |-> None]
    /\ closed' = TRUE
    /\ hostPC' = next
    /\ UNCHANGED <<mode, pendingAuth, tokens, remoteViewerID, remoteSlotExpiry,
                   activeWriterID, lastHostReclaim, registered, connVars,
                   granting, configured, link, now, history>>

EndSession     == configured /\ ~closed /\ Teardown("closing")
HostDisconnect == Teardown("leaving")

\* The loop of kicked (session_ended) and closeWithCode after the unlock.
CloseNext(c) ==
    /\ c \in closing
    /\ closing' = closing \ {c}
    /\ link' = [link EXCEPT ![c] = "down"]
    /\ UNCHANGED <<sessionVars, registered, connVars, hostPC, granting,
                   configured, now, history>>

\* The loop is over: back to reading, or out of handleHost.
ClosingDone ==
    /\ hostPC \in {"closing", "leaving"} /\ closing = {}
    /\ IF hostPC = "closing"
         THEN hostPC' = "serving" /\ UNCHANGED registered
         ELSE hostPC' = "gone" /\ registered' = FALSE
    /\ UNCHANGED <<sessionVars, connVars, granting, closing, configured,
                   link, now, history>>

-----------------------------------------------------------------------------
ViewerNext(c) ==
    \/ AddViewer(c)
    \/ \E r \in Request : HandleAuthAttempt(c, r)
    \/ \E t \in Token : ResumeRefused(c, t) \/ ResumeAccepted(c, t)
    \/ FinishResume(c)
    \/ TakeControl(c)
    \/ HandleViewerDisconnect(c)

HostNext ==
    \/ \E m \in {"remote", "group"} : Configure(m)
    \/ \E r \in Request : VerdictRefused(r)
    \/ \E r \in Request, t \in Token : VerdictAccepted(r, t)
    \/ FinishGrant
    \/ HostTakeControl
    \/ KillSwitch
    \/ EndSession \/ HostDisconnect
    \/ \E c \in Conn : CloseNext(c)
    \/ ClosingDone

PageNext(c) == Connect(c) \/ Drop(c)

Next ==
    \/ \E c \in Conn : ViewerNext(c) \/ PageNext(c)
    \/ HostNext
    \/ Tick

Spec == Init /\ [][Next]_vars

-----------------------------------------------------------------------------
(* Fairness.  Goroutines are scheduled: a handler that has begun ends, and  *)
(* the read loop of a socket that is down fails sooner or later: strongly,  *)
(* as what it still reads first are finitely many frames.  Nobody has to    *)
(* type, to send or to reconnect.                                          *)
Fairness ==
    /\ \A c \in Conn : WF_vars(AddViewer(c))
    /\ \A c \in Conn : WF_vars(FinishResume(c))
    /\ \A c \in Conn : SF_vars(HandleViewerDisconnect(c))
    /\ WF_vars(FinishGrant)
    /\ \A c \in Conn : WF_vars(CloseNext(c))
    /\ WF_vars(ClosingDone)

FairSpec == Spec /\ Fairness

-----------------------------------------------------------------------------
(* Safety.                                                                 *)

\* The roster (Session.viewers) names only connections that are being served,
\* each under the identity it answers to: nobody is sent frames after leaving,
\* and no connection is listed twice, across resumes, kills and teardowns.
RosterIsServed ==
    \A i \in Conn : viewers[i] # None =>
        Serving(viewers[i]) /\ connID[viewers[i]] = i

\* The active writer is the host or an identity that some authenticated viewer
\* connection still answers to, in whatever order old and new sockets of the
\* identity come and go.  The one exception is in handleResume, which lets the
\* writer's connection take another identity and leaves control where it is.
WriterIsServed ==
    activeWriterID # Host =>
        \/ abandoned
        \/ \E c \in Conn : /\ Serving(c) /\ authenticated[c]
                           /\ connID[c] = activeWriterID

\* docs/protocol.md: exactly one connection is the active writer at any time.
\* The code does not guarantee it: see the README.
OneConnectionWrites ==
    activeWriterID # Host =>
        \E c \in Conn : Serving(c) /\ authenticated[c] /\ connID[c] = activeWriterID

\* In a group session the host is the only writer, though every session starts
\* in remote mode: no viewer can get in before session_config is processed.
GroupIsHostControlled == mode = "group" => activeWriterID = Host

\* A token that can be used stands for an identity the host has approved since
\* the last kill switch: no resume, however late, brings a kicked viewer back.
TokensAreApproved ==
    \A t \in Token : Issued(t) => tokens[t].connectionID \in approved

\* Every viewer who is let in and still connected is in the roster, or is about
\* to be closed by the host's goroutine, unless its connection once had its
\* identity together with another one: nothing but the late disconnect, or the
\* resume, of a second socket of the identity loses an entry.
EveryParticipantIsListed ==
    \A c \in Conn \ crowded : Participant(c) =>
        viewers[connID[c]] = c \/ c \in closing

\* What follows from it once the session has ended and nobody is listed: a viewer
\* still connected is about to be closed, with the same exception.
NobodyOutlivesTheSession ==
    closed => \A c \in Conn \ crowded : Participant(c) => c \in closing

\* docs/protocol.md: in remote mode, one authenticated remote viewer identity.
\* The code does not guarantee it: see the README.
OneRemoteIdentity ==
    mode = "remote" =>
        \A c, d \in Conn : Participant(c) /\ Participant(d) => connID[c] = connID[d]

(* Steps.                                                                  *)

\* killswitch.go: the kill switch disconnects every currently connected viewer.
\* The code does not guarantee it: see the README.
KillReachesEveryone ==
    [][hostPC = "serving" /\ hostPC' = "closing" /\ closed' = closed
         => \A c \in Conn : Participant(c) => c \in closing']_vars

\* What the code does guarantee: it disconnects every viewer whose connection
\* has never had its identity together with another one.
KillReachesTheUncrowded ==
    [][hostPC = "serving" /\ hostPC' = "closing" /\ closed' = closed
         => \A c \in Conn \ crowded : Participant(c) => c \in closing']_vars

\* session.go, ReconnectWindow: another identity cannot steal an interrupted
\* session.  When a verdict gives one identity's slot to another, no token of
\* the first has time left: all have reached their deadlines, so that none
\* comes back later than at that instant.
SlotIsNotStolen ==
    [][LET i == remoteViewerID IN
       hostPC = "serving" /\ hostPC' = "granting" /\ i # None /\ remoteViewerID' # i
         => \A t \in Token : tokens[t].connectionID = i
              => tokens[t].expiresAt # Zero /\ now >= tokens[t].expiresAt]_vars

\* A viewer gains control neither within the lock window of a reclaim nor by
\* coming back: the step that makes it the writer is one it took while it was
\* in, and the host had not just reclaimed.
ControlIsTaken ==
    [][activeWriterID' \in Conn /\ activeWriterID' # activeWriterID
         => /\ now - lastHostReclaim >= HostLockWindow \/ lastHostReclaim = Zero
            /\ \E c \in Conn : pc[c] = "reading" /\ authenticated[c]
                               /\ connID[c] = activeWriterID']_vars

\* docs/protocol.md, Reconnect: a viewer who resumes on a new connection does
\* not regain control, unless another connection still answers to its identity,
\* or the last one that did has taken another identity.
ResumeDoesNotRegainControl ==
    [][\A c \in Conn \ crowded :
         pc[c] = "resumed" /\ pc'[c] = "reading" /\ ~authenticated[c]
           => activeWriterID' # connID'[c] \/ abandoned]_vars

(* Liveness.                                                               *)

Reachable(i) == \E c \in Conn : connID[c] = i /\ pc[c] # "done" /\ link[c] = "up"

\* docs/protocol.md, Reconnect: when the active writer's connection drops, or
\* is closed by the kill switch, control goes back to the host, unless another
\* socket of the same viewer is up, or the writer's connection has taken another
\* identity first.
ControlComesBack ==
    \A i \in Conn :
        activeWriterID = i /\ ~Reachable(i)
            ~> activeWriterID # i \/ Reachable(i) \/ abandoned

\* Once the session has ended, every viewer's connection comes to its end, but
\* for those that were not in the roster because their identity was not theirs
\* alone.
EndedSessionDrains ==
    closed ~> \A c \in Conn \ crowded : pc[c] \in {"idle", "done"}

=============================================================================
