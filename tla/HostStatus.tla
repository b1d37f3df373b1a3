----------------------------- MODULE HostStatus -----------------------------
(***************************************************************************)
(* hostSessionStatus (cmd/getsloth/host_status.go): what the host process   *)
(* knows of its session, from the frames of the relay.  Each operator is    *)
(* one method, carried out under status.mu.  Names, measurements and the    *)
(* invite are left out; an event is its kind.                               *)
(***************************************************************************)
EXTENDS Naturals, Sequences, FiniteSets

CONSTANTS Viewer, Host, MaxEvents  \* maxHostControlEvents

Writer == Viewer \cup {Host}

NewStatus == [live |-> TRUE, viewers |-> {}, writer |-> Host, events |-> <<>>]

\* The first n elements of a sequence.
Newest(n, s) == SubSeq(s, 1, IF Len(s) < n THEN Len(s) ELSE n)

\* appendEventLocked, for events that happen together: the newest first.
AppendEvents(status, new) ==
    [status EXCEPT !.events = Newest(MaxEvents, new \o status.events)]

\* updatePresence: who is there, and the writer if the roster shows one.
UpdatePresence(status, roster, writers) ==
    LET joined == Cardinality(roster \ status.viewers) IN
    AppendEvents([status EXCEPT !.viewers = roster,
                                !.writer  = IF writers = {} THEN status.writer
                                            ELSE CHOOSE w \in writers : TRUE],
                 [i \in 1 .. joined |-> "joined"])

\* updateControl: an event only if this frame is the first to name the writer.
UpdateControl(status, w) ==
    AppendEvents([status EXCEPT !.writer = w],
                 IF w = status.writer THEN <<>>
                 ELSE IF w = Host THEN <<"reclaimed">> ELSE <<"took control">>)

NoteChat(status)        == AppendEvents(status, <<"chat">>)
NoteKillSwitch(status)  == AppendEvents(status, <<"kill switch">>)
SetDisconnected(status) == [status EXCEPT !.live = FALSE]
=============================================================================
