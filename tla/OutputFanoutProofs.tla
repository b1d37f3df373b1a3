------------------------- MODULE OutputFanoutProofs -------------------------
(***************************************************************************)
(* What the relay promises about output, for any number of viewers, chunks  *)
(* and goroutines that write, whatever sockets fill up or drop, however     *)
(* many attempts of a connection are approved and whatever it resumes:      *)
(* nobody who is let in misses a chunk, the backlog is of one grid, and     *)
(* what a viewer admitted by a verdict is sent is an OutputStream.          *)
(***************************************************************************)
EXTENDS OutputFanout, TLAPS

USE FanoutAssumption DEF FanoutAssumption, Goroutine, Steps

-----------------------------------------------------------------------------
(* Letting in.                                                             *)

\* A goroutine lets in at most one connection and sends to nobody meanwhile; a
\* verdict is carried out by the host's goroutine, a resume by the connection's own.
JobsInOrder ==
    \A g \in Goroutine :
        /\ letIn[g] = None <=> step[g] = "idle"
        /\ step[g] # "idle" => sending[g].to = {}
        /\ letIn[g] # None => IF g = Host THEN joined[letIn[g]] # "no"
                              ELSE letIn[g] = g /\ joined[g] = "resume"

\* Only who has been let in is authenticated, and whoever has been is, unless a
\* goroutine that lets it in has not come to that yet.
LetInOrNot ==
    \A c \in Conn :
        /\ authenticated[c] => joined[c] # "no"
        /\ joined[c] # "no" =>
             authenticated[c] \/ \E g \in Goroutine : letIn[g] = c /\ step[g] = "accepted"

-----------------------------------------------------------------------------
(* Types.                                                                  *)

\* The backlog of one chunk more: still chunks, not too many, none but the old
\* ones and the new one, and the new one is among them.
LEMMA RecentChunks ==
  ASSUME NEW s \in Seq(Chunk), Len(s) <= MaxBacklog, NEW n \in Chunk
  PROVE  /\ Recent(Append(s, n)) \in Seq(Chunk)
         /\ Len(Recent(Append(s, n))) <= MaxBacklog
         /\ Range(Recent(Append(s, n))) \subseteq Range(s) \cup {n}
<1> DEFINE t == Append(s, n)
<1>1. t \in Seq(Chunk) /\ Len(t) = Len(s) + 1 /\ t # <<>> /\ Len(s) \in Nat
  OBVIOUS
<1>2. \A i \in 1 .. Len(t) : t[i] \in Range(s) \cup {n}
  BY <1>1 DEF Range
<1>3. CASE Len(t) > MaxBacklog
  <2>1. /\ Tail(t) \in Seq(Chunk) /\ Len(Tail(t)) = Len(t) - 1
        /\ \A i \in 1 .. Len(Tail(t)) : Tail(t)[i] = t[i + 1]
    BY <1>1
  <2>2. Range(Tail(t)) \subseteq Range(s) \cup {n}
    BY <1>1, <1>2, <2>1 DEF Range
  <2>3. QED BY <1>1, <1>3, <2>1, <2>2 DEF Recent
<1>4. CASE ~(Len(t) > MaxBacklog)
  <2>1. Range(t) \subseteq Range(s) \cup {n}
    BY <1>1, <1>2 DEF Range
  <2>2. QED BY <1>1, <1>4, <2>1 DEF Recent
<1>5. QED BY <1>3, <1>4

LEMMA FramesTyped ==
  /\ \A n \in Chunk : Output(n) \in Frame
  /\ Notice \in Frame /\ Notice.type # "output"
BY DEF Output, Notice, Frame

\* What a write does to the types of what pages have been sent.
LEMMA WriteTyped ==
  ASSUME TypeOK, NEW c \in Conn, NEW f \in Frame, Write(c, f)
  PROVE  full' \in [Conn -> BOOLEAN] /\ got' \in [Conn -> Seq(Chunk)]
<1>1. f.type = "output" => f.chunk \in Chunk
  BY DEF Frame, Notice
<1>2. CASE link[c] # "up"
  BY <1>2 DEF Write, pageVars, TypeOK
<1>3. CASE link[c] = "up"
  <2>1. PICK b \in BOOLEAN : full' = [full EXCEPT ![c] = b]
    BY <1>3 DEF Write
  <2>2. full' \in [Conn -> BOOLEAN]
    BY <2>1 DEF TypeOK
  <2>3. CASE f.type = "output"
    <3>1. got \in [Conn -> Seq(Chunk)]
      BY DEF TypeOK
    <3>2. Append(got[c], f.chunk) \in Seq(Chunk)
      BY <1>1, <2>3, <3>1
    <3>3. got' = [got EXCEPT ![c] = Append(@, f.chunk)]
      BY <1>3, <2>3 DEF Write
    <3>4. QED BY <2>2, <3>1, <3>2, <3>3
  <2>4. CASE f.type # "output"
    BY <1>3, <2>2, <2>4 DEF Write, TypeOK
  <2>5. QED BY <2>3, <2>4
<1>4. QED BY <1>2, <1>3

LEMMA BroadcastTyped ==
  ASSUME TypeOK, NEW g \in Goroutine, NEW f \in Frame, NEW to \in SUBSET Conn,
         Broadcast(g, f, to)
  PROVE  sending' \in [Goroutine -> [frame : Frame, to : SUBSET Conn] \cup {NothingToSend}]
<1>1. [frame |-> f, to |-> to] \in [frame : Frame, to : SUBSET Conn]
  OBVIOUS
<1>2. QED BY <1>1 DEF Broadcast, TypeOK

LEMMA TargetsTyped == Targets \in SUBSET Conn
BY DEF Targets

\* A write changes what one page has been sent, by one chunk at most.
LEMMA WriteEffect ==
  ASSUME TypeOK, NEW c \in Conn, NEW f \in Frame, Write(c, f)
  PROVE  /\ \A d \in Conn : d # c => got'[d] = got[d]
         /\ got'[c] = IF link[c] = "up" /\ f.type = "output"
                        THEN Append(got[c], f.chunk) ELSE got[c]
<1>1. CASE link[c] # "up"
  BY <1>1 DEF Write, pageVars
<1>2. CASE link[c] = "up"
  <2>1. CASE f.type = "output"
    <3>1. got' = [got EXCEPT ![c] = Append(@, f.chunk)]
      BY <1>2, <2>1 DEF Write
    <3>2. QED BY <1>2, <2>1, <3>1 DEF TypeOK
  <2>2. CASE f.type # "output"
    <3>1. got' = got
      BY <1>2, <2>2 DEF Write
    <3>2. QED BY <2>2, <3>1
  <2>3. QED BY <2>1, <2>2
<1>3. QED BY <1>1, <1>2

LEMMA SendingTyped ==
  ASSUME TypeOK, NEW g \in Goroutine
  PROVE  sending[g].to \subseteq Conn
<1>1. sending[g] \in [frame : Frame, to : SUBSET Conn] \cup {NothingToSend}
  BY DEF TypeOK
<1>2. QED BY <1>1 DEF NothingToSend

\* What is known of the state without looking at chunks.
Orderly == TypeOK /\ JobsInOrder /\ LetInOrNot

LEMMA InitOrderly == Init => Orderly
<1> SUFFICES ASSUME Init PROVE Orderly
  OBVIOUS
<1>1. <<>> \in Seq(Chunk) /\ Len(<<>>) <= MaxBacklog
  OBVIOUS
<1>2. TypeOK
  BY <1>1 DEF Init, TypeOK
<1>3. JobsInOrder
  BY DEF Init, JobsInOrder, NothingToSend
<1>4. LetInOrNot
  BY DEF Init, LetInOrNot
<1>5. QED BY <1>2, <1>3, <1>4 DEF Orderly

\* A goroutine that is idle may broadcast without disturbing the order.
LEMMA BroadcastOrderly ==
  ASSUME Orderly, NEW g \in Goroutine, Idle(g), NEW f \in Frame,
         NEW to \in SUBSET Conn, Broadcast(g, f, to),
         UNCHANGED <<authenticated, joined, jobVars>>
  PROVE  JobsInOrder' /\ LetInOrNot'
<1>1. \A h \in Goroutine : h # g => sending'[h] = sending[h]
  BY DEF Broadcast, Orderly, TypeOK
<1>2. step[g] = "idle"
  BY DEF Idle
<1>3. JobsInOrder'
  BY <1>1, <1>2 DEF Orderly, JobsInOrder, jobVars
<1>4. LetInOrNot'
  BY DEF Orderly, LetInOrNot, jobVars
<1>5. QED BY <1>3, <1>4

LEMMA BroadcastOutputOrderly == Orderly /\ BroadcastOutput => Orderly'
<1> SUFFICES ASSUME Orderly, BroadcastOutput PROVE Orderly'
  OBVIOUS
<1> USE DEF Orderly
<1>1. printed' \in Chunk /\ printed' \in 0 .. MaxChunk
  BY DEF BroadcastOutput, TypeOK, Chunk
<1>2. Output(printed') \in Frame
  BY <1>1, FramesTyped
<1>3. backlog' \in Seq(Chunk) /\ Len(backlog') <= MaxBacklog
  BY <1>1, RecentChunks DEF BroadcastOutput, TypeOK
<1>4. JobsInOrder' /\ LetInOrNot'
  BY <1>2, TargetsTyped, BroadcastOrderly DEF BroadcastOutput, connVars
<1>5. sending' \in [Goroutine -> [frame : Frame, to : SUBSET Conn] \cup {NothingToSend}]
  BY <1>2, TargetsTyped, BroadcastTyped DEF BroadcastOutput
<1>6. TypeOK'
  BY <1>1, <1>3, <1>5 DEF BroadcastOutput, TypeOK, connVars, jobVars, pageVars
<1>7. QED BY <1>4, <1>6

\* The backlog stays or goes, and a goroutine that is idle may say so.
LEMMA ClearOrderly ==
  ASSUME Orderly, NEW g \in Goroutine, Idle(g), NEW to \in SUBSET Conn,
         Broadcast(g, Notice, to) \/ UNCHANGED sending,
         UNCHANGED backlogVars \/ (backlog' = <<>> /\ changedAt' = printed),
         roster' \in [Conn -> Conn \cup {None}],
         link' \in [Conn -> {"up", "down", "gone"}],
         pending' \in [Conn -> 0 .. MaxAttempts],
         UNCHANGED <<issued, id, authenticated, joined, jobVars, pageVars, printed>>
  PROVE  Orderly'
<1> USE DEF Orderly
<1>1. sending' \in [Goroutine -> [frame : Frame, to : SUBSET Conn] \cup {NothingToSend}]
  BY FramesTyped, BroadcastTyped DEF TypeOK
<1>2. /\ changedAt' \in 0 .. MaxChunk
      /\ backlog' \in Seq(Chunk) /\ Len(backlog') <= MaxBacklog
  <2>1. <<>> \in Seq(Chunk) /\ Len(<<>>) <= MaxBacklog
    OBVIOUS
  <2>2. QED BY <2>1 DEF TypeOK, backlogVars
<1>3. TypeOK'
  BY <1>1, <1>2 DEF TypeOK, jobVars, pageVars
<1>4. JobsInOrder' /\ LetInOrNot'
  <2>1. CASE UNCHANGED sending
    BY <2>1 DEF JobsInOrder, LetInOrNot, jobVars
  <2>2. CASE Broadcast(g, Notice, to)
    BY <2>2, FramesTyped, BroadcastOrderly
  <2>3. QED BY <2>1, <2>2
<1>5. QED BY <1>3, <1>4

\* The actions that set a grid, take or refuse an attempt, or lose a connection.
LEMMA NoticeOrderly ==
  ASSUME Orderly,
         \/ \E g \in Goroutine : SetsGrid(g)
         \/ \E c \in Conn : Leave(c) \/ Attempt(c) \/ Refuse(c)
  PROVE  Orderly'
<1>1. ASSUME NEW g \in Goroutine, SetsGrid(g) PROVE Orderly'
  <2>1. UNCHANGED backlogVars \/ (backlog' = <<>> /\ changedAt' = printed)
    BY <1>1 DEF SetsGrid, SetGrid
  <2>2. /\ Idle(g) /\ Broadcast(g, Notice, Targets)
        /\ UNCHANGED <<issued, id, authenticated, joined, jobVars, pageVars, printed,
                       roster, link, pending>>
    BY <1>1 DEF SetsGrid, connVars
  <2>3. QED BY <2>1, <2>2, TargetsTyped, ClearOrderly DEF Orderly, TypeOK
<1>2. ASSUME NEW c \in Conn, Leave(c) PROVE Orderly'
  <2>1. /\ Idle(c)
        /\ UNCHANGED <<issued, id, authenticated, joined, jobVars, pageVars, printed,
                       pending>>
        /\ link' = [link EXCEPT ![c] = "gone"]
        /\ roster' = [roster EXCEPT ![id[c]] = None]
    BY <1>2 DEF Leave, Unlist
  <2>2. Targets' \in SUBSET Conn
    BY DEF Targets
  <2>3. link' \in [Conn -> {"up", "down", "gone"}]
    BY <2>1 DEF Orderly, TypeOK
  <2>4. roster' \in [Conn -> Conn \cup {None}] /\ pending' \in [Conn -> 0 .. MaxAttempts]
    BY <2>1 DEF Orderly, TypeOK
  <2>5. \/ UNCHANGED <<backlogVars, sending>>
        \/ backlog' = <<>> /\ changedAt' = printed /\ Broadcast(c, Notice, Targets')
    BY <1>2 DEF Leave
  <2>6. QED BY <2>1, <2>2, <2>3, <2>4, <2>5, ClearOrderly
<1>3. ASSUME NEW c \in Conn, Attempt(c) PROVE Orderly'
  <2>1. /\ Idle(c) /\ pending' = [pending EXCEPT ![c] = @ + 1]
        /\ pending[c] < MaxAttempts
        /\ UNCHANGED <<backlogVars, roster, issued, id, authenticated, link, joined,
                       jobVars, sending, pageVars, printed>>
    BY <1>3 DEF Attempt, connVars
  <2>2. pending' \in [Conn -> 0 .. MaxAttempts]
    BY <2>1 DEF Orderly, TypeOK
  <2>3. QED BY <2>1, <2>2, TargetsTyped, ClearOrderly DEF Orderly, TypeOK
<1>4. ASSUME NEW c \in Conn, Refuse(c) PROVE Orderly'
  <2>1. /\ Idle(Host) /\ pending' = [pending EXCEPT ![c] = @ - 1] /\ pending[c] > 0
        /\ Broadcast(Host, Notice, {c})
        /\ UNCHANGED <<backlogVars, roster, issued, id, authenticated, link, joined,
                       jobVars, pageVars, printed>>
    BY <1>4 DEF Refuse, Verdict, connVars
  <2>2. pending' \in [Conn -> 0 .. MaxAttempts]
    BY <2>1 DEF Orderly, TypeOK
  <2>3. {c} \in SUBSET Conn
    OBVIOUS
  <2>4. QED BY <2>1, <2>2, <2>3, ClearOrderly DEF Orderly, TypeOK
<1>5. QED BY <1>1, <1>2, <1>3, <1>4

\* What is common to a verdict and to a resume.
LEMMA Begins ==
  ASSUME Orderly, NEW c \in Conn,
         NEW g \in Goroutine, NEW how,
         \/ Admit(c) /\ g = Host
              /\ how = IF joined[c] = "resume" THEN "resume" ELSE "verdict"
         \/ (\E i \in Conn : Resume(c, i)) /\ g = c /\ how = "resume"
  PROVE  /\ Idle(g) /\ Begin(g, c, how)
         /\ how \in {"verdict", "resume"}
         /\ g # Host => g = c /\ how = "resume"
         /\ joined[c] = "resume" => how = "resume"
         /\ pending' \in [Conn -> 0 .. MaxAttempts] /\ issued' \subseteq Conn
         /\ roster' \in [Conn -> Conn \cup {None}] /\ id' \in [Conn -> Conn]
         /\ \A d \in Conn : d # c /\ Listed(d)' => Listed(d)
         /\ how = "verdict" => roster' = roster
<1>1. CASE Admit(c)
  <2>1. /\ Idle(Host) /\ pending[c] > 0 /\ pending' = [pending EXCEPT ![c] = @ - 1]
        /\ issued' = issued \cup {c} /\ UNCHANGED <<roster, id>>
        /\ Begin(Host, c, IF joined[c] = "resume" THEN "resume" ELSE "verdict")
    BY <1>1 DEF Admit, Verdict
  <2>2. pending' \in [Conn -> 0 .. MaxAttempts]
    BY <2>1 DEF Orderly, TypeOK
  <2>3. CASE g = Host /\ how = IF joined[c] = "resume" THEN "resume" ELSE "verdict"
    BY <2>1, <2>2, <2>3 DEF Orderly, TypeOK, Listed
  <2>4. CASE ~(g = Host /\ how = IF joined[c] = "resume" THEN "resume" ELSE "verdict")
    <3>1. PICK i \in Conn : Resume(c, i)
      BY <2>4
    <3>2. step'[Host] = "accepted" /\ step'[Host] = step[Host] /\ step[Host] = "idle"
      BY <2>1, <3>1 DEF Resume, Begin, Idle, Orderly, TypeOK
    <3>3. QED BY <3>2
  <2>5. QED BY <2>3, <2>4
<1>2. CASE (\E i \in Conn : Resume(c, i)) /\ g = c /\ how = "resume"
  <2>1. PICK i \in Conn : Resume(c, i)
    BY <1>2
  <2>2. /\ Idle(c) /\ id' = [id EXCEPT ![c] = i]
        /\ roster' = [roster EXCEPT ![id[c]] = None, ![i] = c]
        /\ Begin(c, c, "resume") /\ UNCHANGED <<pending, issued>>
    BY <2>1 DEF Resume
  <2>3. \A j \in Conn : roster'[j] \in {roster[j], None, c}
    BY <2>2 DEF Orderly, TypeOK
  <2>4. \A d \in Conn : d # c /\ Listed(d)' => Listed(d)
    BY <2>3 DEF Listed
  <2>5. roster' \in [Conn -> Conn \cup {None}] /\ id' \in [Conn -> Conn]
    BY <2>2 DEF Orderly, TypeOK
  <2>6. QED BY <1>2, <2>2, <2>4, <2>5 DEF Orderly, TypeOK
<1>3. QED BY <1>1, <1>2

\* A connection is let in, or let in again, by a goroutine that was idle.
LEMMA BeginOrderly ==
  ASSUME Orderly, NEW g \in Goroutine, NEW c \in Conn, NEW how \in {"verdict", "resume"},
         Idle(g), Begin(g, c, how), g # Host => g = c /\ how = "resume",
         joined[c] = "resume" => how = "resume",
         pending' \in [Conn -> 0 .. MaxAttempts], issued' \subseteq Conn,
         roster' \in [Conn -> Conn \cup {None}], id' \in [Conn -> Conn]
  PROVE  Orderly'
<1> USE DEF Orderly
<1>1. TypeOK'
  <2>1. <<>> \in Seq(Chunk)
    OBVIOUS
  <2>2. QED BY <2>1 DEF Begin, TypeOK, backlogVars
<1>2. /\ \A h \in Goroutine : step'[h] = IF h = g THEN "accepted" ELSE step[h]
      /\ \A h \in Goroutine : letIn'[h] = IF h = g THEN c ELSE letIn[h]
      /\ \A d \in Conn : joined'[d] = IF d = c THEN how ELSE joined[d]
      /\ UNCHANGED <<sending, authenticated>>
  BY DEF Begin, TypeOK
<1>3. step[g] = "idle" /\ sending[g].to = {} /\ letIn[g] = None /\ c # None
  BY DEF Idle, JobsInOrder
<1>4. JobsInOrder'
  <2> SUFFICES ASSUME NEW h \in Goroutine
               PROVE  /\ letIn'[h] = None <=> step'[h] = "idle"
                      /\ step'[h] # "idle" => sending[h].to = {}
                      /\ letIn'[h] # None => IF h = Host THEN joined'[letIn'[h]] # "no"
                                             ELSE letIn'[h] = h /\ joined'[h] = "resume"
    BY <1>2 DEF JobsInOrder
  <2>1. CASE h = g
    BY <1>2, <1>3, <2>1
  <2>2. CASE h # g
    BY <1>2, <2>2 DEF JobsInOrder, TypeOK
  <2>3. QED BY <2>1, <2>2
<1>5. LetInOrNot'
  BY <1>2, <1>3 DEF LetInOrNot
<1>6. QED BY <1>1, <1>4, <1>5

LEMMA MarkOrderly ==
  ASSUME Orderly, NEW g \in Goroutine, Mark(g)
  PROVE  Orderly'
<1> USE DEF Orderly
<1>1. letIn[g] \in Conn /\ joined[letIn[g]] # "no"
  BY DEF Mark, JobsInOrder, TypeOK
<1>2. TypeOK'
  BY <1>1 DEF Mark, TypeOK, sessionVars, backlogVars, pageVars
<1>3. JobsInOrder'
  BY DEF Mark, JobsInOrder, TypeOK
<1>4. LetInOrNot'
  <2>1. /\ \A h \in Goroutine : step'[h] = IF h = g THEN "marked" ELSE step[h]
        /\ \A d \in Conn : authenticated'[d] <=> (d = letIn[g] \/ authenticated[d])
        /\ letIn' = letIn /\ joined' = joined
    BY <1>1 DEF Mark, TypeOK
  <2>2. QED BY <1>1, <2>1 DEF LetInOrNot
<1>5. QED BY <1>2, <1>3, <1>4

\* The later steps of letting a connection in.
LEMMA JobOrderly ==
  ASSUME Orderly, NEW g \in Goroutine,
         Answer(g) \/ Snapshot(g) \/ ReplayNext(g) \/ ReplayDone(g)
  PROVE  Orderly'
<1> USE DEF Orderly
<1>1. letIn[g] \in Conn
  BY DEF Answer, Snapshot, ReplayNext, ReplayDone, JobsInOrder, TypeOK
<1>2. CASE Answer(g)
  <2>1. TypeOK'
    BY <1>1, <1>2, FramesTyped, WriteTyped
    DEF Answer, TypeOK, sessionVars, backlogVars, connVars
  <2>2. JobsInOrder' /\ LetInOrNot'
    BY <1>2 DEF Answer, JobsInOrder, LetInOrNot, TypeOK, connVars
  <2>3. QED BY <2>1, <2>2
<1>3. CASE Snapshot(g)
  <2>1. TypeOK'
    BY <1>3 DEF Snapshot, TypeOK, sessionVars, backlogVars, connVars, pageVars
  <2>2. JobsInOrder' /\ LetInOrNot'
    BY <1>3 DEF Snapshot, JobsInOrder, LetInOrNot, TypeOK, connVars
  <2>3. QED BY <2>1, <2>2
<1>4. CASE ReplayNext(g)
  <2>1. Head(rest[g]) \in Chunk /\ Tail(rest[g]) \in Seq(Chunk)
    BY <1>4 DEF ReplayNext, TypeOK
  <2>2. Output(Head(rest[g])) \in Frame
    BY <2>1, FramesTyped
  <2>3. TypeOK'
    BY <1>1, <1>4, <2>1, <2>2, WriteTyped
    DEF ReplayNext, TypeOK, sessionVars, backlogVars, connVars
  <2>4. JobsInOrder' /\ LetInOrNot'
    BY <1>4 DEF ReplayNext, JobsInOrder, LetInOrNot, TypeOK, connVars
  <2>5. QED BY <2>3, <2>4
<1>5. CASE ReplayDone(g)
  <2>1. TypeOK'
    BY <1>5 DEF ReplayDone, TypeOK, sessionVars, backlogVars, connVars, pageVars
  <2>2. /\ \A h \in Goroutine : step'[h] = IF h = g THEN "idle" ELSE step[h]
        /\ \A h \in Goroutine : letIn'[h] = IF h = g THEN None ELSE letIn[h]
        /\ UNCHANGED <<joined, authenticated, sending>>
        /\ step[g] = "replaying"
    BY <1>5 DEF ReplayDone, TypeOK, connVars
  <2>3. JobsInOrder'
    BY <2>2 DEF JobsInOrder
  <2>4. LetInOrNot'
    BY <2>2 DEF LetInOrNot
  <2>5. QED BY <2>1, <2>3, <2>4
<1>6. QED BY <1>2, <1>3, <1>4, <1>5

LEMMA SendOrderly ==
  ASSUME Orderly, NEW g \in Goroutine, NEW c \in Conn, SendNext(g, c)
  PROVE  Orderly'
<1> USE DEF Orderly
<1>1. sending[g] \in [frame : Frame, to : SUBSET Conn]
  BY DEF SendNext, TypeOK, NothingToSend
<1>2. sending[g].frame \in Frame
  BY <1>1
<1>3. [frame |-> sending[g].frame, to |-> sending[g].to \ {c}]
         \in [frame : Frame, to : SUBSET Conn]
  BY <1>1
<1>4. sending' \in [Goroutine -> [frame : Frame, to : SUBSET Conn] \cup {NothingToSend}]
  BY <1>3 DEF SendNext, TypeOK
<1>5. TypeOK'
  BY <1>2, <1>4, WriteTyped
  DEF SendNext, TypeOK, sessionVars, backlogVars, connVars, jobVars
<1>6. \A h \in Goroutine : sending'[h].to \subseteq sending[h].to
  BY <1>1 DEF SendNext, TypeOK, NothingToSend
<1>7. JobsInOrder' /\ LetInOrNot'
  BY <1>6 DEF SendNext, JobsInOrder, LetInOrNot, connVars, jobVars
<1>8. QED BY <1>5, <1>7

\* Every step keeps the order.
LEMMA NextOrderly == Orderly /\ [Next]_vars => Orderly'
<1> SUFFICES ASSUME Orderly, [Next]_vars PROVE Orderly'
  OBVIOUS
<1>1. CASE UNCHANGED vars
  BY <1>1 DEF vars, sessionVars, backlogVars, connVars, jobVars, pageVars, Orderly,
              TypeOK, JobsInOrder, LetInOrNot
<1>2. ASSUME NEW c \in Conn, Admit(c) PROVE Orderly'
  BY <1>2, Begins, BeginOrderly
<1>3. ASSUME NEW c \in Conn, NEW i \in Conn, Resume(c, i) PROVE Orderly'
  <2>1. c \in Goroutine
    OBVIOUS
  <2>2. QED BY <1>3, <2>1, Begins, BeginOrderly
<1>4. ASSUME NEW c \in Conn, Drain(c) \/ Drop(c) PROVE Orderly'
  <2>1. UNCHANGED <<step, letIn, rest, sending, joined, authenticated>>
    BY <1>4 DEF Drain, Drop, connVars, jobVars
  <2>2. JobsInOrder' /\ LetInOrNot'
    BY <2>1 DEF Orderly, JobsInOrder, LetInOrNot
  <2>3. TypeOK'
    BY <1>4 DEF Drain, Drop, Orderly, TypeOK, sessionVars, backlogVars, connVars,
                jobVars, pageVars
  <2>4. QED BY <2>2, <2>3 DEF Orderly
<1>5. ASSUME NEW g \in Goroutine, Work(g) PROVE Orderly'
  BY <1>5, MarkOrderly, JobOrderly, SendOrderly DEF Work
<1>6. QED
  BY <1>1, <1>2, <1>3, <1>4, <1>5, BroadcastOutputOrderly, NoticeOrderly DEF Next

LEMMA AlwaysOrderly == Spec => []Orderly
BY InitOrderly, NextOrderly, PTL DEF Spec

\* However many goroutines write at once, each lets in one connection at a time
\* and has a frame to write when it has somebody to write to; the backlog never
\* exceeds its limit.
THEOREM TypeCorrect == Spec => []TypeOK
<1>1. Orderly => TypeOK
  BY DEF Orderly
<1>2. QED BY <1>1, AlwaysOrderly, PTL

-----------------------------------------------------------------------------
(* The backlog.                                                            *)

\* A step prints a chunk, or begins a new grid, or leaves the backlog alone.
LEMMA BacklogSteps ==
  ASSUME [Next]_vars
  PROVE  \/ BroadcastOutput
         \/ UNCHANGED <<backlog, changedAt, printed>>
         \/ backlog' = <<>> /\ changedAt' = printed /\ printed' = printed
<1>1. CASE UNCHANGED vars
  BY <1>1 DEF vars, sessionVars, backlogVars
<1>2. ASSUME \/ \E g \in Goroutine : SetsGrid(g)
             \/ \E c \in Conn : Leave(c)
      PROVE  \/ UNCHANGED <<backlog, changedAt, printed>>
             \/ backlog' = <<>> /\ changedAt' = printed /\ printed' = printed
  BY <1>2 DEF SetsGrid, SetGrid, Leave, Unlist, backlogVars
<1>3. ASSUME NEW c \in Conn, \/ \E i \in Conn : Resume(c, i)
                              \/ Attempt(c) \/ Admit(c) \/ Refuse(c) \/ Drain(c) \/ Drop(c)
      PROVE  UNCHANGED <<backlog, changedAt, printed>>
  BY <1>3 DEF Resume, Attempt, Admit, Refuse, Begin, Drain, Drop, sessionVars, backlogVars
<1>4. ASSUME NEW g \in Goroutine, Work(g)
      PROVE  UNCHANGED <<backlog, changedAt, printed>>
  BY <1>4 DEF Work, Mark, Answer, Snapshot, ReplayNext, ReplayDone, SendNext, sessionVars,
              backlogVars
<1>5. QED BY <1>1, <1>2, <1>3, <1>4 DEF Next

OneGrid == changedAt <= printed /\ BacklogIsOfOneGrid

LEMMA NextOneGrid == Orderly /\ OneGrid /\ [Next]_vars => OneGrid'
<1> SUFFICES ASSUME Orderly, OneGrid, [Next]_vars PROVE OneGrid'
  OBVIOUS
<1>1. CASE BroadcastOutput
  <2>1. printed \in Nat /\ changedAt \in Nat /\ printed + 1 \in Chunk
    BY <1>1 DEF BroadcastOutput, Orderly, TypeOK, Chunk
  <2>2. /\ printed' = printed + 1 /\ changedAt' = changedAt
        /\ backlog' = Recent(Append(backlog, printed + 1))
    BY <1>1 DEF BroadcastOutput
  <2>3. Range(backlog') \subseteq Range(backlog) \cup {printed + 1}
    BY <2>1, <2>2, RecentChunks DEF Orderly, TypeOK
  <2>4. QED BY <2>1, <2>2, <2>3 DEF OneGrid, BacklogIsOfOneGrid
<1>2. CASE UNCHANGED <<backlog, changedAt, printed>>
  BY <1>2 DEF OneGrid, BacklogIsOfOneGrid
<1>3. CASE backlog' = <<>> /\ changedAt' = printed /\ printed' = printed
  <2>1. Range(backlog') = {}
    BY <1>3 DEF Range
  <2>2. changedAt' <= printed'
    BY <1>3 DEF Orderly, TypeOK
  <2>3. QED BY <2>1, <2>2 DEF OneGrid, BacklogIsOfOneGrid
<1>4. QED BY <1>1, <1>2, <1>3, BacklogSteps

\* Whichever of the four handlers changes the grid, no chunk drawn for the old
\* one is left to be replayed.
THEOREM OneGridInTheBacklog == Spec => []BacklogIsOfOneGrid
<1>1. Init => OneGrid
  BY DEF Init, OneGrid, BacklogIsOfOneGrid, Range
<1>2. OneGrid => BacklogIsOfOneGrid
  BY DEF OneGrid
<1>3. QED BY <1>1, <1>2, NextOneGrid, AlwaysOrderly, PTL DEF Spec

-----------------------------------------------------------------------------
(* No chunk is missed.                                                     *)

\* The viewer c has chunk n, or a goroutine still has it to write to c, or one
\* that lets c in has not copied the backlog yet.
Settled(c, n) ==
    \/ n \in Range(got[c])
    \/ sending[Host].frame = Output(n) /\ c \in sending[Host].to
    \/ \E g \in Goroutine :
         letIn[g] = c /\ (step[g] = "replaying" => n \in Range(rest[g]))

Present(c) == joined[c] # "no" /\ Listed(c) /\ link[c] = "up"

Kept == \A c \in Conn : Present(c) => \A n \in Range(backlog) : Settled(c, n)

LEMMA HeadAndTail ==
  ASSUME NEW s \in Seq(Chunk), s # <<>>
  PROVE  Range(s) \subseteq Range(Tail(s)) \cup {Head(s)}
<1>1. /\ DOMAIN s = 1 .. Len(s) /\ Len(s) \in Nat \ {0} /\ Head(s) = s[1]
      /\ DOMAIN Tail(s) = 1 .. (Len(s) - 1)
      /\ \A j \in 1 .. (Len(s) - 1) : Tail(s)[j] = s[j + 1]
  OBVIOUS
<1>2. SUFFICES ASSUME NEW i \in 1 .. Len(s), i # 1 PROVE s[i] \in Range(Tail(s))
  BY <1>1 DEF Range
<1>3. /\ i - 1 \in 1 .. (Len(s) - 1) /\ (i - 1) + 1 = i
      /\ Tail(s)[i - 1] = s[(i - 1) + 1]
  BY <1>1, <1>2
<1>4. QED BY <1>1, <1>3 DEF Range

\* What has been sent stays sent, and a chunk written to a viewer that is there
\* is among it.
LEMMA WriteKeeps ==
  ASSUME TypeOK, NEW c \in Conn, NEW f \in Frame, Write(c, f)
  PROVE  /\ \A d \in Conn : Range(got[d]) \subseteq Range(got'[d])
         /\ link[c] = "up" /\ f.type = "output" => f.chunk \in Range(got'[c])
<1>1. CASE link[c] = "up" /\ f.type = "output"
  <2>1. f.chunk \in Chunk /\ got[c] \in Seq(Chunk)
    BY <1>1 DEF Frame, Notice, TypeOK
  <2>2. got'[c] = Append(got[c], f.chunk)
    BY <1>1, WriteEffect
  <2>3. Range(got[c]) \subseteq Range(got'[c]) /\ f.chunk \in Range(got'[c])
    <3>1. /\ Len(got'[c]) = Len(got[c]) + 1 /\ Len(got[c]) \in Nat
          /\ \A i \in 1 .. Len(got[c]) : got'[c][i] = got[c][i]
          /\ got'[c][Len(got[c]) + 1] = f.chunk
      BY <2>1, <2>2
    <3>2. DOMAIN got[c] = 1 .. Len(got[c]) /\ DOMAIN got'[c] = 1 .. Len(got'[c])
      BY <2>1, <2>2
    <3>3. QED BY <3>1, <3>2 DEF Range
  <2>4. QED BY <2>3, WriteEffect
<1>2. CASE ~(link[c] = "up" /\ f.type = "output")
  BY <1>2, WriteEffect
<1>3. QED BY <1>1, <1>2

LEMMA BroadcastOutputKeeps == Orderly /\ Kept /\ BroadcastOutput => Kept'
<1> SUFFICES ASSUME Orderly, Kept, BroadcastOutput,
                    NEW c \in Conn, Present(c)', NEW n \in Range(backlog')
             PROVE  Settled(c, n)'
  BY DEF Kept
<1>1. /\ UNCHANGED <<roster, connVars, jobVars, pageVars>>
      /\ sending[Host].to = {}
      /\ printed + 1 \in Chunk
      /\ backlog' = Recent(Append(backlog, printed + 1))
      /\ sending'[Host] = [frame |-> Output(printed + 1), to |-> Targets]
  BY DEF BroadcastOutput, Broadcast, Idle, Orderly, TypeOK, Chunk
<1>2. Present(c)
  BY <1>1 DEF Present, Listed, connVars
<1>3. n \in Range(backlog) \cup {printed + 1}
  BY <1>1, RecentChunks DEF Orderly, TypeOK
<1>4. CASE n \in Range(backlog)
  BY <1>1, <1>2, <1>4 DEF Kept, Settled, jobVars, pageVars
<1>5. CASE n = printed + 1 /\ authenticated[c]
  BY <1>1, <1>2, <1>5 DEF Targets, Present, Settled
<1>6. CASE ~authenticated[c]
  <2>1. PICK g \in Goroutine : letIn[g] = c /\ step[g] = "accepted"
    BY <1>2, <1>6 DEF Orderly, LetInOrNot, Present
  <2>2. QED BY <1>1, <2>1 DEF Settled, jobVars
<1>7. QED BY <1>3, <1>4, <1>5, <1>6

\* A notice is broadcast, or none: the backlog is emptied or stays, and the
\* goroutine had nothing to write.
LEMMA NoticeKeeps ==
  ASSUME Orderly, Kept,
         \/ UNCHANGED sending
         \/ \E g \in Goroutine, to \in SUBSET Conn : Idle(g) /\ Broadcast(g, Notice, to),
         backlog' \in {backlog, <<>>},
         \A c \in Conn : link'[c] = "up" => link[c] = "up",
         \A c \in Conn : Listed(c)' => Listed(c),
         UNCHANGED <<got, joined, jobVars>>
  PROVE  Kept'
<1> SUFFICES ASSUME NEW c \in Conn, Present(c)', NEW n \in Range(backlog')
             PROVE  Settled(c, n)'
  BY DEF Kept
<1>1. Range(<<>>) = {}
  BY DEF Range
<1>2. n \in Range(backlog) /\ Present(c)
  BY <1>1 DEF Present
<1>3. sending'[Host] = sending[Host] \/ sending[Host].to = {}
  BY DEF Broadcast, Idle, Orderly, TypeOK
<1>4. Settled(c, n)
  BY <1>2 DEF Kept
<1>5. QED BY <1>3, <1>4 DEF Settled, jobVars

\* Whoever is let in, or let in again, has the replay before it.
LEMMA BeginKeeps ==
  ASSUME Orderly, Kept, NEW g \in Goroutine, NEW d \in Conn, NEW how,
         Idle(g), Begin(g, d, how), \A c \in Conn : c # d /\ Listed(c)' => Listed(c)
  PROVE  Kept'
<1> SUFFICES ASSUME NEW c \in Conn, Present(c)', NEW n \in Range(backlog')
             PROVE  Settled(c, n)'
  BY DEF Kept
<1>1. /\ \A h \in Goroutine : h # g => letIn'[h] = letIn[h] /\ step'[h] = step[h]
      /\ letIn'[g] = d /\ step'[g] = "accepted"
      /\ c # d => joined'[c] = joined[c] /\ got'[c] = got[c]
      /\ UNCHANGED <<backlog, link, rest, sending>>
  BY DEF Begin, Orderly, TypeOK, backlogVars
<1>2. CASE c = d
  BY <1>1, <1>2 DEF Settled
<1>3. CASE c # d
  <2>1. Settled(c, n)
    BY <1>1, <1>3 DEF Kept, Present
  <2>2. letIn[g] # c
    BY DEF Orderly, JobsInOrder, Idle
  <2>3. QED BY <1>1, <1>3, <2>1, <2>2 DEF Settled
<1>4. QED BY <1>2, <1>3

LEMMA JobKeeps ==
  ASSUME Orderly, Kept, NEW g \in Goroutine,
         Mark(g) \/ Answer(g) \/ Snapshot(g) \/ ReplayDone(g)
  PROVE  Kept'
<1> SUFFICES ASSUME NEW c \in Conn, Present(c)', NEW n \in Range(backlog')
             PROVE  Settled(c, n)'
  BY DEF Kept
<1>1. /\ UNCHANGED <<backlog, roster, link, joined, sending>>
      /\ \A h \in Goroutine : h # g => step'[h] = step[h] /\ rest'[h] = rest[h]
                                         /\ letIn'[h] = letIn[h]
  BY DEF Mark, Answer, Snapshot, ReplayDone, Orderly, TypeOK, sessionVars, backlogVars, connVars
<1>2. Settled(c, n)
  BY <1>1 DEF Kept, Present, Listed
<1>3. Range(got[c]) \subseteq Range(got'[c])
  <2>1. CASE Answer(g)
    <3>1. letIn[g] \in Conn
      BY <2>1 DEF Answer, Orderly, JobsInOrder, TypeOK
    <3>2. QED BY <2>1, <3>1, FramesTyped, WriteKeeps DEF Answer, Orderly
  <2>2. QED BY <2>1 DEF Mark, Snapshot, ReplayDone, pageVars
<1>4. CASE Mark(g) \/ Answer(g)
  <2>1. letIn' = letIn /\ rest' = rest /\ step'[g] # "replaying"
    BY <1>4 DEF Mark, Answer, Orderly, TypeOK
  <2>2. QED BY <1>1, <1>2, <1>3, <2>1 DEF Settled
<1>5. CASE Snapshot(g)
  <2>1. letIn' = letIn /\ rest'[g] = backlog
    BY <1>5 DEF Snapshot, Orderly, TypeOK
  <2>2. QED BY <1>1, <1>2, <1>3, <2>1 DEF Settled
<1>6. CASE ReplayDone(g)
  <2>1. n \notin Range(rest[g]) /\ step[g] = "replaying"
    BY <1>6 DEF ReplayDone, Range
  <2>2. QED BY <1>1, <1>2, <1>3, <2>1 DEF Settled
<1>7. QED BY <1>4, <1>5, <1>6

LEMMA ReplayNextKeeps ==
  ASSUME Orderly, Kept, NEW g \in Goroutine, ReplayNext(g)
  PROVE  Kept'
<1> SUFFICES ASSUME NEW c \in Conn, Present(c)', NEW n \in Range(backlog')
             PROVE  Settled(c, n)'
  BY DEF Kept
<1>1. /\ UNCHANGED <<backlog, roster, link, joined, sending, step, letIn>>
      /\ \A h \in Goroutine : h # g => rest'[h] = rest[h]
      /\ rest'[g] = Tail(rest[g]) /\ rest[g] # <<>> /\ rest[g] \in Seq(Chunk)
  BY DEF ReplayNext, Orderly, TypeOK, sessionVars, backlogVars, connVars
<1>2. Settled(c, n)
  BY <1>1 DEF Kept, Present, Listed
<1>3. letIn[g] \in Conn /\ Output(Head(rest[g])) \in Frame
  BY <1>1, FramesTyped DEF ReplayNext, Orderly, JobsInOrder, TypeOK
<1>4. Range(got[c]) \subseteq Range(got'[c])
  BY <1>3, WriteKeeps DEF ReplayNext, Orderly
<1>5. letIn[g] = c => Head(rest[g]) \in Range(got'[c])
  <2>1. link[c] = "up"
    BY <1>1 DEF Present
  <2>2. QED BY <1>3, <2>1, WriteKeeps DEF ReplayNext, Orderly, Output
<1>6. Range(rest[g]) \subseteq Range(Tail(rest[g])) \cup {Head(rest[g])}
  BY <1>1, HeadAndTail
<1>7. QED BY <1>1, <1>2, <1>4, <1>5, <1>6 DEF Settled

LEMMA SendKeeps ==
  ASSUME Orderly, Kept, NEW g \in Goroutine, NEW d \in Conn, SendNext(g, d)
  PROVE  Kept'
<1> SUFFICES ASSUME NEW c \in Conn, Present(c)', NEW n \in Range(backlog')
             PROVE  Settled(c, n)'
  BY DEF Kept
<1>1. /\ UNCHANGED <<backlog, roster, link, joined, step, letIn, rest>>
      /\ \A h \in Goroutine : h # g => sending'[h] = sending[h]
      /\ sending'[g] = IF sending[g].to = {d} THEN NothingToSend
                       ELSE [frame |-> sending[g].frame, to |-> sending[g].to \ {d}]
  BY DEF SendNext, Orderly, TypeOK, sessionVars, backlogVars, connVars, jobVars
<1>2. Settled(c, n)
  BY <1>1 DEF Kept, Present, Listed
<1>3. sending[g].frame \in Frame
  BY DEF SendNext, Orderly, TypeOK, NothingToSend
<1>4. Range(got[c]) \subseteq Range(got'[c])
  BY <1>3, WriteKeeps DEF SendNext, Orderly
<1>5. c = d /\ sending[g].frame = Output(n) => n \in Range(got'[c])
  <2>1. link[c] = "up"
    BY <1>1 DEF Present
  <2>2. QED BY <1>3, <2>1, WriteKeeps DEF SendNext, Orderly, Output
<1>6. c # d /\ c \in sending[g].to
         => sending'[g].frame = sending[g].frame /\ c \in sending'[g].to
  BY <1>1
<1>7. QED BY <1>1, <1>2, <1>4, <1>5, <1>6 DEF Settled

\* What the steps other than Work's leave of the roster, of sockets and of letting
\* in.  A notice is what they may have to write.
LEMMA Notices ==
  ASSUME Orderly,
         \/ \E g \in Goroutine : SetsGrid(g)
         \/ \E c \in Conn : Leave(c) \/ Attempt(c) \/ Refuse(c) \/ Drain(c) \/ Drop(c)
         \/ UNCHANGED vars
  PROVE  /\ backlog' \in {backlog, <<>>}
         /\ \A c \in Conn : link'[c] = "up" => link[c] = "up"
         /\ \A c \in Conn : Listed(c)' => Listed(c)
         /\ UNCHANGED <<printed, got, authenticated, joined, jobVars>>
         /\ \/ UNCHANGED sending
            \/ \E g \in Goroutine, to \in SUBSET Conn : Idle(g) /\ Broadcast(g, Notice, to)
<1>1. ASSUME NEW g \in Goroutine, SetsGrid(g)
      PROVE  /\ Idle(g) /\ Broadcast(g, Notice, Targets) /\ Targets \in SUBSET Conn
             /\ backlog' \in {backlog, <<>>} /\ roster' = roster /\ link' = link
             /\ UNCHANGED <<printed, got, authenticated, joined, jobVars>>
  BY <1>1 DEF SetsGrid, SetGrid, backlogVars, connVars, pageVars, Targets
<1>2. ASSUME NEW c \in Conn, Leave(c)
      PROVE  /\ Idle(c) /\ (UNCHANGED sending \/ Broadcast(c, Notice, Targets'))
             /\ Targets' \in SUBSET Conn
             /\ backlog' \in {backlog, <<>>}
             /\ \A d \in Conn : roster'[d] \in {roster[d], None}
             /\ \A d \in Conn : link'[d] \in {link[d], "gone"}
             /\ UNCHANGED <<printed, got, authenticated, joined, jobVars>>
  BY <1>2 DEF Leave, Unlist, backlogVars, pageVars, Targets, Orderly, TypeOK
<1>3. ASSUME NEW c \in Conn, Attempt(c) \/ Drain(c) \/ Drop(c) \/ UNCHANGED vars
      PROVE  /\ UNCHANGED <<backlog, roster, sending, printed, got, authenticated, joined,
                             jobVars>>
             /\ \A d \in Conn : link'[d] \in {link[d], "down"}
  BY <1>3 DEF Attempt, Drain, Drop, vars, sessionVars, backlogVars, connVars, jobVars,
              pageVars, Orderly, TypeOK
<1>4. ASSUME NEW c \in Conn, Refuse(c)
      PROVE  /\ Idle(Host) /\ Broadcast(Host, Notice, {c}) /\ {c} \in SUBSET Conn
             /\ backlog' = backlog /\ roster' = roster /\ link' = link
             /\ UNCHANGED <<printed, got, authenticated, joined, jobVars>>
  BY <1>4 DEF Refuse, Verdict, backlogVars, connVars, pageVars
<1>5. CASE UNCHANGED vars
  BY <1>5 DEF vars, sessionVars, backlogVars, connVars, jobVars, pageVars, Listed
<1>6. CASE \E g \in Goroutine : SetsGrid(g)
  BY <1>1, <1>6 DEF Listed
<1>7. CASE \E c \in Conn : Leave(c)
  BY <1>2, <1>7 DEF Listed
<1>8. CASE \E c \in Conn : Attempt(c) \/ Drain(c) \/ Drop(c)
  BY <1>3, <1>8 DEF Listed
<1>9. CASE \E c \in Conn : Refuse(c)
  BY <1>4, <1>9 DEF Listed
<1>10. QED BY <1>5, <1>6, <1>7, <1>8, <1>9

LEMMA NextKeeps == Orderly /\ Kept /\ [Next]_vars => Kept'
<1> SUFFICES ASSUME Orderly, Kept, [Next]_vars PROVE Kept'
  OBVIOUS
<1>1. CASE \/ \E g \in Goroutine : SetsGrid(g)
           \/ \E c \in Conn : Leave(c) \/ Attempt(c) \/ Refuse(c) \/ Drain(c) \/ Drop(c)
           \/ UNCHANGED vars
  BY <1>1, Notices, NoticeKeeps
<1>2. ASSUME NEW c \in Conn, Admit(c) PROVE Kept'
  BY <1>2, Begins, BeginKeeps
<1>3. ASSUME NEW c \in Conn, NEW i \in Conn, Resume(c, i) PROVE Kept'
  <2>1. c \in Goroutine
    OBVIOUS
  <2>2. QED BY <1>3, <2>1, Begins, BeginKeeps
<1>4. ASSUME NEW g \in Goroutine, Work(g) PROVE Kept'
  BY <1>4, JobKeeps, ReplayNextKeeps, SendKeeps DEF Work
<1>5. QED
  BY <1>1, <1>2, <1>3, <1>4, BroadcastOutputKeeps DEF Next

\* A viewer that has been let in, by a verdict or by resuming, has every chunk of
\* the backlog or is about to be sent it, however broadcasts, changes of the
\* grid and the steps of letting it in fall between one another.
THEOREM NoChunkIsMissed == Spec => []NothingIsMissed
<1>1. Init => Kept
  BY DEF Init, Kept, Range
<1>2. Kept => NothingIsMissed
  BY DEF Kept, Present, Settled, NothingIsMissed, Through
<1>3. QED BY <1>1, <1>2, NextKeeps, AlwaysOrderly, PTL DEF Spec

-----------------------------------------------------------------------------
(* What a viewer admitted by a verdict is sent is an OutputStream.          *)

Runs(chunks) == \A i \in DOMAIN chunks : chunks[i] = printed - Len(chunks) + i

\* Whoever has not been let in has been sent nothing.
NotYet == \A c \in Conn : joined[c] = "no" => got[c] = <<>>

\* Only the host's goroutine writes output to several, and always the chunk
\* printed last.
FramesInOrder ==
    \A g \in Goroutine :
        /\ sending[g].to # {} /\ sending[g].frame.type = "output"
              => g = Host /\ sending[g].frame.chunk = printed
        /\ sending[g].to # {} /\ sending[g].frame.type = "output"
              => \A c \in sending[g].to : authenticated[c]

\* What the host's goroutine has left to replay ends with the last chunk.
RestRuns ==
    step[Host] = "replaying" => Len(rest[Host]) <= MaxBacklog /\ Runs(rest[Host])

LastIs(c, n) == got[c] = <<>> \/ got[c][Len(got[c])] = n

Writing(c) == c \in sending[Host].to /\ sending[Host].frame.type = "output"

\* How far a viewer admitted by a verdict has got, while it is there: to the
\* chunk before the one it is sent next.  (Once another connection resumed its
\* identity, it is sent nothing but what is being written.)
InStep ==
    \A c \in Conn : link[c] = "up" /\ joined[c] = "verdict" =>
        /\ letIn[Host] = c =>
             IF step[Host] = "replaying" THEN LastIs(c, printed - Len(rest[Host]))
                                         ELSE got[c] = <<>>
        /\ letIn[Host] # c => /\ Writing(c) => LastIs(c, printed - 1)
                              /\ ~Writing(c) /\ Listed(c) => LastIs(c, printed)

InSequence == NotYet /\ Runs(backlog) /\ FramesInOrder /\ RestRuns /\ InStep

\* The variable shown of the abstract specification.
Shown == [c \in Conn |-> IF joined[c] = "resume" THEN <<>> ELSE got[c]]

\* One chunk more, the next one or the first and a recent one.
LEMMA OneMore ==
  ASSUME TypeOK, NEW c \in Conn, joined[c] = "verdict",
         NEW n \in 1 .. printed, n + MaxBacklog > printed, LastIs(c, n - 1),
         \A d \in Conn : d # c => got'[d] = got[d],
         got'[c] = Append(got[c], n), UNCHANGED <<printed, joined>>
  PROVE  Stream!Start(c) \/ Stream!Follow(c)
<1>1. Shown[c] = got[c] /\ got[c] \in Seq(Chunk)
  BY DEF Shown, TypeOK
<1>2. Shown' = [Shown EXCEPT ![c] = Append(got[c], n)]
  BY DEF Shown
<1>3. CASE got[c] = <<>>
  <2>1. Append(got[c], n) = <<n>>
    BY <1>3
  <2>2. Shown[c] = <<>> /\ Shown' = [Shown EXCEPT ![c] = <<n>>]
    BY <1>1, <1>2, <1>3, <2>1
  <2>3. QED BY <2>2 DEF Stream!Start, Shown
<1>4. CASE got[c] # <<>>
  <2>1. Shown[c][Len(Shown[c])] + 1 = n
    BY <1>1, <1>4 DEF LastIs, TypeOK
  <2>2. n <= printed /\ Shown[c] # <<>> /\ Shown' = [Shown EXCEPT ![c] = Append(@, n)]
    BY <1>1, <1>2, <1>4 DEF TypeOK
  <2>3. QED BY <2>1, <2>2 DEF Stream!Follow, Shown
<1>5. QED BY <1>3, <1>4

LEMMA TailOf ==
  ASSUME NEW S, NEW s \in Seq(S), s # <<>>
  PROVE  /\ Len(Tail(s)) = Len(s) - 1 /\ DOMAIN Tail(s) = 1 .. (Len(s) - 1)
         /\ \A i \in 1 .. (Len(s) - 1) : Tail(s)[i] = s[i + 1]
OBVIOUS

LEMMA RecentRuns ==
  ASSUME NEW s \in Seq(Chunk), Runs(s), printed \in Nat, printed' = printed + 1
  PROVE  LET t == Recent(Append(s, printed + 1)) IN
           \A i \in DOMAIN t : t[i] = printed' - Len(t) + i
<1> DEFINE t == Append(s, printed + 1)
<1>1. /\ Len(t) = Len(s) + 1 /\ Len(s) \in Nat /\ DOMAIN t = 1 .. Len(t)
      /\ \A i \in 1 .. Len(s) : t[i] = s[i]
      /\ t[Len(s) + 1] = printed + 1 /\ t \in Seq(Nat)
  BY DEF Chunk
<1>2. \A i \in 1 .. Len(t) : t[i] = printed' - Len(t) + i
  <2>1. \A i \in 1 .. Len(s) : s[i] = printed - Len(s) + i
    BY DEF Runs
  <2>2. QED BY <1>1, <2>1
<1>3. CASE Len(t) > MaxBacklog
  <2>1. t \in Seq(Nat) /\ t # <<>>
    BY <1>1, <1>3
  <2>2. /\ Len(Tail(t)) = Len(t) - 1 /\ DOMAIN Tail(t) = 1 .. (Len(t) - 1)
        /\ \A i \in 1 .. (Len(t) - 1) : Tail(t)[i] = t[i + 1]
    BY <2>1, TailOf
  <2>3. ASSUME NEW i \in 1 .. (Len(t) - 1)
        PROVE  Tail(t)[i] = printed' - Len(Tail(t)) + i
    <3>1. i + 1 \in 1 .. Len(t) /\ Tail(t)[i] = t[i + 1]
      BY <1>1, <2>2
    <3>2. t[i + 1] = printed' - Len(t) + (i + 1)
      BY <1>2, <3>1
    <3>3. /\ Len(Tail(t)) = Len(t) - 1 /\ Len(t) \in Nat /\ i \in Nat
          /\ printed' \in Nat
      BY <1>1, <2>2
    <3>4. printed' - Len(t) + (i + 1) = printed' - (Len(t) - 1) + i
      BY <3>3
    <3>5. QED BY <3>1, <3>2, <3>3, <3>4, Zenon
  <2>4. Recent(t) = Tail(t)
    BY <1>3 DEF Recent
  <2>5. QED BY <2>2, <2>3, <2>4
<1>4. CASE ~(Len(t) > MaxBacklog)
  BY <1>1, <1>2, <1>4 DEF Recent
<1>5. QED BY <1>3, <1>4

\* A new chunk finds everyone admitted up to date, and goes to them all.
LEMMA BroadcastOutputRuns ==
  ASSUME Orderly, InSequence, BroadcastOutput
  PROVE  InSequence' /\ Stream!Emit
<1>1. /\ UNCHANGED <<roster, connVars, jobVars, pageVars>>
      /\ printed' = printed + 1 /\ printed \in Nat
      /\ backlog' = Recent(Append(backlog, printed + 1))
      /\ step[Host] = "idle" /\ letIn[Host] = None /\ sending[Host].to = {}
      /\ sending'[Host] = [frame |-> Output(printed'), to |-> Targets]
      /\ \A g \in Goroutine : g # Host => sending'[g] = sending[g]
  BY DEF BroadcastOutput, Broadcast, Idle, Orderly, TypeOK, JobsInOrder, Chunk
<1>2. NotYet' /\ RestRuns'
  BY <1>1 DEF InSequence, NotYet, RestRuns, connVars, jobVars, pageVars
<1>3. Runs(backlog)'
  BY <1>1, RecentRuns DEF InSequence, Runs, Orderly, TypeOK
<1>4. FramesInOrder'
  BY <1>1 DEF InSequence, FramesInOrder, Targets, Output, connVars
<1>5. InStep'
  <2> SUFFICES ASSUME NEW c \in Conn, link[c] = "up", joined[c] = "verdict"
               PROVE  /\ c \in Targets => LastIs(c, printed' - 1)
                      /\ c \notin Targets => ~Listed(c)
    BY <1>1 DEF InStep, Writing, LastIs, Listed, Output, connVars, jobVars, pageVars
  <2>1. c \in Targets => LastIs(c, printed)
    BY <1>1 DEF InSequence, InStep, Writing, Targets
  <2>2. Listed(c) => c \in Targets
    BY <1>1 DEF Targets, Orderly, LetInOrNot, JobsInOrder
  <2>3. QED BY <1>1, <2>1, <2>2
<1>6. Stream!Emit
  BY <1>1 DEF Stream!Emit, connVars, pageVars
<1>7. QED BY <1>2, <1>3, <1>4, <1>5, <1>6 DEF InSequence

\* A step that begins no replay and writes nothing; it may broadcast a notice.
LEMMA NoticeRuns ==
  ASSUME Orderly, InSequence,
         backlog' \in {backlog, <<>>},
         \A c \in Conn : link'[c] = "up" => link[c] = "up",
         \A c \in Conn : Listed(c)' => Listed(c),
         UNCHANGED <<printed, got, authenticated, joined, jobVars>>,
         \/ UNCHANGED sending
         \/ \E g \in Goroutine, to \in SUBSET Conn : Idle(g) /\ Broadcast(g, Notice, to)
  PROVE  InSequence' /\ UNCHANGED <<printed, Shown>>
<1>1. NotYet' /\ RestRuns' /\ Runs(backlog)'
  BY DEF InSequence, NotYet, RestRuns, Runs, jobVars
<1>2. ASSUME NEW h \in Goroutine
      PROVE  \/ sending'[h] = sending[h]
             \/ sending[h].to = {} /\ sending'[h].frame = Notice
  BY DEF Broadcast, Idle, Orderly, TypeOK
<1>3. FramesInOrder'
  BY <1>2, FramesTyped DEF InSequence, FramesInOrder
<1>4. \A c \in Conn : Writing(c)' <=> Writing(c)
  BY <1>2, FramesTyped DEF Writing
<1>5. InStep'
  BY <1>4 DEF InSequence, InStep, LastIs, jobVars
<1>6. Shown' = Shown
  BY DEF Shown
<1>7. QED BY <1>1, <1>3, <1>5, <1>6 DEF InSequence

\* Whoever is let in next is shown its output from the beginning.
LEMMA BeginRuns ==
  ASSUME Orderly, InSequence, NEW g \in Goroutine, NEW d \in Conn,
         NEW how \in {"verdict", "resume"}, Idle(g), Begin(g, d, how),
         g # Host => how = "resume",
         \A c \in Conn : c # d /\ Listed(c)' => Listed(c)
  PROVE  InSequence' /\ [Stream!Next]_<<printed, Shown>>
<1>1. /\ UNCHANGED <<backlog, authenticated, link, rest, sending, printed>>
      /\ \A h \in Goroutine : h # g => step'[h] = step[h] /\ letIn'[h] = letIn[h]
      /\ step'[g] = "accepted" /\ letIn'[g] = d /\ letIn[g] = None
      /\ \A c \in Conn : c # d => joined'[c] = joined[c] /\ got'[c] = got[c]
      /\ joined'[d] = how /\ got'[d] = <<>>
  BY DEF Begin, Idle, Orderly, TypeOK, JobsInOrder, backlogVars
<1>2. NotYet' /\ RestRuns' /\ Runs(backlog)' /\ FramesInOrder'
  BY <1>1 DEF InSequence, NotYet, RestRuns, Runs, FramesInOrder
<1>3. InStep'
  <2>1. \A c \in Conn : Writing(c)' <=> Writing(c)
    BY <1>1 DEF Writing
  <2>2. ASSUME NEW c \in Conn, c # d, link[c] = "up", joined[c] = "verdict"
        PROVE  /\ letIn'[Host] = c =>
                    IF step'[Host] = "replaying"
                      THEN LastIs(c, printed - Len(rest[Host]))'
                      ELSE got'[c] = <<>>
               /\ letIn'[Host] # c => /\ Writing(c)' => LastIs(c, printed - 1)'
                                      /\ ~Writing(c)' /\ Listed(c)' => LastIs(c, printed)'
    BY <1>1, <2>1, <2>2 DEF InSequence, InStep, LastIs
  <2>3. ASSUME link[d] = "up", how = "verdict"
        PROVE  /\ letIn'[Host] = d /\ step'[Host] # "replaying" /\ got'[d] = <<>>
    BY <1>1, <2>3
  <2>4. QED BY <1>1, <2>2, <2>3 DEF InStep, LastIs
<1>4. Shown' = [Shown EXCEPT ![d] = <<>>]
  BY <1>1 DEF Shown
<1>5. Stream!LetInAgain(d)
  BY <1>1, <1>4 DEF Stream!LetInAgain, Shown
<1>6. QED BY <1>2, <1>3, <1>5, <1>1 DEF InSequence, Stream!Next

LEMMA JobRuns ==
  ASSUME Orderly, InSequence, NEW g \in Goroutine,
         Mark(g) \/ Answer(g) \/ Snapshot(g) \/ ReplayDone(g)
  PROVE  InSequence' /\ UNCHANGED <<printed, Shown>>
<1>1. /\ UNCHANGED <<backlog, roster, link, joined, sending, printed>>
      /\ \A h \in Goroutine : h # g => step'[h] = step[h] /\ rest'[h] = rest[h]
                                         /\ letIn'[h] = letIn[h]
  BY DEF Mark, Answer, Snapshot, ReplayDone, Orderly, TypeOK, sessionVars, backlogVars, connVars
<1>2. \A c \in Conn : got'[c] = got[c]
  <2>1. CASE Answer(g)
    <3>1. letIn[g] \in Conn
      BY <2>1 DEF Answer, Orderly, JobsInOrder, TypeOK
    <3>2. QED BY <2>1, <3>1, FramesTyped, WriteEffect DEF Answer, Orderly
  <2>2. QED BY <2>1 DEF Mark, Snapshot, ReplayDone, pageVars
<1>3. \A c \in Conn : authenticated[c] => authenticated'[c]
  BY DEF Mark, Answer, Snapshot, ReplayDone, Orderly, TypeOK, connVars
<1>4. NotYet' /\ Runs(backlog)' /\ FramesInOrder'
  <2>1. \A h \in Goroutine : sending[h].to \subseteq Conn
    BY SendingTyped DEF Orderly
  <2>2. FramesInOrder'
    BY <1>1, <1>3, <2>1 DEF InSequence, FramesInOrder
  <2>3. QED BY <1>1, <1>2, <2>2 DEF InSequence, NotYet, Runs
<1>5. Shown' = Shown
  BY <1>1, <1>2 DEF Shown
<1>6. \A c \in Conn : Writing(c)' <=> Writing(c)
  BY <1>1 DEF Writing
<1>7. CASE g # Host
  BY <1>1, <1>2, <1>4, <1>5, <1>6, <1>7 DEF InSequence, RestRuns, Runs, InStep, LastIs, Listed
<1>8. CASE g = Host /\ (Mark(g) \/ Answer(g))
  <2>1. letIn' = letIn /\ step[g] \in {"accepted", "marked"} /\ step'[g] # "replaying"
    BY <1>8 DEF Mark, Answer, Orderly, TypeOK
  <2>2. QED BY <1>1, <1>2, <1>4, <1>5, <1>6, <1>8, <2>1
        DEF InSequence, RestRuns, InStep, LastIs, Listed
<1>9. CASE g = Host /\ Snapshot(g)
  <2>1. letIn' = letIn /\ step[g] = "answered" /\ step'[g] = "replaying"
          /\ rest'[g] = backlog /\ Len(backlog) <= MaxBacklog
    BY <1>9 DEF Snapshot, Orderly, TypeOK
  <2>2. RestRuns'
    BY <1>1, <1>9, <2>1 DEF InSequence, RestRuns, Runs
  <2>3. InStep'
    BY <1>1, <1>2, <1>6, <1>9, <2>1 DEF InSequence, InStep, LastIs, Listed
  <2>4. QED BY <1>1, <1>4, <1>5, <2>2, <2>3 DEF InSequence
<1>10. CASE g = Host /\ ReplayDone(g)
  <2>1. /\ step[g] = "replaying" /\ rest[g] = <<>> /\ step'[g] = "idle"
        /\ letIn'[g] = None /\ sending[g].to = {}
    BY <1>10 DEF ReplayDone, Orderly, TypeOK, JobsInOrder
  <2>2. printed - Len(<<>>) = printed
    BY DEF Orderly, TypeOK
  <2>3. RestRuns'
    BY <1>10, <2>1 DEF RestRuns
  <2>4. InStep'
    BY <1>1, <1>2, <1>10, <2>1, <2>2 DEF InSequence, InStep, LastIs, Listed, Writing
  <2>5. QED BY <1>1, <1>4, <1>5, <2>3, <2>4 DEF InSequence
<1>11. QED BY <1>7, <1>8, <1>9, <1>10

\* What a viewer admitted gets by a write of the chunk it is due, and what the
\* others get, is a step of the stream; so is a write it is not there to get.
LEMMA DueOrLost ==
  ASSUME TypeOK, NEW c \in Conn, NEW n \in Chunk, Write(c, Output(n)),
         joined[c] # "no", joined' = joined, printed' = printed,
         joined[c] = "verdict" /\ link[c] = "up"
            => n <= printed /\ n + MaxBacklog > printed /\ LastIs(c, n - 1)
  PROVE  [Stream!Next]_<<printed, Shown>>
<1>1. Output(n) \in Frame /\ Output(n).type = "output" /\ Output(n).chunk = n
  BY FramesTyped DEF Output
<1>2. /\ \A d \in Conn : d # c => got'[d] = got[d]
      /\ got'[c] = IF link[c] = "up" THEN Append(got[c], n) ELSE got[c]
  BY <1>1, WriteEffect
<1>3. CASE joined[c] = "verdict" /\ link[c] = "up"
  <2>1. n \in 1 .. printed /\ n + MaxBacklog > printed /\ LastIs(c, n - 1)
    BY <1>3 DEF TypeOK, Chunk
  <2>2. Stream!Start(c) \/ Stream!Follow(c)
    BY <1>2, <1>3, <2>1, OneMore
  <2>3. QED BY <2>2 DEF Stream!Next
<1>4. CASE ~(joined[c] = "verdict" /\ link[c] = "up")
  <2>1. joined[c] = "resume" \/ got'[c] = got[c]
    BY <1>2, <1>4 DEF TypeOK
  <2>2. Shown' = Shown
    BY <1>2, <2>1 DEF Shown
  <2>3. QED BY <2>2
<1>5. QED BY <1>3, <1>4

LEMMA ReplayNextRuns ==
  ASSUME Orderly, InSequence, NEW g \in Goroutine, ReplayNext(g)
  PROVE  InSequence' /\ [Stream!Next]_<<printed, Shown>>
<1> DEFINE c == letIn[g]
           n == Head(rest[g])
<1>1. /\ UNCHANGED <<backlog, roster, authenticated, link, joined, sending, printed,
                     step, letIn>>
      /\ \A h \in Goroutine : h # g => rest'[h] = rest[h]
      /\ rest'[g] = Tail(rest[g]) /\ rest[g] # <<>> /\ rest[g] \in Seq(Chunk)
      /\ step[g] = "replaying" /\ printed \in Nat
  BY DEF ReplayNext, Orderly, TypeOK, sessionVars, backlogVars, connVars
<1>2. /\ c \in Conn /\ n \in Chunk /\ Write(c, Output(n))
      /\ joined[c] # "no" /\ (g # Host => joined[c] = "resume")
  BY <1>1 DEF ReplayNext, Orderly, JobsInOrder, TypeOK
<1>3. Output(n) \in Frame /\ Output(n).type = "output" /\ Output(n).chunk = n
  BY <1>2, FramesTyped DEF Output
<1>4. /\ \A d \in Conn : d # c => got'[d] = got[d]
      /\ got'[c] = IF link[c] = "up" THEN Append(got[c], n) ELSE got[c]
  BY <1>2, <1>3, WriteEffect DEF Orderly
<1> HIDE DEF c, n
<1>5. NotYet' /\ Runs(backlog)' /\ FramesInOrder'
  BY <1>1, <1>2, <1>4 DEF InSequence, NotYet, Runs, FramesInOrder
<1>6. \A d \in Conn : Writing(d)' <=> Writing(d)
  BY <1>1 DEF Writing
<1>7. CASE g # Host
  <2>1. RestRuns' /\ InStep'
    BY <1>1, <1>2, <1>4, <1>6, <1>7 DEF InSequence, RestRuns, Runs, InStep, LastIs, Listed
  <2>2. [Stream!Next]_<<printed, Shown>>
    BY <1>1, <1>2, <1>7, DueOrLost DEF Orderly
  <2>3. QED BY <1>5, <2>1, <2>2 DEF InSequence
<1>8. CASE g = Host
  <2>1. /\ Len(rest[g]) <= MaxBacklog
        /\ \A i \in DOMAIN rest[g] : rest[g][i] = printed - Len(rest[g]) + i
    BY <1>1, <1>8 DEF InSequence, RestRuns, Runs
  <2>2. /\ Len(rest'[g]) = Len(rest[g]) - 1 /\ DOMAIN rest'[g] = 1 .. (Len(rest[g]) - 1)
        /\ \A i \in 1 .. (Len(rest[g]) - 1) : rest'[g][i] = rest[g][i + 1]
    BY <1>1, TailOf
  <2>3. /\ Len(rest[g]) \in Nat \ {0} /\ DOMAIN rest[g] = 1 .. Len(rest[g])
        /\ n = rest[g][1]
    BY <1>1 DEF n
  <2>4. n = printed - Len(rest[g]) + 1
    BY <2>1, <2>3
  <2>5. RestRuns'
    <3>1. ASSUME NEW i \in 1 .. (Len(rest[g]) - 1)
          PROVE  rest'[g][i] = printed - Len(rest'[g]) + i
      <4>1. i + 1 \in DOMAIN rest[g] /\ rest'[g][i] = rest[g][i + 1]
        BY <2>2, <2>3
      <4>2. rest[g][i + 1] = printed - Len(rest[g]) + (i + 1)
        BY <2>1, <4>1
      <4>3. printed - Len(rest[g]) + (i + 1) = printed - (Len(rest[g]) - 1) + i
        BY <1>1, <2>3
      <4>4. QED BY <2>2, <4>1, <4>2, <4>3, Zenon
    <3>2. Len(rest'[g]) <= MaxBacklog
      BY <2>1, <2>2, <2>3
    <3>3. QED BY <1>1, <1>8, <2>2, <3>1, <3>2 DEF RestRuns, Runs
  <2>6. link[c] = "up" /\ joined[c] = "verdict" => LastIs(c, printed - Len(rest[g]))
    BY <1>1, <1>2, <1>8 DEF InSequence, InStep, c
  <2>7. link[c] = "up" => got'[c] # <<>> /\ got'[c][Len(got'[c])] = printed - Len(rest'[g])
    <3>1. SUFFICES ASSUME link[c] = "up"
                   PROVE  /\ Append(got[c], n) # <<>>
                          /\ Append(got[c], n)[Len(Append(got[c], n))] = printed - Len(rest'[g])
      BY <1>4
    <3>2. got[c] \in Seq(Chunk)
      BY <1>2 DEF Orderly, TypeOK
    <3>3. Append(got[c], n) # <<>> /\ Append(got[c], n)[Len(Append(got[c], n))] = n
      BY <3>2
    <3>4. n = printed - (Len(rest[g]) - 1)
      BY <1>1, <2>3, <2>4
    <3>5. QED BY <2>2, <3>3, <3>4
  <2>8. InStep'
    <3>1. ASSUME NEW d \in Conn, link[d] = "up", joined[d] = "verdict", letIn[Host] = d
          PROVE  LastIs(d, printed - Len(rest[Host]))'
      BY <1>1, <1>8, <2>7, <3>1 DEF LastIs, c
    <3>2. ASSUME NEW d \in Conn, link[d] = "up", joined[d] = "verdict", letIn[Host] # d
          PROVE  /\ Writing(d)' => LastIs(d, printed - 1)'
                 /\ ~Writing(d)' /\ Listed(d)' => LastIs(d, printed)'
      BY <1>1, <1>4, <1>6, <1>8, <3>2 DEF InSequence, InStep, LastIs, Listed, c
    <3>3. QED BY <1>1, <1>8, <3>1, <3>2 DEF InStep
  <2>9. [Stream!Next]_<<printed, Shown>>
    <3>1. n <= printed /\ n + MaxBacklog > printed /\ n - 1 = printed - Len(rest[g])
      BY <1>1, <2>1, <2>3, <2>4
    <3>2. QED BY <1>1, <1>2, <1>8, <2>6, <3>1, DueOrLost DEF Orderly
  <2>10. QED BY <1>5, <2>5, <2>8, <2>9 DEF InSequence
<1>9. QED BY <1>7, <1>8

LEMMA SendRuns ==
  ASSUME Orderly, InSequence, NEW g \in Goroutine, NEW c \in Conn, SendNext(g, c)
  PROVE  InSequence' /\ [Stream!Next]_<<printed, Shown>>
<1> DEFINE f == sending[g].frame
<1>1. /\ UNCHANGED <<backlog, roster, authenticated, link, joined, printed,
                     step, letIn, rest>>
      /\ \A h \in Goroutine : h # g => sending'[h] = sending[h]
      /\ sending'[g] = IF sending[g].to = {c} THEN NothingToSend
                       ELSE [frame |-> f, to |-> sending[g].to \ {c}]
      /\ c \in sending[g].to /\ Write(c, f) /\ printed \in Nat
  <2>1. sending' = [sending EXCEPT ![g] =
                      IF sending[g].to = {c} THEN NothingToSend
                      ELSE [frame |-> f, to |-> sending[g].to \ {c}]]
    BY DEF SendNext
  <2>2. DOMAIN sending = Goroutine /\ printed \in Nat
    BY DEF Orderly, TypeOK
  <2>3. QED BY <2>1, <2>2 DEF SendNext, sessionVars, backlogVars, connVars, jobVars
<1>2. f \in Frame
  BY DEF SendNext, Orderly, TypeOK, NothingToSend
<1>3. letIn[g] = None /\ (f.type = "output" => joined[c] # "no")
  BY <1>1 DEF InSequence, FramesInOrder, Orderly, LetInOrNot, JobsInOrder
<1>4. \A h \in Goroutine :
        sending'[h].to # {} => /\ sending'[h].frame = sending[h].frame
                               /\ sending'[h].to \subseteq sending[h].to
                               /\ sending[h].to # {}
  BY <1>1 DEF NothingToSend
<1>5. Runs(backlog)' /\ RestRuns'
  BY <1>1 DEF InSequence, Runs, RestRuns
<1>6. FramesInOrder'
  BY <1>1, <1>4 DEF InSequence, FramesInOrder
<1>7. /\ \A d \in Conn : d # c => got'[d] = got[d]
      /\ got'[c] = IF link[c] = "up" /\ f.type = "output"
                     THEN Append(got[c], f.chunk) ELSE got[c]
  BY <1>1, <1>2, WriteEffect DEF Orderly
<1> HIDE DEF f
<1>8. NotYet'
  BY <1>1, <1>3, <1>7 DEF InSequence, NotYet
<1>9. \A d \in Conn : d # c => (Writing(d)' <=> Writing(d))
  BY <1>1, <1>4 DEF Writing, f, NothingToSend
<1>10. CASE f.type # "output"
  <2>1. \A d \in Conn : got'[d] = got[d]
    BY <1>7, <1>10
  <2>2. \A d \in Conn : Writing(d)' <=> Writing(d)
    BY <1>1, <1>4, <1>9, <1>10 DEF Writing, f
  <2>3. InStep'
    BY <1>1, <2>1, <2>2 DEF InSequence, InStep, LastIs, Listed
  <2>4. Shown' = Shown
    BY <1>1, <2>1 DEF Shown
  <2>5. QED BY <1>1, <1>5, <1>6, <1>8, <2>3, <2>4 DEF InSequence
<1>11. CASE f.type = "output"
  <2>1. g = Host /\ f.chunk = printed /\ f.chunk \in Chunk
    BY <1>1, <1>2, <1>11 DEF InSequence, FramesInOrder, f, Frame, Notice
  <2>2. Writing(c) /\ ~Writing(c)'
    BY <1>1, <1>11, <2>1 DEF Writing, f, NothingToSend
  <2>3. link[c] = "up" /\ joined[c] = "verdict" => LastIs(c, printed - 1)
    BY <1>1, <1>3, <2>1, <2>2 DEF InSequence, InStep
  <2>4. link[c] = "up" => got'[c] # <<>> /\ got'[c][Len(got'[c])] = printed
    <3>1. got[c] \in Seq(Chunk)
      BY DEF Orderly, TypeOK
    <3>2. QED BY <1>7, <1>11, <2>1, <3>1
  <2>5. InStep'
    <3>1. ASSUME NEW d \in Conn, link[d] = "up", joined[d] = "verdict"
          PROVE  /\ Writing(d)' => LastIs(d, printed - 1)'
                 /\ ~Writing(d)' /\ Listed(d)' => LastIs(d, printed)'
      <4>1. CASE d = c
        BY <1>1, <2>2, <2>4, <3>1, <4>1 DEF LastIs
      <4>2. CASE d # c
        BY <1>1, <1>3, <1>7, <1>9, <2>1, <3>1, <4>2
        DEF InSequence, InStep, LastIs, Listed
      <4>3. QED BY <4>1, <4>2
    <3>2. QED BY <1>1, <1>3, <2>1, <3>1 DEF InStep
  <2>6. f = Output(printed)
    BY <1>2, <1>11, <2>1 DEF Frame, Notice, Output
  <2>7. printed + MaxBacklog > printed /\ printed <= printed
    BY <1>1
  <2>8. [Stream!Next]_<<printed, Shown>>
    BY <1>1, <1>3, <1>11, <2>1, <2>3, <2>6, <2>7, DueOrLost DEF Orderly
  <2>9. QED BY <1>5, <1>6, <1>8, <2>5, <2>8 DEF InSequence
<1>12. QED BY <1>10, <1>11

LEMMA NextRuns ==
  Orderly /\ InSequence /\ [Next]_vars => InSequence' /\ [Stream!Next]_<<printed, Shown>>
<1> SUFFICES ASSUME Orderly, InSequence, [Next]_vars
             PROVE  InSequence' /\ [Stream!Next]_<<printed, Shown>>
  OBVIOUS
<1>1. CASE BroadcastOutput
  BY <1>1, BroadcastOutputRuns DEF Stream!Next
<1>2. CASE \/ \E g \in Goroutine : SetsGrid(g)
           \/ \E c \in Conn : Leave(c) \/ Attempt(c) \/ Refuse(c) \/ Drain(c) \/ Drop(c)
           \/ UNCHANGED vars
  BY <1>2, Notices, NoticeRuns
<1>3. ASSUME NEW c \in Conn, Admit(c)
      PROVE  InSequence' /\ [Stream!Next]_<<printed, Shown>>
  BY <1>3, Begins, BeginRuns
<1>4. ASSUME NEW c \in Conn, NEW i \in Conn, Resume(c, i)
      PROVE  InSequence' /\ [Stream!Next]_<<printed, Shown>>
  <2>1. c \in Goroutine
    OBVIOUS
  <2>2. QED BY <1>4, <2>1, Begins, BeginRuns
<1>5. ASSUME NEW g \in Goroutine, Work(g)
      PROVE  InSequence' /\ [Stream!Next]_<<printed, Shown>>
  BY <1>5, JobRuns, ReplayNextRuns, SendRuns DEF Work
<1>6. QED BY <1>1, <1>2, <1>3, <1>4, <1>5 DEF Next

\* Whatever the goroutines of other connections do meanwhile, a viewer admitted by
\* a verdict is sent recent output from some chunk on, each chunk once, in order,
\* and none left out: replay and live output never mix.  A further verdict on it
\* makes it begin once more, with recent output.
THEOREM StreamIsImplemented == Spec => ImplementsStream
<1>1. Init => InSequence /\ Stream!Init
  <2> SUFFICES ASSUME Init PROVE InSequence /\ Stream!Init
    OBVIOUS
  <2>1. NotYet /\ RestRuns
    BY DEF Init, NotYet, RestRuns
  <2>2. Runs(backlog)
    BY DEF Init, Runs
  <2>3. FramesInOrder
    BY DEF Init, FramesInOrder, NothingToSend
  <2>4. InStep
    BY DEF Init, InStep, LastIs
  <2>5. Stream!Init
    BY DEF Init, Stream!Init
  <2>6. QED BY <2>1, <2>2, <2>3, <2>4, <2>5 DEF InSequence
<1>2. Orderly /\ InSequence /\ [Next]_vars => InSequence'
  BY NextRuns
<1>3. Orderly /\ InSequence /\ [Next]_vars
        => [Stream!Next]_<<printed, [c \in Conn |-> IF joined[c] = "resume"
                                                   THEN <<>> ELSE got[c]]>>
  BY NextRuns DEF Shown
<1>4. Spec => []InSequence
  BY <1>1, <1>2, AlwaysOrderly, PTL DEF Spec
<1>5. QED
  BY <1>1, <1>3, <1>4, AlwaysOrderly, PTL DEF Spec, ImplementsStream, Stream!Spec
=============================================================================
