--------------------------- MODULE SessionProofs ---------------------------
(***************************************************************************)
(* Theorems about Session, for every number of sockets, tokens and requests, *)
(* every pair of windows, and whatever the pages, the network and the clock  *)
(* do.                                                                      *)
(***************************************************************************)
EXTENDS Session, TLAPS

USE ConstantsAssumption DEF ConstantsAssumption

\* Every variable keeps its type.
THEOREM TypeCorrect == Spec => []TypeOK
<1>1. Init => TypeOK
  <2> SUFFICES ASSUME Init PROVE TypeOK
    OBVIOUS
  <2> USE DEF Init, TypeOK, NoRecord, NoAuth, Zero, TokenRecord,
              PendingAuth
  <2>1. /\ pendingAuth \in [Request -> PendingAuth]
        /\ tokens \in [Token -> TokenRecord]
    OBVIOUS
  <2>2. viewers \in [Conn -> Conn \cup {None}] /\ connID \in [Conn -> Conn]
    OBVIOUS
  <2>3. QED BY <2>1, <2>2
<1>2. TypeOK /\ [Next]_vars => TypeOK'
  <2> SUFFICES ASSUME TypeOK, [Next]_vars PROVE TypeOK'
    OBVIOUS
  <2> USE DEF TypeOK, TokenRecord, PendingAuth, NoRecord, NoAuth, Zero,
              sessionVars, connVars, hostVars, history
  <2>1. ASSUME NEW c \in Conn, Connect(c) PROVE TypeOK'
    BY <2>1 DEF Connect
  <2>3. ASSUME NEW c \in Conn, Drop(c) PROVE TypeOK'
    BY <2>3 DEF Drop
  <2>4. CASE Tick
    BY <2>4 DEF Tick
  <2>5. ASSUME NEW c \in Conn, AddViewer(c) PROVE TypeOK'
    BY <2>5 DEF AddViewer
  <2>6. ASSUME NEW c \in Conn, NEW r \in Request, HandleAuthAttempt(c, r)
        PROVE  TypeOK'
    BY <2>6 DEF HandleAuthAttempt
  <2>7. ASSUME NEW c \in Conn, NEW t \in Token, ResumeRefused(c, t) PROVE TypeOK'
    BY <2>7 DEF ResumeRefused
  <2>8. ASSUME NEW c \in Conn, NEW t \in Token, ResumeAccepted(c, t)
        PROVE  TypeOK'
    <3>1. tokens[t].connectionID \in Conn
      BY <2>8 DEF ResumeAccepted, Issued
    <3>2. Rekeyed(c, tokens[t].connectionID) \in [Conn -> Conn \cup {None}]
      BY <3>1 DEF Rekeyed
    <3>3. tokens' \in [Token -> TokenRecord]
      BY <2>8, <3>1 DEF ResumeAccepted
    <3>4. crowded' \in SUBSET Conn /\ abandoned' \in BOOLEAN
      BY <2>8, <3>1 DEF ResumeAccepted, Sharing
    <3>5. QED BY <2>8, <3>1, <3>2, <3>3, <3>4 DEF ResumeAccepted
  <2>9. ASSUME NEW c \in Conn, FinishResume(c) PROVE TypeOK'
    BY <2>9 DEF FinishResume
  <2>10. ASSUME NEW c \in Conn, TakeControl(c) PROVE TypeOK'
    BY <2>10 DEF TakeControl
  <2>11. ASSUME NEW c \in Conn, HandleViewerDisconnect(c) PROVE TypeOK'
    BY <2>11 DEF HandleViewerDisconnect, Countdown, WriterWithout
  <2>12. ASSUME NEW m \in {"remote", "group"}, Configure(m) PROVE TypeOK'
    BY <2>12 DEF Configure
  <2>13. ASSUME NEW r \in Request, VerdictRefused(r) PROVE TypeOK'
    BY <2>13 DEF VerdictRefused
  <2>14. ASSUME NEW r \in Request, NEW t \in Token, VerdictAccepted(r, t)
         PROVE  TypeOK'
    <3> DEFINE i == pendingAuth[r].viewerID
    <3>1. pendingAuth[r].conn \in Conn /\ i \in Conn
      BY <2>14 DEF VerdictAccepted, Pending
    <3>2. QED BY <2>14, <3>1 DEF VerdictAccepted
  <2>15. CASE FinishGrant
    BY <2>15 DEF FinishGrant
  <2>16. CASE HostTakeControl
    BY <2>16 DEF HostTakeControl
  <2>17. CASE KillSwitch
    BY <2>17 DEF KillSwitch, Roster, TokensAfterKill
  <2>18. CASE EndSession
    BY <2>18 DEF EndSession, Teardown, Roster
  <2>19. CASE HostDisconnect
    BY <2>19 DEF HostDisconnect, Teardown, Roster
  <2>20. ASSUME NEW c \in Conn, CloseNext(c) PROVE TypeOK'
    BY <2>20 DEF CloseNext
  <2>21. CASE ClosingDone
    BY <2>21 DEF ClosingDone
  <2>22. CASE UNCHANGED vars
    BY <2>22 DEF vars
  <2>23. QED
    BY <2>1, <2>3, <2>4, <2>5, <2>6, <2>7, <2>8, <2>9, <2>10, <2>11, <2>12,
       <2>13, <2>14, <2>15, <2>16, <2>17, <2>18, <2>19, <2>20, <2>21, <2>22
    DEF Next, ViewerNext, HostNext, PageNext
<1>3. QED BY <1>1, <1>2, PTL DEF Spec

-----------------------------------------------------------------------------
(* The steps that touch neither the roster nor a connection's identity or   *)
(* the state of its goroutine.                                              *)

LEMMA RosterFrame ==
    ASSUME \/ \E c \in Conn : Drop(c) \/ TakeControl(c) \/ CloseNext(c)
           \/ Tick
           \/ \E c \in Conn, t \in Token : ResumeRefused(c, t)
           \/ \E c \in Conn, r \in Request : HandleAuthAttempt(c, r)
           \/ \E m \in {"remote", "group"} : Configure(m)
           \/ \E r \in Request : VerdictRefused(r)
           \/ \E r \in Request, t \in Token : VerdictAccepted(r, t)
           \/ FinishGrant
           \/ HostTakeControl
           \/ ClosingDone
           \/ UNCHANGED vars
    PROVE  UNCHANGED <<viewers, pc, connID>>
BY DEF Drop, TakeControl, CloseNext, Tick, ResumeRefused, HandleAuthAttempt,
       Configure, VerdictRefused, VerdictAccepted, FinishGrant,
       HostTakeControl, ClosingDone, vars, sessionVars, connVars

\* The roster names only connections that are being served, each under the
\* identity it answers to.
THEOREM RosterCorrect == Spec => []RosterIsServed
<1>1. Init => RosterIsServed
  BY DEF Init, RosterIsServed
<1>2. TypeOK /\ RosterIsServed /\ [Next]_vars => RosterIsServed'
  <2> SUFFICES ASSUME TypeOK, RosterIsServed, [Next]_vars PROVE RosterIsServed'
    OBVIOUS
  <2> USE DEF RosterIsServed, Serving
  <2>1. CASE UNCHANGED <<viewers, pc, connID>>
    BY <2>1
  <2>2. ASSUME NEW c \in Conn, Connect(c) PROVE RosterIsServed'
    BY <2>2 DEF TypeOK, Connect, sessionVars
  <2>3. ASSUME NEW c \in Conn, AddViewer(c) PROVE RosterIsServed'
    BY <2>3 DEF TypeOK, AddViewer
  <2>4. ASSUME NEW c \in Conn, NEW t \in Token, ResumeAccepted(c, t)
        PROVE  RosterIsServed'
    <3> DEFINE i == tokens[t].connectionID
    <3>1. i \in Conn
      BY <2>4 DEF ResumeAccepted, Issued, TypeOK, TokenRecord
    <3>2. viewers' = [viewers EXCEPT ![connID[c]] = None, ![i] = c]
      BY <2>4 DEF ResumeAccepted, Rekeyed
    <3>3. connID' = [connID EXCEPT ![c] = i] /\ pc' = [pc EXCEPT ![c] = "resumed"]
      BY <2>4 DEF ResumeAccepted
    <3>4. ASSUME NEW j \in Conn, viewers'[j] # None, j # i
          PROVE  viewers[j] = viewers'[j] /\ viewers[j] # c
      BY <3>1, <3>2, <3>4 DEF TypeOK
    <3>5. QED BY <3>1, <3>2, <3>3, <3>4 DEF TypeOK
  <2>5. ASSUME NEW c \in Conn, FinishResume(c) PROVE RosterIsServed'
    BY <2>5 DEF TypeOK, FinishResume, sessionVars
  <2>6. ASSUME NEW c \in Conn, HandleViewerDisconnect(c) PROVE RosterIsServed'
    BY <2>6 DEF TypeOK, HandleViewerDisconnect
  <2>7. CASE KillSwitch
    BY <2>7 DEF KillSwitch
  <2>8. CASE EndSession \/ HostDisconnect
    BY <2>8 DEF EndSession, HostDisconnect, Teardown
  <2>9. QED
    BY <2>1, <2>2, <2>3, <2>4, <2>5, <2>6, <2>7, <2>8, RosterFrame
    DEF Next, ViewerNext, HostNext, PageNext
<1>3. QED BY <1>1, <1>2, TypeCorrect, PTL DEF Spec

-----------------------------------------------------------------------------
\* The steps that change nobody's standing and leave the writer alone.
LEMMA WriterFrame ==
    ASSUME \/ \E c \in Conn : Drop(c) \/ CloseNext(c)
           \/ \E c \in Conn, t \in Token : ResumeRefused(c, t)
           \/ \E c \in Conn, r \in Request : HandleAuthAttempt(c, r)
           \/ Tick
           \/ \E m \in {"remote", "group"} : Configure(m)
           \/ \E r \in Request : VerdictRefused(r)
           \/ \E r \in Request, t \in Token : VerdictAccepted(r, t)
           \/ KillSwitch
           \/ EndSession \/ HostDisconnect \/ ClosingDone
           \/ UNCHANGED vars
    PROVE  UNCHANGED <<activeWriterID, pc, connID, authenticated, abandoned>>
BY DEF Drop, CloseNext, ResumeRefused, HandleAuthAttempt, Tick, Configure,
       VerdictRefused, VerdictAccepted, KillSwitch, EndSession, HostDisconnect,
       Teardown, ClosingDone, vars, sessionVars, connVars, history

\* The active writer is the host or an identity that some authenticated viewer
\* connection still answers to, unless the last one that did has taken another
\* identity.
THEOREM WriterCorrect == Spec => []WriterIsServed
<1>1. Init => WriterIsServed
  BY DEF Init, WriterIsServed
<1>2. TypeOK /\ WriterIsServed /\ [Next]_vars => WriterIsServed'
  <2> SUFFICES ASSUME TypeOK, WriterIsServed, [Next]_vars PROVE WriterIsServed'
    OBVIOUS
  <2> USE DEF WriterIsServed, Serving
  <2>1. CASE UNCHANGED <<activeWriterID, pc, connID, authenticated, abandoned>>
    BY <2>1
  <2>2. ASSUME NEW c \in Conn, Connect(c) PROVE WriterIsServed'
    BY <2>2 DEF TypeOK, Connect, sessionVars, history
  <2>3. ASSUME NEW c \in Conn, AddViewer(c) PROVE WriterIsServed'
    BY <2>3 DEF TypeOK, AddViewer, history
  <2>4. ASSUME NEW c \in Conn, NEW t \in Token, ResumeAccepted(c, t)
        PROVE  WriterIsServed'
    <3> SUFFICES ASSUME activeWriterID # Host, ~abandoned'
                 PROVE  \E d \in Conn : /\ Serving(d)' /\ authenticated'[d]
                                        /\ connID'[d] = activeWriterID
      BY <2>4 DEF ResumeAccepted
    <3>1. /\ ~abandoned /\ authenticated' = authenticated
          /\ connID' = [connID EXCEPT ![c] = tokens[t].connectionID]
          /\ pc' = [pc EXCEPT ![c] = "resumed"]
      BY <2>4 DEF ResumeAccepted
    <3>2. PICK d \in Conn : /\ Serving(d) /\ authenticated[d]
                            /\ connID[d] = activeWriterID
      BY <3>1
    <3>3. CASE d # c
      BY <3>1, <3>2, <3>3 DEF TypeOK
    <3>4. CASE d = c /\ tokens[t].connectionID = connID[c]
      BY <3>1, <3>2, <3>4 DEF TypeOK
    <3>5. CASE d = c /\ tokens[t].connectionID # connID[c]
      <4>1. PICK e \in Sharing(c, connID[c]) : authenticated[e]
        BY <2>4, <3>2, <3>5 DEF ResumeAccepted
      <4>2. QED BY <3>1, <3>2, <3>5, <4>1 DEF TypeOK, Sharing
    <3>6. QED BY <3>3, <3>4, <3>5
  <2>5. ASSUME NEW c \in Conn, FinishResume(c) PROVE WriterIsServed'
    BY <2>5 DEF TypeOK, FinishResume, sessionVars, history
  <2>6. ASSUME NEW c \in Conn, TakeControl(c) PROVE WriterIsServed'
    BY <2>6 DEF TypeOK, TakeControl, connVars
  <2>7. ASSUME NEW c \in Conn, HandleViewerDisconnect(c) PROVE WriterIsServed'
    BY <2>7 DEF TypeOK, HandleViewerDisconnect, WriterWithout
  <2>8. CASE FinishGrant
    BY <2>8 DEF TypeOK, FinishGrant, sessionVars, history
  <2>9. CASE HostTakeControl
    BY <2>9 DEF HostTakeControl
  <2>10. QED
    BY <2>1, <2>2, <2>3, <2>4, <2>5, <2>6, <2>7, <2>8, <2>9, WriterFrame
    DEF Next, ViewerNext, HostNext, PageNext
<1>3. QED BY <1>1, <1>2, TypeCorrect, PTL DEF Spec

-----------------------------------------------------------------------------
(* Nobody is let in before session_config has been processed.              *)

NobodyIsInYet ==
    ~configured =>
        /\ hostPC # "granting"
        /\ \A c \in Conn : ~authenticated[c] /\ pc[c] # "resumed"
        /\ \A t \in Token : ~Issued(t)
        /\ activeWriterID = Host

\* In a group session the host is the only writer.
THEOREM GroupCorrect == Spec => [](NobodyIsInYet /\ GroupIsHostControlled)
<1> DEFINE I == NobodyIsInYet /\ GroupIsHostControlled
<1>1. Init => I
  BY DEF Init, NobodyIsInYet, GroupIsHostControlled, Issued, NoRecord
<1>2. TypeOK /\ I /\ [Next]_vars => NobodyIsInYet'
  <2> SUFFICES ASSUME TypeOK, NobodyIsInYet, ~configured', [Next]_vars
               PROVE  NobodyIsInYet'
    BY DEF NobodyIsInYet
  <2>1. ~configured /\ hostPC # "granting"
    <3>1. CASE UNCHANGED configured
      BY <3>1 DEF NobodyIsInYet
    <3>2. CASE \E m \in {"remote", "group"} : Configure(m)
      BY <3>2 DEF Configure
    <3>3. QED
      BY <3>1, <3>2
      DEF Next, ViewerNext, HostNext, PageNext, Connect, Drop, Tick,
          AddViewer, HandleAuthAttempt, ResumeRefused, ResumeAccepted,
          FinishResume, TakeControl, HandleViewerDisconnect, VerdictRefused,
          VerdictAccepted, FinishGrant, HostTakeControl, KillSwitch,
          EndSession, HostDisconnect, Teardown, CloseNext, ClosingDone,
          hostVars, vars
  <2> USE <2>1 DEF NobodyIsInYet, Issued, TypeOK
  <2>2. ASSUME NEW c \in Conn,
               \/ Connect(c) \/ Drop(c) \/ AddViewer(c)
               \/ (\E r \in Request : HandleAuthAttempt(c, r))
        PROVE  NobodyIsInYet'
    BY <2>2 DEF Connect, Drop, AddViewer, HandleAuthAttempt,
                sessionVars, connVars, hostVars
  <2>3. ASSUME NEW c \in Conn,
               \/ \E t \in Token : ResumeRefused(c, t) \/ ResumeAccepted(c, t)
               \/ FinishResume(c)
        PROVE  NobodyIsInYet'
    BY <2>3 DEF ResumeRefused, ResumeAccepted, FinishResume, connVars, hostVars,
                sessionVars, NoRecord
  <2>4. ASSUME NEW c \in Conn, TakeControl(c) \/ HandleViewerDisconnect(c)
        PROVE  NobodyIsInYet'
    BY <2>4 DEF TakeControl, HandleViewerDisconnect, Countdown, WriterWithout,
                connVars, hostVars
  <2>5. CASE HostDisconnect \/ (\E c \in Conn : CloseNext(c)) \/ ClosingDone
             \/ Tick \/ UNCHANGED vars
    BY <2>5 DEF HostDisconnect, Teardown, CloseNext, ClosingDone, Tick, vars,
                sessionVars, connVars, hostVars
  <2>6. QED
    BY <2>2, <2>3, <2>4, <2>5
    DEF Next, ViewerNext, HostNext, PageNext, Configure, VerdictRefused,
        VerdictAccepted, FinishGrant, HostTakeControl, KillSwitch, EndSession
<1>3. TypeOK /\ I /\ [Next]_vars => GroupIsHostControlled'
  <2> SUFFICES ASSUME TypeOK, I, [Next]_vars, mode' = "group"
               PROVE  activeWriterID' = Host
    BY DEF GroupIsHostControlled
  <2>1. CASE \E m \in {"remote", "group"} : Configure(m)
    BY <2>1 DEF Configure, NobodyIsInYet
  <2>2. CASE UNCHANGED <<mode, activeWriterID>>
    BY <2>2 DEF GroupIsHostControlled
  <2>3. CASE \E c \in Conn : TakeControl(c)
    BY <2>3 DEF TakeControl, MayTakeControl
  <2>4. CASE HostTakeControl
    BY <2>4 DEF HostTakeControl
  <2>5. CASE \E c \in Conn : HandleViewerDisconnect(c)
    BY <2>5 DEF HandleViewerDisconnect, WriterWithout, GroupIsHostControlled
  <2>6. QED
    BY <2>1, <2>2, <2>3, <2>4, <2>5
    DEF Next, ViewerNext, HostNext, PageNext, Connect, Drop, Tick,
        AddViewer, HandleAuthAttempt, ResumeRefused, ResumeAccepted,
        FinishResume, VerdictRefused, VerdictAccepted, FinishGrant, KillSwitch,
        EndSession, HostDisconnect, Teardown, CloseNext, ClosingDone,
        sessionVars, vars
<1>4. QED BY <1>1, <1>2, <1>3, TypeCorrect, PTL DEF Spec

-----------------------------------------------------------------------------
\* The steps that leave the resume tokens and the approvals alone.
LEMMA TokenFrame ==
    ASSUME \/ \E c \in Conn : \/ Connect(c) \/ Drop(c) \/ AddViewer(c)
                              \/ FinishResume(c)
                              \/ (\E r \in Request : HandleAuthAttempt(c, r))
                              \/ TakeControl(c) \/ CloseNext(c)
           \/ Tick
           \/ \E m \in {"remote", "group"} : Configure(m)
           \/ \E r \in Request : VerdictRefused(r)
           \/ FinishGrant \/ HostTakeControl
           \/ EndSession \/ HostDisconnect \/ ClosingDone
           \/ UNCHANGED vars
    PROVE  UNCHANGED <<tokens, approved>>
BY DEF Connect, Drop, AddViewer, FinishResume, HandleAuthAttempt,
       TakeControl, CloseNext, Tick, Configure, VerdictRefused, FinishGrant,
       HostTakeControl, EndSession, HostDisconnect, Teardown, ClosingDone,
       vars, sessionVars, history

\* A token that can be used stands for an identity the host has approved since
\* the last kill switch.
THEOREM TokensCorrect == Spec => []TokensAreApproved
<1>1. Init => TokensAreApproved
  BY DEF Init, TokensAreApproved, Issued, NoRecord
<1>2. TypeOK /\ TokensAreApproved /\ [Next]_vars => TokensAreApproved'
  <2> SUFFICES ASSUME TypeOK, TokensAreApproved, [Next]_vars
               PROVE  TokensAreApproved'
    OBVIOUS
  <2> USE DEF TokensAreApproved, Issued, TypeOK, TokenRecord
  <2>1. CASE UNCHANGED <<tokens, approved>>
    BY <2>1
  <2>2. ASSUME NEW c \in Conn, NEW t \in Token, ResumeRefused(c, t)
        PROVE  TokensAreApproved'
    BY <2>2 DEF ResumeRefused, NoRecord, history
  <2>3. ASSUME NEW c \in Conn, NEW u \in Token, ResumeAccepted(c, u)
        PROVE  TokensAreApproved'
    <3>1. \A t \in Token : tokens'[t].connectionID = tokens[t].connectionID
      BY <2>3 DEF ResumeAccepted
    <3>2. QED BY <2>3, <3>1 DEF ResumeAccepted
  <2>4. ASSUME NEW c \in Conn, HandleViewerDisconnect(c)
        PROVE  TokensAreApproved'
    <3>1. \A t \in Token : tokens'[t].connectionID = tokens[t].connectionID
      BY <2>4 DEF HandleViewerDisconnect, Countdown
    <3>2. QED BY <2>4, <3>1 DEF HandleViewerDisconnect
  <2>5. ASSUME NEW r \in Request, NEW t \in Token, VerdictAccepted(r, t)
        PROVE  TokensAreApproved'
    BY <2>5 DEF VerdictAccepted
  <2>6. CASE KillSwitch
    BY <2>6 DEF KillSwitch, TokensAfterKill, NoRecord
  <2>7. QED
    BY <2>1, <2>2, <2>3, <2>4, <2>5, <2>6, TokenFrame
    DEF Next, ViewerNext, HostNext, PageNext
<1>3. QED BY <1>1, <1>2, TypeCorrect, PTL DEF Spec

-----------------------------------------------------------------------------
(* Control.                                                                *)

\* A viewer becomes the writer only by a take_control of its own, while it is
\* in, and not within the lock window of the host's last reclaim.
THEOREM ControlTaken == Spec => ControlIsTaken
<1> DEFINE Step == activeWriterID' \in Conn /\ activeWriterID' # activeWriterID
                     => /\ now - lastHostReclaim >= HostLockWindow \/ lastHostReclaim = Zero
                        /\ \E c \in Conn : pc[c] = "reading" /\ authenticated[c]
                                           /\ connID[c] = activeWriterID'
<1>1. TypeOK /\ [Next]_vars => Step
  <2> SUFFICES ASSUME TypeOK, [Next]_vars,
                      activeWriterID' \in Conn, activeWriterID' # activeWriterID
               PROVE  /\ now - lastHostReclaim >= HostLockWindow \/ lastHostReclaim = Zero
                      /\ \E c \in Conn : pc[c] = "reading" /\ authenticated[c]
                                         /\ connID[c] = activeWriterID'
    OBVIOUS
  <2>1. ASSUME NEW c \in Conn, TakeControl(c)
        PROVE  /\ now - lastHostReclaim >= HostLockWindow \/ lastHostReclaim = Zero
               /\ \E d \in Conn : pc[d] = "reading" /\ authenticated[d]
                                  /\ connID[d] = activeWriterID'
    <3>1. now \in Nat /\ lastHostReclaim \in Nat
      BY DEF TypeOK
    <3>2. now - lastHostReclaim >= HostLockWindow \/ lastHostReclaim = Zero
      BY <2>1, <3>1 DEF TakeControl, MayTakeControl, LockedOut
    <3>3. pc[c] = "reading" /\ authenticated[c] /\ connID[c] = activeWriterID'
      BY <2>1 DEF TakeControl
    <3>4. QED BY <3>2, <3>3
  <2>2. CASE HostTakeControl \/ \E c \in Conn : HandleViewerDisconnect(c)
    BY <2>2 DEF HostTakeControl, HandleViewerDisconnect, WriterWithout
  <2>3. QED
    BY <2>1, <2>2
    DEF Next, ViewerNext, HostNext, PageNext, Connect, Drop, Tick,
        AddViewer, HandleAuthAttempt, ResumeRefused, ResumeAccepted,
        FinishResume, Configure, VerdictRefused, VerdictAccepted, FinishGrant,
        KillSwitch, EndSession, HostDisconnect, Teardown, CloseNext,
        ClosingDone, sessionVars, vars
<1>2. QED BY <1>1, TypeCorrect, PTL DEF Spec, ControlIsTaken

-----------------------------------------------------------------------------
(***************************************************************************)
(* Whom the kill switch and the end of a session reach.  The argument: two  *)
(* connections that answer to one identity are crowded from the step that   *)
(* makes them so, and no step of one connection removes or replaces the     *)
(* roster entry of another that answers to a different identity.            *)
(***************************************************************************)

HostInOrder ==
    /\ hostPC \notin {"closing", "leaving"} => closing = {}
    /\ hostPC = "granting" => granting \in Conn

\* The host's goroutine closes sockets, and completes a verdict, only between
\* the unlock and the next frame it reads.
THEOREM HostCorrect == Spec => []HostInOrder
<1>1. Init => HostInOrder
  BY DEF Init, HostInOrder
<1>2. TypeOK /\ HostInOrder /\ [Next]_vars => HostInOrder'
  <2> SUFFICES ASSUME TypeOK, HostInOrder, [Next]_vars PROVE HostInOrder'
    OBVIOUS
  <2> USE DEF HostInOrder, TypeOK
  <2>1. CASE \E r \in Request, t \in Token : VerdictAccepted(r, t)
    BY <2>1 DEF VerdictAccepted, Pending, PendingAuth, NoAuth
  <2>2. CASE FinishGrant
    BY <2>2 DEF FinishGrant
  <2>3. CASE KillSwitch
    BY <2>3 DEF KillSwitch
  <2>4. CASE EndSession \/ HostDisconnect
    BY <2>4 DEF EndSession, HostDisconnect, Teardown
  <2>5. CASE \E c \in Conn : CloseNext(c)
    BY <2>5 DEF CloseNext
  <2>6. CASE ClosingDone
    BY <2>6 DEF ClosingDone
  <2>7. CASE UNCHANGED <<hostPC, granting, closing>>
    BY <2>7
  <2>8. QED
    BY <2>1, <2>2, <2>3, <2>4, <2>5, <2>6, <2>7
    DEF Next, ViewerNext, HostNext, PageNext, Connect, Drop, Tick,
        AddViewer, HandleAuthAttempt, ResumeRefused, ResumeAccepted,
        FinishResume, TakeControl, HandleViewerDisconnect, Configure,
        VerdictRefused, HostTakeControl, hostVars, vars
<1>3. QED BY <1>1, <1>2, TypeCorrect, PTL DEF Spec

\* The goroutine of connection i has not registered it yet.
Unborn(i) == pc[i] \in {"idle", "accepted"}

IdentitiesAreBorn ==
    /\ \A t \in Token : Issued(t) => ~Unborn(tokens[t].connectionID)
    /\ \A r \in Request : Pending(r) => ~Unborn(pendingAuth[r].viewerID)
    /\ \A c \in Conn : connID[c] # c => ~Unborn(connID[c])
    /\ \A c \in Conn : Unborn(c) => connID[c] = c

\* No token, attempt or other connection has the identity of a connection that
\* has not been registered yet.
THEOREM BornCorrect == Spec => []IdentitiesAreBorn
<1>1. Init => IdentitiesAreBorn
  BY DEF Init, IdentitiesAreBorn, Issued, Pending, NoRecord, NoAuth
<1>2. TypeOK /\ IdentitiesAreBorn /\ [Next]_vars => IdentitiesAreBorn'
  <2> SUFFICES ASSUME TypeOK, IdentitiesAreBorn, [Next]_vars
               PROVE  IdentitiesAreBorn'
    OBVIOUS
  <2> USE DEF IdentitiesAreBorn, Unborn, Issued, Pending, TypeOK, TokenRecord,
              PendingAuth
  <2>1. CASE UNCHANGED <<pc, connID, tokens, pendingAuth>>
    BY <2>1
  <2>2. ASSUME NEW c \in Conn, Connect(c) \/ AddViewer(c) \/ FinishResume(c)
        PROVE  IdentitiesAreBorn'
    <3>1. /\ UNCHANGED <<connID, tokens, pendingAuth>>
          /\ \A i \in Conn : Unborn(i)' => Unborn(i)
      BY <2>2 DEF Connect, AddViewer, FinishResume, sessionVars
    <3>2. (\A t \in Token : Issued(t) => ~Unborn(tokens[t].connectionID))'
      BY <3>1 DEF NoRecord
    <3>3. (\A r \in Request : Pending(r) => ~Unborn(pendingAuth[r].viewerID))'
      BY <3>1 DEF NoAuth
    <3>4. (\A d \in Conn : connID[d] # d => ~Unborn(connID[d]))'
      BY <3>1
    <3>5. (\A d \in Conn : Unborn(d) => connID[d] = d)'
      BY <3>1
    <3>6. QED BY <3>2, <3>3, <3>4, <3>5
  <2>3. ASSUME NEW c \in Conn, NEW r \in Request, HandleAuthAttempt(c, r)
        PROVE  IdentitiesAreBorn'
    <3>1. ~Unborn(connID[c])
      BY <2>3 DEF HandleAuthAttempt
    <3>2. QED BY <2>3, <3>1 DEF HandleAuthAttempt, connVars
  <2>4. ASSUME NEW c \in Conn, NEW t \in Token, ResumeRefused(c, t)
        PROVE  IdentitiesAreBorn'
    BY <2>4 DEF ResumeRefused, connVars, NoRecord
  <2>5. ASSUME NEW c \in Conn, NEW u \in Token, ResumeAccepted(c, u)
        PROVE  IdentitiesAreBorn'
    <3>1. \A t \in Token : tokens'[t].connectionID = tokens[t].connectionID
      BY <2>5 DEF ResumeAccepted
    <3>2. \A i \in Conn : Unborn(i)' <=> Unborn(i)
      BY <2>5 DEF ResumeAccepted
    <3>3. QED BY <2>5, <3>1, <3>2 DEF ResumeAccepted
  <2>6. ASSUME NEW c \in Conn, HandleViewerDisconnect(c)
        PROVE  IdentitiesAreBorn'
    <3>1. \A t \in Token : tokens'[t].connectionID = tokens[t].connectionID
      BY <2>6 DEF HandleViewerDisconnect, Countdown
    <3>2. QED BY <2>6, <3>1 DEF HandleViewerDisconnect
  <2>7. ASSUME NEW r \in Request,
               VerdictRefused(r) \/ \E t \in Token : VerdictAccepted(r, t)
        PROVE  IdentitiesAreBorn'
    BY <2>7 DEF VerdictRefused, VerdictAccepted, NoAuth, connVars
  <2>8. CASE KillSwitch
    BY <2>8 DEF KillSwitch, TokensAfterKill, NoRecord, NoAuth, connVars
  <2>9. QED
    BY <2>1, <2>2, <2>3, <2>4, <2>5, <2>6, <2>7, <2>8
    DEF Next, ViewerNext, HostNext, PageNext, Drop, Tick, TakeControl,
        Configure, FinishGrant, HostTakeControl, EndSession, HostDisconnect,
        Teardown, CloseNext, ClosingDone, sessionVars, connVars, vars
<1>3. QED BY <1>1, <1>2, TypeCorrect, PTL DEF Spec

TogetherIsCrowded ==
    \A c, d \in Conn :
        c # d /\ Serving(c) /\ Serving(d) /\ connID[c] = connID[d] => c \in crowded

\* Two connections that are served under one identity are both crowded.
THEOREM TogetherCorrect == Spec => []TogetherIsCrowded
<1>1. Init => TogetherIsCrowded
  BY DEF Init, TogetherIsCrowded, Serving
<1>2. TypeOK /\ IdentitiesAreBorn /\ TogetherIsCrowded /\ [Next]_vars
      => TogetherIsCrowded'
  <2> SUFFICES ASSUME TypeOK, IdentitiesAreBorn, TogetherIsCrowded, [Next]_vars
               PROVE  TogetherIsCrowded'
    OBVIOUS
  <2> USE DEF TogetherIsCrowded, Serving, TypeOK
  <2>1. CASE UNCHANGED <<pc, connID, crowded>>
    BY <2>1
  <2>2. ASSUME NEW c \in Conn, Connect(c) \/ FinishResume(c)
        PROVE  TogetherIsCrowded'
    BY <2>2 DEF Connect, FinishResume, history
  <2>3. ASSUME NEW c \in Conn, AddViewer(c) PROVE TogetherIsCrowded'
    <3>1. \A d \in Conn : Serving(d) => connID[d] # connID[c]
      BY <2>3 DEF AddViewer, IdentitiesAreBorn, Unborn
    <3>2. QED BY <2>3, <3>1 DEF AddViewer, history
  <2>4. ASSUME NEW c \in Conn, NEW t \in Token, ResumeAccepted(c, t)
        PROVE  TogetherIsCrowded'
    <3> DEFINE i == tokens[t].connectionID
    <3>1. /\ connID' = [connID EXCEPT ![c] = i]
          /\ pc[c] = "reading" /\ pc' = [pc EXCEPT ![c] = "resumed"]
          /\ crowded' = IF Sharing(c, i) = {} THEN crowded
                        ELSE crowded \cup Sharing(c, i) \cup {c}
      BY <2>4 DEF ResumeAccepted
    <3>2. ASSUME NEW d \in Conn \ {c}, Serving(d), connID[d] = i
          PROVE  c \in crowded' /\ d \in crowded'
      BY <3>1, <3>2 DEF Sharing
    <3>3. QED BY <3>1, <3>2
  <2>5. ASSUME NEW c \in Conn, HandleViewerDisconnect(c)
        PROVE  TogetherIsCrowded'
    BY <2>5 DEF HandleViewerDisconnect
  <2>6. QED
    BY <2>1, <2>2, <2>3, <2>4, <2>5
    DEF Next, ViewerNext, HostNext, PageNext, Drop, Tick, HandleAuthAttempt,
        ResumeRefused, TakeControl, Configure, VerdictRefused, VerdictAccepted,
        FinishGrant, HostTakeControl, KillSwitch, EndSession, HostDisconnect,
        Teardown, CloseNext, ClosingDone, connVars, history, vars
<1>3. QED BY <1>1, <1>2, TypeCorrect, BornCorrect, PTL DEF Spec

EveryoneServedIsListed ==
    \A c \in Conn \ crowded : Serving(c) /\ link[c] = "up" =>
        viewers[connID[c]] = c \/ c \in closing

\* Every connection that is served and up, and has not been crowded, is in the
\* roster or about to be closed, whether it has been let in or not.
THEOREM ListedCorrect == Spec => []EveryoneServedIsListed
<1>1. Init => EveryoneServedIsListed
  BY DEF Init, EveryoneServedIsListed, Serving
<1>2. /\ TypeOK /\ HostInOrder /\ IdentitiesAreBorn /\ TogetherIsCrowded
      /\ EveryoneServedIsListed
      /\ [Next]_vars
      => EveryoneServedIsListed'
  <2> SUFFICES ASSUME TypeOK, HostInOrder, IdentitiesAreBorn, TogetherIsCrowded,
                      EveryoneServedIsListed, [Next]_vars
               PROVE  EveryoneServedIsListed'
    OBVIOUS
  <2> USE DEF EveryoneServedIsListed, Serving, TypeOK
  <2>1. CASE UNCHANGED <<pc, connID, viewers, link, closing, crowded>>
    BY <2>1
  <2>2. ASSUME NEW c \in Conn, Connect(c) \/ Drop(c) \/ FinishResume(c)
        PROVE  EveryoneServedIsListed'
    BY <2>2 DEF Connect, Drop, FinishResume, sessionVars, connVars, hostVars,
                history
  <2>3. ASSUME NEW c \in Conn, AddViewer(c) PROVE EveryoneServedIsListed'
    <3>1. \A d \in Conn : Serving(d) => connID[d] # connID[c]
      BY <2>3 DEF AddViewer, IdentitiesAreBorn, Unborn
    <3>2. QED BY <2>3, <3>1 DEF AddViewer, hostVars, history
  <2>4. ASSUME NEW c \in Conn, NEW t \in Token, ResumeAccepted(c, t)
        PROVE  EveryoneServedIsListed'
    <3> DEFINE i == tokens[t].connectionID
    <3>1. i \in Conn
      BY <2>4 DEF ResumeAccepted, Issued, TokenRecord
    <3>2. /\ viewers' = [viewers EXCEPT ![connID[c]] = None, ![i] = c]
          /\ connID' = [connID EXCEPT ![c] = i]
          /\ pc[c] = "reading" /\ pc' = [pc EXCEPT ![c] = "resumed"]
          /\ UNCHANGED <<link, closing>>
          /\ crowded' = IF Sharing(c, i) = {} THEN crowded
                        ELSE crowded \cup Sharing(c, i) \cup {c}
      BY <2>4 DEF ResumeAccepted, Rekeyed, hostVars
    <3>3. viewers'[connID'[c]] = c
      BY <3>1, <3>2
    <3>4. ASSUME NEW e \in Conn \ crowded', e # c, Serving(e)
          PROVE  e \notin crowded /\ connID[e] \notin {i, connID[c]}
      BY <3>2, <3>4 DEF Sharing, TogetherIsCrowded
    <3>5. ASSUME NEW e \in Conn \ crowded', e # c, Serving(e)
          PROVE  connID'[e] = connID[e] /\ viewers'[connID[e]] = viewers[connID[e]]
      BY <3>1, <3>2, <3>4, <3>5
    <3>6. QED BY <3>2, <3>3, <3>4, <3>5
  <2>5. ASSUME NEW c \in Conn, HandleViewerDisconnect(c)
        PROVE  EveryoneServedIsListed'
    <3>1. \A e \in Conn \ crowded : Serving(e) /\ connID[e] = connID[c] => e = c
      BY <2>5 DEF HandleViewerDisconnect, TogetherIsCrowded
    <3>2. QED BY <2>5, <3>1 DEF HandleViewerDisconnect, hostVars
  <2>6. CASE KillSwitch \/ EndSession \/ HostDisconnect
    <3>1. /\ UNCHANGED <<pc, connID, link, crowded>>
          /\ closing' = Roster
          /\ hostPC = "serving"
      BY <2>6 DEF KillSwitch, EndSession, HostDisconnect, Teardown, connVars,
                  history
    <3>2. QED BY <3>1 DEF Roster, HostInOrder
  <2>7. ASSUME NEW c \in Conn, CloseNext(c) PROVE EveryoneServedIsListed'
    BY <2>7 DEF CloseNext, sessionVars, connVars, history
  <2>8. QED
    BY <2>1, <2>2, <2>3, <2>4, <2>5, <2>6, <2>7
    DEF Next, ViewerNext, HostNext, PageNext, Tick, HandleAuthAttempt,
        ResumeRefused, TakeControl, Configure, VerdictRefused,
        VerdictAccepted, FinishGrant, HostTakeControl, ClosingDone,
        sessionVars, connVars, hostVars, history, vars
<1>3. QED
  BY <1>1, <1>2, TypeCorrect, HostCorrect, BornCorrect, TogetherCorrect,
     PTL DEF Spec

\* Every viewer who is let in and still connected is in the roster, or is about
\* to be closed, unless its connection once had its identity together with
\* another one.
THEOREM ParticipantsListed == Spec => []EveryParticipantIsListed
<1>1. EveryoneServedIsListed => EveryParticipantIsListed
  BY DEF EveryoneServedIsListed, EveryParticipantIsListed, Participant
<1>2. QED BY <1>1, ListedCorrect, PTL

\* Once the session has ended, a viewer still connected is about to be closed,
\* with the same exception.
THEOREM SessionEndReaches == Spec => []NobodyOutlivesTheSession
<1> DEFINE I == closed => \A c \in Conn \ crowded :
                            Serving(c) /\ link[c] = "up" => c \in closing
<1>1. Init => I
  BY DEF Init
<1>2. TypeOK /\ HostInOrder /\ EveryoneServedIsListed /\ I /\ [Next]_vars => I'
  <2> SUFFICES ASSUME TypeOK, HostInOrder, EveryoneServedIsListed, I, [Next]_vars
               PROVE  I'
    OBVIOUS
  <2> USE DEF Serving, TypeOK
  <2>1. CASE UNCHANGED <<closed, pc, link, closing, crowded>>
    BY <2>1
  <2>2. ASSUME NEW c \in Conn, Connect(c) PROVE I'
    <3>1. /\ UNCHANGED <<closed, closing, crowded>>
          /\ \A e \in Conn : Serving(e)' => Serving(e) /\ link'[e] = link[e]
      BY <2>2 DEF Connect, sessionVars, hostVars, history
    <3>2. QED BY <3>1
  <2>3. ASSUME NEW c \in Conn, AddViewer(c) PROVE I'
    BY <2>3 DEF AddViewer, hostVars, history
  <2>4. ASSUME NEW c \in Conn,
               \/ \E t \in Token : ResumeAccepted(c, t)
               \/ FinishResume(c) \/ HandleViewerDisconnect(c)
        PROVE  I'
    <3>1. /\ UNCHANGED <<closed, link, closing>>
          /\ \A e \in Conn : Serving(e)' => Serving(e)
          /\ \A e \in Conn : Serving(e)' /\ e \in crowded => e \in crowded'
      BY <2>4 DEF ResumeAccepted, FinishResume, HandleViewerDisconnect,
                  sessionVars, hostVars, history
    <3>2. QED BY <3>1
  <2>5. CASE KillSwitch \/ EndSession \/ HostDisconnect
    <3>1. /\ UNCHANGED <<pc, connID, link, crowded>>
          /\ closing' = Roster
          /\ hostPC = "serving"
      BY <2>5 DEF KillSwitch, EndSession, HostDisconnect, Teardown, connVars,
                  history
    <3>2. QED BY <3>1 DEF Roster, HostInOrder, EveryoneServedIsListed
  <2>6. ASSUME NEW c \in Conn, Drop(c) \/ CloseNext(c) PROVE I'
    <3>1. /\ UNCHANGED <<closed, pc, crowded>>
          /\ \A e \in Conn : link'[e] = "up" => link[e] = "up" /\ (e \in closing => e \in closing')
      BY <2>6 DEF Drop, CloseNext, sessionVars, connVars, hostVars, history
    <3>2. QED BY <3>1
  <2>7. QED
    BY <2>1, <2>2, <2>3, <2>4, <2>5, <2>6
    DEF Next, ViewerNext, HostNext, PageNext, Tick, HandleAuthAttempt,
        ResumeRefused, TakeControl, Configure, VerdictRefused,
        VerdictAccepted, FinishGrant, HostTakeControl, ClosingDone,
        sessionVars, connVars, hostVars, history, vars
<1>3. I => NobodyOutlivesTheSession
  BY DEF NobodyOutlivesTheSession, Participant
<1>4. QED
  BY <1>1, <1>2, <1>3, TypeCorrect, HostCorrect, ListedCorrect, PTL DEF Spec

\* The kill switch reaches every viewer who is let in and connected, unless its
\* connection once had its identity together with another one.
THEOREM KillReaches == Spec => KillReachesTheUncrowded
<1> DEFINE Step == hostPC = "serving" /\ hostPC' = "closing" /\ closed' = closed
                     => \A c \in Conn \ crowded : Participant(c) => c \in closing'
<1>1. TypeOK /\ HostInOrder /\ EveryoneServedIsListed /\ [Next]_vars => Step
  <2> SUFFICES ASSUME TypeOK, HostInOrder, EveryoneServedIsListed, [Next]_vars,
                      hostPC = "serving", hostPC' = "closing", closed' = closed,
                      NEW c \in Conn \ crowded, Participant(c)
               PROVE  c \in closing'
    OBVIOUS
  <2>1. KillSwitch
    BY DEF Next, ViewerNext, HostNext, PageNext, Connect, Drop, Tick,
           AddViewer, HandleAuthAttempt, ResumeRefused, ResumeAccepted,
           FinishResume, TakeControl, HandleViewerDisconnect, Configure,
           VerdictRefused, VerdictAccepted, FinishGrant, HostTakeControl,
           EndSession, HostDisconnect, Teardown, CloseNext, ClosingDone,
           hostVars, vars
  <2>2. viewers[connID[c]] = c /\ connID[c] \in Conn
    BY DEF EveryoneServedIsListed, HostInOrder, Participant, TypeOK
  <2>3. QED BY <2>1, <2>2 DEF KillSwitch, Roster
<1>2. QED
  BY <1>1, TypeCorrect, HostCorrect, ListedCorrect, PTL
  DEF Spec, KillReachesTheUncrowded

-----------------------------------------------------------------------------
(* Coming back.                                                            *)

\* A viewer who resumes on a new connection does not regain control, unless
\* another connection answers to its identity or the last one that did has
\* taken another identity.
THEOREM ResumeLeavesControl == Spec => ResumeDoesNotRegainControl
<1> DEFINE Step == \A c \in Conn \ crowded :
                     pc[c] = "resumed" /\ pc'[c] = "reading" /\ ~authenticated[c]
                       => activeWriterID' # connID'[c] \/ abandoned
<1>1. TypeOK /\ WriterIsServed /\ TogetherIsCrowded /\ [Next]_vars => Step
  <2> SUFFICES ASSUME TypeOK, WriterIsServed, TogetherIsCrowded, [Next]_vars,
                      NEW c \in Conn \ crowded, pc[c] = "resumed",
                      pc'[c] = "reading", ~authenticated[c], ~abandoned
               PROVE  activeWriterID' # connID'[c]
    OBVIOUS
  <2>1. FinishResume(c)
    <3>1. ~UNCHANGED pc
      OBVIOUS
    <3>2. PICK v \in Conn :
            \/ Connect(v) \/ AddViewer(v) \/ FinishResume(v)
            \/ (\E t \in Token : ResumeAccepted(v, t))
            \/ HandleViewerDisconnect(v)
      BY <3>1
      DEF Next, ViewerNext, HostNext, PageNext, Drop, Tick, HandleAuthAttempt,
          ResumeRefused, TakeControl, Configure, VerdictRefused,
          VerdictAccepted, FinishGrant, HostTakeControl, KillSwitch,
          EndSession, HostDisconnect, Teardown, CloseNext, ClosingDone,
          connVars, vars
    <3>3. v = c
      BY <3>2 DEF AddViewer, ResumeAccepted, FinishResume, Connect,
                  HandleViewerDisconnect, TypeOK
    <3>4. QED
      BY <3>2, <3>3 DEF AddViewer, ResumeAccepted, Connect,
                        HandleViewerDisconnect
  <2>2. activeWriterID' = activeWriterID /\ connID' = connID
    BY <2>1 DEF FinishResume, sessionVars
  <2>3. connID[c] \in Conn /\ connID[c] # Host
    BY DEF TypeOK
  <2>4. ASSUME activeWriterID = connID[c] PROVE FALSE
    <3>1. PICK d \in Conn : Serving(d) /\ authenticated[d] /\ connID[d] = connID[c]
      BY <2>3, <2>4 DEF WriterIsServed
    <3>2. QED BY <3>1 DEF TogetherIsCrowded, Serving
  <2>5. QED BY <2>2, <2>4
<1>2. QED
  BY <1>1, TypeCorrect, WriterCorrect, TogetherCorrect, PTL
  DEF Spec, ResumeDoesNotRegainControl

-----------------------------------------------------------------------------
(* The Remote slot.                                                        *)

\* A slot with a deadline passes to another identity when the tokens of its own
\* run out, and no group session has one.
SlotInOrder ==
    /\ remoteViewerID # None => mode = "remote" /\ configured
    /\ remoteViewerID # None /\ remoteSlotExpiry # Zero =>
         \A t \in Token : tokens[t].connectionID = remoteViewerID
                            => tokens[t].expiresAt = remoteSlotExpiry

\* A slot that counts down has the deadline of every token of its identity,
\* whoever resumed or left meanwhile.
THEOREM SlotCorrect == Spec => []SlotInOrder
<1>1. Init => SlotInOrder
  BY DEF Init, SlotInOrder
<1>2. TypeOK /\ SlotInOrder /\ NobodyIsInYet /\ [Next]_vars => SlotInOrder'
  <2> SUFFICES ASSUME TypeOK, SlotInOrder, NobodyIsInYet, [Next]_vars
               PROVE  SlotInOrder'
    OBVIOUS
  <2> USE DEF SlotInOrder, TypeOK, TokenRecord
  <2>1. CASE UNCHANGED <<mode, configured, remoteViewerID, remoteSlotExpiry, tokens>>
    BY <2>1
  <2>2. ASSUME NEW c \in Conn, NEW u \in Token, ResumeRefused(c, u)
        PROVE  SlotInOrder'
    BY <2>2 DEF ResumeRefused, NoRecord, hostVars
  <2>3. ASSUME NEW c \in Conn, NEW u \in Token, ResumeAccepted(c, u)
        PROVE  SlotInOrder'
    <3>1. configured
      BY <2>3 DEF ResumeAccepted, NobodyIsInYet
    <3>2. CASE mode = "remote"
      BY <2>3, <3>1, <3>2 DEF ResumeAccepted, hostVars
    <3>3. CASE mode # "remote"
      BY <2>3, <3>3 DEF ResumeAccepted, hostVars
    <3>4. QED BY <3>2, <3>3
  <2>4. ASSUME NEW c \in Conn, HandleViewerDisconnect(c) PROVE SlotInOrder'
    <3>1. UNCHANGED <<mode, configured, remoteViewerID>>
      BY <2>4 DEF HandleViewerDisconnect, hostVars
    <3>2. CASE authenticated[c] /\ mode = "remote" /\ remoteViewerID = connID[c]
      BY <2>4, <3>1, <3>2 DEF HandleViewerDisconnect, Countdown
    <3>3. CASE ~authenticated[c]
      BY <2>4, <3>1, <3>3 DEF HandleViewerDisconnect
    <3>4. CASE authenticated[c] /\ remoteViewerID # connID[c]
      <4>1. /\ remoteSlotExpiry' = remoteSlotExpiry
            /\ \A t \in Token : tokens'[t].connectionID = tokens[t].connectionID
            /\ \A t \in Token : tokens[t].connectionID = remoteViewerID
                                  => tokens'[t] = tokens[t]
        BY <2>4, <3>4 DEF HandleViewerDisconnect, Countdown
      <4>2. QED BY <3>1, <4>1
    <3>5. QED BY <3>1, <3>2, <3>3, <3>4
  <2>5. ASSUME NEW m \in {"remote", "group"}, Configure(m) PROVE SlotInOrder'
    BY <2>5 DEF Configure
  <2>6. ASSUME NEW r \in Request, NEW u \in Token, VerdictAccepted(r, u)
        PROVE  SlotInOrder'
    <3>1. CASE mode = "remote"
      BY <2>6, <3>1 DEF VerdictAccepted
    <3>2. CASE mode # "remote"
      BY <2>6, <3>2 DEF VerdictAccepted
    <3>3. QED BY <3>1, <3>2
  <2>7. CASE KillSwitch
    BY <2>7 DEF KillSwitch
  <2>8. QED
    BY <2>1, <2>2, <2>3, <2>4, <2>5, <2>6, <2>7
    DEF Next, ViewerNext, HostNext, PageNext, Connect, Drop, Tick, AddViewer,
        HandleAuthAttempt, FinishResume, TakeControl, VerdictRefused,
        FinishGrant, HostTakeControl, EndSession, HostDisconnect, Teardown,
        CloseNext, ClosingDone, sessionVars, hostVars, vars
<1>3. QED BY <1>1, <1>2, TypeCorrect, GroupCorrect, PTL DEF Spec

\* A verdict that gives one identity's slot to another comes when every token
\* of the first has reached its deadline.
THEOREM SlotIsKept == Spec => SlotIsNotStolen
<1> DEFINE Step ==
      LET i == remoteViewerID IN
      hostPC = "serving" /\ hostPC' = "granting" /\ i # None /\ remoteViewerID' # i
        => \A t \in Token : tokens[t].connectionID = i
             => tokens[t].expiresAt # Zero /\ now >= tokens[t].expiresAt
<1>1. TypeOK /\ SlotInOrder /\ [Next]_vars => Step
  <2> SUFFICES ASSUME TypeOK, SlotInOrder, [Next]_vars,
                      hostPC = "serving", hostPC' = "granting",
                      remoteViewerID # None, remoteViewerID' # remoteViewerID,
                      NEW t \in Token, tokens[t].connectionID = remoteViewerID
               PROVE  tokens[t].expiresAt # Zero /\ now >= tokens[t].expiresAt
    OBVIOUS
  <2>1. PICK r \in Request, u \in Token : VerdictAccepted(r, u)
    BY DEF Next, ViewerNext, HostNext, PageNext, Connect, Drop, Tick,
           AddViewer, HandleAuthAttempt, ResumeRefused, ResumeAccepted,
           FinishResume, TakeControl, HandleViewerDisconnect, Configure,
           VerdictRefused, FinishGrant, HostTakeControl, KillSwitch,
           EndSession, HostDisconnect, Teardown, CloseNext, ClosingDone,
           hostVars, vars
  <2>2. ~(remoteSlotExpiry = Zero \/ now < remoteSlotExpiry)
    BY <2>1 DEF VerdictAccepted, SlotRefuses, SlotInOrder
  <2>3. tokens[t].expiresAt = remoteSlotExpiry
    BY <2>2 DEF SlotInOrder
  <2>4. now \in Nat /\ remoteSlotExpiry \in Nat
    BY DEF TypeOK
  <2>5. QED BY <2>2, <2>3, <2>4
<1>2. QED BY <1>1, TypeCorrect, SlotCorrect, PTL DEF Spec, SlotIsNotStolen
=============================================================================
