---------------------------- MODULE OutputStream ----------------------------
(***************************************************************************)
(* What sharing a terminal promises about its output: a viewer sees what    *)
(* the host prints from some recent chunk on, each chunk once, in order,    *)
(* with nothing left out between two chunks it sees.  How far back it may   *)
(* start is the length of the relay's backlog (internal/relay/session.go).  *)
(* A viewer that is let in again is shown recent output again.              *)
(* Module OutputFanout shows how the relay keeps the promise.               *)
(***************************************************************************)
EXTENDS Naturals, Sequences

CONSTANTS Viewer, Window

VARIABLES
    printed,  \* the chunks 1 .. printed have reached the relay
    shown     \* what each viewer has been sent since it was last let in

Init == printed = 0 /\ shown = [v \in Viewer |-> <<>>]

Emit == printed' = printed + 1 /\ UNCHANGED shown

\* The first chunk a viewer sees is one of the last Window.
Start(v) ==
    /\ shown[v] = <<>>
    /\ \E n \in 1 .. printed :
         n + Window > printed /\ shown' = [shown EXCEPT ![v] = <<n>>]
    /\ UNCHANGED printed

\* Then come the chunks that follow it.
Follow(v) ==
    /\ shown[v] # <<>>
    /\ LET next == shown[v][Len(shown[v])] + 1 IN
         next <= printed /\ shown' = [shown EXCEPT ![v] = Append(@, next)]
    /\ UNCHANGED printed

LetInAgain(v) == shown' = [shown EXCEPT ![v] = <<>>] /\ UNCHANGED printed

Next == Emit \/ \E v \in Viewer : Start(v) \/ Follow(v) \/ LetInAgain(v)

Spec == Init /\ [][Next]_<<printed, shown>>
=============================================================================
