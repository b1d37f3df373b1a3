------------------------------ MODULE HostInput ------------------------------
(***************************************************************************)
(* The host's keyboard (gatedWriter, cmd/getsloth/pty.go).  io.Copy hands   *)
(* it whatever a read returned, so that the bytes of one command may come   *)
(* in two writes.  A byte of interest is the prefix Ctrl-], a command, or   *)
(* any other; while a viewer is the active writer nothing is forwarded.     *)
(* The code looks at the gate again for each byte it forwards.  Here a chunk *)
(* is forwarded whole or not at all: a change of control in the middle of    *)
(* one is left out.  Commands do not depend on the gate.                     *)
(***************************************************************************)
EXTENDS Naturals, Sequences, SequencesExt

Prefix  == "^]"
Command == {"r", "i"}
Byte    == Command \cup {Prefix, "x"}

\* What the writer has come to: a prefix is pending, the commands it carried
\* out, and the bytes it forwarded.
Idle(pending) == [pending |-> pending, done |-> <<>>, forward |-> <<>>]

Forward(w, bytes, gate) == [w EXCEPT !.forward = IF gate THEN w.forward \o bytes
                                                         ELSE w.forward]

\* One turn of the loop.
WriteByte(w, b, gate) ==
    IF w.pending
      THEN IF b \in Command
             THEN [w EXCEPT !.pending = FALSE, !.done = Append(w.done, b)]
             ELSE Forward([w EXCEPT !.pending = FALSE], <<Prefix, b>>, gate)
      ELSE IF b = Prefix THEN [w EXCEPT !.pending = TRUE]
                         ELSE Forward(w, <<b>>, gate)

\* A faulty Write: a prefix that ends a chunk is forgotten.
WriteForgetting(w, chunk, gate) ==
    [FoldLeft(LAMBDA acc, b : WriteByte(acc, b, gate), w, chunk) EXCEPT !.pending = FALSE]

\* Write.
Write(w, chunk, gate) == FoldLeft(LAMBDA acc, b : WriteByte(acc, b, gate), w, chunk)

-----------------------------------------------------------------------------
(* What the keyboard means, of all that was typed and not of one chunk.    *)

\* Of a run of prefixes, every other one, from the first, opens a command.
Opens(typed, i) ==
    /\ i \in DOMAIN typed /\ typed[i] = Prefix
    /\ \E n \in 1 .. i :
         /\ n % 2 = 1
         /\ \A j \in i - n + 1 .. i : typed[j] = Prefix
         /\ i > n => typed[i - n] # Prefix

Commands(typed) ==
    {i \in DOMAIN typed : Opens(typed, i - 1) /\ typed[i] \in Command}

\* The byte at i of what the program is to receive, if the gate is open.
Through(typed, i) ==
    IF Opens(typed, i - 1)
      THEN IF i \in Commands(typed) THEN <<>> ELSE <<Prefix, typed[i]>>
      ELSE IF Opens(typed, i) THEN <<>> ELSE <<typed[i]>>

Meaning(typed, gate) ==
    [pending |-> Opens(typed, Len(typed)),
     done    |-> FlattenSeq([i \in DOMAIN typed |->
                               IF i \in Commands(typed) THEN <<typed[i]>> ELSE <<>>]),
     forward |-> IF gate THEN FlattenSeq([i \in DOMAIN typed |-> Through(typed, i)])
                         ELSE <<>>]
=============================================================================
