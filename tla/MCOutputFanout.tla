--------------------------- MODULE MCOutputFanout ---------------------------
(* OutputFanout for TLC.                                                   *)
EXTENDS OutputFanout

\* A bound: who may be slow may also resume, and ask once to be let in; the
\* others ask as often as they like, and do not change the grid.
SlowResume ==
    /\ \A c \in Slow    : pending[c] <= IF joined[c] = "no" THEN 1 ELSE 0
    /\ \A c \in Conn \ Slow : joined[c] # "resume" /\ sending[c].to = {}
=============================================================================
