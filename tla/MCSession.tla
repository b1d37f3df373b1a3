----------------------------- MODULE MCSession -----------------------------
(* Session for TLC: sockets, tokens and requests are interchangeable.      *)
EXTENDS Session, TLC

Symmetry == Permutations(Conn) \cup Permutations(Token) \cup Permutations(Request)

\* A bound: the host does not reclaim control (it does in the other runs).
NoReclaim == lastHostReclaim = Zero
=============================================================================
