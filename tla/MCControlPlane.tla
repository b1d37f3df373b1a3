--------------------------- MODULE MCControlPlane ---------------------------
(* ControlPlane for TLC: viewers and sizes are interchangeable.            *)
EXTENDS ControlPlane, TLC

Symmetry == Permutations(Viewer) \cup Permutations(Size)
=============================================================================
