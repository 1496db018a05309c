--------------------------- MODULE MCJobLifecycle ---------------------------
(* Instances of JobLifecycle for TLC. *)
EXTENDS JobLifecycle, TLC

CONSTANTS j1, j2, w1, w2

\* Worker slots are interchangeable; used in runs without liveness only.
Symmetry == Permutations(Workers)
============================================================================
