--------------------------- MODULE MCBackpressure ---------------------------
(* Backpressure on small instances.  The drain tasks are interchangeable. *)
EXTENDS Backpressure, TLC

Symmetric == Permutations(Drainers)
=============================================================================
