--------------------------- MODULE MCSupervision ---------------------------
(* The registry's supervision on a small fleet. *)
EXTENDS Supervision, TLC

\* Ids differ only in the order they were handed out, which nothing reads.
Symmetry == Permutations(Session)
=============================================================================
