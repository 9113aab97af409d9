-------------------------- MODULE MCSearchPipeline --------------------------
(* Small instances of SearchPipeline for TLC. *)
EXTENDS SearchPipeline, TLC

CONSTANTS j1, j2

\* The jobs are interchangeable; used by runs without liveness only.
Symmetry == Permutations(Jobs)
=============================================================================
