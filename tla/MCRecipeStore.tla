---------------------------- MODULE MCRecipeStore ----------------------------
(***************************************************************************)
(* RecipeStore for TLC.  The durations keep the order of the code's        *)
(* constants: a lease (5 min) is shorter than the orphan grace (15 min),   *)
(* which is shorter than the retention of terminal recipes and run links   *)
(* (7 days).                                                               *)
(***************************************************************************)
EXTENDS RecipeStore, TLC

\* Threads, turns, runs and payloads are only compared for equality.
Symmetry ==
  Permutations(Thread) \cup Permutations(Turn) \cup Permutations(Run) \cup Permutations(Payload)
=============================================================================
