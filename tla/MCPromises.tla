----------------------------- MODULE MCPromises -----------------------------
(***************************************************************************)
(* Promises for TLC.                                                       *)
(***************************************************************************)
EXTENDS Promises, TLC

\* Handlers, promises and values are interchangeable.
Symmetry ==
  Permutations(Coroutines) \cup Permutations(Promises) \cup Permutations(Values)
=============================================================================
