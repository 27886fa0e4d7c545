-------------------------- MODULE MCResourceCache ---------------------------
(* Model-checking instance of ResourceCache. *)
EXTENDS ResourceCache, TLC

\* Keys and values are only compared for equality.
Symmetry == Permutations(Keys) \cup Permutations(Values)
=============================================================================
