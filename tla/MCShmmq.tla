------------------------------ MODULE MCShmmq -------------------------------
(* Model-checking instance of Shmmq. *)
EXTENDS Shmmq, TLC

\* Processes and items are only compared for equality.
Symmetry == Permutations(Procs) \cup Permutations(Items)
=============================================================================
