--------------------------- MODULE MCAeFileEvents ---------------------------
(* Model-checking instance of AeFileEvents. *)
EXTENDS AeFileEvents, TLC

\* Handlers are only compared for equality.
Symmetry == Permutations(Handlers)
=============================================================================
