-------------------------- MODULE MCCallSettlement --------------------------
(* TLC instances of CallSettlement.                                        *)
EXTENDS CallSettlement, TLC

Symmetry == Permutations(Reconcilers) \cup Permutations(Calls)
=============================================================================
