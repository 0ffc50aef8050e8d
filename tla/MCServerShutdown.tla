-------------------------- MODULE MCServerShutdown --------------------------
(* Symmetry of the ids for the model checker.                              *)
EXTENDS ServerShutdown

SymmetricIds == Permutations(Clients) \cup Permutations(LockIds)
=============================================================================
