-------------------------- MODULE MCLiveLockServer --------------------------
(* Bounds for the model checker: everything but the client ids, lock ids   *)
(* and connections is finite as it stands.                                 *)
EXTENDS LeaseRefinement, TLC

Symmetric ==
  Permutations(Clients) \cup Permutations(LockIds) \cup Permutations(Addresses)
=============================================================================
