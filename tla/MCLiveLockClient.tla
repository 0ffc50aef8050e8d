--------------------------- MODULE MCLiveLockClient ---------------------------
(* Everything is finite as it stands: a client has one request on its way, *)
(* and a connection carries one.                                           *)
EXTENDS LiveLockClient, TLC

Symmetric ==
  Permutations(Clients) \cup Permutations(LockIds) \cup Permutations(Addresses)
=============================================================================
