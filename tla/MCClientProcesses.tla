-------------------------- MODULE MCClientProcesses --------------------------
(* Everything is finite as it stands: a process has one request on its way,*)
(* and starts at most once.                                                *)
EXTENDS ClientProcesses, TLC

Symmetric ==
  Permutations(Clients) \cup Permutations(LockIds) \cup Permutations(Addresses)
    \cup Permutations(Processes)
=============================================================================
