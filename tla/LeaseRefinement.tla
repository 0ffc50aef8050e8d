--------------------------- MODULE LeaseRefinement ---------------------------
(***************************************************************************)
(* The server implements the leases of LockLease.  A lease's phase is read *)
(* off the MemoryLockInfo of the lock: there is none, it has no deadline,  *)
(* the deadline is ahead, or it has passed.                                *)
(***************************************************************************)
EXTENDS LiveLockServer

LeasePhase ==
  [l \in LockIds |-> CASE l \notin all_locks -> "free"
                       [] l \in all_locks /\ mark_free_after[l] = NotMarked -> "held"
                       [] l \in all_locks /\ mark_free_after[l] > 0 -> "grace"
                       [] OTHER -> "lapsed"]

LeaseFlags == [l \in LockIds |-> IF l \in all_locks THEN signals[l] ELSE {}]

Lease == INSTANCE LockLease
           WITH owner <- locks_to_client, phase <- LeasePhase, flags <- LeaseFlags

(* Every step of the server is a step of the lease service or changes      *)
(* nothing its clients can tell: whatever connections come and go, in any  *)
(* order, a lease is only taken from its owner after its grace period, all *)
(* leases of a client are suspended and restored together, and a new lease *)
(* starts without the signals of the old one.                              *)
ImplementsLease == Lease!LeaseSpec
=============================================================================
