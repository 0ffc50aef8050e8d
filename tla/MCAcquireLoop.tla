---------------------------- MODULE MCAcquireLoop ----------------------------
(* A waiter whose deadline is several naps away, one whose deadline is     *)
(* closer than a nap, and one that waits forever.  The lock may be held    *)
(* past every deadline, so that the counters run through all their values. *)
EXTENDS AcquireLoop, TLC

CONSTANTS patient, hasty, forever

MCTimeout == patient :> 9 @@ hasty :> 3 @@ forever :> 0
=============================================================================
