------------------------------ MODULE LockLease ------------------------------
(***************************************************************************)
(* What the lock service promises its clients, told without connections,   *)
(* dictionaries or clocks: a lock is leased to one client at a time, the   *)
(* lease can be put on a grace period, all locks of the client together,   *)
(* and it is lost to others only once that period has run out.             *)
(***************************************************************************)
CONSTANTS Clients, LockIds, Signals, NoClient

VARIABLES
  owner,       \* the client each lock is leased to
  phase,       \* the phase of each lease
  flags        \* the signals raised on each lease

leaseVars == <<owner, phase, flags>>

Phases == {"free", "held", "grace", "lapsed"}

Owned(c) == {l \in LockIds : owner[l] = c}

(* The phase of the locks S changes to p; who owns them does not.          *)
Move(S, p) ==
  /\ phase' = [l \in LockIds |-> IF l \in S THEN p ELSE phase[l]]
  /\ UNCHANGED <<owner, flags>>

LeaseInit ==
  /\ owner = [l \in LockIds |-> NoClient]
  /\ phase = [l \in LockIds |-> "free"]
  /\ flags = [l \in LockIds |-> {}]

-----------------------------------------------------------------------------
Grant(c, l) ==
  /\ phase[l] \in {"free", "lapsed"}
  /\ owner' = [owner EXCEPT ![l] = c]
  /\ phase' = [phase EXCEPT ![l] = "held"]
  /\ flags' = [flags EXCEPT ![l] = {}]

(* The locks S go back to the service, their signals with them.            *)
Vacate(S) ==
  /\ owner' = [l \in LockIds |-> IF l \in S THEN NoClient ELSE owner[l]]
  /\ phase' = [l \in LockIds |-> IF l \in S THEN "free" ELSE phase[l]]
  /\ flags' = [l \in LockIds |-> IF l \in S THEN {} ELSE flags[l]]

(* The owner gives one lock back, whatever phase it is in.                 *)
GiveBack(c, l) == owner[l] = c /\ Vacate({l})

(* The service takes back leases that have lapsed, and no others.          *)
Reclaim(S) == (\A l \in S : phase[l] = "lapsed") /\ Vacate(S)

(* The client is out of reach, or back: all its leases change together,    *)
(* also those that lapsed and that nobody has taken yet.                   *)
Suspend(c) == Move(Owned(c), "grace")

Restore(c) == Move(Owned(c), "held")

Lapse(S) == (\A l \in S : phase[l] = "grace") /\ Move(S, "lapsed")

Flag(l, S) ==
  /\ phase[l] # "free"
  /\ flags' = [flags EXCEPT ![l] = S]
  /\ UNCHANGED <<owner, phase>>

LeaseNext ==
  \/ \E c \in Clients :
       \/ \E l \in LockIds : Grant(c, l) \/ GiveBack(c, l)
       \/ Suspend(c) \/ Restore(c)
  \/ \E S \in SUBSET LockIds : Reclaim(S) \/ Lapse(S)
  \/ \E l \in LockIds, S \in SUBSET Signals : Flag(l, S)

LeaseSpec == LeaseInit /\ [][LeaseNext]_leaseVars
=============================================================================
