----------------------------- MODULE LockStorage -----------------------------
(***************************************************************************)
(* The in-memory lock storage of the server (livelock/memory_storage.py,   *)
(* class InMemoryLockStorage): the four dictionaries it keeps and one      *)
(* action per method that changes them.  A method runs to its end without  *)
(* an await, so it is one step here.                                       *)
(*                                                                         *)
(* A MemoryLockInfo object is shared by all_locks and client_to_locks and  *)
(* at most one is reachable per lock id, so its fields are functions of    *)
(* the lock id.  A deleted object keeps its last field values; acquire     *)
(* makes a new one.  Its acquisition time is not modelled.                 *)
(*                                                                         *)
(* mark_free_after is an absolute time in the code; here it is the time    *)
(* left until then, so that "now >= mark_free_after" is "= 0".             *)
(***************************************************************************)
EXTENDS Integers

CONSTANTS
  Clients,            \* client ids
  LockIds,            \* lock ids
  Signals,            \* signal names
  Addresses,          \* peer addresses of connections
  NoClient,           \* the absence of an owner
  NoAddress,          \* the absence of a known address
  ReleaseAllTimeout   \* release_all_timeout the storage is configured with

ASSUME SentinelAssumption == NoClient \notin Clients /\ NoAddress \notin Addresses

ASSUME TimeoutAssumption == ReleaseAllTimeout \in Nat \ {0}

VARIABLES
  client_to_locks,      \* the locks in each client's list
  tracked,              \* the clients that are keys of client_to_locks (a defaultdict)
  locks_to_client,      \* the owner of each lock
  all_locks,            \* the lock ids that have a MemoryLockInfo
  mark_free_after,      \* per lock: time left before it counts as free
  signals,              \* per lock: its active signals
  client_last_address   \* per client: address of its latest connection

storageVars == <<client_to_locks, tracked, locks_to_client, all_locks,
                 mark_free_after, signals, client_last_address>>

NotMarked == -1    \* mark_free_after is None

StorageTypeOK ==
  /\ client_to_locks \in [Clients -> SUBSET LockIds]
  /\ tracked \in SUBSET Clients
  /\ locks_to_client \in [LockIds -> Clients \cup {NoClient}]
  /\ all_locks \in SUBSET LockIds
  /\ mark_free_after \in [LockIds -> Nat \cup {NotMarked}]
  /\ signals \in [LockIds -> SUBSET Signals]
  /\ client_last_address \in [Clients -> Addresses \cup {NoAddress}]

StorageInit ==
  /\ client_to_locks = [c \in Clients |-> {}]
  /\ tracked = {}
  /\ locks_to_client = [l \in LockIds |-> NoClient]
  /\ all_locks = {}
  /\ mark_free_after = [l \in LockIds |-> NotMarked]
  /\ signals = [l \in LockIds |-> {}]
  /\ client_last_address = [c \in Clients |-> NoAddress]

-----------------------------------------------------------------------------
(* Locks that are past their deadline but not deleted yet.                 *)

Expired(l) == mark_free_after[l] = 0

Lapsed(l) == l \in all_locks /\ Expired(l)

-----------------------------------------------------------------------------
(* Mutant: _delete_lock without its last line.                             *)
UnlistedNowhere(S) == client_to_locks

(* _delete_lock takes the lock out of the list of the client that          *)
(* locks_to_client names, not of any other.                                *)
Unlisted(S) ==
  [c \in Clients |-> client_to_locks[c] \ {l \in S : locks_to_client[l] = c}]

DeleteLocks(S) ==
  /\ locks_to_client' = [l \in LockIds |->
                           IF l \in S THEN NoClient ELSE locks_to_client[l]]
  /\ all_locks' = all_locks \ S
  /\ client_to_locks' = Unlisted(S)

(* Mutant: acquire without the expiry check.                               *)
IsFreeIfUnowned(l) == locks_to_client[l] = NoClient

(* What acquire answers: a lapsed lock counts as free, and an owner that   *)
(* asks again is granted the lock only if it asks for a reentrant one.     *)
IsFree(l) == Lapsed(l) \/ locks_to_client[l] = NoClient

AcquireReply(c, l, reentrant) ==
  IsFree(l) \/ (reentrant /\ locks_to_client[l] = c)

(* Mutant: a lapsed lock is handed on with its MemoryLockInfo.             *)
AcquireKeepingSignals(c, l, reentrant) ==
  /\ IF IsFree(l)
     THEN /\ locks_to_client' = [locks_to_client EXCEPT ![l] = c]
          /\ client_to_locks' = [Unlisted({l}) EXCEPT ![c] = @ \cup {l}]
          /\ tracked' = tracked \cup {c}
          /\ all_locks' = all_locks \cup {l}
          /\ mark_free_after' = [mark_free_after EXCEPT ![l] = NotMarked]
     ELSE UNCHANGED <<client_to_locks, tracked, locks_to_client, all_locks, mark_free_after>>
  /\ UNCHANGED <<signals, client_last_address>>

Acquire(c, l, reentrant) ==
  /\ \/ /\ IsFree(l)
        /\ locks_to_client' = [locks_to_client EXCEPT ![l] = c]
        /\ client_to_locks' = [Unlisted({l}) EXCEPT ![c] = @ \cup {l}]
        /\ tracked' = tracked \cup {c}
        /\ all_locks' = all_locks \cup {l}
        /\ mark_free_after' = [mark_free_after EXCEPT ![l] = NotMarked]
        /\ signals' = [signals EXCEPT ![l] = {}]
     \/ /\ ~IsFree(l)    \* granted again or refused: nothing is written
        /\ UNCHANGED <<client_to_locks, tracked, locks_to_client, all_locks,
                       mark_free_after, signals>>
  /\ UNCHANGED client_last_address

(* Mutant: release of whatever lock is taken, not of an own one.           *)
ReleaseAnyones(c, l) ==
  /\ tracked' = tracked \cup {c}
  /\ DeleteLocks({l} \cap all_locks)
  /\ UNCHANGED <<mark_free_after, signals, client_last_address>>

(* release looks the lock up in the client's own list; the lookup alone    *)
(* makes the client a key of the defaultdict.                              *)
ReleaseReply(c, l) == l \in client_to_locks[c]

Release(c, l) ==
  /\ tracked' = tracked \cup {c}
  /\ DeleteLocks({l} \cap client_to_locks[c])
  /\ UNCHANGED <<mark_free_after, signals, client_last_address>>

(* Every lock in the client's list gets the same deadline, or none.        *)
MarkAll(c, mark) ==
  /\ mark_free_after' = [l \in LockIds |->
                           IF l \in client_to_locks[c] THEN mark ELSE mark_free_after[l]]
  /\ tracked' = tracked \cup {c}
  /\ UNCHANGED <<client_to_locks, locks_to_client, all_locks, signals>>

ReleaseAll(c, timeout) ==
  MarkAll(c, IF timeout = 0 THEN ReleaseAllTimeout ELSE timeout)

UnreleaseAll(c) == MarkAll(c, NotMarked)

(* Mutant: the id is stored where the address should be.                   *)
SetClientLastAddressToId(c, a) ==
  client_last_address' = [client_last_address EXCEPT ![c] = c]

SetClientLastAddress(c, a) ==
  client_last_address' = [client_last_address EXCEPT ![c] = a]

LockedReply(l) == l \in all_locks /\ ~Expired(l)

(* locked deletes the lock it finds lapsed.                                *)
Locked(l) ==
  /\ DeleteLocks({m \in {l} : Lapsed(m)})
  /\ UNCHANGED <<tracked, mark_free_after, signals, client_last_address>>

(* The locks find yields for the pattern '*'.                              *)
Find == {l \in all_locks : ~Expired(l)}

(* The answer of the signal operations on a lock without a MemoryLockInfo  *)
(* is KEY_NOT_EXISTS; otherwise they never look at the deadline.           *)
AddSignalReply(l) == l \in all_locks

AddSignal(l, s) ==
  /\ signals' = [signals EXCEPT ![l] = IF l \in all_locks THEN @ \cup {s} ELSE @]
  /\ UNCHANGED <<client_to_locks, tracked, locks_to_client, all_locks,
                 mark_free_after, client_last_address>>

RemoveSignal(l, s) ==
  /\ signals' = [signals EXCEPT ![l] = IF l \in all_locks THEN @ \ {s} ELSE @]
  /\ UNCHANGED <<client_to_locks, tracked, locks_to_client, all_locks,
                 mark_free_after, client_last_address>>

(* Mutant: the sweep leaves the clients with a known address alone.        *)
ExpiredOfUnknown ==
  {l \in LockIds : Expired(l) /\ \E c \in tracked :
     l \in client_to_locks[c] /\ client_last_address[c] = NoAddress}

(* The sweep visits every key of client_to_locks, deletes its expired      *)
(* locks, and forgets the key and the address of a client left with none.  *)
(* Its time check compares against timeout_ms*1000 seconds and never       *)
(* stops it.                                                               *)
ExpiredListed ==
  {l \in LockIds : Expired(l) /\ \E c \in tracked : l \in client_to_locks[c]}

LeftWithout == {c \in tracked : Unlisted(ExpiredListed)[c] = {}}

Maintenance ==
  /\ DeleteLocks(ExpiredListed)
  /\ tracked' = tracked \ LeftWithout
  /\ client_last_address' = [c \in Clients |->
                               IF c \in LeftWithout THEN NoAddress
                               ELSE client_last_address[c]]
  /\ UNCHANGED <<mark_free_after, signals>>

-----------------------------------------------------------------------------
(* Mutant: a lock without a deadline is treated as if it had one.          *)
ElapseUnmarked ==
  /\ mark_free_after' = [l \in LockIds |->
                           IF mark_free_after[l] # 0 THEN mark_free_after[l] - 1 ELSE 0]
  /\ UNCHANGED <<client_to_locks, tracked, locks_to_client, all_locks,
                 signals, client_last_address>>

(* One unit of time passes; a deadline that is reached stays reached.      *)

Elapse ==
  /\ mark_free_after' = [l \in LockIds |->
                           IF mark_free_after[l] > 0 THEN mark_free_after[l] - 1
                           ELSE mark_free_after[l]]
  /\ UNCHANGED <<client_to_locks, tracked, locks_to_client, all_locks,
                 signals, client_last_address>>

-----------------------------------------------------------------------------
(* The three indexes over the same set of locks say the same thing: a      *)
(* lock is in a client's list exactly when locks_to_client gives it that   *)
(* owner, it has a MemoryLockInfo exactly when it has an owner, and a      *)
(* client with locks is a key of client_to_locks.  The code relies on it   *)
(* whenever it deletes a lock: a pop or remove that misses raises.         *)
IndexesAgree ==
  /\ \A c \in Clients, l \in LockIds : l \in client_to_locks[c] <=> locks_to_client[l] = c
  /\ \A l \in LockIds : l \in all_locks <=> locks_to_client[l] # NoClient
  /\ \A c \in Clients : client_to_locks[c] # {} => c \in tracked

(* The reads agree with the writes: FIND lists a lock (and LOCKED, which   *)
(* tests the same, answers yes) exactly when an AQ of anybody would be     *)
(* refused.  The reads look in all_locks, acquire in locks_to_client.      *)
FindAgreesWithAcquire ==
  \A l \in LockIds, c \in Clients : AcquireReply(c, l, FALSE) <=> l \notin Find
=============================================================================
