---------------------------- MODULE LiveLockServer ----------------------------
(***************************************************************************)
(* The running server (livelock/server.py, class LiveLockProtocol over     *)
(* StorageAdaptor) without its shutdown: connections come and go, and a    *)
(* command that arrives on one is executed by a handler.                   *)
(*                                                                         *)
(* The server is one asyncio loop and a handler reaches no await that      *)
(* suspends it (on_command_start waits for an event that is set from the   *)
(* first maintenance on), so a handler is one step.  kill_active is false  *)
(* throughout; no password is configured.  Commands that write nothing     *)
(* (PING, FIND, STATS, SIGEXISTS, CONNINFO, a refused command) have no     *)
(* action.                                                                 *)
(*                                                                         *)
(* The clients are any programs that speak the protocol: every command may *)
(* come at any time on every open connection.                              *)
(***************************************************************************)
EXTENDS LockStorage

CONSTANTS
  DefaultReleaseAllTimeout,  \* release_all_timeout of the adaptor
  RepeatConn                 \* do clients send CONN again on a connection that has an id

ASSUME ServerAssumption ==
  /\ DefaultReleaseAllTimeout \in Nat \ {0}
  /\ RepeatConn \in BOOLEAN

VARIABLES
  connected,   \* the connections the server considers open, by peer address
  client_id    \* per connection: the client id of its protocol object

serverVars == <<connected, client_id>>

vars == <<storageVars, serverVars>>

TypeOK ==
  /\ StorageTypeOK
  /\ connected \in SUBSET Addresses
  /\ client_id \in [Addresses -> Clients \cup {NoClient}]

Init ==
  /\ StorageInit
  /\ connected = {}
  /\ client_id = [k \in Addresses |-> NoClient]

-----------------------------------------------------------------------------
(* Connections.  An address is free for a new connection once the server   *)
(* has seen the old one end.                                               *)

ConnectionMade(k) ==
  /\ k \notin connected
  /\ connected' = connected \cup {k}
  /\ client_id' = [client_id EXCEPT ![k] = NoClient]
  /\ UNCHANGED storageVars

(* Mutant: the loss of any connection of a client releases its locks.      *)
AnyLossReleases(k) == client_id[k] # NoClient

(* Mutant: without a known address nothing is released.                    *)
KnownLossReleases(k) ==
  client_id[k] # NoClient /\ client_last_address[client_id[k]] = k

(* Only the loss of the client's last known connection releases its locks, *)
(* or of any connection of it when no address is known.                    *)
LossReleases(k) ==
  /\ client_id[k] # NoClient
  /\ client_last_address[client_id[k]] \in {k, NoAddress}

ConnectionLost(k) ==
  /\ k \in connected
  /\ connected' = connected \ {k}
  /\ client_id' = [client_id EXCEPT ![k] = NoClient]
  /\ \/ /\ LossReleases(k)
        /\ ReleaseAll(client_id[k], DefaultReleaseAllTimeout)
        /\ UNCHANGED client_last_address
     \/ /\ ~LossReleases(k)
        /\ UNCHANGED storageVars

(* CONN.  An identified connection is answered CONN_HAS_ID_ERROR, but the  *)
(* handler goes on and takes the new id all the same.                      *)
MayConn(k) == k \in connected /\ (client_id[k] = NoClient \/ RepeatConn)

(* CONN id: the client says who it is, and gets its locks back.            *)
ConnAs(k, c) ==
  /\ MayConn(k)
  /\ client_id' = [client_id EXCEPT ![k] = c]
  /\ UnreleaseAll(c)
  /\ SetClientLastAddress(c, k)
  /\ UNCHANGED connected

(* A uuid4 that nobody has: the server has no trace of it.                 *)
Unused(c) ==
  /\ c \notin tracked
  /\ client_last_address[c] = NoAddress
  /\ \A k \in connected : client_id[k] # c

(* CONN without an argument: the server makes up an id.                    *)
ConnNew(k, c) ==
  /\ MayConn(k)
  /\ Unused(c)
  /\ client_id' = [client_id EXCEPT ![k] = c]
  /\ SetClientLastAddress(c, k)
  /\ UNCHANGED <<client_to_locks, tracked, locks_to_client, all_locks,
                 mark_free_after, signals, connected>>

-----------------------------------------------------------------------------
(* The other commands are refused until CONN has given the connection an   *)
(* id.  LOCKED, SIGSET and SIGDEL do not look at whose id it is.           *)

Identified(k) == k \in connected /\ client_id[k] # NoClient

Aq(k, l, reentrant) ==
  /\ Identified(k)
  /\ Acquire(client_id[k], l, reentrant)
  /\ UNCHANGED serverVars

ReleaseCommand(k, l) ==
  /\ Identified(k)
  /\ Release(client_id[k], l)
  /\ UNCHANGED serverVars

LockedCommand(k, l) ==
  /\ Identified(k)
  /\ Locked(l)
  /\ UNCHANGED serverVars

SigSet(k, l, s) ==
  /\ Identified(k)
  /\ AddSignal(l, s)
  /\ UNCHANGED serverVars

SigDel(k, l, s) ==
  /\ Identified(k)
  /\ RemoveSignal(l, s)
  /\ UNCHANGED serverVars

Command(k) ==
  \/ \E c \in Clients : ConnAs(k, c) \/ ConnNew(k, c)
  \/ \E l \in LockIds :
       \/ \E reentrant \in BOOLEAN : Aq(k, l, reentrant)
       \/ ReleaseCommand(k, l)
       \/ LockedCommand(k, l)
       \/ \E s \in Signals : SigSet(k, l, s) \/ SigDel(k, l, s)

-----------------------------------------------------------------------------
(* maintenance_scheduler: no handler is ever halfway when its turn comes.  *)
MaintenanceRun == Maintenance /\ UNCHANGED serverVars

Tick ==
  /\ \E l \in LockIds : mark_free_after[l] > 0
  /\ Elapse
  /\ UNCHANGED serverVars

Next ==
  \/ \E k \in Addresses : ConnectionMade(k) \/ ConnectionLost(k) \/ Command(k)
  \/ MaintenanceRun
  \/ Tick

Spec == Init /\ [][Next]_vars

-----------------------------------------------------------------------------
(* A client whose latest connection is open keeps its locks: while the     *)
(* connection that client_last_address names is open under that client's   *)
(* id, none of the client's locks is marked to be freed, however many      *)
(* older connections of the same client are lost meanwhile.  (The address  *)
(* check of connection_lost against CONN and maintenance.)                 *)
LatestConnectionKeepsLocks ==
  \A c \in Clients, k \in connected :
     (client_id[k] = c /\ client_last_address[c] = k)
       => \A l \in client_to_locks[c] : mark_free_after[l] = NotMarked

(* A lock that had an owner gets another one, or none.                     *)
LosesTenure(l) ==
  locks_to_client[l] # NoClient /\ locks_to_client'[l] # locks_to_client[l]

TenureStep ==
  \A l \in LockIds : LosesTenure(l) =>
    \/ Lapsed(l)
    \/ \E k \in connected : client_id[k] = locks_to_client[l] /\ ReleaseCommand(k, l)

(* Nobody takes a lock away from its owner: a lock changes hands or        *)
(* becomes free only by a RELEASE on a connection of the owner, or once    *)
(* the grace period after a lost connection has run out.  (acquire,        *)
(* release, locked and maintenance, the four methods that delete locks.)   *)
TenureEndsByReleaseOrLapse == [][TenureStep]_vars

(* A client that goes away does not block the others: a lock marked to be  *)
(* freed is in the end deleted, unless its owner comes back for it.        *)
(* (release_all, the deadline, and the sweep of maintenance.)              *)
MarkedLocksAreFreed ==
  \A l \in LockIds :
     (l \in all_locks /\ mark_free_after[l] # NotMarked)
       ~> (l \notin all_locks \/ mark_free_after[l] = NotMarked)
=============================================================================
