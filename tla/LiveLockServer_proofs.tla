------------------------ MODULE LiveLockServer_proofs ------------------------
(***************************************************************************)
(* The safety properties of LiveLockServer, for any number of clients,     *)
(* locks, signals and connections, whatever the timeouts and whether or    *)
(* not clients repeat CONN: the storage methods first, then the handlers   *)
(* that call them, and in the end the abstract leases they implement.      *)
(*                                                                         *)
(* The inductive invariant is type correctness, agreement of the storage's *)
(* indexes and LatestConnectionKeepsLocks.  The last is not inductive      *)
(* alone: that CONN with a fresh id finds no locks to clear, and that      *)
(* marking one client's list leaves the other clients' locks alone, both   *)
(* rest on the agreement of the indexes.                                   *)
(***************************************************************************)
EXTENDS LeaseRefinement, TLAPS

-----------------------------------------------------------------------------
(* Every method of the storage keeps its dictionaries well-typed and in    *)
(* agreement.                                                              *)

(* StorageTypeOK in the parts the methods write, and the parts they share. *)
Sound == StorageTypeOK /\ IndexesAgree

(* The empty storage of a new server is well-typed and in agreement.       *)
LEMMA StorageInitSound == ASSUME StorageInit PROVE Sound
  BY SentinelAssumption
     DEF StorageInit, Sound, StorageTypeOK, IndexesAgree, NotMarked

(* _delete_lock, for a set of locks at once, removes the locks from all    *)
(* three indexes, so they still agree; a client may lose its key with its  *)
(* last lock.                                                              *)
LEMMA DeleteLocksSound ==
  ASSUME Sound, NEW S \in SUBSET LockIds, DeleteLocks(S),
         tracked' \in SUBSET Clients,
         \A c \in Clients : Unlisted(S)[c] # {} => c \in tracked',
         mark_free_after' = mark_free_after, signals' = signals,
         client_last_address' \in [Clients -> Addresses \cup {NoAddress}]
  PROVE  Sound'
  BY SentinelAssumption
     DEF Sound, StorageTypeOK, IndexesAgree, DeleteLocks, Unlisted

(* A deadline set or cleared on some locks disturbs no index.              *)
LEMMA MarkAllSound ==
  ASSUME Sound, NEW c \in Clients, NEW mark \in Nat \cup {NotMarked},
         MarkAll(c, mark),
         client_last_address' \in [Clients -> Addresses \cup {NoAddress}]
  PROVE  Sound'
  BY DEF Sound, StorageTypeOK, IndexesAgree, MarkAll

(* acquire: the lock enters all three indexes under its new owner, after   *)
(* it has left the list of the owner whose lease had lapsed.               *)
LEMMA AcquireSound ==
  ASSUME Sound, NEW c \in Clients, NEW l \in LockIds, NEW r \in BOOLEAN,
         Acquire(c, l, r)
  PROVE  Sound'
<1>1. CASE ~IsFree(l)
  BY <1>1 DEF Sound, StorageTypeOK, IndexesAgree, Acquire
<1>2. CASE IsFree(l)
  <2>1. Unlisted({l}) \in [Clients -> SUBSET LockIds]
    BY DEF Sound, StorageTypeOK, Unlisted
  <2>2. client_to_locks' = [Unlisted({l}) EXCEPT ![c] = @ \cup {l}]
    BY <1>2 DEF Acquire
  <2>3. client_to_locks' \in [Clients -> SUBSET LockIds]
    BY <2>1, <2>2
  <2>4. \A d \in Clients, m \in LockIds :
          m \in client_to_locks'[d] <=>
            IF m = l THEN d = c ELSE m \in client_to_locks[d]
    BY <2>1, <2>2, SentinelAssumption DEF Unlisted, Sound, StorageTypeOK, IndexesAgree
  <2>5. StorageTypeOK'
    BY <1>2, <2>3 DEF Sound, StorageTypeOK, Acquire, NotMarked
  <2>6. \A d \in Clients, m \in LockIds :
          m \in client_to_locks'[d] <=> locks_to_client'[m] = d
    BY <1>2, <2>4 DEF Sound, StorageTypeOK, IndexesAgree, Acquire
  <2>7. \A m \in LockIds : m \in all_locks' <=> locks_to_client'[m] # NoClient
    BY <1>2, SentinelAssumption DEF Sound, StorageTypeOK, IndexesAgree, Acquire
  <2>8. \A d \in Clients : client_to_locks'[d] # {} => d \in tracked'
    <3> SUFFICES ASSUME NEW d \in Clients, client_to_locks'[d] # {}, d # c
                 PROVE  d \in tracked'
      BY <1>2 DEF Acquire
    <3>1. client_to_locks[d] # {}
      BY <2>3, <2>4
    <3> QED
      BY <3>1, <1>2 DEF Sound, IndexesAgree, Acquire
  <2> QED
    BY <2>5, <2>6, <2>7, <2>8 DEF Sound, IndexesAgree
<1> QED
  BY <1>1, <1>2

(* release deletes at most the one lock, found in the client's own list.   *)
LEMMA ReleaseSound ==
  ASSUME Sound, NEW c \in Clients, NEW l \in LockIds, Release(c, l)
  PROVE  Sound'
<1>1. {l} \cap client_to_locks[c] \in SUBSET LockIds
  OBVIOUS
<1> QED
  BY <1>1, DeleteLocksSound
     DEF Release, Sound, StorageTypeOK, IndexesAgree, Unlisted

(* locked deletes at most the one lock it is asked about.                  *)
LEMMA LockedSound ==
  ASSUME Sound, NEW l \in LockIds, Locked(l)
  PROVE  Sound'
<1>1. {m \in {l} : Lapsed(m)} \in SUBSET LockIds
  OBVIOUS
<1> QED
  BY <1>1, DeleteLocksSound
     DEF Locked, Sound, StorageTypeOK, IndexesAgree, Unlisted

(* Signals are no index.                                                   *)
LEMMA SignalSound ==
  ASSUME Sound, NEW l \in LockIds, NEW s \in Signals,
         AddSignal(l, s) \/ RemoveSignal(l, s)
  PROVE  Sound'
  BY DEF AddSignal, RemoveSignal, Sound, StorageTypeOK, IndexesAgree

(* The sweep forgets the key of a client only after its last lock.         *)
LEMMA MaintenanceSound == ASSUME Sound, Maintenance PROVE Sound'
<1>1. ExpiredListed \in SUBSET LockIds
  BY DEF ExpiredListed
<1>2. tracked' \in SUBSET Clients
  BY DEF Maintenance, Sound, StorageTypeOK
<1>3. \A c \in Clients : Unlisted(ExpiredListed)[c] # {} => c \in tracked'
  BY DEF Maintenance, Sound, StorageTypeOK, IndexesAgree, LeftWithout, Unlisted
<1>4. client_last_address' \in [Clients -> Addresses \cup {NoAddress}]
  BY DEF Maintenance, Sound, StorageTypeOK
<1> QED
  BY <1>1, <1>2, <1>3, <1>4, DeleteLocksSound DEF Maintenance

(* Time moves deadlines only, and never past zero.                         *)
LEMMA ElapseSound == ASSUME Sound, Elapse PROVE Sound'
<1>1. mark_free_after' \in [LockIds -> Nat \cup {NotMarked}]
  BY DEF Elapse, Sound, StorageTypeOK, NotMarked
<1> QED
  BY <1>1 DEF Elapse, Sound, StorageTypeOK, IndexesAgree

(* While the indexes agree, FIND, LOCKED and AQ give one answer: two of    *)
(* them read all_locks, the third locks_to_client.                         *)
LEMMA AgreementOfReads == ASSUME Sound PROVE FindAgreesWithAcquire
  BY DEF Sound, StorageTypeOK, IndexesAgree, FindAgreesWithAcquire, AcquireReply,
         IsFree, Lapsed, Find, LockedReply

-----------------------------------------------------------------------------
(* The handlers.                                                           *)

IndInv == TypeOK /\ IndexesAgree /\ LatestConnectionKeepsLocks

(* What is left to show of a step once its storage method is known to be   *)
(* sound.                                                                  *)
LEMMA IndInvAfter ==
  ASSUME Sound', LatestConnectionKeepsLocks',
         connected' \in SUBSET Addresses,
         client_id' \in [Addresses -> Clients \cup {NoClient}]
  PROVE  IndInv'
  BY DEF IndInv, Sound, TypeOK

(* The state a server starts in satisfies the invariant.                   *)
LEMMA InitIndInv == Init => IndInv
<1> SUFFICES ASSUME Init PROVE IndInv
  OBVIOUS
<1>1. Sound
  BY StorageInitSound DEF Init
<1> QED
  BY <1>1 DEF Init, IndInv, TypeOK, Sound, LatestConnectionKeepsLocks

(* A connection that has just been made belongs to nobody.                 *)
LEMMA ConnectionMadeKeeps ==
  ASSUME IndInv, NEW k \in Addresses, ConnectionMade(k)
  PROVE  IndInv'
<1>1. Sound'
  BY DEF ConnectionMade, storageVars, IndInv, TypeOK, Sound, StorageTypeOK, IndexesAgree
<1>2. LatestConnectionKeepsLocks'
  BY SentinelAssumption
     DEF ConnectionMade, storageVars, IndInv, TypeOK, LatestConnectionKeepsLocks
<1> QED
  BY <1>1, <1>2, IndInvAfter DEF ConnectionMade, IndInv, TypeOK

(* connection_lost marks the locks of a client only when the connection    *)
(* that goes is the one client_last_address names, or none is named: no    *)
(* connection that remains is the client's latest.                         *)
LEMMA ConnectionLostKeeps ==
  ASSUME IndInv, NEW k \in Addresses, ConnectionLost(k)
  PROVE  IndInv'
<1>1. client_id[k] \in Clients \/ ~LossReleases(k)
  BY DEF LossReleases, IndInv, TypeOK
<1>2. DefaultReleaseAllTimeout \in Nat \ {0}
  BY ServerAssumption
<1>3. Sound'
  <2>1. CASE ~LossReleases(k)
    BY <2>1 DEF ConnectionLost, storageVars, IndInv, TypeOK, Sound, StorageTypeOK, IndexesAgree
  <2>2. CASE LossReleases(k)
    <3>1. /\ client_id[k] \in Clients
          /\ MarkAll(client_id[k], DefaultReleaseAllTimeout)
          /\ client_last_address' = client_last_address
      BY <1>1, <1>2, <2>2 DEF ConnectionLost, ReleaseAll
    <3> QED
      BY <3>1, <1>2, MarkAllSound DEF IndInv, TypeOK, Sound, StorageTypeOK
  <2> QED
    BY <2>1, <2>2
<1>4. LatestConnectionKeepsLocks'
  <2> SUFFICES ASSUME NEW c \in Clients, NEW j \in connected',
                      client_id'[j] = c, client_last_address'[c] = j,
                      NEW l \in client_to_locks'[c]
               PROVE  mark_free_after'[l] = NotMarked
    BY DEF LatestConnectionKeepsLocks
  <2>1. j # k /\ j \in connected /\ j \in Addresses /\ client_id[j] = c
    BY DEF ConnectionLost, IndInv, TypeOK
  <2>2. client_last_address[c] = j /\ l \in client_to_locks[c] /\ l \in LockIds
    BY DEF ConnectionLost, storageVars, ReleaseAll, MarkAll, IndInv, TypeOK, StorageTypeOK
  <2>3. mark_free_after[l] = NotMarked
    BY <2>1, <2>2 DEF IndInv, LatestConnectionKeepsLocks
  <2>4. CASE ~LossReleases(k)
    BY <2>3, <2>4 DEF ConnectionLost, storageVars
  <2>5. CASE LossReleases(k)
    <3>1. client_id[k] # c
      BY <2>1, <2>2, <2>5, SentinelAssumption DEF LossReleases
    <3>2. l \notin client_to_locks[client_id[k]]
      BY <3>1, <2>2, <2>5, <1>1 DEF IndInv, IndexesAgree
    <3> QED
      BY <3>2, <2>2, <2>3, <2>5 DEF ConnectionLost, ReleaseAll, MarkAll
  <2> QED
    BY <2>4, <2>5
<1> QED
  BY <1>3, <1>4, IndInvAfter DEF ConnectionLost, IndInv, TypeOK

(* CONN id clears the deadline of every lock of the client it names.       *)
LEMMA ConnAsKeeps ==
  ASSUME IndInv, NEW k \in Addresses, NEW c \in Clients, ConnAs(k, c)
  PROVE  IndInv'
<1>1. client_last_address' \in [Clients -> Addresses \cup {NoAddress}]
  BY DEF ConnAs, SetClientLastAddress, IndInv, TypeOK, StorageTypeOK
<1>2. Sound'
  BY <1>1, MarkAllSound DEF ConnAs, UnreleaseAll, IndInv, TypeOK, Sound
<1>3. LatestConnectionKeepsLocks'
  BY DEF ConnAs, UnreleaseAll, MarkAll, SetClientLastAddress, MayConn,
         IndInv, TypeOK, StorageTypeOK, LatestConnectionKeepsLocks
<1> QED
  BY <1>2, <1>3, IndInvAfter DEF ConnAs, MayConn, IndInv, TypeOK

(* An id nobody uses has no locks.                                         *)
LEMMA ConnNewKeeps ==
  ASSUME IndInv, NEW k \in Addresses, NEW c \in Clients, ConnNew(k, c)
  PROVE  IndInv'
<1>1. client_to_locks[c] = {}
  BY DEF ConnNew, Unused, IndInv, IndexesAgree
<1>2. Sound'
  BY DEF ConnNew, MayConn, SetClientLastAddress, IndInv, TypeOK, Sound, StorageTypeOK,
         IndexesAgree
<1>3. LatestConnectionKeepsLocks'
  BY <1>1 DEF ConnNew, MayConn, SetClientLastAddress, IndInv, TypeOK, StorageTypeOK,
              LatestConnectionKeepsLocks
<1> QED
  BY <1>2, <1>3, IndInvAfter DEF ConnNew, MayConn, IndInv, TypeOK

(* A lock starts without a deadline.                                       *)
LEMMA AqKeeps ==
  ASSUME IndInv, NEW k \in Addresses, NEW l \in LockIds, NEW r \in BOOLEAN, Aq(k, l, r)
  PROVE  IndInv'
<1> DEFINE c == client_id[k]
<1>1. c \in Clients /\ Acquire(c, l, r)
  BY DEF Aq, Identified, IndInv, TypeOK
<1>2. Sound'
  BY <1>1, AcquireSound DEF IndInv, TypeOK, Sound
<1>3. LatestConnectionKeepsLocks'
  <2> SUFFICES ASSUME NEW d \in Clients, NEW j \in connected',
                      client_id'[j] = d, client_last_address'[d] = j,
                      NEW m \in client_to_locks'[d]
               PROVE  mark_free_after'[m] = NotMarked
    BY DEF LatestConnectionKeepsLocks
  <2>1. client_id[j] = d /\ client_last_address[d] = j /\ j \in connected
    BY <1>1 DEF Aq, serverVars, Acquire
  <2>2. m \in LockIds /\ locks_to_client'[m] = d
    BY <1>2 DEF Sound, StorageTypeOK, IndexesAgree
  <2>3. CASE m = l /\ IsFree(l)
    BY <1>1, <2>3, <2>2 DEF Acquire, IndInv, TypeOK, StorageTypeOK
  <2>4. CASE ~(m = l /\ IsFree(l))
    <3>1. locks_to_client'[m] = locks_to_client[m] /\ mark_free_after'[m] = mark_free_after[m]
      BY <1>1, <2>2, <2>4 DEF Acquire, IndInv, TypeOK, StorageTypeOK
    <3>2. m \in client_to_locks[d]
      BY <3>1, <2>2 DEF IndInv, IndexesAgree
    <3> QED
      BY <3>1, <3>2, <2>1 DEF IndInv, LatestConnectionKeepsLocks
  <2> QED
    BY <2>3, <2>4
<1> QED
  BY <1>2, <1>3, IndInvAfter DEF Aq, serverVars, IndInv, TypeOK

(* The steps that only take locks out of lists, touch signals, forget      *)
(* addresses or let time pass: no lock gets a deadline and no connection   *)
(* becomes a client's latest.                                              *)
LEMMA ShrinkingKeeps ==
  ASSUME IndInv, Sound', UNCHANGED serverVars,
         \A l \in LockIds : mark_free_after[l] = NotMarked => mark_free_after'[l] = NotMarked,
         \A c \in Clients : client_to_locks'[c] \in SUBSET client_to_locks[c],
         \A c \in Clients : client_last_address'[c] \in {client_last_address[c], NoAddress}
  PROVE  IndInv'
<1>1. LatestConnectionKeepsLocks'
  BY SentinelAssumption
     DEF serverVars, IndInv, TypeOK, Sound, StorageTypeOK, LatestConnectionKeepsLocks
<1> QED
  BY <1>1, IndInvAfter DEF serverVars, IndInv, TypeOK

(* RELEASE, LOCKED, SIGSET, SIGDEL, maintenance and time are such steps.   *)
LEMMA ReleaseCommandKeeps ==
  ASSUME IndInv, NEW k \in Addresses, NEW l \in LockIds, ReleaseCommand(k, l)
  PROVE  IndInv'
<1>1. client_id[k] \in Clients /\ Release(client_id[k], l) /\ UNCHANGED serverVars
  BY DEF ReleaseCommand, Identified, IndInv, TypeOK
<1>2. Sound'
  BY <1>1, ReleaseSound DEF IndInv, TypeOK, Sound
<1> QED
  BY <1>1, <1>2, ShrinkingKeeps DEF Release, DeleteLocks, Unlisted

(* LOCKED may delete a lapsed lock on its way.                             *)
LEMMA LockedCommandKeeps ==
  ASSUME IndInv, NEW k \in Addresses, NEW l \in LockIds, LockedCommand(k, l)
  PROVE  IndInv'
<1>1. Locked(l) /\ UNCHANGED serverVars
  BY DEF LockedCommand
<1>2. Sound'
  BY <1>1, LockedSound DEF IndInv, TypeOK, Sound
<1> QED
  BY <1>1, <1>2, ShrinkingKeeps DEF Locked, DeleteLocks, Unlisted

(* Signals are kept beside the locks.                                      *)
LEMMA SignalKeeps ==
  ASSUME IndInv, NEW k \in Addresses, NEW l \in LockIds, NEW s \in Signals,
         SigSet(k, l, s) \/ SigDel(k, l, s)
  PROVE  IndInv'
<1>1. (AddSignal(l, s) \/ RemoveSignal(l, s)) /\ UNCHANGED serverVars
  BY DEF SigSet, SigDel
<1>2. Sound'
  BY <1>1, SignalSound DEF IndInv, TypeOK, Sound
<1> QED
  BY <1>1, <1>2, ShrinkingKeeps DEF AddSignal, RemoveSignal

(* A maintenance run deletes lapsed locks only.                            *)
LEMMA MaintenanceKeeps == ASSUME IndInv, MaintenanceRun PROVE IndInv'
<1>1. Sound'
  BY MaintenanceSound DEF MaintenanceRun, IndInv, TypeOK, Sound
<1> QED
  BY <1>1, ShrinkingKeeps DEF MaintenanceRun, Maintenance, DeleteLocks, Unlisted

(* Time alone may make a lease lapse, and disturbs no index.               *)
LEMMA TickKeeps == ASSUME IndInv, Tick PROVE IndInv'
<1>1. Sound'
  BY ElapseSound DEF Tick, IndInv, TypeOK, Sound
<1> QED
  BY <1>1, ShrinkingKeeps DEF Tick, Elapse, NotMarked, IndInv, TypeOK, StorageTypeOK

(* Every step of the server keeps the invariant.                           *)
LEMMA NextKeeps == IndInv /\ [Next]_vars => IndInv'
<1> SUFFICES ASSUME IndInv, [Next]_vars PROVE IndInv'
  OBVIOUS
<1>1. CASE UNCHANGED vars
  BY <1>1 DEF vars, storageVars, serverVars, IndInv, TypeOK, StorageTypeOK, IndexesAgree,
              LatestConnectionKeepsLocks
<1>2. ASSUME NEW k \in Addresses, ConnectionMade(k) \/ ConnectionLost(k) \/ Command(k)
      PROVE  IndInv'
  BY <1>2, ConnectionMadeKeeps, ConnectionLostKeeps, ConnAsKeeps, ConnNewKeeps, AqKeeps,
     ReleaseCommandKeeps, LockedCommandKeeps, SignalKeeps DEF Command
<1> QED
  BY <1>1, <1>2, MaintenanceKeeps, TickKeeps DEF Next

-----------------------------------------------------------------------------
(* So it holds always.                                                     *)
LEMMA Invariance == Spec => []IndInv
  BY InitIndInv, NextKeeps, PTL DEF Spec

(* The state stays within its types.                                       *)
THEOREM TypeCorrect == Spec => []TypeOK
  BY Invariance, PTL DEF IndInv

(* The storage's dictionaries never disagree about a lock.                 *)
THEOREM StorageConsistent == Spec => []IndexesAgree
  BY Invariance, PTL DEF IndInv

(* A client keeps its locks while its latest connection is open, whatever  *)
(* becomes of its older connections.                                       *)
THEOREM LatestConnectionProtects == Spec => []LatestConnectionKeepsLocks
  BY Invariance, PTL DEF IndInv

(* FIND and LOCKED never disagree with what AQ would answer.               *)
THEOREM ReadsAgree == Spec => []FindAgreesWithAcquire
<1>1. IndInv => FindAgreesWithAcquire
  BY AgreementOfReads DEF IndInv, TypeOK, Sound
<1> QED
  BY <1>1, Invariance, PTL

-----------------------------------------------------------------------------
(* The methods that may change the owner of a lock: acquire and locked     *)
(* only take it away once it has lapsed, and so does maintenance, which    *)
(* looks in the clients' lists.                                            *)
LEMMA AcquireTenure ==
  ASSUME IndInv, NEW c \in Clients, NEW m \in LockIds, NEW r \in BOOLEAN,
         Acquire(c, m, r), NEW l \in LockIds, LosesTenure(l)
  PROVE  Lapsed(l)
  BY DEF Acquire, IsFree, LosesTenure, IndInv, TypeOK, StorageTypeOK

(* A deletion ends the tenure of the deleted locks only.                   *)
LEMMA DeletionTenure ==
  ASSUME NEW S \in SUBSET LockIds, DeleteLocks(S), NEW l \in LockIds, LosesTenure(l)
  PROVE  l \in S
  BY DEF DeleteLocks, LosesTenure

(* Maintenance ends the tenure of lapsed locks only.                       *)
LEMMA MaintenanceTenure ==
  ASSUME IndInv, Maintenance, NEW l \in LockIds, LosesTenure(l)
  PROVE  Lapsed(l)
<1>1. l \in ExpiredListed
  BY DeletionTenure DEF Maintenance, ExpiredListed
<1> QED
  BY <1>1, SentinelAssumption
     DEF ExpiredListed, Lapsed, IndInv, TypeOK, StorageTypeOK, IndexesAgree

(* Every step ends a tenure as it may.                                     *)
LEMMA NextTenure == IndInv /\ [Next]_vars => [TenureStep]_vars
<1> SUFFICES ASSUME IndInv, Next, NEW l \in LockIds, LosesTenure(l)
             PROVE  \/ Lapsed(l)
                    \/ \E k \in connected :
                         client_id[k] = locks_to_client[l] /\ ReleaseCommand(k, l)
  BY DEF TenureStep
<1> USE DEF LosesTenure
<1>1. CASE \E k \in Addresses : ConnectionMade(k)
  BY <1>1 DEF ConnectionMade, storageVars
<1>2. CASE \E k \in Addresses : ConnectionLost(k)
  BY <1>2 DEF ConnectionLost, storageVars, ReleaseAll, MarkAll
<1>3. CASE \E k \in Addresses, c \in Clients : ConnAs(k, c) \/ ConnNew(k, c)
  BY <1>3 DEF ConnAs, ConnNew, UnreleaseAll, MarkAll
<1>4. CASE \E k \in Addresses, m \in LockIds, r \in BOOLEAN : Aq(k, m, r)
  BY <1>4, AcquireTenure DEF Aq, Identified, IndInv, TypeOK
<1>5. CASE \E k \in Addresses, m \in LockIds : ReleaseCommand(k, m)
  <2>1. PICK k \in Addresses, m \in LockIds : ReleaseCommand(k, m)
    BY <1>5
  <2>2. /\ k \in connected /\ client_id[k] \in Clients
        /\ DeleteLocks({m} \cap client_to_locks[client_id[k]])
    BY <2>1 DEF ReleaseCommand, Release, Identified, IndInv, TypeOK
  <2>3. l = m /\ l \in client_to_locks[client_id[k]]
    BY <2>2, DeletionTenure DEF LosesTenure
  <2>4. client_id[k] = locks_to_client[l]
    BY <2>2, <2>3 DEF IndInv, IndexesAgree
  <2> QED
    BY <2>1, <2>2, <2>3, <2>4
<1>6. CASE \E k \in Addresses, m \in LockIds : LockedCommand(k, m)
  <2>1. PICK m \in LockIds : Locked(m)
    BY <1>6 DEF LockedCommand
  <2>2. l \in {n \in {m} : Lapsed(n)}
    BY <2>1, DeletionTenure DEF Locked
  <2> QED
    BY <2>2
<1>7. CASE \E k \in Addresses, m \in LockIds, s \in Signals : SigSet(k, m, s) \/ SigDel(k, m, s)
  BY <1>7 DEF SigSet, SigDel, AddSignal, RemoveSignal
<1>8. CASE MaintenanceRun
  BY <1>8, MaintenanceTenure DEF MaintenanceRun
<1>9. CASE Tick
  BY <1>9 DEF Tick, Elapse
<1> QED
  BY <1>1, <1>2, <1>3, <1>4, <1>5, <1>6, <1>7, <1>8, <1>9 DEF Next, Command

(* No step takes a lock from its owner except the owner's RELEASE and what *)
(* follows the end of the grace period.                                    *)
THEOREM OwnersKeepTenure == Spec => TenureEndsByReleaseOrLapse
<1>1. Spec => [][Next]_vars
  BY PTL DEF Spec
<1> QED
  BY <1>1, NextTenure, Invariance, PTL DEF TenureEndsByReleaseOrLapse

-----------------------------------------------------------------------------
(* The server implements the abstract leases.  Each method of the storage  *)
(* maps to one lease action or to a stutter; that a client's list holds    *)
(* exactly the locks it owns is what makes the maps of release,            *)
(* release_all and maintenance correct.                                    *)

(* A step that leaves alone what the mapping reads is a stutter.           *)
LEMMA LeaseStutter ==
  ASSUME UNCHANGED <<locks_to_client, all_locks, mark_free_after, signals>>
  PROVE  UNCHANGED Lease!leaseVars
  BY DEF Lease!leaseVars, LeasePhase, LeaseFlags

(* The phases a lock can be mapped to, read in both directions.            *)
LEMMA PhaseOf ==
  ASSUME IndInv, NEW l \in LockIds
  PROVE  /\ LeasePhase[l] = "free" <=> l \notin all_locks
         /\ LeasePhase[l] = "held" <=> l \in all_locks /\ mark_free_after[l] = NotMarked
         /\ LeasePhase[l] = "lapsed" <=> Lapsed(l)
         /\ LeasePhase[l] = "grace" <=> l \in all_locks /\ mark_free_after[l] > 0
  BY DEF LeasePhase, Lapsed, Expired, NotMarked, IndInv, TypeOK, StorageTypeOK

(* The list the storage keeps for a client is what it owns.                *)
LEMMA ListIsOwned ==
  ASSUME IndInv, NEW c \in Clients
  PROVE  client_to_locks[c] = Lease!Owned(c)
  BY DEF Lease!Owned, IndInv, TypeOK, StorageTypeOK, IndexesAgree

(* acquire grants a lease that is free or lapsed, or changes nothing.      *)
LEMMA AcquireMaps ==
  ASSUME IndInv, NEW c \in Clients, NEW l \in LockIds, NEW r \in BOOLEAN,
         Acquire(c, l, r)
  PROVE  Lease!Grant(c, l) \/ UNCHANGED Lease!leaseVars
<1>1. CASE ~IsFree(l)
  BY <1>1, LeaseStutter DEF Acquire
<1>2. CASE IsFree(l)
  <2>1. /\ all_locks' = all_locks \cup {l}
        /\ mark_free_after'[l] = NotMarked /\ signals'[l] = {}
        /\ \A m \in LockIds \ {l} : /\ mark_free_after'[m] = mark_free_after[m]
                                    /\ signals'[m] = signals[m]
    BY <1>2 DEF Acquire, IndInv, TypeOK, StorageTypeOK
  <2>2. LeasePhase[l] \in {"free", "lapsed"}
    BY <1>2, PhaseOf DEF IsFree, IndInv, IndexesAgree
  <2>3. locks_to_client' = [locks_to_client EXCEPT ![l] = c]
    BY <1>2 DEF Acquire
  <2>4. LeasePhase' = [LeasePhase EXCEPT ![l] = "held"]
    <3>1. \A m \in LockIds : LeasePhase'[m] = IF m = l THEN "held" ELSE LeasePhase[m]
      BY <2>1 DEF LeasePhase, NotMarked
    <3> QED
      BY <3>1 DEF LeasePhase
  <2>5. LeaseFlags' = [LeaseFlags EXCEPT ![l] = {}]
    <3>1. \A m \in LockIds : LeaseFlags'[m] = IF m = l THEN {} ELSE LeaseFlags[m]
      BY <2>1 DEF LeaseFlags
    <3> QED
      BY <3>1 DEF LeaseFlags
  <2> QED
    BY <2>2, <2>3, <2>4, <2>5 DEF Lease!Grant
<1> QED
  BY <1>1, <1>2

(* _delete_lock vacates the leases.                                        *)
LEMMA DeletionMaps ==
  ASSUME IndInv, NEW S \in SUBSET LockIds, DeleteLocks(S),
         UNCHANGED <<mark_free_after, signals>>
  PROVE  Lease!Vacate(S)
<1>1. locks_to_client' = [l \in LockIds |-> IF l \in S THEN NoClient ELSE locks_to_client[l]]
  BY DEF DeleteLocks
<1>2. LeasePhase' = [l \in LockIds |-> IF l \in S THEN "free" ELSE LeasePhase[l]]
  BY DEF DeleteLocks, LeasePhase
<1>3. LeaseFlags' = [l \in LockIds |-> IF l \in S THEN {} ELSE LeaseFlags[l]]
  BY DEF DeleteLocks, LeaseFlags
<1> QED
  BY <1>1, <1>2, <1>3 DEF Lease!Vacate

(* release gives back the lease it finds in the client's list.             *)
LEMMA ReleaseMaps ==
  ASSUME IndInv, NEW c \in Clients, NEW l \in LockIds, Release(c, l)
  PROVE  Lease!GiveBack(c, l) \/ UNCHANGED Lease!leaseVars
<1>1. CASE l \in client_to_locks[c]
  <2>1. {l} \cap client_to_locks[c] = {l} /\ locks_to_client[l] = c
    BY <1>1 DEF IndInv, IndexesAgree
  <2> QED
    BY <2>1, DeletionMaps DEF Release, Lease!GiveBack
<1>2. CASE l \notin client_to_locks[c]
  <2>1. {l} \cap client_to_locks[c] = {}
    BY <1>2
  <2>2. locks_to_client' = locks_to_client /\ all_locks' = all_locks
    BY <2>1 DEF Release, DeleteLocks, IndInv, TypeOK, StorageTypeOK
  <2> QED
    BY <2>2, LeaseStutter DEF Release
<1> QED
  BY <1>1, <1>2

(* locked and maintenance reclaim leases that have lapsed.                 *)
LEMMA SweepMaps ==
  ASSUME IndInv, NEW S \in SUBSET LockIds, \A l \in S : Lapsed(l), DeleteLocks(S),
         UNCHANGED <<mark_free_after, signals>>
  PROVE  Lease!Reclaim(S)
<1>1. \A l \in S : LeasePhase[l] = "lapsed"
  BY PhaseOf
<1> QED
  BY <1>1, DeletionMaps DEF Lease!Reclaim

(* release_all suspends all leases of the client, unrelease_all restores   *)
(* them.                                                                   *)
LEMMA MarkAllMaps ==
  ASSUME IndInv, NEW c \in Clients, NEW mark \in Nat \cup {NotMarked}, mark # 0,
         MarkAll(c, mark)
  PROVE  Lease!Move(Lease!Owned(c), IF mark = NotMarked THEN "held" ELSE "grace")
<1> DEFINE p == IF mark = NotMarked THEN "held" ELSE "grace"
<1>1. LeasePhase' = [l \in LockIds |-> IF l \in client_to_locks[c] THEN p ELSE LeasePhase[l]]
  <2> SUFFICES ASSUME NEW l \in LockIds
               PROVE  LeasePhase'[l] = IF l \in client_to_locks[c] THEN p ELSE LeasePhase[l]
    BY DEF LeasePhase
  <2>1. mark_free_after'[l] = IF l \in client_to_locks[c] THEN mark ELSE mark_free_after[l]
    BY DEF MarkAll
  <2>2. l \in client_to_locks[c] => l \in all_locks
    BY SentinelAssumption DEF IndInv, IndexesAgree
  <2> QED
    BY <2>1, <2>2 DEF MarkAll, LeasePhase, NotMarked
<1>2. UNCHANGED <<locks_to_client, LeaseFlags>>
  BY DEF MarkAll, LeaseFlags
<1> QED
  BY <1>1, <1>2, ListIsOwned DEF Lease!Move

(* SIGSET and SIGDEL change the signals of one lease that is not free.     *)
LEMMA SignalMaps ==
  ASSUME IndInv, NEW l \in LockIds, NEW s \in Signals, AddSignal(l, s) \/ RemoveSignal(l, s)
  PROVE  (\E F \in SUBSET Signals : Lease!Flag(l, F)) \/ UNCHANGED Lease!leaseVars
<1>1. CASE l \notin all_locks
  <2>1. signals' = signals
    BY <1>1 DEF AddSignal, RemoveSignal, IndInv, TypeOK, StorageTypeOK
  <2> QED
    BY <2>1, LeaseStutter DEF AddSignal, RemoveSignal
<1>2. CASE l \in all_locks
  <2>1. PICK F \in SUBSET Signals : signals' = [signals EXCEPT ![l] = F]
    <3>1. signals' = [signals EXCEPT ![l] = @ \cup {s}] \/ signals' = [signals EXCEPT ![l] = @ \ {s}]
      BY <1>2 DEF AddSignal, RemoveSignal
    <3>2. signals[l] \cup {s} \in SUBSET Signals /\ signals[l] \ {s} \in SUBSET Signals
      BY DEF IndInv, TypeOK, StorageTypeOK
    <3> QED
      BY <3>1, <3>2
  <2>2. LeasePhase[l] # "free"
    BY <1>2, PhaseOf
  <2>3. LeaseFlags' = [LeaseFlags EXCEPT ![l] = F]
    BY ZenonT(30), <1>2, <2>1
       DEF AddSignal, RemoveSignal, LeaseFlags, IndInv, TypeOK, StorageTypeOK
  <2>4. UNCHANGED <<locks_to_client, LeasePhase>>
    BY DEF AddSignal, RemoveSignal, LeasePhase
  <2> QED
    BY <2>2, <2>3, <2>4 DEF Lease!Flag
<1> QED
  BY <1>1, <1>2

(* When time passes, the leases whose deadline it reaches lapse.           *)
LEMMA ElapseMaps ==
  ASSUME IndInv, Elapse
  PROVE  \E S \in SUBSET LockIds : Lease!Lapse(S)
<1> DEFINE S == {l \in all_locks : mark_free_after[l] = 1}
<1>1. S \in SUBSET LockIds
  BY DEF IndInv, TypeOK, StorageTypeOK
<1>2. \A l \in S : LeasePhase[l] = "grace"
  BY <1>1, PhaseOf
<1>3. LeasePhase' = [l \in LockIds |-> IF l \in S THEN "lapsed" ELSE LeasePhase[l]]
  <2> SUFFICES ASSUME NEW l \in LockIds
               PROVE  LeasePhase'[l] = IF l \in S THEN "lapsed" ELSE LeasePhase[l]
    BY DEF LeasePhase
  <2>1. mark_free_after'[l] = IF mark_free_after[l] > 0 THEN mark_free_after[l] - 1
                              ELSE mark_free_after[l]
    BY DEF Elapse
  <2>2. mark_free_after[l] \in Nat \cup {NotMarked}
    BY DEF IndInv, TypeOK, StorageTypeOK
  <2> QED
    BY <2>1, <2>2 DEF Elapse, LeasePhase, NotMarked
<1>4. UNCHANGED <<locks_to_client, LeaseFlags>>
  BY DEF Elapse, LeaseFlags
<1> QED
  BY <1>1, <1>2, <1>3, <1>4 DEF Lease!Lapse, Lease!Move

-----------------------------------------------------------------------------
(* The empty storage is the lease in its first state.                      *)
LEMMA InitMaps == Init => Lease!LeaseInit
  BY DEF Init, StorageInit, Lease!LeaseInit, LeasePhase, LeaseFlags

(* Every step of the server is a step of the lease, or none.               *)
LEMMA NextMaps == IndInv /\ [Next]_vars => [Lease!LeaseNext]_(Lease!leaseVars)
<1> SUFFICES ASSUME IndInv, [Next]_vars
             PROVE  Lease!LeaseNext \/ UNCHANGED Lease!leaseVars
  OBVIOUS
<1>1. CASE UNCHANGED vars
  BY <1>1, LeaseStutter DEF vars, storageVars
<1>2. ASSUME NEW k \in Addresses, ConnectionMade(k)
      PROVE  UNCHANGED Lease!leaseVars
  BY <1>2, LeaseStutter DEF ConnectionMade, storageVars
<1>3. ASSUME NEW k \in Addresses, ConnectionLost(k)
      PROVE  Lease!LeaseNext \/ UNCHANGED Lease!leaseVars
  <2>1. CASE LossReleases(k)
    <3>1. client_id[k] \in Clients /\ MarkAll(client_id[k], DefaultReleaseAllTimeout)
      BY <1>3, <2>1, ServerAssumption
         DEF ConnectionLost, ReleaseAll, LossReleases, IndInv, TypeOK
    <3>2. DefaultReleaseAllTimeout \in Nat /\ DefaultReleaseAllTimeout \notin {0, NotMarked}
      BY ServerAssumption DEF NotMarked
    <3>3. Lease!Suspend(client_id[k])
      BY <3>1, <3>2, MarkAllMaps DEF Lease!Suspend
    <3> QED
      BY <3>1, <3>3 DEF Lease!LeaseNext
  <2>2. CASE ~LossReleases(k)
    BY <1>3, <2>2, LeaseStutter DEF ConnectionLost, storageVars
  <2> QED
    BY <2>1, <2>2
<1>4. ASSUME NEW k \in Addresses, NEW c \in Clients, ConnAs(k, c)
      PROVE  Lease!LeaseNext
  <2>1. Lease!Restore(c)
    BY <1>4, MarkAllMaps DEF ConnAs, UnreleaseAll, NotMarked, Lease!Restore
  <2> QED
    BY <2>1 DEF Lease!LeaseNext
<1>5. ASSUME NEW k \in Addresses, NEW c \in Clients, ConnNew(k, c)
      PROVE  UNCHANGED Lease!leaseVars
  BY <1>5, LeaseStutter DEF ConnNew
<1>6. ASSUME NEW k \in Addresses, NEW l \in LockIds, NEW r \in BOOLEAN, Aq(k, l, r)
      PROVE  Lease!LeaseNext \/ UNCHANGED Lease!leaseVars
  <2>1. client_id[k] \in Clients /\ Acquire(client_id[k], l, r)
    BY <1>6 DEF Aq, Identified, IndInv, TypeOK
  <2> QED
    BY <2>1, AcquireMaps DEF Lease!LeaseNext
<1>7. ASSUME NEW k \in Addresses, NEW l \in LockIds, ReleaseCommand(k, l)
      PROVE  Lease!LeaseNext \/ UNCHANGED Lease!leaseVars
  <2>1. client_id[k] \in Clients /\ Release(client_id[k], l)
    BY <1>7 DEF ReleaseCommand, Identified, IndInv, TypeOK
  <2> QED
    BY <2>1, ReleaseMaps DEF Lease!LeaseNext
<1>8. ASSUME NEW k \in Addresses, NEW l \in LockIds, LockedCommand(k, l)
      PROVE  Lease!LeaseNext
  <2>1. {m \in {l} : Lapsed(m)} \in SUBSET LockIds
    OBVIOUS
  <2> QED
    BY <2>1, <1>8, SweepMaps DEF LockedCommand, Locked, Lease!LeaseNext
<1>9. ASSUME NEW k \in Addresses, NEW l \in LockIds, NEW s \in Signals,
             SigSet(k, l, s) \/ SigDel(k, l, s)
      PROVE  Lease!LeaseNext \/ UNCHANGED Lease!leaseVars
  BY <1>9, SignalMaps DEF SigSet, SigDel, Lease!LeaseNext
<1>10. CASE MaintenanceRun
  <2>1. ExpiredListed \in SUBSET LockIds /\ \A l \in ExpiredListed : Lapsed(l)
    BY SentinelAssumption DEF ExpiredListed, Lapsed, IndInv, TypeOK, StorageTypeOK, IndexesAgree
  <2> QED
    BY <2>1, <1>10, SweepMaps DEF MaintenanceRun, Maintenance, Lease!LeaseNext
<1>11. CASE Tick
  BY <1>11, ElapseMaps DEF Tick, Lease!LeaseNext
<1> QED
  BY <1>1, <1>2, <1>3, <1>4, <1>5, <1>6, <1>7, <1>8, <1>9, <1>10, <1>11 DEF Next, Command

(* Every behaviour of the server is a behaviour of the lease service.      *)
THEOREM ServerImplementsLease == Spec => ImplementsLease
<1>1. Spec => [][Next]_vars
  BY PTL DEF Spec
<1>2. Spec => Init
  BY DEF Spec
<1> QED
  BY <1>1, <1>2, InitMaps, NextMaps, Invariance, PTL DEF ImplementsLease, Lease!LeaseSpec
=============================================================================
