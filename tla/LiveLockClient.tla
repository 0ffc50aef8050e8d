---------------------------- MODULE LiveLockClient ----------------------------
(***************************************************************************)
(* The client library (livelock/client.py, LiveLockConnection._send_command*)
(* and LiveLock) talking to the server over connections that fail.  A      *)
(* client sends one request at a time and waits for the answer; on an error*)
(* or timeout it closes the socket, connects again, says CONN with its id  *)
(* and sends the same request once more.  The server may go on believing   *)
(* in the closed connection for as long as it likes, and a request that    *)
(* was sent on it may still arrive, after whatever was sent since.         *)
(*                                                                         *)
(* A client here is one LiveLockConnection that has its id.  How often it  *)
(* retries before it raises is left open: SendCommand is about that.  The  *)
(* calls modelled are LiveLock.acquire(blocking=False) and release;        *)
(* CONNINFO, which changes nothing on the server, is left out.             *)
(***************************************************************************)
EXTENDS LiveLockServer

CONSTANTS
  Reentrant    \* the locks are LiveRLocks

ASSUME ClientAssumption == Reentrant \in BOOLEAN /\ ~RepeatConn

VARIABLES
  sock,      \* the connection each client uses
  doing,     \* what each client does
  call,      \* the request each client has to get answered
  relied,    \* the locks each client acquired and has not asked to release
  wire,      \* per connection: the request on its way
  answer,    \* per connection: the answer on its way
  overtaken  \* the clients of which a late request undid the latest CONN (no code: Overtaken)

clientVars == <<sock, doing, call, relied>>

wireVars == <<wire, answer>>

allVars == <<vars, clientVars, wireVars, overtaken>>

Calls == [verb : {"AQ", "RELEASE"}, lock : LockIds]

Conns == [verb : {"CONN"}, client : Clients]

Nothing == [verb |-> "none"]

ClientTypeOK ==
  /\ TypeOK
  /\ sock \in [Clients -> Addresses \cup {NoAddress}]
  /\ doing \in [Clients -> {"idle", "connecting", "introducing", "waiting", "crashed"}]
  /\ call \in [Clients -> Calls \cup {Nothing}]
  /\ relied \in [Clients -> SUBSET LockIds]
  /\ wire \in [Addresses -> Calls \cup Conns \cup {Nothing}]
  /\ answer \in [Addresses -> {"none", "yes", "no"}]
  /\ overtaken \in SUBSET Clients

ClientInit ==
  /\ Init
  /\ sock = [c \in Clients |-> NoAddress]
  /\ doing = [c \in Clients |-> "idle"]
  /\ call = [c \in Clients |-> Nothing]
  /\ relied = [c \in Clients |-> {}]
  /\ wire = [k \in Addresses |-> Nothing]
  /\ answer = [k \in Addresses |-> "none"]
  /\ overtaken = {}

-----------------------------------------------------------------------------
(* The client.                                                             *)

(* A request is sent: on a connection that the server has lost, it goes    *)
(* nowhere.                                                                *)
Send(k, request) ==
  wire' = [wire EXCEPT ![k] = IF k \in connected THEN request ELSE Nothing]

(* acquire and release begin: a lock is no longer relied on from the       *)
(* moment its release is asked for.                                        *)
Begin(c, request) ==
  /\ doing[c] = "idle"
  /\ (request.verb = "RELEASE") <=> (request.lock \in relied[c])
  /\ call' = [call EXCEPT ![c] = request]
  /\ relied' = [relied EXCEPT ![c] = @ \ {request.lock}]
  /\ \/ /\ sock[c] = NoAddress
        /\ doing' = [doing EXCEPT ![c] = "connecting"]
        /\ UNCHANGED wireVars
     \/ /\ sock[c] # NoAddress
        /\ doing' = [doing EXCEPT ![c] = "waiting"]
        /\ Send(sock[c], request)
        /\ UNCHANGED answer
  /\ UNCHANGED <<vars, sock, overtaken>>

(* A new socket, from an address nobody uses, and CONN at once.            *)
Connect(c, k) ==
  /\ doing[c] = "connecting"
  /\ \A d \in Clients : sock[d] # k
  /\ ConnectionMade(k)
  /\ sock' = [sock EXCEPT ![c] = k]
  /\ doing' = [doing EXCEPT ![c] = "introducing"]
  /\ wire' = [wire EXCEPT ![k] = [verb |-> "CONN", client |-> c]]
  /\ UNCHANGED <<call, relied, answer, overtaken>>

(* The answer to CONN: the request is sent, again if it was sent before.   *)
Introduced(c) ==
  /\ doing[c] = "introducing"
  /\ answer[sock[c]] # "none"
  /\ doing' = [doing EXCEPT ![c] = "waiting"]
  /\ Send(sock[c], call[c])
  /\ answer' = [answer EXCEPT ![sock[c]] = "none"]
  /\ UNCHANGED <<vars, sock, call, relied, overtaken>>

(* The answer to the request: acquire returns it.                          *)
Return(c) ==
  /\ doing[c] = "waiting"
  /\ answer[sock[c]] # "none"
  /\ doing' = [doing EXCEPT ![c] = "idle"]
  /\ call' = [call EXCEPT ![c] = Nothing]
  /\ relied' = [relied EXCEPT ![c] =
                  IF call[c].verb = "AQ" /\ answer[sock[c]] = "yes"
                  THEN @ \cup {call[c].lock} ELSE @]
  /\ answer' = [answer EXCEPT ![sock[c]] = "none"]
  /\ UNCHANGED <<vars, sock, wire, overtaken>>

(* The client leaves its socket.  An answer on it is lost; a request that  *)
(* was sent on it goes its way, for close recalls nothing.                 *)
LeaveSocket(c) ==
  /\ sock' = [sock EXCEPT ![c] = NoAddress]
  /\ answer' = [k \in Addresses |-> IF sock[c] = k THEN "none" ELSE answer[k]]
  /\ UNCHANGED <<vars, wire, overtaken>>

(* A socket error or timeout: the client tries again with a new socket, or *)
(* raises.                                                                 *)
Fail(c) ==
  /\ doing[c] \in {"connecting", "introducing", "waiting"}
  /\ \/ /\ doing' = [doing EXCEPT ![c] = "connecting"]
        /\ UNCHANGED call
     \/ /\ doing' = [doing EXCEPT ![c] = "idle"]
        /\ call' = [call EXCEPT ![c] = Nothing]
  /\ LeaveSocket(c)
  /\ UNCHANGED relied

(* The client's process ends; the operating system closes its socket.      *)
Crash(c) ==
  /\ doing[c] # "crashed"
  /\ doing' = [doing EXCEPT ![c] = "crashed"]
  /\ call' = [call EXCEPT ![c] = Nothing]
  /\ relied' = [relied EXCEPT ![c] = {}]
  /\ LeaveSocket(c)

-----------------------------------------------------------------------------
(* The client's latest connection that has said CONN.                      *)
Session(c) == sock[c] \in connected /\ client_id[sock[c]] = c

(* The connections that the loss of which will start the grace period of   *)
(* what c takes on k.                                                      *)
Watched(c, k) ==
  \/ client_last_address[c] \in {k, NoAddress}
  \/ client_last_address[c] \in connected /\ client_id[client_last_address[c]] = c

(* A late request is one on a connection that its client has left.  It     *)
(* undoes what the client's latest CONN has arranged if it is a CONN that  *)
(* comes after it, or an AQ that is granted after the connection of that   *)
(* CONN has gone.  Until the client says CONN again, its locks then hang   *)
(* on an address that is not, or not any more, its own.                    *)
Overtaken(k) ==
  {c \in Clients : sock[c] # k /\
     \/ wire[k] = [verb |-> "CONN", client |-> c] /\ Session(c)
     \/ wire[k].verb = "AQ" /\ IsFree(wire[k].lock) /\ client_id[k] = c /\ ~Watched(c, k)}

Returning(k) == {c \in Clients : sock[c] = k /\ wire[k].verb = "CONN"}

(* The server executes the request that arrives on an open connection.  An *)
(* answer to a socket that is closed goes nowhere.                         *)

Answer(k, yes) ==
  /\ wire' = [wire EXCEPT ![k] = Nothing]
  /\ answer' = [answer EXCEPT ![k] = IF \E c \in Clients : sock[c] = k
                                     THEN IF yes THEN "yes" ELSE "no"
                                     ELSE "none"]
  /\ overtaken' = (overtaken \ Returning(k)) \cup Overtaken(k)
  /\ UNCHANGED clientVars

Execute(k) ==
  \/ /\ wire[k].verb = "CONN"
     /\ ConnAs(k, wire[k].client)
     /\ Answer(k, TRUE)
  \/ /\ wire[k].verb = "AQ"
     /\ Aq(k, wire[k].lock, Reentrant)
     /\ Answer(k, AcquireReply(client_id[k], wire[k].lock, Reentrant))
  \/ /\ wire[k].verb = "RELEASE"
     /\ ReleaseCommand(k, wire[k].lock)
     /\ Answer(k, ReleaseReply(client_id[k], wire[k].lock))

(* The server finds a connection closed or broken.  What was on its way to *)
(* the server is gone; an answer may still wait in the client's socket.    *)
Lose(k) ==
  /\ ConnectionLost(k)
  /\ wire' = [wire EXCEPT ![k] = Nothing]
  /\ UNCHANGED <<answer, clientVars, overtaken>>

Background == (MaintenanceRun \/ Tick) /\ UNCHANGED <<clientVars, wireVars, overtaken>>

ClientNext ==
  \/ \E c \in Clients :
       \/ \E request \in Calls : Begin(c, request)
       \/ \E k \in Addresses : Connect(c, k)
       \/ Introduced(c) \/ Return(c) \/ Fail(c) \/ Crash(c)
  \/ \E k \in Addresses : Execute(k) \/ Lose(k)
  \/ Background

ClientSpec == ClientInit /\ [][ClientNext]_allVars

(* A connection that no client uses any more: its end was closed by the    *)
(* client or its operating system, and FIN, reset or TCP_USER_TIMEOUT tell *)
(* the server in the end.                                                  *)
Abandoned(k) == k \in connected /\ \A c \in Clients : sock[c] # k

(* And the scheduler task loops forever, and time passes; nobody has to    *)
(* connect or send anything.                                               *)
FairClientSpec ==
  /\ ClientSpec
  /\ \A k \in Addresses : WF_allVars(Abandoned(k) /\ Lose(k))
  /\ WF_allVars(Tick /\ UNCHANGED <<clientVars, wireVars, overtaken>>)
  /\ WF_allVars(MaintenanceRun /\ UNCHANGED <<clientVars, wireVars, overtaken>>)

-----------------------------------------------------------------------------
(* A lock the client relies on is lost only because the grace period ran   *)
(* out, or by a RELEASE of its own that it sent on a connection it has     *)
(* left and asked for again since: no other retry and no request of        *)
(* anybody else takes it away.  (_send_command sends requests twice; the   *)
(* server keeps serving the old connection.)                               *)
LateRelease(c, l) ==
  \E k \in connected :
    /\ client_id[k] = c /\ sock[c] # k
    /\ wire[k] = [verb |-> "RELEASE", lock |-> l] /\ wire'[k] = Nothing

ReliedLocksAreLostByLapseOrLateRelease ==
  [][\A c \in Clients : \A l \in relied[c] \cap relied'[c] :
       locks_to_client[l] = c /\ locks_to_client'[l] # c
         => Lapsed(l) \/ LateRelease(c, l)]_allVars

(* A lock that is not marked to be freed, and of whose owner no connection *)
(* is open: nothing in the server will ever free it.                       *)
Orphaned(l) ==
  /\ l \in all_locks /\ mark_free_after[l] = NotMarked
  /\ \A k \in connected : client_id[k] # locks_to_client[l]

(* A lock is orphaned only by a late CONN or AQ of its owner that came     *)
(* after, and no longer once the owner has said CONN again: sockets that   *)
(* fail, crashes, losses in any order and all other late requests leave    *)
(* none.  (The address check of connection_lost.)                          *)
OrphansAreOvertaken == \A l \in LockIds : Orphaned(l) => locks_to_client[l] \in overtaken

(* A crashed client's locks are all freed in the end, those too that its   *)
(* late requests take, unless one of these undid its latest CONN.          *)
CrashedClientsLocksAreFreed ==
  \A c \in Clients :
     (doing[c] = "crashed") ~> (c \in overtaken \/ \A l \in LockIds : locks_to_client[l] # c)

-----------------------------------------------------------------------------
(* What words of the project say and the code does not do.                 *)

(* "other old connection can be dead": while the client's session is open, *)
(* and no late request interferes, the loss of an older connection does    *)
(* not release its locks.                                                  *)
OldConnectionsDoNotMatter ==
  [][\A c \in Clients \ overtaken : (Session(c) /\ Session(c)') =>
       \A l \in LockIds :
         (locks_to_client[l] = c /\ mark_free_after[l] = NotMarked)
           => ~(locks_to_client'[l] = c /\ mark_free_after'[l] # NotMarked)]_allVars
=============================================================================
