---------------------------- MODULE ClientProcesses ----------------------------
(***************************************************************************)
(* A LiveLockConnection over forks and threads (livelock/client.py,        *)
(* _connect, _send_connect and the client_id property; the thread check of *)
(* livelock/connection.py).  A fork copies the connection object: the child*)
(* has its parent's socket, client id and LiveLock objects, and must use   *)
(* none of them.  The operating system keeps a connection open as long as  *)
(* any process has a descriptor of it.                                     *)
(*                                                                         *)
(* The sockets do not fail here (LiveLockClient is about that).  Calls are *)
(* LiveLock.acquire(blocking=False) and release, of objects made by the    *)
(* process or by its ancestors.  The thread a buffer is bound to is the one*)
(* whose call is followed by doing and call; any other may fork.           *)
(***************************************************************************)
EXTENDS LiveLockServer, Sequences

CONSTANTS
  Processes    \* process ids, which are not reused

ASSUME ProcessAssumption == ~RepeatConn

VARIABLES
  status,      \* "unborn", "running" or "gone"
  sock,        \* per process: the connection of _sock
  sock_pid,    \* ... and _sock_pid
  own_id,      \* _client_id
  id_pid,      \* ... and _client_id_pid
  acquired,    \* the LiveLock objects with acquired set: <<lock, process that acquired it>>
  copied,      \* the locks each process was forked with an acquired object of
  doing,       \* what each process does
  call,        \* the request it wants answered
  holders,     \* per connection: the processes with a descriptor of its socket
  wire,        \* per connection: the requests on their way
  answers      \* per connection: the answers on their way

objectVars == <<sock, sock_pid, own_id, id_pid, acquired, copied>>

threadVars == <<doing, call>>

osVars == <<status, holders>>

streamVars == <<wire, answers>>

processVars == <<vars, objectVars, threadVars, osVars, streamVars>>

Objects == LockIds \X Processes

Calls == [verb : {"AQ", "RELEASE"}, object : Objects]

Conns == [verb : {"CONN"}, client : Clients \cup {NoClient}]

Nothing == [verb |-> "none"]

ProcessTypeOK ==
  /\ TypeOK
  /\ status \in [Processes -> {"unborn", "running", "gone"}]
  /\ sock \in [Processes -> Addresses \cup {NoAddress}]
  /\ sock_pid \in [Processes -> Processes]
  /\ own_id \in [Processes -> Clients \cup {NoClient}]
  /\ id_pid \in [Processes -> Processes]
  /\ acquired \in [Processes -> SUBSET Objects]
  /\ copied \in [Processes -> SUBSET LockIds]
  /\ doing \in [Processes -> {"idle", "connecting", "introducing", "waiting"}]
  /\ call \in [Processes -> Calls \cup {Nothing}]
  /\ holders \in [Addresses -> SUBSET Processes]
  /\ wire \in [Addresses -> Seq(Calls \cup Conns)]
  /\ answers \in [Addresses -> Seq(Clients \cup {TRUE, FALSE})]

ProcessInit ==
  /\ Init
  /\ status \in [Processes -> {"unborn", "running"}]
  /\ sock = [p \in Processes |-> NoAddress]
  /\ sock_pid = [p \in Processes |-> p]
  /\ own_id = [p \in Processes |-> NoClient]
  /\ id_pid = [p \in Processes |-> p]
  /\ acquired = [p \in Processes |-> {}]
  /\ copied = [p \in Processes |-> {}]
  /\ doing = [p \in Processes |-> "idle"]
  /\ call = [p \in Processes |-> Nothing]
  /\ holders = [k \in Addresses |-> {}]
  /\ wire = [k \in Addresses |-> <<>>]
  /\ answers = [k \in Addresses |-> <<>>]

-----------------------------------------------------------------------------
(* The library.                                                            *)

(* Mutant: a socket is a socket.                                           *)
MustConnectWithout(p) == sock[p] = NoAddress

(* A socket that another process opened is no socket.                      *)
MustConnect(p) == sock[p] = NoAddress \/ sock_pid[p] # p

(* Mutant: the id of whoever connected first.                              *)
InheritedId(p) == own_id[p]

(* The property client_id: an id that another process was given is none.   *)
ClientId(p) == IF id_pid[p] = p THEN own_id[p] ELSE NoClient

SendOn(k, request) == wire' = [wire EXCEPT ![k] = Append(@, request)]

(* acquire of an object that is not acquired, release of one that is.  Its *)
(* lock is no longer acquired from the moment its release is asked for.    *)
MayCall(p, request) ==
  /\ status[p] = "running"
  /\ IF request.verb = "RELEASE" THEN request.object \in acquired[p]
     ELSE request.object[2] = p /\ request.object \notin acquired[p]

Begin(p, request) ==
  /\ doing[p] = "idle" /\ MayCall(p, request)
  /\ call' = [call EXCEPT ![p] = request]
  /\ acquired' = [acquired EXCEPT ![p] = @ \ {request.object}]
  /\ \/ /\ MustConnect(p)
        /\ doing' = [doing EXCEPT ![p] = "connecting"]
        /\ UNCHANGED wire
     \/ /\ ~MustConnect(p)
        /\ doing' = [doing EXCEPT ![p] = "waiting"]
        /\ SendOn(sock[p], request)
  /\ UNCHANGED <<vars, sock, sock_pid, own_id, id_pid, copied, osVars, answers>>

(* A new socket and buffer, and CONN at once.  The old socket object is    *)
(* dropped, and with it this process's descriptor.                         *)
Connect(p, k) ==
  /\ status[p] = "running" /\ doing[p] = "connecting"
  /\ holders[k] = {}
  /\ ConnectionMade(k)
  /\ sock' = [sock EXCEPT ![p] = k]
  /\ sock_pid' = [sock_pid EXCEPT ![p] = p]
  /\ holders' = [j \in Addresses |-> IF j = k THEN {p} ELSE holders[j] \ {p}]
  /\ doing' = [doing EXCEPT ![p] = "introducing"]
  /\ SendOn(k, [verb |-> "CONN", client |-> ClientId(p)])
  /\ UNCHANGED <<own_id, id_pid, acquired, copied, call, status, answers>>

TakeAnswer(p) ==
  /\ status[p] = "running"
  /\ answers[sock[p]] # <<>>
  /\ answers' = [answers EXCEPT ![sock[p]] = Tail(@)]

(* The answer to CONN is the id from now on; the call follows.             *)
Introduced(p) ==
  /\ doing[p] = "introducing"
  /\ TakeAnswer(p)
  /\ own_id' = [own_id EXCEPT ![p] = Head(answers[sock[p]])]
  /\ id_pid' = [id_pid EXCEPT ![p] = p]
  /\ doing' = [doing EXCEPT ![p] = "waiting"]
  /\ SendOn(sock[p], call[p])
  /\ UNCHANGED <<vars, sock, sock_pid, acquired, copied, call, osVars>>

Return(p) ==
  /\ doing[p] = "waiting"
  /\ TakeAnswer(p)
  /\ acquired' = [acquired EXCEPT ![p] =
                    IF call[p].verb = "AQ" /\ Head(answers[sock[p]]) = TRUE
                    THEN @ \cup {call[p].object} ELSE @]
  /\ doing' = [doing EXCEPT ![p] = "idle"]
  /\ call' = [call EXCEPT ![p] = Nothing]
  /\ UNCHANGED <<vars, sock, sock_pid, own_id, id_pid, copied, osVars, wire>>

(* Another thread calls: the buffer refuses it, but only once the request  *)
(* has been sent.                                                          *)
ForeignCall(p, request) ==
  /\ MayCall(p, request)
  /\ doing[p] # "connecting" /\ ~MustConnect(p)
  /\ SendOn(sock[p], request)
  /\ UNCHANGED <<vars, objectVars, threadVars, osVars, answers>>

-----------------------------------------------------------------------------
(* The operating system.                                                   *)

(* The child has everything but the threads of its parent.                 *)
Fork(p, q) ==
  /\ status[p] = "running" /\ status[q] = "unborn"
  /\ status' = [status EXCEPT ![q] = "running"]
  /\ sock' = [sock EXCEPT ![q] = sock[p]]
  /\ sock_pid' = [sock_pid EXCEPT ![q] = sock_pid[p]]
  /\ own_id' = [own_id EXCEPT ![q] = own_id[p]]
  /\ id_pid' = [id_pid EXCEPT ![q] = id_pid[p]]
  /\ acquired' = [acquired EXCEPT ![q] = acquired[p]]
  /\ copied' = [copied EXCEPT ![q] = copied[p] \cup {o[1] : o \in acquired[p]}]
  /\ holders' = [k \in Addresses |->
                   IF p \in holders[k] THEN holders[k] \cup {q} ELSE holders[k]]
  /\ UNCHANGED <<vars, threadVars, streamVars>>

(* A process ends in whatever way; its descriptors are closed.             *)
Exit(p) ==
  /\ status[p] = "running"
  /\ status' = [status EXCEPT ![p] = "gone"]
  /\ holders' = [k \in Addresses |-> holders[k] \ {p}]
  /\ UNCHANGED <<vars, objectVars, threadVars, streamVars>>

-----------------------------------------------------------------------------
(* The server takes the requests of a connection in their order.           *)
Answer(k, answer) ==
  /\ wire' = [wire EXCEPT ![k] = Tail(@)]
  /\ answers' = [answers EXCEPT ![k] = Append(@, answer)]
  /\ UNCHANGED <<objectVars, threadVars, osVars>>

(* uuid4: an id that nobody has or had.                                    *)
Fresh(c) == \A p \in Processes : own_id[p] # c

Execute(k) ==
  /\ wire[k] # <<>>
  /\ LET request == Head(wire[k])  l == request.object[1] IN
     \/ /\ request.verb = "CONN"
        /\ \E c \in Clients :
             /\ IF request.client = NoClient THEN Fresh(c) /\ ConnNew(k, c)
                ELSE c = request.client /\ ConnAs(k, c)
             /\ Answer(k, c)
     \/ /\ request.verb = "AQ"
        /\ Aq(k, l, FALSE)
        /\ Answer(k, AcquireReply(client_id[k], l, FALSE))
     \/ /\ request.verb = "RELEASE"
        /\ ReleaseCommand(k, l)
        /\ Answer(k, ReleaseReply(client_id[k], l))

(* The end of a connection reaches the server when no process has it.      *)
Lose(k) ==
  /\ holders[k] = {}
  /\ ConnectionLost(k)
  /\ wire' = [wire EXCEPT ![k] = <<>>]
  /\ answers' = [answers EXCEPT ![k] = <<>>]
  /\ UNCHANGED <<objectVars, threadVars, osVars>>

Background ==
  /\ MaintenanceRun \/ Tick
  /\ UNCHANGED <<objectVars, threadVars, osVars, streamVars>>

ProcessNext ==
  \/ \E p \in Processes :
       \/ \E request \in Calls : Begin(p, request)
       \/ \E k \in Addresses : Connect(p, k)
       \/ Introduced(p) \/ Return(p) \/ Exit(p)
       \/ \E q \in Processes : Fork(p, q)
  \/ \E k \in Addresses : Execute(k) \/ Lose(k)
  \/ Background

ProcessSpec == ProcessInit /\ [][ProcessNext]_processVars

(* And with other threads that use a LiveLock object of this one (its      *)
(* __del__ runs in any thread).                                            *)
ThreadedNext ==
  \/ ProcessNext
  \/ \E p \in Processes, request \in Calls : ForeignCall(p, request)

ThreadedSpec == ProcessInit /\ [][ThreadedNext]_processVars

-----------------------------------------------------------------------------
(* A process that acquired a lock itself has it: the server knows it as    *)
(* the owner under the id that the process goes by, and has not marked the *)
(* lock to be freed - however its children use, release or drop the copies *)
(* that they have of its connection and its locks.  (The pid checks of     *)
(* _connect and client_id.)  A process that was forked with a copy of an   *)
(* acquired object of the lock may itself release the lock through it.     *)
AcquiredIsOwned ==
  \A p \in Processes, l \in LockIds :
     status[p] = "running" /\ <<l, p>> \in acquired[p] /\ l \notin copied[p]
       => locks_to_client[l] = own_id[p] /\ mark_free_after[l] = NotMarked

(* Between its calls a process has nothing outstanding: no request of      *)
(* another process is on its connection, and no answer that its next call  *)
(* would take for its own.                                                 *)
NothingLeftOver ==
  \A p \in Processes :
     status[p] = "running" /\ doing[p] = "idle" /\ ~MustConnect(p)
       => wire[sock[p]] = <<>> /\ answers[sock[p]] = <<>>
=============================================================================
