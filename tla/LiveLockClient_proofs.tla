------------------------ MODULE LiveLockClient_proofs ------------------------
(***************************************************************************)
(* The client library over its failing connections drives the server only  *)
(* through the server's own steps, so that what is proved of the server    *)
(* for arbitrary clients holds for this one.                               *)
(*                                                                         *)
(* And what a client may rely on, although requests get through from       *)
(* sockets that it has left.  The strengthening says whose request can be  *)
(* on the way (Conversations), and what the server's table of last         *)
(* addresses knows about the connections of a client that no late request  *)
(* has overtaken (Ownership).                                              *)
(***************************************************************************)
EXTENDS LiveLockClient, LiveLockServer_proofs

(* The clients' part of ClientTypeOK, which is inductive by itself.        *)
ClientTypes ==
  /\ sock \in [Clients -> Addresses \cup {NoAddress}]
  /\ doing \in [Clients -> {"idle", "connecting", "introducing", "waiting", "crashed"}]
  /\ call \in [Clients -> Calls \cup {Nothing}]
  /\ relied \in [Clients -> SUBSET LockIds]
  /\ wire \in [Addresses -> Calls \cup Conns \cup {Nothing}]
  /\ answer \in [Addresses -> {"none", "yes", "no"}]
  /\ overtaken \in SUBSET Clients

(* A composition starts with the server in its first state, and typed.     *)
LEMMA ClientInitMaps == ClientInit => Init /\ ClientTypes
  BY DEF ClientInit, ClientTypes

(* Only a RELEASE or an AQ has a lock, only a CONN has a client.           *)
LEMMA RequestKinds ==
  ASSUME NEW r \in Calls \cup Conns \cup {Nothing}
  PROVE  /\ r.verb = "CONN" => r \in Conns /\ r.client \in Clients
         /\ r.verb \in {"AQ", "RELEASE"} => r \in Calls /\ r.lock \in LockIds
  BY DEF Calls, Conns, Nothing

(* What a request and its answer may be stays so.                          *)
LEMMA ClientTypesKept ==
  ASSUME ClientTypes, [ClientNext]_allVars PROVE ClientTypes'
<1> USE DEF ClientTypes
<1>1. CASE UNCHANGED allVars
  BY <1>1 DEF allVars, clientVars, wireVars
<1>2. ASSUME NEW c \in Clients, NEW request \in Calls, Begin(c, request)
      PROVE  ClientTypes'
  BY <1>2 DEF Begin, Send, wireVars
<1>3. ASSUME NEW c \in Clients, NEW k \in Addresses, Connect(c, k)
      PROVE  ClientTypes'
  BY <1>3 DEF Connect, Conns
<1>4. ASSUME NEW c \in Clients, Introduced(c) PROVE ClientTypes'
  BY <1>4 DEF Introduced, Send
<1>5. ASSUME NEW c \in Clients, Return(c) PROVE ClientTypes'
  <2>1. call[c].verb = "AQ" => call[c].lock \in LockIds
    BY RequestKinds
  <2> QED
    BY <1>5, <2>1 DEF Return
<1>6. ASSUME NEW c \in Clients, LeaveSocket(c)
      PROVE  /\ sock' \in [Clients -> Addresses \cup {NoAddress}]
             /\ wire' \in [Addresses -> Calls \cup Conns \cup {Nothing}]
             /\ answer' \in [Addresses -> {"none", "yes", "no"}]
             /\ overtaken' = overtaken
  BY <1>6 DEF LeaveSocket
<1>7. ASSUME NEW c \in Clients, Fail(c) \/ Crash(c) PROVE ClientTypes'
  BY <1>6, <1>7 DEF Fail, Crash
<1>8. ASSUME NEW k \in Addresses, NEW yes \in BOOLEAN, Answer(k, yes)
      PROVE  ClientTypes'
  BY <1>8 DEF Answer, Overtaken, clientVars
<1>9. ASSUME NEW k \in Addresses, Execute(k) PROVE ClientTypes'
  <2>1. AcquireReply(client_id[k], wire[k].lock, Reentrant) \in BOOLEAN
    BY DEF AcquireReply, IsFree, Lapsed
  <2>2. ReleaseReply(client_id[k], wire[k].lock) \in BOOLEAN
    BY DEF ReleaseReply
  <2> QED
    BY <1>8, <1>9, <2>1, <2>2 DEF Execute
<1>10. ASSUME NEW k \in Addresses, Lose(k) PROVE ClientTypes'
  BY <1>10 DEF Lose, clientVars
<1>11. CASE Background
  BY <1>11 DEF Background, clientVars, wireVars
<1> QED
  BY <1>1, <1>2, <1>3, <1>4, <1>5, <1>7, <1>9, <1>10, <1>11 DEF ClientNext

(* One step per action of the composition: a step of the server, or one    *)
(* the server does not see.                                                *)
LEMMA ClientNextMaps ==
  ASSUME ClientTypes, [ClientNext]_allVars PROVE [Next]_vars
<1>1. CASE UNCHANGED allVars
  BY <1>1 DEF allVars
<1>2. ASSUME NEW c \in Clients, NEW request \in Calls, Begin(c, request)
      PROVE  UNCHANGED vars
  BY <1>2 DEF Begin
<1>3. ASSUME NEW c \in Clients, NEW k \in Addresses, Connect(c, k)
      PROVE  Next
  BY <1>3 DEF Connect, Next
<1>4. ASSUME NEW c \in Clients, Introduced(c) \/ Return(c) \/ Fail(c) \/ Crash(c)
      PROVE  UNCHANGED vars
  BY <1>4 DEF Introduced, Return, Fail, Crash, LeaveSocket
<1>5. ASSUME NEW k \in Addresses, Execute(k) PROVE Next
  <2>1. wire[k] \in Calls \cup Conns \cup {Nothing}
    BY DEF ClientTypes
  <2>2. CASE wire[k].verb = "CONN" /\ ConnAs(k, wire[k].client)
    BY <2>1, <2>2, RequestKinds DEF Command, Next
  <2>3. CASE wire[k].verb = "AQ" /\ Aq(k, wire[k].lock, Reentrant)
    BY <2>1, <2>3, RequestKinds, ClientAssumption DEF Command, Next
  <2>4. CASE wire[k].verb = "RELEASE" /\ ReleaseCommand(k, wire[k].lock)
    BY <2>1, <2>4, RequestKinds DEF Command, Next
  <2> QED
    BY <1>5, <2>2, <2>3, <2>4 DEF Execute
<1>6. ASSUME NEW k \in Addresses, Lose(k) PROVE Next
  BY <1>6 DEF Lose, Next
<1>7. CASE Background
  BY <1>7 DEF Background, Next
<1> QED
  BY <1>1, <1>2, <1>3, <1>4, <1>5, <1>6, <1>7 DEF ClientNext

-----------------------------------------------------------------------------
(* So requests and answers are always what they may be.                    *)
LEMMA ClientTypesInvariant == ClientSpec => []ClientTypes
  BY ClientInitMaps, ClientTypesKept, PTL DEF ClientSpec

(* Whatever the client library and the network do, the server only takes   *)
(* steps of its own specification.                                         *)
THEOREM ClientDrivesServer == ClientSpec => Spec
  BY ClientInitMaps, ClientNextMaps, ClientTypesInvariant, PTL DEF ClientSpec, Spec

(* The composition is type-correct.                                        *)
THEOREM ClientTypeCorrect == ClientSpec => []ClientTypeOK
<1>1. TypeOK /\ ClientTypes => ClientTypeOK
  BY DEF ClientTypeOK, ClientTypes
<1> QED
  BY <1>1, ClientDrivesServer, TypeCorrect, ClientTypesInvariant, PTL

-----------------------------------------------------------------------------
(* The only requests a server can get are those of clients that wait for   *)
(* the answer, and late ones, on connections that nobody uses any more.    *)
(* Only a late CONN or AQ of its own can part a client from the address    *)
(* that the server remembers of it, and only until its next CONN.          *)

(* Clients have different sockets, and one as soon as they have asked.     *)
Sockets ==
  /\ \A c, d \in Clients : sock[c] = sock[d] /\ sock[c] # NoAddress => c = d
  /\ \A c \in Clients :
       /\ doing[c] \in {"connecting", "crashed"} => sock[c] = NoAddress
       /\ doing[c] \in {"introducing", "waiting"} => sock[c] # NoAddress

(* What is on the way is the request or the answer that a client waits     *)
(* for, or a late request.                                                 *)
Awaited(c, request) ==
  \/ doing[c] = "introducing" /\ request = [verb |-> "CONN", client |-> c]
  \/ doing[c] = "waiting" /\ request = call[c]

Left(k) == \A c \in Clients : sock[c] # k

OnTheWay ==
  \A k \in Addresses :
    /\ wire[k] # Nothing => Left(k) \/ \E c \in Clients : sock[c] = k /\ Awaited(c, wire[k])
    /\ answer[k] # "none" =>
         /\ wire[k] = Nothing
         /\ \E c \in Clients : sock[c] = k /\ doing[c] \in {"introducing", "waiting"}

(* A client does not rely on the lock that it asks for or gives up.        *)
AskingNotRelying ==
  \A c \in Clients : doing[c] \in {"connecting", "introducing", "waiting"} =>
    call[c] \in Calls /\ call[c].lock \notin relied[c]

(* A client's connection has no other's id, and with its own it was the    *)
(* last to say CONN, unless a late request came after it.                  *)
LatestIsCurrent ==
  \A c \in Clients : sock[c] \in connected =>
    /\ client_id[sock[c]] \in {NoClient, c}
    /\ client_id[sock[c]] = c /\ c \notin overtaken
         => client_last_address[c] \in {sock[c], NoAddress}

(* Once a client's last known connection has gone, its locks are marked.   *)
LeftLocksAreMarked ==
  \A c \in Clients \ overtaken :
    /\ client_last_address[c] # NoAddress
    /\ ~(client_last_address[c] \in connected /\ client_id[client_last_address[c]] = c)
    => \A l \in client_to_locks[c] : mark_free_after[l] # NotMarked

(* The clients' and the network's part, and the server's.                  *)
Conversations == Sockets /\ OnTheWay /\ AskingNotRelying

Ownership == LatestIsCurrent /\ LeftLocksAreMarked /\ OrphansAreOvertaken

(* There are no conversations and no owners at first.                      *)
LEMMA ClientInitInv == ClientInit => Conversations /\ Ownership
  BY DEF ClientInit, Init, StorageInit, Conversations, Ownership, Sockets, OnTheWay,
         AskingNotRelying, LatestIsCurrent, LeftLocksAreMarked, OrphansAreOvertaken, Orphaned

-----------------------------------------------------------------------------
(* The conversations.  Begin: the socket of an idle client is silent.      *)
LEMMA BeginConverses ==
  ASSUME ClientTypes, Conversations, NEW c \in Clients, NEW request \in Calls,
         Begin(c, request)
  PROVE  Conversations'
<1> USE DEF Conversations, ClientTypes
<1>1. Sockets'
  BY DEF Sockets, Begin, wireVars
<1>2. AskingNotRelying'
  BY DEF AskingNotRelying, Begin
<1>3. OnTheWay'
  <2>1. CASE sock[c] = NoAddress
    BY <2>1, SentinelAssumption DEF OnTheWay, Left, Begin, Awaited, wireVars, Sockets
  <2>2. CASE sock[c] # NoAddress
    <3>1. sock[c] \in Addresses /\ answer[sock[c]] = "none"
      BY <2>2 DEF OnTheWay, Sockets, Begin
    <3>2. /\ \E sent \in {request, Nothing} : wire' = [wire EXCEPT ![sock[c]] = sent]
          /\ answer' = answer /\ sock' = sock
          /\ doing' = [doing EXCEPT ![c] = "waiting"]
          /\ call' = [call EXCEPT ![c] = request]
          /\ doing[c] = "idle"
      BY <2>2 DEF Begin, Send
    <3>3. ASSUME NEW j \in Addresses, wire'[j] # Nothing
          PROVE  Left(j)' \/ \E d \in Clients : sock'[d] = j /\ Awaited(d, wire[j])'
      <4>1. CASE j = sock[c]
        BY <3>1, <3>2, <3>3, <4>1 DEF Awaited
      <4>2. CASE j # sock[c]
        BY <3>2, <3>3, <4>2 DEF OnTheWay, Left, Awaited
      <4> QED
        BY <4>1, <4>2
    <3>4. ASSUME NEW j \in Addresses, answer'[j] # "none"
          PROVE  /\ wire'[j] = Nothing
                 /\ \E d \in Clients : sock'[d] = j /\ doing'[d] \in {"introducing", "waiting"}
      BY <3>1, <3>2, <3>4 DEF OnTheWay
    <3> QED
      BY <3>3, <3>4 DEF OnTheWay
  <2> QED
    BY <2>1, <2>2
<1> QED
  BY <1>1, <1>2, <1>3

(* Connect: nobody has the new socket, so nothing is on its way there.     *)
LEMMA ConnectConverses ==
  ASSUME ClientTypes, Conversations, NEW c \in Clients, NEW k \in Addresses, Connect(c, k)
  PROVE  Conversations'
<1> USE SentinelAssumption DEF Conversations, ClientTypes
<1>1. Sockets'
  BY DEF Sockets, Connect
<1>2. AskingNotRelying'
  BY DEF AskingNotRelying, Connect
<1>3. OnTheWay'
  <2>1. /\ wire' = [wire EXCEPT ![k] = [verb |-> "CONN", client |-> c]]
        /\ sock' = [sock EXCEPT ![c] = k] /\ doing' = [doing EXCEPT ![c] = "introducing"]
        /\ answer' = answer /\ call' = call /\ doing[c] = "connecting"
        /\ \A d \in Clients : sock[d] # k
    BY DEF Connect
  <2>2. answer[k] = "none"
    BY <2>1 DEF OnTheWay
  <2> SUFFICES ASSUME NEW j \in Addresses
               PROVE  /\ wire'[j] # Nothing =>
                           Left(j)' \/ \E d \in Clients : sock'[d] = j /\ Awaited(d, wire[j])'
                      /\ answer'[j] # "none" =>
                           /\ wire'[j] = Nothing
                           /\ \E d \in Clients :
                                sock'[d] = j /\ doing'[d] \in {"introducing", "waiting"}
    BY DEF OnTheWay
  <2>3. CASE j = k
    BY <2>1, <2>2, <2>3 DEF Awaited
  <2>4. CASE j # k
    <3>1. wire'[j] = wire[j] /\ answer'[j] = answer[j]
      BY <2>1, <2>4
    <3>2. ASSUME NEW d \in Clients, sock[d] = j, doing[d] \in {"introducing", "waiting"}
          PROVE  sock'[d] = j /\ doing'[d] = doing[d] /\ call'[d] = call[d]
      BY <2>1, <3>2
    <3>3. Left(j) => Left(j)'
      BY <2>1, <2>4 DEF Left
    <3> QED
      BY <3>1, <3>2, <3>3 DEF OnTheWay, Awaited
  <2> QED
    BY <2>3, <2>4
<1> QED
  BY <1>1, <1>2, <1>3

(* Introduced, Return: the answer is taken off the socket.                 *)
LEMMA AnsweredConverses ==
  ASSUME ClientTypes, Conversations, NEW c \in Clients, Introduced(c) \/ Return(c)
  PROVE  Conversations'
<1> USE DEF Conversations, ClientTypes
<1>1. sock[c] \in Addresses /\ wire[sock[c]] = Nothing
  BY DEF Introduced, Return, OnTheWay, Sockets
<1>2. CASE Introduced(c)
  <2>1. Sockets' /\ AskingNotRelying'
    BY <1>2 DEF Sockets, AskingNotRelying, Introduced
  <2>2. OnTheWay'
    <3> SUFFICES ASSUME NEW k \in Addresses
                 PROVE  /\ wire'[k] # Nothing =>
                             Left(k)' \/ \E d \in Clients : sock'[d] = k /\ Awaited(d, wire[k])'
                        /\ answer'[k] # "none" =>
                             /\ wire'[k] = Nothing
                             /\ \E d \in Clients :
                                  sock'[d] = k /\ doing'[d] \in {"introducing", "waiting"}
      BY DEF OnTheWay
    <3>1. /\ \E sent \in {call[c], Nothing} : wire' = [wire EXCEPT ![sock[c]] = sent]
          /\ sock' = sock /\ call' = call
          /\ answer' = [answer EXCEPT ![sock[c]] = "none"]
          /\ doing' = [doing EXCEPT ![c] = "waiting"]
      BY <1>2 DEF Introduced, Send
    <3>2. CASE sock[c] = k
      BY <1>1, <3>1, <3>2 DEF Awaited
    <3>3. CASE sock[c] # k
      <4>1. wire'[k] = wire[k] /\ answer'[k] = answer[k]
        BY <1>1, <3>1, <3>3
      <4>2. ASSUME NEW d \in Clients, sock[d] = k
            PROVE  sock'[d] = k /\ doing'[d] = doing[d] /\ call'[d] = call[d]
        BY <3>1, <3>3, <4>2
      <4>3. Left(k) => Left(k)'
        BY <3>1 DEF Left
      <4> QED
        BY <4>1, <4>2, <4>3 DEF OnTheWay, Awaited
    <3> QED
      BY <3>2, <3>3
  <2> QED
    BY <2>1, <2>2
<1>3. CASE Return(c)
  <2>1. Sockets' /\ AskingNotRelying'
    BY <1>3 DEF Sockets, AskingNotRelying, Return
  <2>2. OnTheWay'
    BY <1>1, <1>3 DEF OnTheWay, Left, Return, Awaited, Sockets
  <2> QED
    BY <2>1, <2>2
<1> QED
  BY <1>2, <1>3

(* What was sent on a socket that is closed is late from then on.          *)
LEMMA LeavingConverses ==
  ASSUME ClientTypes, Conversations, NEW c \in Clients, Fail(c) \/ Crash(c)
  PROVE  Conversations'
<1> USE DEF Conversations, ClientTypes
<1>1. /\ sock' = [sock EXCEPT ![c] = NoAddress]
      /\ \A d \in Clients \ {c} : doing'[d] = doing[d] /\ call'[d] = call[d] /\ relied'[d] = relied[d]
      /\ doing'[c] \in {"connecting", "idle", "crashed"}
      /\ doing'[c] = "connecting" =>
           doing[c] \in {"connecting", "introducing", "waiting"} /\ call'[c] = call[c] /\ relied'[c] = relied[c]
  BY DEF Fail, Crash, LeaveSocket
<1>2. \A k \in Addresses :
        /\ wire'[k] = wire[k]
        /\ answer'[k] = IF sock[c] = k THEN "none" ELSE answer[k]
  BY DEF Fail, Crash, LeaveSocket
<1>3. Sockets'
  BY <1>1 DEF Sockets
<1>4. AskingNotRelying'
  BY <1>1 DEF AskingNotRelying
<1>5. OnTheWay'
  <2> SUFFICES ASSUME NEW k \in Addresses
               PROVE  /\ wire'[k] # Nothing =>
                           Left(k)' \/ \E d \in Clients : sock'[d] = k /\ Awaited(d, wire[k])'
                      /\ answer'[k] # "none" =>
                           /\ wire'[k] = Nothing
                           /\ \E d \in Clients :
                                sock'[d] = k /\ doing'[d] \in {"introducing", "waiting"}
    BY DEF OnTheWay
  <2>1. CASE sock[c] = k
    <3>1. Left(k)'
      BY <1>1, <2>1, SentinelAssumption DEF Left, Sockets
    <3> QED
      BY <1>2, <2>1, <3>1
  <2>2. CASE sock[c] # k
    <3>1. wire'[k] = wire[k] /\ answer'[k] = answer[k]
      BY <1>2, <2>2
    <3>2. ASSUME NEW d \in Clients, sock[d] = k
          PROVE  sock'[d] = k /\ doing'[d] = doing[d] /\ call'[d] = call[d]
      BY <1>1, <2>2, <3>2
    <3>3. Left(k) => Left(k)'
      BY <1>1, SentinelAssumption DEF Left
    <3> QED
      BY <3>1, <3>2, <3>3 DEF OnTheWay, Awaited
  <2> QED
    BY <2>1, <2>2
<1> QED
  BY <1>3, <1>4, <1>5

(* The server's side: an answer takes the place of the request, a loss     *)
(* drops it.                                                               *)
LEMMA ServedConverses ==
  ASSUME ClientTypes, Conversations, NEW k \in Addresses,
         \/ wire[k] # Nothing /\ \E yes \in BOOLEAN : Answer(k, yes)
         \/ Lose(k)
         \/ Background
  PROVE  Conversations'
<1> USE DEF Conversations, ClientTypes
<1>1. UNCHANGED clientVars
  BY DEF Answer, Lose, Background
<1>2. Sockets' /\ AskingNotRelying'
  BY <1>1 DEF Sockets, AskingNotRelying, clientVars
<1>3. OnTheWay'
  <2>1. CASE Background
    BY <2>1 DEF Background, OnTheWay, Left, Awaited, clientVars, wireVars
  <2>2. CASE Lose(k)
    BY <2>2 DEF Lose, OnTheWay, Left, Awaited, clientVars
  <2>3. CASE wire[k] # Nothing /\ \E yes \in BOOLEAN : Answer(k, yes)
    BY <2>3 DEF Answer, OnTheWay, Left, Awaited, clientVars
  <2> QED
    BY <2>1, <2>2, <2>3
<1> QED
  BY <1>2, <1>3

-----------------------------------------------------------------------------
(* Ownership.  A step the server does not see can only leave or keep a     *)
(* socket.                                                                 *)
LEMMA UnseenOwns ==
  ASSUME ClientTypes, Ownership, UNCHANGED <<vars, overtaken>>,
         \A c \in Clients : sock'[c] \in {sock[c], NoAddress}, TypeOK
  PROVE  Ownership'
<1> USE SentinelAssumption DEF Ownership, vars, serverVars, storageVars
<1>1. LatestIsCurrent'
  BY DEF LatestIsCurrent, TypeOK
<1>2. LeftLocksAreMarked' /\ OrphansAreOvertaken'
  BY DEF LeftLocksAreMarked, OrphansAreOvertaken, Orphaned
<1> QED
  BY <1>1, <1>2

(* A new connection has no id yet.                                         *)
LEMMA ConnectOwns ==
  ASSUME ClientTypes, IndInv, Ownership, NEW c \in Clients, NEW k \in Addresses,
         Connect(c, k)
  PROVE  Ownership'
<1> USE SentinelAssumption DEF Ownership, ClientTypes
<1>1. /\ k \notin connected /\ connected' = connected \cup {k}
      /\ client_id' = [client_id EXCEPT ![k] = NoClient] /\ UNCHANGED storageVars
      /\ sock' = [sock EXCEPT ![c] = k] /\ \A d \in Clients : sock[d] # k
      /\ overtaken' = overtaken
  BY DEF Connect, ConnectionMade
<1>2. /\ client_id \in [Addresses -> Clients \cup {NoClient}] /\ connected \subseteq Addresses
      /\ client_last_address \in [Clients -> Addresses \cup {NoAddress}]
      /\ locks_to_client \in [LockIds -> Clients \cup {NoClient}]
      /\ all_locks \subseteq LockIds
      /\ \A l \in all_locks : locks_to_client[l] # NoClient
  BY DEF IndInv, TypeOK, StorageTypeOK, IndexesAgree
<1>3. LatestIsCurrent'
  BY <1>1, <1>2 DEF LatestIsCurrent, storageVars
<1>4. LeftLocksAreMarked'
  BY <1>1, <1>2 DEF LeftLocksAreMarked, storageVars
<1>5. OrphansAreOvertaken'
  BY <1>1, <1>2 DEF OrphansAreOvertaken, Orphaned, storageVars
<1> QED
  BY <1>3, <1>4, <1>5

(* What the execution of a request makes of the overtaken clients: only a  *)
(* CONN or AQ of their own brings clients in, only their CONN on the       *)
(* connection they use lets them out.                                      *)
Overtaking(k) == overtaken' = (overtaken \ Returning(k)) \cup Overtaken(k)

(* CONN: the connection becomes its client's last, and no lock of it stays *)
(* marked; the marks of the others' locks stay.                            *)
LEMMA ConnOwns ==
  ASSUME ClientTypes, IndInv, Conversations, Ownership, NEW k \in Addresses,
         NEW c \in Clients, wire[k] = [verb |-> "CONN", client |-> c],
         ConnAs(k, c), UNCHANGED clientVars, Overtaking(k)
  PROVE  Ownership'
<1> USE SentinelAssumption DEF Ownership
<1>1. ASSUME NEW d \in Clients, sock[d] = k PROVE d = c
  <2>1. PICK e \in Clients : sock[e] = k /\ Awaited(e, wire[k])
    BY <1>1 DEF Conversations, OnTheWay, Left, Nothing
  <2>2. doing[e] # "introducing" => wire[k] \in Calls
    BY <2>1 DEF Awaited, Conversations, AskingNotRelying
  <2>3. wire[k].verb \notin {"AQ", "RELEASE"} /\ wire[k].client = c
    OBVIOUS
  <2>4. wire[k] = [verb |-> "CONN", client |-> e]
    BY <2>1, <2>2, <2>3 DEF Awaited, Calls
  <2>5. d = e
    BY <1>1, <2>1 DEF Conversations, Sockets
  <2> QED
    BY <2>3, <2>4, <2>5
<1>2. /\ k \in connected /\ client_id[k] = NoClient
      /\ client_id' = [client_id EXCEPT ![k] = c] /\ connected' = connected
      /\ client_last_address' = [client_last_address EXCEPT ![c] = k]
      /\ mark_free_after' = [l \in LockIds |-> IF l \in client_to_locks[c] THEN NotMarked
                                               ELSE mark_free_after[l]]
      /\ client_to_locks' = client_to_locks /\ locks_to_client' = locks_to_client
      /\ all_locks' = all_locks /\ sock' = sock
  BY ClientAssumption
     DEF ConnAs, MayConn, UnreleaseAll, MarkAll, SetClientLastAddress, clientVars
<1>3. /\ client_id \in [Addresses -> Clients \cup {NoClient}] /\ connected \subseteq Addresses
      /\ client_last_address \in [Clients -> Addresses \cup {NoAddress}]
      /\ client_to_locks \in [Clients -> SUBSET LockIds]
      /\ locks_to_client \in [LockIds -> Clients \cup {NoClient}]
      /\ all_locks \subseteq LockIds
      /\ \A l \in all_locks : locks_to_client[l] # NoClient
      /\ \A d \in Clients, l \in LockIds : l \in client_to_locks[d] <=> locks_to_client[l] = d
  BY DEF IndInv, TypeOK, StorageTypeOK, IndexesAgree
<1>4. /\ \A d \in Clients \ {c} : d \in overtaken => d \in overtaken'
      /\ sock[c] # k /\ Session(c) => c \in overtaken'
  BY <1>1 DEF Overtaking, Returning, Overtaken
<1>5. LatestIsCurrent'
  <2> SUFFICES ASSUME NEW d \in Clients, sock[d] \in connected
               PROVE  /\ client_id'[sock[d]] \in {NoClient, d}
                      /\ client_id'[sock[d]] = d /\ d \notin overtaken' =>
                           client_last_address'[d] \in {sock[d], NoAddress}
    BY <1>2 DEF LatestIsCurrent
  <2>1. CASE sock[d] = k
    BY <1>1, <1>2, <1>3, <2>1
  <2>2. CASE sock[d] # k
    <3>1. sock[d] \in Addresses /\ client_id'[sock[d]] = client_id[sock[d]]
      BY <1>2, <1>3, <2>2
    <3>2. CASE d = c
      BY <1>4, <2>2, <3>1, <3>2 DEF LatestIsCurrent, Session
    <3>3. CASE d # c
      BY <1>2, <1>3, <1>4, <3>1, <3>3 DEF LatestIsCurrent
    <3> QED
      BY <3>2, <3>3
  <2> QED
    BY <2>1, <2>2
<1>6. LeftLocksAreMarked'
  BY <1>2, <1>3, <1>4 DEF LeftLocksAreMarked
<1>7. OrphansAreOvertaken'
  <2> SUFFICES ASSUME NEW l \in LockIds, Orphaned(l)' PROVE locks_to_client[l] \in overtaken'
    BY <1>2 DEF OrphansAreOvertaken
  <2> DEFINE d == locks_to_client[l]
  <2>1. l \in all_locks /\ mark_free_after'[l] = NotMarked
        /\ \A j \in connected : client_id'[j] # d
    BY <1>2 DEF Orphaned
  <2>2. d \in Clients \ {c}
    BY <1>2, <1>3, <2>1
  <2>3. mark_free_after[l] = NotMarked /\ \A j \in connected : client_id[j] # d
    BY <1>2, <1>3, <2>1, <2>2
  <2> QED
    BY <1>4, <2>1, <2>2, <2>3 DEF OrphansAreOvertaken, Orphaned
<1> QED
  BY <1>5, <1>6, <1>7

(* A request for a lock is one of the client that the connection has the   *)
(* id of, and late unless that client waits for it.                        *)
LEMMA Requester ==
  ASSUME ClientTypes, IndInv, Conversations, LatestIsCurrent, NEW k \in Addresses,
         wire[k].verb \in {"AQ", "RELEASE"}, Identified(k)
  PROVE  /\ client_id[k] \in Clients /\ wire[k].lock \in LockIds /\ wire[k] \in Calls
         /\ sock[client_id[k]] = k => wire[k].lock \notin relied[client_id[k]]
<1>1. client_id[k] \in Clients
  BY DEF Identified, IndInv, TypeOK
<1>2. wire[k] \in Calls /\ wire[k].lock \in LockIds
  BY RequestKinds DEF ClientTypes
<1>3. ASSUME sock[client_id[k]] = k PROVE wire[k].lock \notin relied[client_id[k]]
  <2>1. PICK d \in Clients : sock[d] = k /\ Awaited(d, wire[k])
    BY <1>1, <1>3 DEF Conversations, OnTheWay, Left, Nothing
  <2>2. d = client_id[k]
    BY <1>1, <1>3, <2>1, SentinelAssumption DEF Conversations, Sockets
  <2>3. wire[k] = call[d] /\ doing[d] = "waiting"
    BY <2>1 DEF Awaited
  <2> QED
    BY <2>2, <2>3 DEF Conversations, AskingNotRelying
<1> QED
  BY <1>1, <1>2, <1>3

(* AQ: a lock that changes hands goes to a client with an open connection, *)
(* and leaves the list of the other.                                       *)
LEMMA AqOwns ==
  ASSUME ClientTypes, IndInv, Conversations, Ownership, NEW k \in Addresses,
         wire[k].verb = "AQ", Aq(k, wire[k].lock, Reentrant), UNCHANGED clientVars,
         Overtaking(k)
  PROVE  Ownership'
<1> USE SentinelAssumption DEF Ownership
<1> DEFINE c == client_id[k]
           l == wire[k].lock
<1>1. k \in connected /\ c \in Clients /\ l \in LockIds
  BY Requester DEF Aq, Identified
<1>2. /\ client_id \in [Addresses -> Clients \cup {NoClient}]
      /\ client_to_locks \in [Clients -> SUBSET LockIds]
      /\ locks_to_client \in [LockIds -> Clients \cup {NoClient}]
      /\ mark_free_after \in [LockIds -> Nat \cup {NotMarked}]
      /\ all_locks \subseteq LockIds
      /\ \A d \in Clients, m \in LockIds : m \in client_to_locks[d] <=> locks_to_client[m] = d
  BY DEF IndInv, TypeOK, StorageTypeOK, IndexesAgree
<1>3. /\ client_id' = client_id /\ connected' = connected /\ sock' = sock
      /\ client_last_address' = client_last_address
  BY DEF Aq, Acquire, serverVars, clientVars
<1>4. overtaken \subseteq overtaken'
  BY DEF Overtaking, Returning
<1>5. LatestIsCurrent'
  BY <1>3, <1>4 DEF LatestIsCurrent
<1>6. CASE ~IsFree(l)
  BY <1>3, <1>4, <1>5, <1>6
     DEF Aq, Acquire, LeftLocksAreMarked, OrphansAreOvertaken, Orphaned, LatestIsCurrent
<1>7. CASE IsFree(l)
  <2>1. /\ locks_to_client' = [locks_to_client EXCEPT ![l] = c]
        /\ client_to_locks' = [Unlisted({l}) EXCEPT ![c] = @ \cup {l}]
        /\ all_locks' = all_locks \cup {l}
        /\ mark_free_after' = [mark_free_after EXCEPT ![l] = NotMarked]
    BY <1>7 DEF Aq, Acquire
  <2>2. c \notin overtaken' => Watched(c, k)
    <3>1. CASE sock[c] = k
      BY <1>1, <1>4, <3>1 DEF LatestIsCurrent, Watched
    <3>2. CASE sock[c] # k
      BY <1>1, <1>7, <3>2 DEF Overtaking, Overtaken
    <3> QED
      BY <3>1, <3>2
  <2> HIDE DEF c, l
  <2>3. \A d \in Clients \ {c} : client_to_locks'[d] \subseteq client_to_locks[d] \ {l}
    BY <1>1, <1>2, <2>1 DEF Unlisted
  <2>4. LeftLocksAreMarked'
    <3> SUFFICES ASSUME NEW d \in Clients \ overtaken',
                        client_last_address[d] # NoAddress,
                        ~(/\ client_last_address[d] \in connected
                          /\ client_id[client_last_address[d]] = d),
                        NEW m \in client_to_locks'[d]
                 PROVE  mark_free_after'[m] # NotMarked
      BY <1>3 DEF LeftLocksAreMarked
    <3>1. d # c
      BY <1>1, <2>2 DEF c, Watched
    <3>2. m \in client_to_locks[d] /\ m # l
      BY <2>3, <3>1
    <3> QED
      BY <1>2, <1>4, <2>1, <3>2 DEF LeftLocksAreMarked
  <2>5. OrphansAreOvertaken'
    <3> SUFFICES ASSUME NEW m \in LockIds, Orphaned(m)'
                 PROVE  locks_to_client'[m] \in overtaken'
      BY DEF OrphansAreOvertaken
    <3>1. m # l
      BY <1>1, <1>2, <1>3, <2>1 DEF c, Orphaned
    <3>2. Orphaned(m) /\ locks_to_client'[m] = locks_to_client[m]
      BY <1>2, <1>3, <2>1, <3>1 DEF Orphaned
    <3> QED
      BY <1>4, <3>2 DEF OrphansAreOvertaken
  <2> QED
    BY <1>5, <2>4, <2>5
<1> QED
  BY <1>6, <1>7

(* release, and the sweep of maintenance, which also forgets addresses.    *)
LEMMA DeletionOwns ==
  ASSUME ClientTypes, IndInv, Ownership, NEW S \in SUBSET LockIds, DeleteLocks(S),
         UNCHANGED <<serverVars, sock, mark_free_after, overtaken>>,
         \A c \in Clients : client_last_address'[c] \in {client_last_address[c], NoAddress}
  PROVE  Ownership'
<1> USE SentinelAssumption DEF Ownership, serverVars
<1>1. /\ client_id \in [Addresses -> Clients \cup {NoClient}]
      /\ client_to_locks \in [Clients -> SUBSET LockIds] /\ all_locks \subseteq LockIds
  BY DEF IndInv, TypeOK, StorageTypeOK
<1>2. /\ \A c \in Clients : client_to_locks'[c] \subseteq client_to_locks[c]
      /\ \A l \in all_locks' : l \in all_locks /\ locks_to_client'[l] = locks_to_client[l]
  BY <1>1 DEF DeleteLocks, Unlisted
<1>3. LatestIsCurrent'
  BY <1>1 DEF LatestIsCurrent
<1>4. LeftLocksAreMarked'
  BY <1>2 DEF LeftLocksAreMarked
<1>5. OrphansAreOvertaken'
  BY <1>2 DEF OrphansAreOvertaken, Orphaned
<1> QED
  BY <1>3, <1>4, <1>5

(* A loss: it marks the locks of its client, or that client's latest       *)
(* connection is another, and the locks are its own or marked already.     *)
LEMMA LossOwns ==
  ASSUME ClientTypes, IndInv, Ownership, NEW k \in Addresses, Lose(k)
  PROVE  Ownership'
<1> USE SentinelAssumption DEF Ownership
<1>1. /\ k \in connected /\ connected' = connected \ {k} /\ sock' = sock
      /\ client_id' = [client_id EXCEPT ![k] = NoClient]
      /\ client_to_locks' = client_to_locks /\ locks_to_client' = locks_to_client
      /\ all_locks' = all_locks /\ client_last_address' = client_last_address
      /\ overtaken' = overtaken
  BY DEF Lose, ConnectionLost, ReleaseAll, MarkAll, storageVars, clientVars
<1>2. /\ client_id \in [Addresses -> Clients \cup {NoClient}]
      /\ client_to_locks \in [Clients -> SUBSET LockIds]
      /\ locks_to_client \in [LockIds -> Clients \cup {NoClient}]
      /\ mark_free_after \in [LockIds -> Nat \cup {NotMarked}]
      /\ client_last_address \in [Clients -> Addresses \cup {NoAddress}]
      /\ all_locks \subseteq LockIds
      /\ \A d \in Clients, m \in LockIds : m \in client_to_locks[d] <=> locks_to_client[m] = d
      /\ \A m \in all_locks : locks_to_client[m] # NoClient
  BY DEF IndInv, TypeOK, StorageTypeOK, IndexesAgree
<1>3. /\ \A m \in LockIds : mark_free_after'[m] = NotMarked => mark_free_after[m] = NotMarked
      /\ LossReleases(k) => \A m \in client_to_locks[client_id[k]] : mark_free_after'[m] # NotMarked
  <2>1. CASE LossReleases(k)
    <3>1. client_id[k] \in Clients
      BY <1>2, <2>1 DEF LossReleases
    <3>2. /\ DefaultReleaseAllTimeout \in Nat \ {0} /\ NotMarked \notin Nat
          /\ mark_free_after' = [m \in LockIds |->
               IF m \in client_to_locks[client_id[k]] THEN DefaultReleaseAllTimeout
               ELSE mark_free_after[m]]
      BY <2>1, ServerAssumption DEF Lose, ConnectionLost, ReleaseAll, MarkAll, NotMarked
    <3> QED
      BY <1>2, <3>1, <3>2
  <2>2. CASE ~LossReleases(k)
    BY <2>2 DEF Lose, ConnectionLost, storageVars
  <2> QED
    BY <2>1, <2>2
<1>4. LatestIsCurrent'
  BY <1>1, <1>2 DEF LatestIsCurrent
<1>5. LeftLocksAreMarked'
  <2> SUFFICES ASSUME NEW d \in Clients \ overtaken, client_last_address[d] # NoAddress,
                      ~(/\ client_last_address[d] \in connected'
                        /\ client_id'[client_last_address[d]] = d),
                      NEW m \in client_to_locks[d]
               PROVE  mark_free_after'[m] # NotMarked
    BY <1>1 DEF LeftLocksAreMarked
  <2>1. CASE client_last_address[d] = k /\ client_id[k] = d
    BY <1>2, <1>3, <2>1 DEF LossReleases
  <2>2. CASE ~(client_last_address[d] = k /\ client_id[k] = d)
    BY <1>1, <1>2, <1>3, <2>2 DEF LeftLocksAreMarked
  <2> QED
    BY <2>1, <2>2
<1>6. OrphansAreOvertaken'
  <2> SUFFICES ASSUME NEW m \in LockIds, Orphaned(m)', locks_to_client[m] \notin overtaken
               PROVE  FALSE
    BY <1>1 DEF OrphansAreOvertaken
  <2> DEFINE d == locks_to_client[m]
  <2>1. /\ m \in all_locks /\ d \in Clients \ overtaken /\ m \in client_to_locks[d]
        /\ mark_free_after'[m] = NotMarked /\ mark_free_after[m] = NotMarked
        /\ \A j \in connected \ {k} : client_id[j] # d
    BY <1>1, <1>2, <1>3 DEF Orphaned
  <2>2. client_id[k] = d
    BY <1>1, <2>1 DEF OrphansAreOvertaken, Orphaned
  <2>3. ~LossReleases(k)
    BY <1>3, <2>1, <2>2
  <2>4. client_last_address[d] \notin {k, NoAddress}
    BY <2>1, <2>2, <2>3 DEF LossReleases
  <2>5. client_last_address[d] \in connected /\ client_id[client_last_address[d]] = d
    BY <2>1, <2>4 DEF LeftLocksAreMarked
  <2> QED
    BY <2>1, <2>4, <2>5
<1> QED
  BY <1>4, <1>5, <1>6

(* Time only counts marks down.                                            *)
LEMMA TickOwns ==
  ASSUME ClientTypes, IndInv, Ownership, Tick, UNCHANGED <<sock, overtaken>> PROVE Ownership'
<1>1. /\ UNCHANGED <<client_to_locks, tracked, locks_to_client, all_locks,
                     client_last_address, connected, client_id, sock, overtaken>>
      /\ \A l \in LockIds : mark_free_after'[l] = NotMarked <=> mark_free_after[l] = NotMarked
  BY DEF Tick, Elapse, serverVars, NotMarked, IndInv, TypeOK, StorageTypeOK
<1>2. all_locks \subseteq LockIds /\ client_to_locks \in [Clients -> SUBSET LockIds]
  BY DEF IndInv, TypeOK, StorageTypeOK
<1> QED
  BY <1>1, <1>2 DEF Ownership, LatestIsCurrent, LeftLocksAreMarked, OrphansAreOvertaken, Orphaned

-----------------------------------------------------------------------------
(* One step per action of the composition.                                 *)
LEMMA ClientInvKept ==
  ASSUME ClientTypes, IndInv, Conversations, Ownership,
         [ClientNext]_allVars
  PROVE  (Conversations /\ Ownership)'
<1> USE DEF IndInv
<1>1. CASE UNCHANGED allVars
  <2>1. UNCHANGED <<clientVars, wireVars, vars, overtaken>> /\ UNCHANGED sock
    BY <1>1 DEF allVars, clientVars
  <2>2. Conversations'
    BY SMTT(30), <2>1
       DEF clientVars, wireVars, Conversations, Sockets, OnTheWay, Left,
           Awaited, AskingNotRelying
  <2> QED
    BY <2>1, <2>2, UnseenOwns
<1>2. ASSUME NEW c \in Clients, NEW request \in Calls, Begin(c, request)
      PROVE  (Conversations /\ Ownership)'
  <2>1. UNCHANGED <<vars, sock, overtaken>>
    BY <1>2 DEF Begin
  <2> QED
    BY <1>2, <2>1, BeginConverses, UnseenOwns
<1>3. ASSUME NEW c \in Clients, NEW k \in Addresses, Connect(c, k)
      PROVE  (Conversations /\ Ownership)'
  BY <1>3, ConnectConverses, ConnectOwns
<1>4. ASSUME NEW c \in Clients, Introduced(c) \/ Return(c)
      PROVE  (Conversations /\ Ownership)'
  <2>1. UNCHANGED <<vars, sock, overtaken>>
    BY <1>4 DEF Introduced, Return
  <2> QED
    BY <1>4, <2>1, AnsweredConverses, UnseenOwns
<1>5. ASSUME NEW c \in Clients, Fail(c) \/ Crash(c)
      PROVE  (Conversations /\ Ownership)'
  <2>1. UNCHANGED <<vars, overtaken>> /\ sock' = [sock EXCEPT ![c] = NoAddress]
    BY <1>5 DEF Fail, Crash, LeaveSocket
  <2>2. \A d \in Clients : sock'[d] \in {sock[d], NoAddress}
    BY <2>1 DEF ClientTypes
  <2> QED
    BY <1>5, <2>1, <2>2, LeavingConverses, UnseenOwns
<1>6. ASSUME NEW k \in Addresses, Execute(k)
      PROVE  (Conversations /\ Ownership)'
  <2>1. wire[k] # Nothing
    <3>1. wire[k].verb \in {"CONN", "AQ", "RELEASE"}
      BY <1>6 DEF Execute
    <3>2. Nothing.verb = "none"
      BY DEF Nothing
    <3> QED
      BY <3>1, <3>2
  <2>2. AcquireReply(client_id[k], wire[k].lock, Reentrant) \in BOOLEAN
    BY DEF AcquireReply, IsFree, Lapsed
  <2>3. ReleaseReply(client_id[k], wire[k].lock) \in BOOLEAN
    BY DEF ReleaseReply
  <2>4. Conversations'
    BY <1>6, <2>1, <2>2, <2>3, ServedConverses DEF Execute
  <2>5. UNCHANGED clientVars /\ Overtaking(k)
    BY <1>6 DEF Execute, Answer, Overtaking
  <2>6. CASE wire[k].verb = "CONN" /\ ConnAs(k, wire[k].client)
    <3>1. wire[k] \in Conns /\ wire[k].client \in Clients
      BY <2>6, RequestKinds DEF ClientTypes
    <3>2. wire[k] = [verb |-> "CONN", client |-> wire[k].client]
      BY <3>1 DEF Conns
    <3> QED
      BY <2>4, <2>5, <2>6, <3>1, <3>2, ConnOwns
  <2>7. CASE wire[k].verb = "AQ" /\ Aq(k, wire[k].lock, Reentrant)
    BY <2>4, <2>5, <2>7, AqOwns
  <2>8. CASE wire[k].verb = "RELEASE" /\ ReleaseCommand(k, wire[k].lock)
    <3>1. wire[k].lock \in LockIds
      BY <2>8, RequestKinds DEF ClientTypes
    <3>2. /\ DeleteLocks({wire[k].lock} \cap client_to_locks[client_id[k]])
          /\ UNCHANGED <<serverVars, sock, mark_free_after, client_last_address>>
      BY <2>5, <2>8 DEF ReleaseCommand, Release, clientVars
    <3>4. overtaken' = overtaken
      BY <2>5, <2>8 DEF Overtaking, Returning, Overtaken, ClientTypes
    <3>3. {wire[k].lock} \cap client_to_locks[client_id[k]] \in SUBSET LockIds
      BY <3>1
    <3> QED
      BY <2>4, <3>2, <3>3, <3>4, DeletionOwns
  <2> QED
    BY <1>6, <2>6, <2>7, <2>8 DEF Execute
<1>7. ASSUME NEW k \in Addresses, Lose(k)
      PROVE  (Conversations /\ Ownership)'
  BY <1>7, ServedConverses, LossOwns
<1>8. CASE Background
  <2>1. Conversations'
    <3>1. CASE Addresses = {}
      BY <1>8, <3>1 DEF Background, clientVars, wireVars, Conversations, Sockets, OnTheWay,
                        Left, AskingNotRelying
    <3>2. CASE Addresses # {}
      BY <1>8, <3>2, ServedConverses
    <3> QED
      BY <3>1, <3>2
  <2>2. CASE Tick /\ UNCHANGED <<clientVars, overtaken>>
    BY <2>1, <2>2, TickOwns DEF clientVars
  <2>3. CASE MaintenanceRun /\ UNCHANGED <<clientVars, overtaken>>
    <3>1. /\ DeleteLocks(ExpiredListed) /\ ExpiredListed \in SUBSET LockIds
          /\ UNCHANGED <<serverVars, sock, mark_free_after, overtaken>>
      BY <2>3 DEF MaintenanceRun, Maintenance, ExpiredListed, clientVars
    <3>2. \A c \in Clients : client_last_address'[c] \in {client_last_address[c], NoAddress}
      BY <2>3 DEF MaintenanceRun, Maintenance
    <3> QED
      BY <2>1, <3>1, <3>2, DeletionOwns
  <2> QED
    BY <1>8, <2>2, <2>3 DEF Background
<1> QED
  BY <1>1, <1>2, <1>3, <1>4, <1>5, <1>6, <1>7, <1>8 DEF ClientNext

(* So the server's invariant, the conversations and the ownership hold     *)
(* always.                                                                 *)
LEMMA ClientInvariant ==
  ClientSpec => [](IndInv /\ ClientTypes /\ Conversations /\ Ownership)
<1>1. ClientInit => Conversations /\ Ownership
  BY ClientInitInv
<1>2. IndInv /\ ClientTypes /\ Conversations /\ Ownership /\ [ClientNext]_allVars
        => (Conversations /\ Ownership)'
  BY ClientInvKept
<1>3. ClientSpec => []IndInv
  BY ClientDrivesServer, Invariance, PTL
<1> QED
  BY <1>1, <1>2, <1>3, ClientTypesInvariant, PTL DEF ClientSpec

(* However often clients fail and reconnect, in whatever order the server  *)
(* learns of lost connections, and whatever is still on its way when a     *)
(* socket is closed: a lock that is not marked to be freed has an owner    *)
(* with an open connection, unless a late CONN or AQ of the owner came     *)
(* after its latest CONN.  (The address check of connection_lost.)         *)
THEOREM OrphansOnlyByOvertaking == ClientSpec => []OrphansAreOvertaken
<1>1. Ownership => OrphansAreOvertaken
  BY DEF Ownership
<1> QED
  BY <1>1, ClientInvariant, PTL

(* And a client that relies on a lock loses it only once the grace period  *)
(* has run out, or by a late RELEASE of its own: every other RELEASE that  *)
(* the server can get is one that its owner waits for, and by then it does *)
(* not rely on the lock.                                                   *)
ReliedStep ==
  \A c \in Clients : \A l \in relied[c] \cap relied'[c] :
    locks_to_client[l] = c /\ locks_to_client'[l] # c => Lapsed(l) \/ LateRelease(c, l)

(* No step takes a lock from a client that relies on it, unless its lease  *)
(* had lapsed or it was asked for late.                                    *)
LEMMA ReliedLocksAreKept ==
  ASSUME ClientTypes, IndInv, Conversations, Ownership, ClientNext
  PROVE  ReliedStep
<1> SUFFICES ASSUME NEW c \in Clients, NEW l \in relied[c] \cap relied'[c],
                    locks_to_client[l] = c, locks_to_client'[l] # c
             PROVE  Lapsed(l) \/ LateRelease(c, l)
  BY DEF ReliedStep
<1>1. l \in LockIds /\ LosesTenure(l)
  BY SentinelAssumption DEF ClientTypes, LosesTenure
<1>2. CASE \E d \in Clients : \/ \E request \in Calls : Begin(d, request)
                             \/ Introduced(d) \/ Return(d) \/ Fail(d) \/ Crash(d)
  BY <1>2 DEF Begin, Introduced, Return, Fail, Crash, LeaveSocket, vars, storageVars
<1>3. CASE \E d \in Clients, k \in Addresses : Connect(d, k)
  BY <1>3 DEF Connect, ConnectionMade, storageVars
<1>4. CASE \E k \in Addresses : Lose(k)
  BY <1>4 DEF Lose, ConnectionLost, storageVars, ReleaseAll, MarkAll
<1>5. CASE \E k \in Addresses : Execute(k)
  <2>1. PICK k \in Addresses : Execute(k)
    BY <1>5
  <2>2. CASE wire[k].verb = "CONN" /\ ConnAs(k, wire[k].client)
    BY <2>2 DEF ConnAs, UnreleaseAll, MarkAll
  <2>3. CASE wire[k].verb = "AQ" /\ Aq(k, wire[k].lock, Reentrant)
    <3>1. client_id[k] \in Clients /\ wire[k].lock \in LockIds
      BY <2>3, Requester DEF Aq, Ownership
    <3> QED
      BY <1>1, <2>3, <3>1, AcquireTenure, ClientAssumption DEF Aq
  <2>4. CASE wire[k].verb = "RELEASE" /\ ReleaseCommand(k, wire[k].lock)
    <3>1. /\ client_id[k] \in Clients /\ wire[k].lock \in LockIds
          /\ wire[k] \in Calls /\ k \in connected
          /\ sock[client_id[k]] = k => wire[k].lock \notin relied[client_id[k]]
      BY <2>4, Requester DEF ReleaseCommand, Identified, Ownership
    <3>2. DeleteLocks({wire[k].lock} \cap client_to_locks[client_id[k]])
      BY <2>4 DEF ReleaseCommand, Release
    <3>3. l = wire[k].lock /\ l \in client_to_locks[client_id[k]]
      BY <1>1, <3>1, <3>2, DeletionTenure
    <3>4. client_id[k] = c
      BY <1>1, <3>1, <3>3 DEF IndInv, IndexesAgree
    <3>5. wire'[k] = Nothing
      BY <2>1 DEF Execute, Answer, ClientTypes
    <3>6. wire[k] = [verb |-> "RELEASE", lock |-> l]
      BY <2>4, <3>1, <3>3 DEF Calls
    <3> QED
      BY <3>1, <3>3, <3>4, <3>5, <3>6 DEF LateRelease
  <2> QED
    BY <2>1, <2>2, <2>3, <2>4 DEF Execute
<1>6. CASE Background
  <2>1. CASE Tick
    BY <2>1 DEF Tick, Elapse
  <2>2. CASE MaintenanceRun
    BY <1>1, <2>2, MaintenanceTenure DEF MaintenanceRun
  <2> QED
    BY <1>6, <2>1, <2>2 DEF Background
<1> QED
  BY <1>2, <1>3, <1>4, <1>5, <1>6 DEF ClientNext

(* No retry, no request of anybody else and no late CONN or AQ takes a     *)
(* lock from the client that relies on it.                                 *)
THEOREM ReliedLocksAreSafe == ClientSpec => ReliedLocksAreLostByLapseOrLateRelease
<1>1. IndInv /\ ClientTypes /\ Conversations /\ Ownership /\ [ClientNext]_allVars
        => [ReliedStep]_allVars
  BY ReliedLocksAreKept
<1>2. ClientSpec => [][ReliedStep]_allVars
  BY <1>1, ClientInvariant, PTL DEF ClientSpec
<1> QED
  BY <1>2 DEF ReliedLocksAreLostByLapseOrLateRelease, ReliedStep
=============================================================================
