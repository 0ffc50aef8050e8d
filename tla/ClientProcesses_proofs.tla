------------------------ MODULE ClientProcesses_proofs ------------------------
(***************************************************************************)
(* Processes that fork, end and share what a fork copies, for any number   *)
(* of them and of locks: no process speaks on another one's connection, so *)
(* that a lock a process has acquired is its own until it gives it up.     *)
(*                                                                         *)
(* AcquiredIsOwned is the end of a chain.  A socket that a process opened  *)
(* itself is used by no other process and stays open as long as it runs;   *)
(* so what is on that connection is the one request or the one answer of   *)
(* this process; so its id is the one the server made up for it, and no    *)
(* other connection has that id; so no other connection can release its    *)
(* locks, and no connection that ends can have them marked.                *)
(***************************************************************************)
EXTENDS ClientProcesses, LiveLockServer_proofs, SequenceTheorems

(* CONN is only ever said without an id: a process connects once.          *)
Hello == [verb |-> "CONN", client |-> NoClient]

Requests == Calls \cup {Hello}

(* ProcessTypeOK without the server's part.                                *)
ProcessTypes ==
  /\ status \in [Processes -> {"unborn", "running", "gone"}]
  /\ sock \in [Processes -> Addresses \cup {NoAddress}]
  /\ sock_pid \in [Processes -> Processes]
  /\ own_id \in [Processes -> Clients \cup {NoClient}]
  /\ id_pid \in [Processes -> Processes]
  /\ acquired \in [Processes -> SUBSET Objects]
  /\ copied \in [Processes -> SUBSET LockIds]
  /\ doing \in [Processes -> {"idle", "connecting", "introducing", "waiting"}]
  /\ call \in [Processes -> Calls \cup {Nothing}]
  /\ holders \in [Addresses -> SUBSET Processes]
  /\ wire \in [Addresses -> Seq(Requests)]
  /\ answers \in [Addresses -> Seq(Clients \cup {TRUE, FALSE})]

Running(p) == status[p] = "running"

(* A running process with a connection of its own.                         *)
Own(p) == Running(p) /\ ~MustConnect(p)

(* What a process has is from processes that were born.                    *)
Ancestry ==
  \A p \in Processes :
    /\ status[p] = "unborn" => doing[p] = "idle"
    /\ status[p] # "unborn" =>
         /\ status[sock_pid[p]] # "unborn"
         /\ status[id_pid[p]] # "unborn"
         /\ \A o \in acquired[p] : status[o[2]] # "unborn"

(* A connection of its own is open, and no other process's own.            *)
Descriptors ==
  /\ \A p \in Processes : Own(p) => sock[p] \in connected /\ p \in holders[sock[p]]
  /\ \A p, q \in Processes : Own(p) /\ Own(q) /\ sock[p] = sock[q] => p = q

(* Nothing is on its way where there is no connection.                     *)
NothingOnClosed ==
  \A k \in Addresses : k \notin connected => wire[k] = <<>> /\ answers[k] = <<>>

(* No two connections have one id.                                         *)
IdsApart ==
  \A j, k \in connected :
     client_id[j] = client_id[k] /\ client_id[j] # NoClient => j = k

(* Only a process with a connection of its own has asked on it, or has an  *)
(* id of its own.                                                          *)
Phases ==
  \A p \in Processes : Running(p) =>
    IF MustConnect(p)
    THEN doing[p] \in {"idle", "connecting"} /\ ClientId(p) = NoClient
    ELSE doing[p] # "connecting"

(* There is one request, or its answer, on it.                             *)
Introduction(p) ==
  \/ wire[sock[p]] = <<Hello>> /\ answers[sock[p]] = <<>>
  \/ wire[sock[p]] = <<>> /\ answers[sock[p]] = <<client_id[sock[p]]>>
                          /\ client_id[sock[p]] # NoClient

Exchange(p) ==
  \/ wire[sock[p]] = <<call[p]>> /\ answers[sock[p]] = <<>>
  \/ wire[sock[p]] = <<>> /\ answers[sock[p]] \in {<<TRUE>>, <<FALSE>>}

Conversations ==
  \A p \in Processes : Own(p) =>
    /\ doing[p] = "idle" => wire[sock[p]] = <<>> /\ answers[sock[p]] = <<>>
    /\ doing[p] = "introducing" => Introduction(p)
    /\ doing[p] = "waiting" => Exchange(p)
    /\ doing[p] # "introducing" =>
         client_id[sock[p]] = own_id[p] /\ own_id[p] # NoClient

(* What a process asks for, and which of the lock objects it has it got by *)
(* a fork.                                                                 *)
Asking ==
  \A p \in Processes : Running(p) /\ doing[p] # "idle" =>
    /\ call[p] \in Calls /\ call[p].object \notin acquired[p]
    /\ call[p].verb = "AQ" => call[p].object[2] = p
    /\ call[p].object[2] # p => call[p].object[1] \in copied[p]

Copies ==
  \A p \in Processes : Running(p) => \A o \in acquired[p] :
    IF o[2] = p THEN ~MustConnect(p) /\ doing[p] # "introducing"
    ELSE o[1] \in copied[p]

(* A lock that was granted to a process, which may not know it yet.        *)
Granted(p, l) ==
  \/ <<l, p>> \in acquired[p]
  \/ /\ doing[p] = "waiting"
     /\ call[p].verb = "AQ" /\ call[p].object = <<l, p>>
     /\ answers[sock[p]] = <<TRUE>>

Kept ==
  \A p \in Processes, l \in LockIds :
     Running(p) /\ l \notin copied[p] /\ Granted(p, l)
       => locks_to_client[l] = own_id[p] /\ mark_free_after[l] = NotMarked

ProcessInv ==
  /\ ProcessTypes
  /\ Ancestry /\ Descriptors /\ NothingOnClosed /\ IdsApart /\ Phases
  /\ Conversations /\ Asking /\ Copies /\ Kept

-----------------------------------------------------------------------------
(* One request, or one answer, on a connection.                            *)
LEMMA OneOnTheWay ==
  ASSUME NEW x
  PROVE  /\ <<x>> # <<>> /\ Head(<<x>>) = x /\ Tail(<<x>>) = <<>>
         /\ Append(<<>>, x) = <<x>>
  OBVIOUS

(* What a request has in it follows from its verb.                         *)
LEMMA KindsOfRequest ==
  ASSUME NEW r \in Requests
  PROVE  /\ r.verb = "CONN" => r = Hello /\ r.client = NoClient
         /\ r.verb \in {"AQ", "RELEASE"} =>
              r \in Calls /\ r.object[1] \in LockIds /\ r.object[2] \in Processes
  BY DEF Requests, Hello, Calls, Objects

(* The processes start within the invariant, with the server in its first  *)
(* state.                                                                  *)
LEMMA ProcessInitInv == ProcessInit => Init /\ ProcessInv
<1> SUFFICES ASSUME ProcessInit PROVE ProcessInv
  BY DEF ProcessInit
<1> USE DEF ProcessInit
<1>1. ProcessTypes
  BY EmptySeq DEF ProcessTypes
<1>2. Ancestry /\ NothingOnClosed
  BY DEF Ancestry, NothingOnClosed
<1>3. Descriptors /\ Conversations
  BY DEF Descriptors, Conversations, Own, MustConnect
<1>4. IdsApart
  BY DEF IdsApart, Init
<1>5. Phases
  BY DEF Phases, MustConnect, ClientId
<1>6. Asking /\ Copies /\ Kept
  BY DEF Asking, Copies, Kept, Granted
<1> QED
  BY <1>1, <1>2, <1>3, <1>4, <1>5, <1>6 DEF ProcessInv

-----------------------------------------------------------------------------
(* A call begins: its request is the first thing on the connection.        *)
LEMMA BeginKeeps ==
  ASSUME ProcessInv, NEW p \in Processes, NEW request \in Calls, Begin(p, request)
  PROVE  ProcessInv'
<1> USE DEF ProcessInv
<1>1. /\ status' = status /\ sock' = sock /\ sock_pid' = sock_pid
      /\ own_id' = own_id /\ id_pid' = id_pid /\ copied' = copied
      /\ holders' = holders /\ answers' = answers
      /\ connected' = connected /\ client_id' = client_id
      /\ locks_to_client' = locks_to_client /\ mark_free_after' = mark_free_after
  BY DEF Begin, vars, storageVars, serverVars, osVars
<1>2. /\ Running(p) /\ doing[p] = "idle"
      /\ call' = [call EXCEPT ![p] = request]
      /\ acquired' = [acquired EXCEPT ![p] = @ \ {request.object}]
  BY DEF Begin, MayCall, Running
<1>3. \/ /\ MustConnect(p) /\ wire' = wire
         /\ doing' = [doing EXCEPT ![p] = "connecting"]
      \/ /\ ~MustConnect(p)
         /\ doing' = [doing EXCEPT ![p] = "waiting"]
         /\ wire' = [wire EXCEPT ![sock[p]] = Append(@, request)]
  BY DEF Begin, SendOn
<1>4. \A q \in Processes : Own(q)' = Own(q) /\ MustConnect(q)' = MustConnect(q)
                             /\ Running(q)' = Running(q) /\ ClientId(q)' = ClientId(q)
  BY <1>1 DEF Own, MustConnect, Running, ClientId
<1>5. ~MustConnect(p) =>
        /\ wire[sock[p]] = <<>> /\ answers[sock[p]] = <<>>
        /\ wire'[sock[p]] = <<request>> /\ sock[p] \in connected
        /\ sock[p] \in Addresses
  BY <1>2, <1>3, OneOnTheWay DEF Conversations, Own, Descriptors, ProcessTypes, MustConnect
<1>6. ProcessTypes'
  <2>1. CASE MustConnect(p)
    BY <1>1, <1>2, <1>3, <2>1 DEF ProcessTypes
  <2>2. CASE ~MustConnect(p)
    <3>1. request \in Requests /\ wire[sock[p]] \in Seq(Requests)
      BY <1>5, <2>2 DEF Requests, ProcessTypes
    <3>2. Append(wire[sock[p]], request) \in Seq(Requests)
      BY <3>1, AppendProperties
    <3>3. \A w \in Seq(Requests) :
            [wire EXCEPT ![sock[p]] = w] \in [Addresses -> Seq(Requests)]
      BY DEF ProcessTypes
    <3>4. wire' \in [Addresses -> Seq(Requests)]
      BY <1>3, <2>2, <3>2, <3>3
    <3> QED
      BY <1>1, <1>2, <1>3, <2>2, <3>4 DEF ProcessTypes
  <2> QED
    BY <2>1, <2>2
<1>7. Ancestry'
  BY <1>1, <1>2, <1>3 DEF Ancestry, ProcessTypes, Running
<1>8. Descriptors'
  BY <1>1, <1>4 DEF Descriptors
<1>9. NothingOnClosed'
  BY <1>1, <1>3, <1>5 DEF NothingOnClosed, ProcessTypes
<1>10. IdsApart'
  BY <1>1 DEF IdsApart
<1>11. Phases'
  BY <1>3, <1>4 DEF Phases, ProcessTypes
<1>12. Conversations'
  <2> SUFFICES ASSUME NEW q \in Processes, Own(q)
               PROVE  /\ doing'[q] = "idle" => wire'[sock[q]] = <<>> /\ answers[sock[q]] = <<>>
                      /\ doing'[q] = "introducing" => Introduction(q)'
                      /\ doing'[q] = "waiting" => Exchange(q)'
                      /\ doing'[q] # "introducing" =>
                           client_id[sock[q]] = own_id[q] /\ own_id[q] # NoClient
    BY <1>1, <1>4 DEF Conversations
  <2>1. CASE q = p
    BY <2>1, <1>1, <1>2, <1>3, <1>5 DEF Own, Conversations, Exchange, ProcessTypes
  <2>2. CASE q # p
    <3>1. /\ doing'[q] = doing[q] /\ call'[q] = call[q]
          /\ wire'[sock[q]] = wire[sock[q]]
      <4>1. CASE MustConnect(p)
        BY <1>2, <1>3, <2>2, <4>1 DEF ProcessTypes
      <4>2. CASE ~MustConnect(p)
        <5>1. sock[q] # sock[p] /\ sock[q] \in Addresses
          BY <1>2, <2>2, <4>2 DEF Descriptors, Own, ProcessTypes, MustConnect
        <5> QED
          BY <1>2, <1>3, <2>2, <4>2, <5>1 DEF ProcessTypes
      <4> QED
        BY <4>1, <4>2
    <3> QED
      BY <3>1, <1>1 DEF Conversations, Introduction, Exchange
  <2> QED
    BY <2>1, <2>2
<1>13. Asking'
  <2>1. request.object[2] # p => request.object[1] \in copied[p]
    BY <1>2 DEF Begin, MayCall, Copies, Calls
  <2>2. request.verb = "AQ" => request.object[2] = p
    BY DEF Begin, MayCall
  <2> QED
    BY <1>1, <1>2, <1>3, <1>4, <2>1, <2>2 DEF Asking, ProcessTypes
<1>14. Copies'
  BY <1>1, <1>2, <1>3, <1>4 DEF Copies, ProcessTypes
<1>15. Kept'
  <2> SUFFICES ASSUME NEW q \in Processes, NEW l \in LockIds,
                      Running(q), l \notin copied[q], Granted(q, l)'
               PROVE  Granted(q, l)
    BY <1>1, <1>4 DEF Kept
  <2>1. CASE q = p
    <3>1. acquired'[p] \subseteq acquired[p]
      BY <1>2 DEF ProcessTypes
    <3>2. doing'[p] = "waiting" => answers'[sock'[p]] = <<>>
      BY <1>1, <1>2, <1>3, <1>5 DEF ProcessTypes
    <3> QED
      BY <2>1, <3>1, <3>2, OneOnTheWay DEF Granted
  <2>2. CASE q # p
    BY <2>2, <1>1, <1>2, <1>3 DEF Granted, ProcessTypes
  <2> QED
    BY <2>1, <2>2
<1> QED
  BY <1>6, <1>7, <1>8, <1>9, <1>10, <1>11, <1>12, <1>13, <1>14, <1>15

(* The connecting process gets a connection that nobody has, and says CONN *)
(* there without an id.                                                    *)
LEMMA ConnectKeeps ==
  ASSUME TypeOK, ProcessInv, NEW p \in Processes, NEW k \in Addresses, Connect(p, k)
  PROVE  ProcessInv'
<1> USE DEF ProcessInv
<1>1. /\ status' = status /\ own_id' = own_id /\ id_pid' = id_pid
      /\ acquired' = acquired /\ copied' = copied /\ call' = call /\ answers' = answers
      /\ locks_to_client' = locks_to_client /\ mark_free_after' = mark_free_after
      /\ connected' = connected \cup {k} /\ k \notin connected
      /\ client_id' = [client_id EXCEPT ![k] = NoClient]
  BY DEF Connect, ConnectionMade, storageVars
<1>2. /\ Running(p) /\ doing[p] = "connecting" /\ holders[k] = {}
      /\ sock' = [sock EXCEPT ![p] = k]
      /\ sock_pid' = [sock_pid EXCEPT ![p] = p]
      /\ holders' = [j \in Addresses |-> IF j = k THEN {p} ELSE holders[j] \ {p}]
      /\ doing' = [doing EXCEPT ![p] = "introducing"]
  BY DEF Connect, Running
<1>3. MustConnect(p) /\ ClientId(p) = NoClient
  BY <1>2 DEF Phases
<1>4. /\ wire' = [wire EXCEPT ![k] = <<Hello>>]
      /\ wire[k] = <<>> /\ answers[k] = <<>>
  <2>1. wire[k] = <<>> /\ answers[k] = <<>>
    BY <1>1 DEF NothingOnClosed
  <2>2. wire' = [wire EXCEPT ![k] = Append(@, Hello)]
    BY <1>3 DEF Connect, SendOn, Hello
  <2> QED
    BY <2>1, <2>2, OneOnTheWay DEF ProcessTypes
<1>5. /\ Own(p)' /\ ~Own(p) /\ ~MustConnect(p)' /\ sock'[p] = k
      /\ \A q \in Processes : q # p =>
           /\ Own(q)' = Own(q) /\ MustConnect(q)' = MustConnect(q)
           /\ sock'[q] = sock[q] /\ doing'[q] = doing[q]
      /\ \A q \in Processes : Running(q)' = Running(q) /\ ClientId(q)' = ClientId(q)
  BY <1>1, <1>2, <1>3, SentinelAssumption
     DEF Own, MustConnect, Running, ClientId, ProcessTypes
<1>6. \A q \in Processes : Own(q) =>
        /\ sock[q] \in Addresses /\ sock[q] # k /\ q # p
        /\ q \in holders[sock[q]] /\ sock[q] \in connected
  BY <1>1, <1>5 DEF Descriptors, Own, MustConnect, ProcessTypes
<1>7. ProcessTypes'
  <2>1. <<Hello>> \in Seq(Requests)
    BY DEF Requests
  <2> QED
    BY <1>1, <1>2, <1>4, <2>1 DEF ProcessTypes
<1>8. Ancestry'
  BY <1>1, <1>2 DEF Ancestry, ProcessTypes, Running
<1>9. Descriptors'
  <2>1. \A q \in Processes : Own(q)' => sock'[q] \in connected' /\ q \in holders'[sock'[q]]
    BY <1>1, <1>2, <1>5, <1>6
  <2>2. \A q, r \in Processes : Own(q)' /\ Own(r)' /\ sock'[q] = sock'[r] => q = r
    BY <1>5, <1>6 DEF Descriptors
  <2> QED
    BY <2>1, <2>2 DEF Descriptors
<1>10. NothingOnClosed'
  BY <1>1, <1>4 DEF NothingOnClosed, ProcessTypes
<1>11. IdsApart'
  BY <1>1 DEF IdsApart, TypeOK
<1>12. Phases'
  BY <1>2, <1>5 DEF Phases, ProcessTypes
<1>13. Conversations'
  <2> SUFFICES ASSUME NEW q \in Processes, Own(q)'
               PROVE  /\ doing'[q] = "idle" => wire'[sock'[q]] = <<>> /\ answers'[sock'[q]] = <<>>
                      /\ doing'[q] = "introducing" => Introduction(q)'
                      /\ doing'[q] = "waiting" => Exchange(q)'
                      /\ doing'[q] # "introducing" =>
                           client_id'[sock'[q]] = own_id'[q] /\ own_id'[q] # NoClient
    BY DEF Conversations
  <2>1. CASE q = p
    BY <2>1, <1>1, <1>2, <1>4, <1>5 DEF Introduction, ProcessTypes
  <2>2. CASE q # p
    <3>1. /\ sock'[q] = sock[q] /\ doing'[q] = doing[q] /\ call'[q] = call[q]
          /\ wire'[sock[q]] = wire[sock[q]] /\ answers'[sock[q]] = answers[sock[q]]
          /\ client_id'[sock[q]] = client_id[sock[q]] /\ own_id'[q] = own_id[q] /\ Own(q)
      BY <2>2, <1>1, <1>4, <1>5, <1>6 DEF ProcessTypes
    <3> QED
      BY ZenonT(30), <3>1 DEF Conversations, Introduction, Exchange
  <2> QED
    BY <2>1, <2>2
<1>14. Asking'
  BY <1>1, <1>2, <1>5 DEF Asking, ProcessTypes
<1>15. Copies'
  BY <1>1, <1>3, <1>5 DEF Copies
<1>16. Kept'
  <2> SUFFICES ASSUME NEW q \in Processes, NEW l \in LockIds,
                      Running(q), l \notin copied[q], Granted(q, l)'
               PROVE  Granted(q, l)
    BY <1>1, <1>5 DEF Kept
  <2>1. CASE q = p
    BY <2>1, <1>1, <1>2 DEF Granted, ProcessTypes
  <2>2. CASE q # p
    BY <2>2, <1>1, <1>5 DEF Granted
  <2> QED
    BY <2>1, <2>2
<1> QED
  BY <1>7, <1>8, <1>9, <1>10, <1>11, <1>12, <1>13, <1>14, <1>15, <1>16

(* A fork gives the child nothing of its own.                              *)
LEMMA ForkKeeps ==
  ASSUME ProcessInv, NEW p \in Processes, NEW q \in Processes, Fork(p, q)
  PROVE  ProcessInv'
<1> USE DEF ProcessInv
<1>1. /\ doing' = doing /\ call' = call /\ wire' = wire /\ answers' = answers
      /\ locks_to_client' = locks_to_client /\ mark_free_after' = mark_free_after
      /\ connected' = connected /\ client_id' = client_id
  BY DEF Fork, vars, storageVars, serverVars, threadVars, streamVars
<1>2. /\ status[p] = "running" /\ status[q] = "unborn" /\ p # q
      /\ status' = [status EXCEPT ![q] = "running"]
      /\ sock' = [sock EXCEPT ![q] = sock[p]]
      /\ sock_pid' = [sock_pid EXCEPT ![q] = sock_pid[p]]
      /\ own_id' = [own_id EXCEPT ![q] = own_id[p]]
      /\ id_pid' = [id_pid EXCEPT ![q] = id_pid[p]]
      /\ acquired' = [acquired EXCEPT ![q] = acquired[p]]
      /\ copied' = [copied EXCEPT ![q] = copied[p] \cup {o[1] : o \in acquired[p]}]
      /\ holders' = [k \in Addresses |->
                       IF p \in holders[k] THEN holders[k] \cup {q} ELSE holders[k]]
  BY DEF Fork
<1>3. /\ sock_pid[p] # q /\ id_pid[p] # q /\ doing[q] = "idle"
      /\ \A o \in acquired[p] : o[2] # q
  BY <1>2 DEF Ancestry
<1>4. /\ ~Own(q)' /\ MustConnect(q)' /\ ClientId(q)' = NoClient
      /\ \A r \in Processes : r # q =>
           /\ Own(r)' = Own(r) /\ MustConnect(r)' = MustConnect(r)
           /\ Running(r)' = Running(r) /\ ClientId(r)' = ClientId(r)
           /\ sock'[r] = sock[r] /\ own_id'[r] = own_id[r]
           /\ acquired'[r] = acquired[r] /\ copied'[r] = copied[r]
  BY <1>2, <1>3 DEF Own, MustConnect, Running, ClientId, ProcessTypes
<1>5. ProcessTypes'
  <2>1. copied[p] \cup {o[1] : o \in acquired[p]} \in SUBSET LockIds
    BY DEF ProcessTypes, Objects
  <2>2. copied' \in [Processes -> SUBSET LockIds]
    BY <1>2, <2>1 DEF ProcessTypes
  <2>3. holders' \in [Addresses -> SUBSET Processes]
    BY <1>2 DEF ProcessTypes
  <2> QED
    BY <1>1, <1>2, <2>2, <2>3 DEF ProcessTypes
<1>6. Ancestry'
  BY <1>1, <1>2, <1>3 DEF Ancestry, ProcessTypes, Objects
<1>7. Descriptors'
  BY <1>1, <1>2, <1>4 DEF Descriptors, Own, MustConnect, ProcessTypes
<1>8. NothingOnClosed' /\ IdsApart'
  BY <1>1 DEF NothingOnClosed, IdsApart
<1>9. Phases'
  BY <1>1, <1>3, <1>4 DEF Phases
<1>10. Conversations'
  <2>1. \A r \in Processes : Own(r)' =>
          Own(r) /\ sock'[r] = sock[r] /\ own_id'[r] = own_id[r]
    BY <1>4
  <2>2. ASSUME NEW r \in Processes, Own(r)'
        PROVE  /\ Own(r) /\ sock'[r] = sock[r] /\ own_id'[r] = own_id[r]
               /\ doing'[r] = doing[r]
               /\ wire'[sock'[r]] = wire[sock[r]]
               /\ answers'[sock'[r]] = answers[sock[r]]
               /\ client_id'[sock'[r]] = client_id[sock[r]]
               /\ call'[r] = call[r]
    BY <1>1, <2>1, <2>2
  <2>3. ASSUME NEW r \in Processes, Own(r)'
        PROVE  /\ Introduction(r) => Introduction(r)'
               /\ Exchange(r) => Exchange(r)'
    BY <2>2, <2>3 DEF Introduction, Exchange
  <2> QED
    BY <2>2, <2>3 DEF Conversations
<1>11. Asking'
  BY <1>1, <1>3, <1>4 DEF Asking
<1>12. Copies'
  <2>1. \A o \in acquired'[q] : o[2] # q /\ o[1] \in copied'[q]
    BY <1>2, <1>3 DEF ProcessTypes
  <2> QED
    BY <1>1, <1>4, <2>1 DEF Copies
<1>13. Kept'
  <2> SUFFICES ASSUME NEW r \in Processes, NEW l \in LockIds,
                      Running(r)', l \notin copied'[r], Granted(r, l)'
               PROVE  r # q /\ Granted(r, l)
    BY <1>1, <1>4 DEF Kept
  <2>1. r # q
    BY <1>1, <1>2, <1>3 DEF Granted, ProcessTypes
  <2> QED
    BY <2>1, <1>1, <1>4 DEF Granted
<1> QED
  BY <1>5, <1>6, <1>7, <1>8, <1>9, <1>10, <1>11, <1>12, <1>13

(* A process that ends gives up its descriptors and nothing else.          *)
LEMMA ExitKeeps ==
  ASSUME ProcessInv, NEW p \in Processes, Exit(p)
  PROVE  ProcessInv'
<1> USE DEF ProcessInv
<1>1. /\ doing' = doing /\ call' = call /\ wire' = wire /\ answers' = answers
      /\ locks_to_client' = locks_to_client /\ mark_free_after' = mark_free_after
      /\ connected' = connected /\ client_id' = client_id
      /\ sock' = sock /\ sock_pid' = sock_pid /\ own_id' = own_id /\ id_pid' = id_pid
      /\ acquired' = acquired /\ copied' = copied
  BY DEF Exit, vars, storageVars, serverVars, threadVars, streamVars, objectVars
<1>2. /\ status[p] = "running"
      /\ status' = [status EXCEPT ![p] = "gone"]
      /\ holders' = [k \in Addresses |-> holders[k] \ {p}]
  BY DEF Exit
<1>3. /\ ~Running(p)' /\ ~Own(p)'
      /\ \A r \in Processes : r # p => Own(r)' = Own(r) /\ Running(r)' = Running(r)
      /\ \A r \in Processes : MustConnect(r)' = MustConnect(r) /\ ClientId(r)' = ClientId(r)
  BY <1>1, <1>2 DEF Own, MustConnect, Running, ClientId, ProcessTypes
<1>4. ProcessTypes'
  BY <1>1, <1>2 DEF ProcessTypes
<1>5. Ancestry'
  BY <1>1, <1>2 DEF Ancestry, ProcessTypes, Objects
<1>6. Descriptors'
  <2>1. \A r \in Processes : Own(r)' =>
          r # p /\ Own(r) /\ sock'[r] = sock[r] /\ sock[r] \in Addresses
    BY <1>1, <1>3 DEF Own, MustConnect, ProcessTypes
  <2> QED
    BY <1>1, <1>2, <2>1 DEF Descriptors
<1>7. NothingOnClosed' /\ IdsApart' /\ Phases' /\ Asking' /\ Copies'
  BY <1>1, <1>3 DEF NothingOnClosed, IdsApart, Phases, Asking, Copies
<1>8. Conversations'
  BY <1>1, <1>3 DEF Conversations, Introduction, Exchange
<1>9. Kept'
  BY <1>1, <1>3 DEF Kept, Granted
<1> QED
  BY <1>4, <1>5, <1>6, <1>7, <1>8, <1>9

-----------------------------------------------------------------------------
(* The answer to CONN is the id under which the server knows the           *)
(* connection; the call follows it.                                        *)
LEMMA IntroducedKeeps ==
  ASSUME TypeOK, ProcessInv, NEW p \in Processes, Introduced(p)
  PROVE  ProcessInv'
<1> USE DEF ProcessInv
<1> DEFINE k == sock[p]
<1>1. /\ status' = status /\ sock' = sock /\ sock_pid' = sock_pid
      /\ acquired' = acquired /\ copied' = copied /\ call' = call /\ holders' = holders
      /\ locks_to_client' = locks_to_client /\ mark_free_after' = mark_free_after
      /\ connected' = connected /\ client_id' = client_id
  BY DEF Introduced, vars, storageVars, serverVars, osVars
<1>2. /\ Running(p) /\ doing[p] = "introducing" /\ answers[k] # <<>>
      /\ doing' = [doing EXCEPT ![p] = "waiting"]
      /\ id_pid' = [id_pid EXCEPT ![p] = p]
  BY DEF Introduced, TakeAnswer, Running
<1>3. Own(p) /\ k \in Addresses /\ k \in connected
  BY <1>2 DEF Phases, Own, MustConnect, Descriptors, ProcessTypes
<1>4. wire[k] = <<>> /\ answers[k] = <<client_id[k]>> /\ client_id[k] # NoClient
  BY <1>2, <1>3 DEF Conversations, Introduction
<1>5. /\ own_id' = [own_id EXCEPT ![p] = client_id[k]]
      /\ wire' = [wire EXCEPT ![k] = <<call[p]>>]
      /\ answers' = [answers EXCEPT ![k] = <<>>]
  <2>1. Head(answers[k]) = client_id[k] /\ Tail(answers[k]) = <<>>
    BY <1>4, OneOnTheWay
  <2>2. Append(wire[k], call[p]) = <<call[p]>>
    BY <1>4, OneOnTheWay
  <2> QED
    BY <1>3, <2>1, <2>2 DEF Introduced, TakeAnswer, SendOn, ProcessTypes
<1>6. call[p] \in Calls
  BY <1>2 DEF Asking
<1>7. \A q \in Processes :
        /\ Own(q)' = Own(q) /\ MustConnect(q)' = MustConnect(q) /\ Running(q)' = Running(q)
        /\ q # p => ClientId(q)' = ClientId(q) /\ own_id'[q] = own_id[q] /\ doing'[q] = doing[q]
        /\ Own(q) /\ q # p => sock[q] # k /\ sock[q] \in Addresses
  BY <1>1, <1>2, <1>3, <1>5
     DEF Own, MustConnect, Running, ClientId, Descriptors, ProcessTypes
<1>8. ProcessTypes'
  <2>1. <<call[p]>> \in Seq(Requests)
    BY <1>6 DEF Requests
  <2>2. client_id[k] \in Clients
    BY <1>3, <1>4 DEF TypeOK
  <2>3. <<>> \in Seq(Clients \cup {TRUE, FALSE})
    OBVIOUS
  <2> QED
    BY <1>1, <1>2, <1>5, <2>1, <2>2, <2>3 DEF ProcessTypes
<1>9. Ancestry'
  BY <1>1, <1>2 DEF Ancestry, ProcessTypes, Running
<1>10. Descriptors' /\ IdsApart'
  BY <1>1, <1>7 DEF Descriptors, IdsApart
<1>11. NothingOnClosed'
  BY <1>1, <1>3, <1>5 DEF NothingOnClosed, ProcessTypes
<1>12. Phases'
  BY <1>2, <1>3, <1>7 DEF Phases, Own, ProcessTypes
<1>13. Conversations'
  <2> SUFFICES ASSUME NEW q \in Processes, Own(q)
               PROVE  /\ doing'[q] = "idle" => wire'[sock[q]] = <<>> /\ answers'[sock[q]] = <<>>
                      /\ doing'[q] = "introducing" => Introduction(q)'
                      /\ doing'[q] = "waiting" => Exchange(q)'
                      /\ doing'[q] # "introducing" =>
                           client_id[sock[q]] = own_id'[q] /\ own_id'[q] # NoClient
    BY <1>1, <1>7 DEF Conversations
  <2>1. CASE q = p
    BY <2>1, <1>1, <1>2, <1>3, <1>4, <1>5 DEF Exchange, ProcessTypes
  <2>2. CASE q # p
    <3>1. /\ wire'[sock[q]] = wire[sock[q]] /\ answers'[sock[q]] = answers[sock[q]]
          /\ own_id'[q] = own_id[q] /\ doing'[q] = doing[q]
      BY <2>2, <1>5, <1>7 DEF ProcessTypes
    <3> QED
      BY <3>1, <1>1 DEF Conversations, Introduction, Exchange
  <2> QED
    BY <2>1, <2>2
<1>14. Asking'
  BY <1>1, <1>2, <1>7 DEF Asking, ProcessTypes
<1>15. Copies'
  BY <1>1, <1>2, <1>7 DEF Copies, ProcessTypes
<1>16. Kept'
  <2>1. \A l \in LockIds : <<l, p>> \notin acquired[p]
    BY <1>2 DEF Copies
  <2>2. answers'[sock'[p]] = <<>>
    BY <1>1, <1>3, <1>5 DEF ProcessTypes
  <2>3. \A l \in LockIds : ~Granted(p, l)'
    BY <1>1, <2>1, <2>2, OneOnTheWay DEF Granted
  <2>4. ASSUME NEW q \in Processes, NEW l \in LockIds, q # p, Running(q), Granted(q, l)'
        PROVE  Granted(q, l)
    <3>1. CASE <<l, q>> \in acquired[q]
      BY <3>1 DEF Granted
    <3>2. CASE doing[q] = "waiting"
      <4>1. Own(q)
        BY <2>4, <3>2 DEF Phases, Own
      <4>2. answers'[sock'[q]] = answers[sock[q]]
        BY <2>4, <4>1, <1>1, <1>5, <1>7 DEF ProcessTypes
      <4> QED
        BY <2>4, <4>2, <1>1, <1>7 DEF Granted
    <3> QED
      BY <2>4, <3>1, <3>2, <1>1, <1>7 DEF Granted
  <2> QED
    BY <1>1, <1>7, <2>3, <2>4 DEF Kept
<1> QED
  BY <1>8, <1>9, <1>10, <1>11, <1>12, <1>13, <1>14, <1>15, <1>16

(* The answer is that to the process's own request.                        *)
LEMMA ReturnKeeps ==
  ASSUME ProcessInv, NEW p \in Processes, Return(p)
  PROVE  ProcessInv'
<1> USE DEF ProcessInv
<1> DEFINE k == sock[p]
           mine == call[p].object
<1>1. /\ status' = status /\ sock' = sock /\ sock_pid' = sock_pid
      /\ own_id' = own_id /\ id_pid' = id_pid /\ copied' = copied /\ holders' = holders
      /\ wire' = wire
      /\ locks_to_client' = locks_to_client /\ mark_free_after' = mark_free_after
      /\ connected' = connected /\ client_id' = client_id
  BY DEF Return, vars, storageVars, serverVars, osVars
<1>2. /\ Running(p) /\ doing[p] = "waiting" /\ answers[k] # <<>>
      /\ doing' = [doing EXCEPT ![p] = "idle"]
      /\ call' = [call EXCEPT ![p] = Nothing]
  BY DEF Return, TakeAnswer, Running
<1>3. Own(p) /\ k \in Addresses /\ k \in connected
  BY <1>2 DEF Phases, Own, MustConnect, Descriptors, ProcessTypes
<1>4. wire[k] = <<>> /\ answers[k] \in {<<TRUE>>, <<FALSE>>}
  BY <1>2, <1>3 DEF Conversations, Exchange
<1>5. answers' = [answers EXCEPT ![k] = <<>>]
  BY <1>3, <1>4, OneOnTheWay DEF Return, TakeAnswer, ProcessTypes
<1>6. mine \in Objects /\ (call[p].verb = "AQ" => mine[2] = p)
  BY <1>2 DEF Asking, Calls
<1>7. /\ \/ acquired' = acquired
         \/ call[p].verb = "AQ" /\ acquired' = [acquired EXCEPT ![p] = @ \cup {mine}]
      /\ acquired' = acquired \/ answers[k] = <<TRUE>>
  <2>1. CASE call[p].verb = "AQ" /\ Head(answers[k]) = TRUE
    BY <1>4, <2>1, OneOnTheWay DEF Return, ProcessTypes
  <2>2. CASE ~(call[p].verb = "AQ" /\ Head(answers[k]) = TRUE)
    BY <2>2 DEF Return, ProcessTypes
  <2> QED
    BY <2>1, <2>2
<1> HIDE DEF mine
<1>7a. /\ acquired' \in [Processes -> SUBSET Objects]
       /\ \A q \in Processes : q # p => acquired'[q] = acquired[q]
       /\ \A o \in acquired'[p] : o \in acquired[p] \/ (o = mine /\ call[p].verb = "AQ")
  <2>1. CASE acquired' = acquired
    BY <2>1 DEF ProcessTypes
  <2>2. CASE call[p].verb = "AQ" /\ acquired' = [acquired EXCEPT ![p] = @ \cup {mine}]
    BY <1>6, <2>2 DEF ProcessTypes
  <2> QED
    BY <1>7, <2>1, <2>2
<1>8. \A q \in Processes :
        /\ Own(q)' = Own(q) /\ MustConnect(q)' = MustConnect(q) /\ Running(q)' = Running(q)
        /\ ClientId(q)' = ClientId(q)
        /\ q # p => doing'[q] = doing[q] /\ call'[q] = call[q] /\ acquired'[q] = acquired[q]
        /\ Own(q) /\ q # p => sock[q] # k /\ sock[q] \in Addresses
  BY <1>1, <1>2, <1>3, <1>7a
     DEF Own, MustConnect, Running, ClientId, Descriptors, ProcessTypes
<1>9. ProcessTypes'
  <2>1. <<>> \in Seq(Clients \cup {TRUE, FALSE})
    OBVIOUS
  <2> QED
    BY <1>1, <1>2, <1>5, <1>7a, <2>1 DEF ProcessTypes
<1>10. Ancestry'
  <2>1. \A o \in acquired'[p] : o \in acquired[p] \/ o[2] = p
    BY <1>6, <1>7a
  <2> QED
    BY <1>1, <1>2, <1>8, <2>1 DEF Ancestry, ProcessTypes, Running
<1>11. Descriptors' /\ IdsApart'
  BY <1>1, <1>8 DEF Descriptors, IdsApart
<1>12. NothingOnClosed'
  BY <1>1, <1>3, <1>5 DEF NothingOnClosed, ProcessTypes
<1>13. Phases'
  BY <1>2, <1>3, <1>8 DEF Phases, Own, ProcessTypes
<1>14. Conversations'
  <2> SUFFICES ASSUME NEW q \in Processes, Own(q)
               PROVE  /\ doing'[q] = "idle" => wire[sock[q]] = <<>> /\ answers'[sock[q]] = <<>>
                      /\ doing'[q] = "introducing" => Introduction(q)'
                      /\ doing'[q] = "waiting" => Exchange(q)'
                      /\ doing'[q] # "introducing" =>
                           client_id[sock[q]] = own_id[q] /\ own_id[q] # NoClient
    BY <1>1, <1>8 DEF Conversations
  <2>1. CASE q = p
    BY <2>1, <1>1, <1>2, <1>3, <1>4, <1>5 DEF Conversations, ProcessTypes
  <2>2. CASE q # p
    <3>1. answers'[sock[q]] = answers[sock[q]] /\ doing'[q] = doing[q] /\ call'[q] = call[q]
      BY <2>2, <1>5, <1>8 DEF ProcessTypes
    <3> QED
      BY <3>1, <1>1 DEF Conversations, Introduction, Exchange
  <2> QED
    BY <2>1, <2>2
<1>15. Asking'
  BY <1>1, <1>2, <1>8 DEF Asking, ProcessTypes
<1>16. Copies'
  <2>1. \A o \in acquired'[p] : o \in acquired[p] \/ o[2] = p
    BY <1>6, <1>7a
  <2>2. ~MustConnect(p) /\ doing'[p] = "idle"
    BY <1>2, <1>3 DEF Own, ProcessTypes
  <2> QED
    BY <1>1, <1>8, <2>1, <2>2 DEF Copies
<1>17. Kept'
  <2>1. ASSUME NEW l \in LockIds, Granted(p, l)' PROVE Granted(p, l)
    <3>1. doing'[p] = "idle"
      BY <1>2 DEF ProcessTypes
    <3>2. <<l, p>> \in acquired'[p]
      BY <2>1, <3>1 DEF Granted
    <3>3. CASE <<l, p>> \in acquired[p]
      BY <3>3 DEF Granted
    <3>4. CASE <<l, p>> \notin acquired[p]
      <4>1. mine = <<l, p>> /\ call[p].verb = "AQ"
        BY <1>7a, <3>2, <3>4
      <4>2. answers[k] = <<TRUE>>
        BY <1>7, <3>2, <3>4
      <4> QED
        BY <1>2, <4>1, <4>2 DEF Granted, mine
    <3> QED
      BY <3>3, <3>4
  <2>2. ASSUME NEW q \in Processes, NEW l \in LockIds, q # p, Running(q), Granted(q, l)'
        PROVE  Granted(q, l)
    <3>1. CASE <<l, q>> \in acquired[q]
      BY <3>1 DEF Granted
    <3>2. CASE doing[q] = "waiting"
      <4>1. Own(q)
        BY <2>2, <3>2 DEF Phases, Own
      <4>2. answers'[sock'[q]] = answers[sock[q]]
        BY <2>2, <4>1, <1>1, <1>5, <1>8 DEF ProcessTypes
      <4> QED
        BY <2>2, <4>2, <1>1, <1>8 DEF Granted
    <3> QED
      BY <2>2, <3>1, <3>2, <1>1, <1>8 DEF Granted
  <2> QED
    BY <1>1, <1>8, <2>1, <2>2 DEF Kept
<1> QED
  BY <1>9, <1>10, <1>11, <1>12, <1>13, <1>14, <1>15, <1>16, <1>17

-----------------------------------------------------------------------------
(* Whose a lock is that a process was granted.                             *)
LEMMA GrantedLock ==
  ASSUME TypeOK, ProcessInv, NEW p \in Processes, NEW l \in LockIds,
         Running(p), l \notin copied[p], Granted(p, l)
  PROVE  /\ Own(p) /\ sock[p] \in connected /\ sock[p] \in Addresses
         /\ doing[p] # "introducing"
         /\ locks_to_client[l] = own_id[p] /\ client_id[sock[p]] = own_id[p]
         /\ own_id[p] \in Clients
         /\ mark_free_after[l] = NotMarked /\ ~Expired(l) /\ ~IsFree(l)
<1> USE DEF ProcessInv
<1>1. ~MustConnect(p) /\ doing[p] # "introducing"
  BY DEF Granted, Copies, Phases
<1>2. Own(p) /\ sock[p] \in connected /\ sock[p] \in Addresses
  BY <1>1 DEF Own, Descriptors, MustConnect, ProcessTypes
<1>3. client_id[sock[p]] = own_id[p] /\ own_id[p] \in Clients
  BY <1>1, <1>2 DEF Conversations, ProcessTypes
<1>4. locks_to_client[l] = own_id[p] /\ mark_free_after[l] = NotMarked
  BY DEF Kept
<1> QED
  BY <1>1, <1>2, <1>3, <1>4, SentinelAssumption DEF Expired, IsFree, Lapsed, NotMarked

(* What the answer a on connection k leaves.                               *)
Served(k, a) ==
  /\ ProcessTypes' /\ Ancestry' /\ Descriptors' /\ NothingOnClosed' /\ Phases'
  /\ Asking' /\ Copies'
  /\ \A q \in Processes :
       /\ Own(q)' = Own(q) /\ Running(q)' = Running(q)
       /\ Own(q) /\ sock[q] # k =>
            wire'[sock[q]] = wire[sock[q]] /\ answers'[sock[q]] = answers[sock[q]]
       /\ Own(q) /\ sock[q] = k =>
            /\ answers[k] = <<>> /\ wire'[k] = <<>> /\ answers'[k] = <<a>>
            /\ \/ doing[q] = "introducing" /\ Head(wire[k]) = Hello
               \/ doing[q] = "waiting" /\ Head(wire[k]) = call[q] /\ call[q] \in Calls

(* An answer takes the place of the one request on the connection of the   *)
(* process that has it, and disturbs no other.                             *)
LEMMA AnswerKeeps ==
  ASSUME ProcessInv, NEW k \in Addresses, NEW a \in Clients \cup {TRUE, FALSE},
         k \in connected, connected' = connected, wire[k] # <<>>, Answer(k, a)
  PROVE  Served(k, a)
<1> USE DEF ProcessInv
<1>1. /\ status' = status /\ sock' = sock /\ sock_pid' = sock_pid
      /\ own_id' = own_id /\ id_pid' = id_pid /\ acquired' = acquired /\ copied' = copied
      /\ doing' = doing /\ call' = call /\ holders' = holders
  BY DEF Answer, objectVars, threadVars, osVars
<1>2. /\ wire' = [wire EXCEPT ![k] = Tail(wire[k])]
      /\ answers' = [answers EXCEPT ![k] = Append(answers[k], a)]
  BY DEF Answer
<1>3. \A q \in Processes :
        /\ Own(q)' = Own(q) /\ Running(q)' = Running(q)
        /\ MustConnect(q)' = MustConnect(q) /\ ClientId(q)' = ClientId(q)
  BY <1>1 DEF Own, MustConnect, Running, ClientId
<1>4. ProcessTypes'
  <2>1. Tail(wire[k]) \in Seq(Requests)
    <3>1. wire[k] \in Seq(Requests)
      BY DEF ProcessTypes
    <3> QED
      BY <3>1, HeadTailProperties
  <2>2. Append(answers[k], a) \in Seq(Clients \cup {TRUE, FALSE})
    <3>1. answers[k] \in Seq(Clients \cup {TRUE, FALSE})
      BY DEF ProcessTypes
    <3> QED
      BY <3>1, AppendProperties
  <2>3. \A w \in Seq(Requests) : [wire EXCEPT ![k] = w] \in [Addresses -> Seq(Requests)]
    BY DEF ProcessTypes
  <2>4. \A w \in Seq(Clients \cup {TRUE, FALSE}) :
          [answers EXCEPT ![k] = w] \in [Addresses -> Seq(Clients \cup {TRUE, FALSE})]
    BY DEF ProcessTypes
  <2>5. wire' \in [Addresses -> Seq(Requests)]
    BY <1>2, <2>1, <2>3
  <2>6. answers' \in [Addresses -> Seq(Clients \cup {TRUE, FALSE})]
    BY <1>2, <2>2, <2>4
  <2> QED
    BY <1>1, <2>5, <2>6 DEF ProcessTypes
<1>5. Ancestry' /\ Asking' /\ Copies' /\ Phases'
  BY <1>1, <1>3 DEF Ancestry, Asking, Copies, Phases
<1>6. Descriptors'
  BY <1>1, <1>3 DEF Descriptors
<1>7. NothingOnClosed'
  BY <1>2 DEF NothingOnClosed, ProcessTypes
<1>8. \A j \in Addresses : j # k => wire'[j] = wire[j] /\ answers'[j] = answers[j]
  BY <1>2 DEF ProcessTypes
<1>9. \A q \in Processes : Own(q) => sock[q] \in Addresses
  BY DEF Own, MustConnect, ProcessTypes
<1>10. ASSUME NEW q \in Processes, Own(q), sock[q] = k
       PROVE  /\ answers[k] = <<>> /\ wire'[k] = <<>> /\ answers'[k] = <<a>>
              /\ \/ doing[q] = "introducing" /\ Head(wire[k]) = Hello
                 \/ doing[q] = "waiting" /\ Head(wire[k]) = call[q] /\ call[q] \in Calls
  <2>1. doing[q] \in {"introducing", "waiting"}
    BY <1>10 DEF Conversations, Phases, Own, ProcessTypes
  <2>2. /\ answers[k] = <<>>
        /\ \/ doing[q] = "introducing" /\ wire[k] = <<Hello>>
           \/ doing[q] = "waiting" /\ wire[k] = <<call[q]>> /\ call[q] \in Calls
    BY <1>10, <2>1 DEF Conversations, Introduction, Exchange, Asking, Own
  <2>3. Append(answers[k], a) = <<a>>
    BY <2>2, OneOnTheWay
  <2>4. answers'[k] = Append(answers[k], a) /\ wire'[k] = Tail(wire[k])
    BY <1>2 DEF ProcessTypes
  <2>5. Tail(wire[k]) = <<>>
    BY <2>2, OneOnTheWay
  <2>6. \/ doing[q] = "introducing" /\ Head(wire[k]) = Hello
        \/ doing[q] = "waiting" /\ Head(wire[k]) = call[q] /\ call[q] \in Calls
    BY <2>2, OneOnTheWay
  <2> QED
    BY <2>2, <2>3, <2>4, <2>5, <2>6
<1> QED
  BY <1>3, <1>4, <1>5, <1>6, <1>7, <1>8, <1>9, <1>10 DEF Served

(* CONN: the new id is nobody else's.                                      *)
LEMMA ConnKeeps ==
  ASSUME TypeOK, ProcessInv, NEW k \in Addresses, NEW c \in Clients,
         wire[k] # <<>>, Head(wire[k]).verb = "CONN", ConnNew(k, c), Answer(k, c)
  PROVE  ProcessInv'
<1> USE DEF ProcessInv
<1>1. /\ k \in connected /\ connected' = connected
      /\ client_id' = [client_id EXCEPT ![k] = c]
      /\ \A j \in connected : client_id[j] # c
      /\ locks_to_client' = locks_to_client /\ mark_free_after' = mark_free_after
  BY DEF ConnNew, MayConn, Unused
<1>2. /\ sock' = sock /\ own_id' = own_id /\ doing' = doing /\ call' = call
      /\ acquired' = acquired /\ copied' = copied
  BY DEF Answer, objectVars, threadVars
<1>3. /\ ProcessTypes' /\ Ancestry' /\ Descriptors' /\ NothingOnClosed' /\ Phases'
      /\ Asking' /\ Copies'
      /\ \A q \in Processes :
           /\ Own(q)' = Own(q) /\ Running(q)' = Running(q)
           /\ Own(q) /\ sock[q] # k =>
                wire'[sock[q]] = wire[sock[q]] /\ answers'[sock[q]] = answers[sock[q]]
           /\ Own(q) /\ sock[q] = k =>
                /\ wire'[k] = <<>> /\ answers'[k] = <<c>>
                /\ doing[q] = "introducing"
  <2>1. Served(k, c)
    BY <1>1, AnswerKeeps
  <2>2. Head(wire[k]) \notin Calls
    BY DEF Calls
  <2> QED
    BY <2>1, <2>2 DEF Served
<1>4. IdsApart'
  BY <1>1 DEF IdsApart, TypeOK
<1>5. Conversations'
  <2> SUFFICES ASSUME NEW q \in Processes, Own(q)
               PROVE  /\ doing[q] = "idle" => wire'[sock[q]] = <<>> /\ answers'[sock[q]] = <<>>
                      /\ doing[q] = "introducing" => Introduction(q)'
                      /\ doing[q] = "waiting" => Exchange(q)'
                      /\ doing[q] # "introducing" =>
                           client_id'[sock[q]] = own_id[q] /\ own_id[q] # NoClient
    BY <1>2, <1>3 DEF Conversations
  <2>1. CASE sock[q] = k
    <3>1. client_id'[k] = c /\ c # NoClient
      BY <1>1, SentinelAssumption DEF TypeOK
    <3> QED
      BY <2>1, <3>1, <1>2, <1>3 DEF Introduction
  <2>2. CASE sock[q] # k
    <3>1. client_id'[sock[q]] = client_id[sock[q]]
      BY <2>2, <1>1 DEF TypeOK, Own, MustConnect, ProcessTypes
    <3> QED
      BY <2>2, <3>1, <1>2, <1>3 DEF Conversations, Introduction, Exchange
  <2> QED
    BY <2>1, <2>2
<1>6. Kept'
  <2> SUFFICES ASSUME NEW q \in Processes, NEW l \in LockIds,
                      Running(q), l \notin copied[q], Granted(q, l)'
               PROVE  Granted(q, l)
    BY <1>1, <1>2, <1>3 DEF Kept
  <2>1. CASE <<l, q>> \in acquired[q]
    BY <2>1 DEF Granted
  <2>2. CASE <<l, q>> \notin acquired[q]
    <3>1. doing[q] = "waiting" /\ Own(q)
      BY <2>2, <1>2 DEF Granted, Phases, Own
    <3>2. answers'[sock[q]] = answers[sock[q]]
      BY <3>1, <1>3
    <3> QED
      BY <3>2, <1>2 DEF Granted
  <2> QED
    BY <2>1, <2>2
<1> QED
  BY <1>3, <1>4, <1>5, <1>6

(* AQ and RELEASE: all but what becomes of the locks.                      *)
LEMMA LockAnswerKeeps ==
  ASSUME ProcessInv, NEW k \in Addresses, NEW a \in {TRUE, FALSE},
         wire[k] # <<>>, Head(wire[k]).verb \in {"AQ", "RELEASE"}, Answer(k, a),
         k \in connected, UNCHANGED serverVars
  PROVE  /\ Served(k, a) /\ IdsApart' /\ Conversations'
         /\ sock' = sock /\ own_id' = own_id /\ doing' = doing /\ call' = call
         /\ acquired' = acquired /\ copied' = copied
<1> USE DEF ProcessInv
<1>1. connected' = connected /\ client_id' = client_id
  BY DEF serverVars
<1>2. /\ sock' = sock /\ own_id' = own_id /\ doing' = doing /\ call' = call
      /\ acquired' = acquired /\ copied' = copied
  BY DEF Answer, objectVars, threadVars
<1>3. Served(k, a)
  BY <1>1, AnswerKeeps
<1>4. IdsApart'
  BY <1>1 DEF IdsApart
<1>5. Conversations'
  <2> SUFFICES ASSUME NEW q \in Processes, Own(q)
               PROVE  /\ doing[q] = "idle" => wire'[sock[q]] = <<>> /\ answers'[sock[q]] = <<>>
                      /\ doing[q] = "introducing" => Introduction(q)'
                      /\ doing[q] = "waiting" => Exchange(q)'
                      /\ doing[q] # "introducing" =>
                           client_id[sock[q]] = own_id[q] /\ own_id[q] # NoClient
    BY <1>1, <1>2, <1>3 DEF Conversations, Served
  <2>1. CASE sock[q] = k
    <3>1. wire'[k] = <<>> /\ answers'[k] = <<a>> /\ doing[q] = "waiting"
      BY <2>1, <1>3 DEF Served, Hello
    <3>2. answers'[k] \in {<<TRUE>>, <<FALSE>>}
      BY <3>1
    <3>3. client_id[sock[q]] = own_id[q] /\ own_id[q] # NoClient
      BY <3>1 DEF Conversations
    <3> QED
      BY <2>1, <3>1, <3>2, <3>3, <1>2 DEF Exchange
  <2>2. CASE sock[q] # k
    <3>1. wire'[sock[q]] = wire[sock[q]] /\ answers'[sock[q]] = answers[sock[q]]
      BY <2>2, <1>3 DEF Served
    <3> QED
      BY <3>1, <1>1, <1>2 DEF Conversations, Introduction, Exchange
  <2> QED
    BY <2>1, <2>2
<1> QED
  BY <1>2, <1>3, <1>4, <1>5

(* A lock that was granted before or is granted now: the connection on     *)
(* which the process waits answered its AQ.                                *)
LEMMA GrantedNow ==
  ASSUME ProcessInv, NEW k \in Addresses, NEW a \in {TRUE, FALSE}, Served(k, a),
         sock' = sock, doing' = doing, call' = call, acquired' = acquired,
         NEW p \in Processes, NEW l \in LockIds, Running(p), Granted(p, l)', ~Granted(p, l)
  PROVE  /\ Own(p) /\ sock[p] = k /\ a = TRUE /\ doing[p] = "waiting"
         /\ Head(wire[k]) = call[p]
         /\ call[p].verb = "AQ" /\ call[p].object = <<l, p>>
<1>1. /\ doing[p] = "waiting" /\ call[p].verb = "AQ" /\ call[p].object = <<l, p>>
      /\ answers'[sock[p]] = <<TRUE>> /\ answers[sock[p]] # <<TRUE>>
  BY DEF Granted
<1>2. Own(p)
  BY <1>1 DEF ProcessInv, Phases, Own
<1>3. sock[p] = k
  BY <1>1, <1>2 DEF Served
<1>4. answers'[k] = <<a>> /\ Head(wire[k]) = call[p]
  BY <1>1, <1>2, <1>3 DEF Served
<1>5. a = TRUE
  <2>1. Head(<<a>>) = Head(<<TRUE>>)
    BY <1>1, <1>3, <1>4
  <2> QED
    BY <2>1, OneOnTheWay
<1> QED
  BY <1>1, <1>2, <1>3, <1>4, <1>5

(* AQ takes only free locks, and not those that somebody was granted.      *)
LEMMA AqKeepsProcesses ==
  ASSUME TypeOK, ProcessInv, NEW k \in Addresses, wire[k] # <<>>,
         Head(wire[k]) \in Calls, Head(wire[k]).verb = "AQ",
         NEW m \in LockIds, m = Head(wire[k]).object[1],
         Aq(k, m, FALSE), Answer(k, AcquireReply(client_id[k], m, FALSE))
  PROVE  ProcessInv'
<1> DEFINE a == AcquireReply(client_id[k], m, FALSE)
<1>1. /\ k \in connected /\ UNCHANGED serverVars
      /\ a \in {TRUE, FALSE} /\ (a = TRUE => IsFree(m))
      /\ Acquire(client_id[k], m, FALSE)
  BY DEF Aq, Identified, AcquireReply, IsFree, Lapsed
<1> HIDE DEF a
<1>2. Answer(k, a)
  BY DEF a
<1>3. /\ Served(k, a) /\ IdsApart' /\ Conversations'
      /\ sock' = sock /\ own_id' = own_id /\ doing' = doing /\ call' = call
      /\ acquired' = acquired /\ copied' = copied
  BY <1>1, <1>2, LockAnswerKeeps
<1>4. Kept'
  <2> SUFFICES ASSUME NEW p \in Processes, NEW l \in LockIds,
                      Running(p), l \notin copied[p], Granted(p, l)'
               PROVE  locks_to_client'[l] = own_id[p] /\ mark_free_after'[l] = NotMarked
    BY <1>3 DEF Kept, Served
  <2>1. CASE Granted(p, l)
    <3>1. locks_to_client[l] = own_id[p] /\ mark_free_after[l] = NotMarked /\ ~IsFree(l)
      BY <2>1, GrantedLock
    <3>2. CASE m = l
      BY <3>1, <3>2, <1>1 DEF Acquire
    <3>3. CASE m # l
      BY <3>1, <3>3, <1>1 DEF Acquire, TypeOK, StorageTypeOK
    <3> QED
      BY <3>2, <3>3
  <2>2. CASE ~Granted(p, l)
    <3>1. /\ Own(p) /\ sock[p] = k /\ a = TRUE /\ doing[p] = "waiting"
          /\ Head(wire[k]) = call[p] /\ call[p].object = <<l, p>>
      BY <2>2, <1>1, <1>3, GrantedNow
    <3>2. m = l /\ IsFree(m)
      BY <3>1, <1>1
    <3>3. client_id[k] = own_id[p]
      BY <3>1 DEF ProcessInv, Conversations
    <3> QED
      BY <3>2, <3>3, <1>1 DEF Acquire, TypeOK, StorageTypeOK
  <2> QED
    BY <2>1, <2>2
<1> QED
  BY <1>3, <1>4 DEF ProcessInv, Served

(* RELEASE takes locks only from the id of its connection: from nobody who *)
(* was granted them, but for a process that gives up its parent's lock.    *)
LEMMA ReleaseKeepsProcesses ==
  ASSUME TypeOK, IndexesAgree, ProcessInv, NEW k \in Addresses, wire[k] # <<>>,
         Head(wire[k]) \in Calls, Head(wire[k]).verb = "RELEASE",
         NEW m \in LockIds, m = Head(wire[k]).object[1],
         ReleaseCommand(k, m), Answer(k, ReleaseReply(client_id[k], m))
  PROVE  ProcessInv'
<1> DEFINE a == ReleaseReply(client_id[k], m)
<1>1. /\ k \in connected /\ client_id[k] \in Clients /\ UNCHANGED serverVars
      /\ a \in {TRUE, FALSE}
      /\ DeleteLocks({m} \cap client_to_locks[client_id[k]])
      /\ mark_free_after' = mark_free_after
  <2>1. a \in BOOLEAN
    BY DEF ReleaseReply
  <2> HIDE DEF a
  <2> QED
    BY <2>1 DEF ReleaseCommand, Release, Identified, TypeOK
<1> HIDE DEF a
<1>2. Answer(k, a)
  BY DEF a
<1>3. /\ Served(k, a) /\ IdsApart' /\ Conversations'
      /\ sock' = sock /\ own_id' = own_id /\ doing' = doing /\ call' = call
      /\ acquired' = acquired /\ copied' = copied
  BY <1>1, <1>2, LockAnswerKeeps
<1>4. Kept'
  <2> SUFFICES ASSUME NEW p \in Processes, NEW l \in LockIds,
                      Running(p), l \notin copied[p], Granted(p, l)'
               PROVE  locks_to_client'[l] = own_id[p] /\ mark_free_after'[l] = NotMarked
    BY <1>3 DEF Kept, Served
  <2>1. Granted(p, l)
    <3> SUFFICES ASSUME ~Granted(p, l) PROVE FALSE
      OBVIOUS
    <3>1. Head(wire[k]) = call[p] /\ call[p].verb = "AQ"
      BY <1>1, <1>3, GrantedNow
    <3> QED
      BY <3>1
  <2>2. /\ Own(p) /\ sock[p] \in connected /\ doing[p] # "introducing"
        /\ locks_to_client[l] = own_id[p] /\ client_id[sock[p]] = own_id[p]
        /\ own_id[p] \in Clients /\ mark_free_after[l] = NotMarked
    BY <2>1, GrantedLock
  <2>3. ~(l = m /\ l \in client_to_locks[client_id[k]])
    <3> SUFFICES ASSUME l = m, l \in client_to_locks[client_id[k]] PROVE FALSE
      OBVIOUS
    <3>1. client_id[k] = client_id[sock[p]]
      BY <1>1, <2>2 DEF IndexesAgree
    <3>2. sock[p] = k
      BY <3>1, <1>1, <2>2, SentinelAssumption DEF ProcessInv, IdsApart
    <3>3. doing[p] = "waiting" /\ Head(wire[k]) = call[p]
      BY <3>2, <2>2, <1>3 DEF Served
    <3>4. /\ call[p].object \notin acquired[p] /\ call[p].object \in LockIds \X Processes
          /\ call[p].object[2] # p => call[p].object[1] \in copied[p]
      BY <3>3 DEF ProcessInv, Asking, Calls, Objects
    <3>5. call[p].object = <<l, p>>
      BY <3>3, <3>4
    <3> QED
      BY <2>1, <3>3, <3>4, <3>5 DEF Granted
  <2> QED
    BY <1>1, <2>2, <2>3 DEF DeleteLocks
<1> QED
  BY <1>3, <1>4 DEF ProcessInv, Served

(* Whichever request the server serves next, the invariant is kept.        *)
LEMMA ExecuteKeeps ==
  ASSUME TypeOK, IndexesAgree, ProcessInv, NEW k \in Addresses, Execute(k)
  PROVE  ProcessInv'
<1> DEFINE request == Head(wire[k])
<1>1. wire[k] # <<>> /\ request \in Requests
  <2>1. wire[k] \in Seq(Requests) /\ wire[k] # <<>>
    BY DEF Execute, ProcessInv, ProcessTypes
  <2> QED
    BY <2>1, HeadTailProperties
<1>2. /\ request.verb = "CONN" => request.client = NoClient
      /\ request.verb \in {"AQ", "RELEASE"} => request \in Calls /\ request.object[1] \in LockIds
  BY <1>1, KindsOfRequest
<1> HIDE DEF request
<1>3. CASE /\ request.verb = "CONN"
           /\ \E c \in Clients : ConnNew(k, c) /\ Answer(k, c)
  BY <1>1, <1>3, ConnKeeps DEF request
<1>4. CASE /\ request.verb = "AQ"
           /\ Aq(k, request.object[1], FALSE)
           /\ Answer(k, AcquireReply(client_id[k], request.object[1], FALSE))
  BY <1>1, <1>2, <1>4, AqKeepsProcesses DEF request
<1>5. CASE /\ request.verb = "RELEASE"
           /\ ReleaseCommand(k, request.object[1])
           /\ Answer(k, ReleaseReply(client_id[k], request.object[1]))
  BY <1>1, <1>2, <1>5, ReleaseKeepsProcesses DEF request
<1> QED
  BY <1>2, <1>3, <1>4, <1>5 DEF Execute, request

(* The end of a connection that no process has.                            *)
LEMMA LoseKeeps ==
  ASSUME TypeOK, IndexesAgree, ProcessInv, NEW k \in Addresses, Lose(k)
  PROVE  ProcessInv'
<1> USE DEF ProcessInv
<1>1. /\ status' = status /\ sock' = sock /\ sock_pid' = sock_pid
      /\ own_id' = own_id /\ id_pid' = id_pid /\ acquired' = acquired /\ copied' = copied
      /\ doing' = doing /\ call' = call /\ holders' = holders
      /\ wire' = [wire EXCEPT ![k] = <<>>] /\ answers' = [answers EXCEPT ![k] = <<>>]
  BY DEF Lose, objectVars, threadVars, osVars
<1>2. /\ k \in connected /\ connected' = connected \ {k}
      /\ client_id' = [client_id EXCEPT ![k] = NoClient]
      /\ locks_to_client' = locks_to_client
  BY DEF Lose, ConnectionLost, ReleaseAll, MarkAll, storageVars
<1>3. \A q \in Processes :
        /\ Own(q)' = Own(q) /\ Running(q)' = Running(q)
        /\ MustConnect(q)' = MustConnect(q) /\ ClientId(q)' = ClientId(q)
        /\ Own(q) => sock[q] # k /\ sock[q] \in Addresses
  BY <1>1 DEF Own, MustConnect, Running, ClientId, Descriptors, ProcessTypes, Lose
<1>4. \A q \in Processes : Own(q) =>
        /\ wire'[sock[q]] = wire[sock[q]] /\ answers'[sock[q]] = answers[sock[q]]
        /\ client_id'[sock[q]] = client_id[sock[q]]
  BY <1>1, <1>2, <1>3 DEF ProcessTypes, TypeOK
<1>5. ProcessTypes'
  <2>1. <<>> \in Seq(Requests) /\ <<>> \in Seq(Clients \cup {TRUE, FALSE})
    OBVIOUS
  <2> QED
    BY <1>1, <2>1 DEF ProcessTypes
<1>6. Ancestry' /\ Phases' /\ Asking' /\ Copies'
  BY <1>1, <1>3 DEF Ancestry, Phases, Asking, Copies
<1>7. Descriptors'
  BY <1>1, <1>2, <1>3 DEF Descriptors
<1>8. NothingOnClosed'
  BY <1>1, <1>2 DEF NothingOnClosed, ProcessTypes
<1>9. IdsApart'
  BY <1>2 DEF IdsApart, TypeOK
<1>10. Conversations'
  <2> SUFFICES ASSUME NEW q \in Processes, Own(q)
               PROVE  /\ doing[q] = "idle" => wire'[sock[q]] = <<>> /\ answers'[sock[q]] = <<>>
                      /\ doing[q] = "introducing" => Introduction(q)'
                      /\ doing[q] = "waiting" => Exchange(q)'
                      /\ doing[q] # "introducing" =>
                           client_id'[sock[q]] = own_id[q] /\ own_id[q] # NoClient
    BY <1>1, <1>3 DEF Conversations
  <2>1. sock' = sock /\ call' = call
    BY <1>1
  <2> QED
    BY <1>4, <2>1 DEF Conversations, Introduction, Exchange
<1>11. Kept'
  <2> SUFFICES ASSUME NEW p \in Processes, NEW l \in LockIds,
                      Running(p), l \notin copied[p], Granted(p, l)'
               PROVE  locks_to_client[l] = own_id[p] /\ mark_free_after'[l] = NotMarked
    BY <1>1, <1>2, <1>3 DEF Kept
  <2>1. Granted(p, l)
    <3>1. CASE <<l, p>> \in acquired[p]
      BY <3>1 DEF Granted
    <3>2. CASE <<l, p>> \notin acquired[p]
      <4>1. doing[p] = "waiting" /\ Own(p)
        BY <3>2, <1>1 DEF Granted, Phases, Own
      <4> QED
        BY <4>1, <1>1, <1>4 DEF Granted
    <3> QED
      BY <3>1, <3>2
  <2>2. /\ Own(p) /\ sock[p] \in connected
        /\ locks_to_client[l] = own_id[p] /\ client_id[sock[p]] = own_id[p]
        /\ own_id[p] \in Clients /\ mark_free_after[l] = NotMarked
    BY <2>1, GrantedLock
  <2>3. CASE ~LossReleases(k)
    BY <2>2, <2>3 DEF Lose, ConnectionLost, storageVars
  <2>4. CASE LossReleases(k)
    <3>1. client_id[k] \in Clients /\ client_id[k] # own_id[p]
      BY <2>2, <2>4, <1>2, <1>3, SentinelAssumption DEF LossReleases, IdsApart, TypeOK
    <3>2. l \notin client_to_locks[client_id[k]]
      BY <2>2, <3>1 DEF IndexesAgree
    <3> QED
      BY <2>2, <2>4, <3>2 DEF Lose, ConnectionLost, ReleaseAll, MarkAll
  <2> QED
    BY <2>2, <2>3, <2>4
<1> QED
  BY <1>5, <1>6, <1>7, <1>8, <1>9, <1>10, <1>11

(* Neither the sweep nor time touches a lock without a deadline.           *)
LEMMA BackgroundKeeps ==
  ASSUME TypeOK, ProcessInv, Background PROVE ProcessInv'
<1> USE DEF ProcessInv
<1>1. /\ status' = status /\ sock' = sock /\ sock_pid' = sock_pid
      /\ own_id' = own_id /\ id_pid' = id_pid /\ acquired' = acquired /\ copied' = copied
      /\ doing' = doing /\ call' = call /\ holders' = holders
      /\ wire' = wire /\ answers' = answers
      /\ connected' = connected /\ client_id' = client_id
  BY DEF Background, objectVars, threadVars, osVars, streamVars, MaintenanceRun, Tick, serverVars
<1>2. \A q \in Processes :
        /\ Own(q)' = Own(q) /\ Running(q)' = Running(q)
        /\ MustConnect(q)' = MustConnect(q) /\ ClientId(q)' = ClientId(q)
  BY <1>1 DEF Own, MustConnect, Running, ClientId
<1>3. /\ ProcessTypes' /\ Ancestry' /\ Descriptors' /\ NothingOnClosed' /\ IdsApart'
      /\ Phases' /\ Asking' /\ Copies'
  BY ZenonT(30), <1>1, <1>2
     DEF ProcessTypes, Ancestry, Descriptors, NothingOnClosed, IdsApart,
         Phases, Asking, Copies
<1>4. Conversations'
  BY <1>1, <1>2 DEF Conversations, Introduction, Exchange
<1>5. Kept'
  <2>1. ASSUME NEW l \in LockIds, mark_free_after[l] = NotMarked
        PROVE  locks_to_client'[l] = locks_to_client[l] /\ mark_free_after'[l] = NotMarked
    <3>1. CASE MaintenanceRun
      BY <2>1, <3>1
         DEF MaintenanceRun, Maintenance, DeleteLocks, ExpiredListed, Expired, NotMarked
    <3>2. CASE Tick
      BY <2>1, <3>2 DEF Tick, Elapse, NotMarked
    <3> QED
      BY <3>1, <3>2 DEF Background
  <2>2. \A p \in Processes, l \in LockIds : Granted(p, l)' => Granted(p, l)
    BY <1>1 DEF Granted
  <2> QED
    BY <1>1, <1>2, <2>1, <2>2 DEF Kept
<1> QED
  BY <1>3, <1>4, <1>5

(* Every step of the composition keeps the invariant.                      *)
LEMMA ProcessInvKept ==
  ASSUME IndInv, ProcessInv, [ProcessNext]_processVars PROVE ProcessInv'
<1>1. TypeOK /\ IndexesAgree
  BY DEF IndInv
<1>2. CASE UNCHANGED processVars
  <2>1. /\ status' = status /\ sock' = sock /\ sock_pid' = sock_pid
        /\ own_id' = own_id /\ id_pid' = id_pid /\ acquired' = acquired /\ copied' = copied
        /\ doing' = doing /\ call' = call /\ holders' = holders
        /\ wire' = wire /\ answers' = answers
        /\ connected' = connected /\ client_id' = client_id
        /\ locks_to_client' = locks_to_client /\ mark_free_after' = mark_free_after
    BY <1>2 DEF processVars, vars, storageVars, serverVars, objectVars, threadVars,
                osVars, streamVars
  <2>2. \A q \in Processes :
          /\ Own(q)' = Own(q) /\ Running(q)' = Running(q)
          /\ MustConnect(q)' = MustConnect(q) /\ ClientId(q)' = ClientId(q)
    BY <2>1 DEF Own, MustConnect, Running, ClientId
  <2>3. /\ ProcessTypes' /\ Ancestry' /\ Descriptors' /\ NothingOnClosed' /\ IdsApart'
        /\ Phases' /\ Asking' /\ Copies'
    BY ZenonT(30), <2>1, <2>2
       DEF ProcessInv, ProcessTypes, Ancestry, Descriptors, NothingOnClosed, IdsApart,
           Phases, Asking, Copies
  <2>4. Conversations'
    BY <2>1, <2>2 DEF ProcessInv, Conversations, Introduction, Exchange
  <2>5. Kept'
    BY <2>1, <2>2 DEF ProcessInv, Kept, Granted
  <2> QED
    BY <2>3, <2>4, <2>5 DEF ProcessInv
<1> QED
  BY <1>1, <1>2, BeginKeeps, ConnectKeeps, IntroducedKeeps, ReturnKeeps, ExitKeeps,
     ForkKeeps, ExecuteKeeps, LoseKeeps, BackgroundKeeps DEF ProcessNext

-----------------------------------------------------------------------------
(* A step of the processes is a step of the server, or none.               *)
LEMMA ProcessNextMaps ==
  ASSUME ProcessInv, [ProcessNext]_processVars PROVE [Next]_vars
<1>1. CASE UNCHANGED processVars
  BY <1>1 DEF processVars
<1>2. ASSUME NEW p \in Processes
      PROVE  /\ \A request \in Calls : Begin(p, request) => UNCHANGED vars
             /\ Introduced(p) \/ Return(p) \/ Exit(p) => UNCHANGED vars
             /\ \A q \in Processes : Fork(p, q) => UNCHANGED vars
             /\ \A k \in Addresses : Connect(p, k) => Next
  BY DEF Begin, Introduced, Return, Exit, Fork, Connect, Next
<1>3. ASSUME NEW k \in Addresses, Execute(k) PROVE Next
  <2>1. wire[k] # <<>> /\ Head(wire[k]) \in Requests
    <3>1. wire[k] \in Seq(Requests) /\ wire[k] # <<>>
      BY <1>3 DEF Execute, ProcessInv, ProcessTypes
    <3> QED
      BY <3>1, HeadTailProperties
  <2>2. Head(wire[k]).verb \in {"AQ", "RELEASE"} => Head(wire[k]).object[1] \in LockIds
    BY <2>1, KindsOfRequest
  <2>3. Command(k)
    BY <1>3, <2>2 DEF Execute, Command
  <2> QED
    BY <2>3 DEF Next
<1>4. ASSUME NEW k \in Addresses, Lose(k) PROVE Next
  BY <1>4 DEF Lose, Next
<1>5. CASE Background
  BY <1>5 DEF Background, Next
<1> QED
  BY <1>1, <1>2, <1>3, <1>4, <1>5 DEF ProcessNext

(* So the server's invariant and the processes' own hold always.           *)
LEMMA ProcessesKeepBoth == ProcessSpec => [](IndInv /\ ProcessInv)
<1>1. ProcessInit => IndInv /\ ProcessInv
  BY ProcessInitInv, InitIndInv
<1>2. IndInv /\ ProcessInv /\ [ProcessNext]_processVars => (IndInv /\ ProcessInv)'
  BY ProcessInvKept, ProcessNextMaps, NextKeeps
<1> QED
  BY <1>1, <1>2, PTL DEF ProcessSpec

(* Whatever processes fork, share and leave behind, the server only takes  *)
(* steps of its own specification.                                         *)
THEOREM ProcessesDriveServer == ProcessSpec => Spec
  BY ProcessInitInv, ProcessNextMaps, ProcessesKeepBoth, PTL DEF ProcessSpec, Spec

(* The composition is type-correct.                                        *)
THEOREM ProcessTypeCorrect == ProcessSpec => []ProcessTypeOK
<1>1. IndInv /\ ProcessInv => ProcessTypeOK
  <2>1. Requests \subseteq Calls \cup Conns
    BY DEF Requests, Hello, Conns
  <2>2. Seq(Requests) \subseteq Seq(Calls \cup Conns)
    BY <2>1, SeqMonotonic
  <2> QED
    BY <2>2 DEF IndInv, ProcessInv, ProcessTypes, ProcessTypeOK
<1> QED
  BY <1>1, ProcessesKeepBoth, PTL

(* A lock that a process acquired is its own until it gives it up, however *)
(* many processes have a copy of its connection and of the lock object.    *)
THEOREM AcquiredLocksAreOwned == ProcessSpec => []AcquiredIsOwned
<1>1. ProcessInv => AcquiredIsOwned
  BY DEF ProcessInv, Kept, AcquiredIsOwned, Granted, Running
<1> QED
  BY <1>1, ProcessesKeepBoth, PTL

(* No process finds anything on its connection that another one left.      *)
THEOREM NothingIsLeftOver == ProcessSpec => []NothingLeftOver
<1>1. ProcessInv => NothingLeftOver
  BY DEF ProcessInv, Conversations, NothingLeftOver, Own, Running
<1> QED
  BY <1>1, ProcessesKeepBoth, PTL
=============================================================================
