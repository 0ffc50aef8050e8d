---------------------------- MODULE ServerShutdown ----------------------------
(***************************************************************************)
(* How the server ends and begins: termination signals (class              *)
(* StorageAdaptor of livelock/server.py), the dump file, and load_dump     *)
(* (livelock/memory_storage.py).                                           *)
(*                                                                         *)
(* A signal handler runs between any two instructions of the handler that  *)
(* is running, so a storage method is not one step here: the handler that  *)
(* begins leaves in todo the writes it will make, in the order of the      *)
(* code, with the bookkeeping of the adaptor between them.  Nothing else   *)
(* writes the storage until it ends, so the writes can be told when it     *)
(* begins.                                                                 *)
(*                                                                         *)
(* Connections are left out: any client may send any command, and may be   *)
(* the one whose last connection is lost.                                  *)
(***************************************************************************)
EXTENDS LockStorage, SequencesExt

CONSTANTS
  DefaultReleaseAllTimeout,  \* release_all_timeout of the adaptor
  NoDump,            \* the dump file does not exist
  TimeoutIsText,     \* did release_all_timeout come from the environment, as a string
  MaxBoots           \* bound on the restarts

(* A storage as a value, as it is pickled.                                 *)
Storages ==
  [client_to_locks : [Clients -> SUBSET LockIds],
   tracked : SUBSET Clients,
   locks_to_client : [LockIds -> Clients \cup {NoClient}],
   all_locks : SUBSET LockIds,
   mark_free_after : [LockIds -> Nat \cup {NotMarked}],
   signals : [LockIds -> SUBSET Signals],
   client_last_address : [Clients -> Addresses \cup {NoAddress}]]

ASSUME ShutdownAssumption ==
  /\ DefaultReleaseAllTimeout \in Nat \ {0}
  /\ TimeoutIsText \in BOOLEAN
  /\ MaxBoots \in Nat
  /\ NoDump \notin Storages

VARIABLES
  todo,          \* the steps left of the running handler
  ops,           \* _storage_operations_in_process
  commands,      \* _commands_in_process
  kill_active,   \* a termination signal was handled
  data_dumped,   \* _data_dumped
  dump,          \* the content of the dump file
  status,        \* the process: running, exiting (exit was called), down, killed
  boots          \* number of restarts

processVars == <<ops, commands, kill_active, data_dumped, status>>

shutdownVars == <<storageVars, todo, processVars, dump, boots>>

(* What dump() pickles, with the lock infos that hang on it.               *)
Memory ==
  [client_to_locks |-> client_to_locks, tracked |-> tracked,
   locks_to_client |-> locks_to_client, all_locks |-> all_locks,
   mark_free_after |-> mark_free_after, signals |-> signals,
   client_last_address |-> client_last_address]

(* The storage as the dump file has it.                                    *)
Saved == INSTANCE LockStorage WITH
  client_to_locks <- dump.client_to_locks, tracked <- dump.tracked,
  locks_to_client <- dump.locks_to_client, all_locks <- dump.all_locks,
  mark_free_after <- dump.mark_free_after, signals <- dump.signals,
  client_last_address <- dump.client_last_address

Becomes(r) ==
  /\ client_to_locks' = r.client_to_locks
  /\ tracked' = r.tracked
  /\ locks_to_client' = r.locks_to_client
  /\ all_locks' = r.all_locks
  /\ mark_free_after' = r.mark_free_after
  /\ signals' = r.signals
  /\ client_last_address' = r.client_last_address

Does == {"check", "enter", "leave", "end", "terminate", "key", "own", "list", "index",
         "disown", "unindex", "unlist", "grace", "keep", "signal", "unsignal",
         "address", "unkey", "unaddress"}

Steps ==
  [does : Does, client : Clients \cup {NoClient},
   on : LockIds \cup Addresses \cup (LockIds \X Signals) \cup {NoAddress}]

ShutdownTypeOK ==
  /\ StorageTypeOK
  /\ \A i \in DOMAIN todo : todo[i] \in Steps
  /\ {ops, commands} \subseteq {0, 1}
  /\ {kill_active, data_dumped} \subseteq BOOLEAN
  /\ dump \in Storages \cup {NoDump}
  /\ status \in {"running", "exiting", "down", "killed"}
  /\ boots \in 0 .. MaxBoots

ShutdownInit ==
  /\ StorageInit
  /\ todo = <<>>
  /\ ops = 0 /\ commands = 0
  /\ kill_active = FALSE /\ data_dumped = FALSE
  /\ dump = NoDump
  /\ status = "running"
  /\ boots = 0

-----------------------------------------------------------------------------
(* The writes of the storage methods.                                      *)

Do(does, c, on) == [does |-> does, client |-> c, on |-> on]

Bare(does) == Do(does, NoClient, NoAddress)

OnEach(does, c, order) == [i \in DOMAIN order |-> Do(does, c, order[i])]

(* _delete_lock                                                            *)
Deletion(l) ==
  LET c == locks_to_client[l]
  IN  <<Do("disown", c, l), Do("unindex", c, l), Do("unlist", c, l)>>

DeletionIf(lapsed, l) == IF lapsed THEN Deletion(l) ELSE <<>>

(* Mutant: the new lock is entered before the lapsed one is deleted.        *)
AcquisitionFirst(c, l) ==
  IF IsFree(l)
  THEN <<Do("own", c, l), Do("list", c, l), Do("index", c, l)>>
         \o DeletionIf(Lapsed(l), l)
  ELSE <<>>

Acquisition(c, l) ==
  IF IsFree(l)
  THEN DeletionIf(Lapsed(l), l)
         \o <<Do("own", c, l), Do("list", c, l), Do("index", c, l)>>
  ELSE <<>>

ReleaseWrites(c, l) ==
  <<Do("key", c, l)>> \o DeletionIf(l \in client_to_locks[c], l)

(* release_all and unrelease_all write one lock info after the other.      *)
Marking(does, c, order) == <<Do("key", c, NoAddress)>> \o OnEach(does, c, order)

ListOrders(c) == SetToSeqs(client_to_locks[c])

(* maintenance: what it does about one client, and about all of them.      *)
ExpiredOf(c) == {l \in client_to_locks[c] : Expired(l)}

SweepOf(c, order) ==
  FlattenSeq([i \in DOMAIN order |-> Deletion(order[i])])
    \o IF ExpiredOf(c) = client_to_locks[c]
       THEN <<Do("unkey", c, NoAddress), Do("unaddress", c, NoAddress)>>
       ELSE <<>>

Sweep(visit, orders) ==
  FlattenSeq([i \in DOMAIN visit |-> SweepOf(visit[i], orders[visit[i]])])

-----------------------------------------------------------------------------
(* Handlers begin.  StorageOperationGuard is put around every write but    *)
(* those of locked and maintenance.                                        *)

Guarded(writes) == <<Bare("check"), Bare("enter")>> \o writes \o <<Bare("leave")>>

Begin(n, steps) ==
  /\ status = "running" /\ todo = <<>> /\ ~kill_active
  /\ steps # <<>>
  /\ commands' = n
  /\ todo' = steps
  /\ UNCHANGED <<storageVars, ops, kill_active, data_dumped, status, dump, boots>>

(* process_command: on_command_start, the command, on_command_end.         *)
Command(steps) == Begin(1, steps \o <<Bare("end")>>)

Aq(c, l) == Command(Guarded(Acquisition(c, l)))

ReleaseCommand(c, l) == Command(Guarded(ReleaseWrites(c, l)))

LockedCommand(l) == Command(DeletionIf(Lapsed(l), l))

ConnAs(c, k) ==
  \E order \in ListOrders(c) :
    Command(Guarded(Marking("keep", c, order)) \o Guarded(<<Do("address", c, k)>>))

ConnNew(c, k) ==
  /\ c \notin tracked /\ client_last_address[c] = NoAddress
  /\ Command(Guarded(<<Do("address", c, k)>>))

SignalCommand(does, l, s) ==
  Command(Guarded(IF l \in all_locks THEN <<Do(does, NoClient, <<l, s>>)>> ELSE <<>>))

(* SHUTDOWN, where shutdown_support is on.                                 *)
Shutdown == Command(<<Bare("terminate")>>)

ConnectionLost(c) ==
  \E order \in ListOrders(c) : Begin(0, Guarded(Marking("grace", c, order)))

MaintenanceRun ==
  \E visit \in SetToSeqs(tracked) :
    \E orders \in [tracked -> UNION {SetToSeqs(ExpiredOf(c)) : c \in tracked}] :
      /\ \A c \in tracked : orders[c] \in SetToSeqs(ExpiredOf(c))
      /\ Begin(0, Sweep(visit, orders))

HandlerBegins ==
  \/ \E c \in Clients, l \in LockIds : Aq(c, l) \/ ReleaseCommand(c, l)
  \/ \E l \in LockIds : LockedCommand(l)
  \/ \E c \in Clients, k \in Addresses : ConnAs(c, k) \/ ConnNew(c, k)
  \/ \E l \in LockIds, s \in Signals, does \in {"signal", "unsignal"} :
       SignalCommand(does, l, s)
  \/ Shutdown
  \/ \E c \in Clients : ConnectionLost(c)
  \/ MaintenanceRun

-----------------------------------------------------------------------------
(* The running handler takes a step.                                       *)

(* What one write of a storage method makes of the memory m.               *)
Written(m, s) ==
  CASE s.does = "key"      -> [m EXCEPT !.tracked = @ \cup {s.client}]
    [] s.does = "own"      -> [m EXCEPT !.locks_to_client[s.on] = s.client]
    [] s.does = "list"     -> [m EXCEPT !.client_to_locks[s.client] = @ \cup {s.on},
                                        !.tracked = @ \cup {s.client},
                                        !.mark_free_after[s.on] = NotMarked,
                                        !.signals[s.on] = {}]
    [] s.does = "index"    -> [m EXCEPT !.all_locks = @ \cup {s.on}]
    [] s.does = "disown"   -> [m EXCEPT !.locks_to_client[s.on] = NoClient]
    [] s.does = "unindex"  -> [m EXCEPT !.all_locks = @ \ {s.on}]
    [] s.does = "unlist"   -> [m EXCEPT !.client_to_locks[s.client] = @ \ {s.on}]
    [] s.does = "grace"    -> [m EXCEPT !.mark_free_after[s.on] = DefaultReleaseAllTimeout]
    [] s.does = "keep"     -> [m EXCEPT !.mark_free_after[s.on] = NotMarked]
    [] s.does = "signal"   -> [m EXCEPT !.signals[s.on[1]] = @ \cup {s.on[2]}]
    [] s.does = "unsignal" -> [m EXCEPT !.signals[s.on[1]] = @ \ {s.on[2]}]
    [] s.does = "address"  -> [m EXCEPT !.client_last_address[s.client] = s.on]
    [] s.does = "unkey"    -> [m EXCEPT !.tracked = @ \ {s.client}]
    [] s.does = "unaddress" -> [m EXCEPT !.client_last_address[s.client] = NoAddress]
    [] OTHER -> m

(* The memory when all of steps has been done.                             *)
After(m, steps) ==
  LET after[i \in 0 .. Len(steps)] ==
        IF i = 0 THEN m ELSE Written(after[i - 1], steps[i])
  IN  after[Len(steps)]

Bookkeeping == {"check", "enter", "leave", "end", "terminate"}

HeadDoes(does) == todo # <<>> /\ Head(todo).does = does

Write ==
  /\ todo # <<>> /\ Head(todo).does \notin Bookkeeping
  /\ Becomes(Written(Memory, Head(todo)))
  /\ todo' = Tail(todo)
  /\ UNCHANGED <<processVars, dump, boots>>

(* What is still run when an exception ends the handler: the __exit__ of   *)
(* the guard it is in, and the finally of process_command.                 *)
Unwound ==
  (IF ops > 0 THEN <<Bare("leave")>> ELSE <<>>)
    \o (IF commands > 0 THEN <<Bare("end")>> ELSE <<>>)

(* Mutant: a refused operation ends the command without its finally.       *)
CheckWithoutFinally ==
  /\ HeadDoes("check")
  /\ todo' = IF kill_active THEN <<>> ELSE Tail(todo)
  /\ UNCHANGED <<storageVars, processVars, dump, boots>>

(* StorageOperationGuard.__enter__ raises once kill_active is set ...      *)
Check ==
  /\ HeadDoes("check")
  /\ todo' = IF kill_active THEN Unwound ELSE Tail(todo)
  /\ UNCHANGED <<storageVars, processVars, dump, boots>>

(* ... and counts the operation, even if it was set since.                 *)
Enter ==
  /\ HeadDoes("enter")
  /\ ops' = ops + 1
  /\ todo' = Tail(todo)
  /\ UNCHANGED <<storageVars, commands, kill_active, data_dumped, status, dump, boots>>

(* Mutant: the end of an operation does not dump when a dump was made.     *)
LeaveDumpingOnce ==
  /\ HeadDoes("leave")
  /\ ops' = ops - 1
  /\ dump' = IF kill_active /\ ~data_dumped THEN Memory ELSE dump
  /\ data_dumped' = (data_dumped \/ kill_active)
  /\ todo' = Tail(todo)
  /\ UNCHANGED <<storageVars, commands, kill_active, status, boots>>

(* on_storage_operation_end dumps what the operation wrote.                *)
Leave ==
  /\ HeadDoes("leave")
  /\ ops' = ops - 1
  /\ dump' = IF kill_active /\ ops' = 0 THEN Memory ELSE dump
  /\ data_dumped' = (data_dumped \/ (kill_active /\ ops' = 0))
  /\ todo' = Tail(todo)
  /\ UNCHANGED <<storageVars, commands, kill_active, status, boots>>

(* die: the dump it makes does not set _data_dumped.                       *)
Die(dumped) == IF dumped THEN dump ELSE Memory

(* on_command_end: the last command lets the process die.                  *)
End ==
  /\ HeadDoes("end")
  /\ commands' = commands - 1
  /\ todo' = Tail(todo)
  /\ IF kill_active /\ commands' = 0
     THEN status' = "exiting" /\ dump' = Die(data_dumped)
     ELSE UNCHANGED <<status, dump>>
  /\ UNCHANGED <<storageVars, ops, kill_active, data_dumped, boots>>

(* _on_kill_requested: dumps between storage operations, dies between      *)
(* commands.                                                               *)
OnKillRequested(rest) ==
  /\ kill_active' = TRUE
  /\ data_dumped' = (data_dumped \/ ops = 0)
  /\ dump' = IF ops = 0 THEN Memory
             ELSE IF commands = 0 THEN Die(data_dumped) ELSE dump
  /\ status' = IF commands = 0 THEN "exiting" ELSE status
  /\ todo' = IF commands = 0 THEN Unwound ELSE rest
  /\ UNCHANGED <<storageVars, ops, commands, boots>>

Terminate == HeadDoes("terminate") /\ OnKillRequested(Tail(todo))

HandlerStep == Write \/ Check \/ Enter \/ Leave \/ End \/ Terminate

-----------------------------------------------------------------------------
(* The process ends and begins.                                            *)

(* SIGINT or SIGTERM, any number of times.                                 *)
KillSignal ==
  /\ status = "running"
  /\ OnKillRequested(todo)

(* SystemExit has left the event loop.                                     *)
Exit ==
  /\ status = "exiting" /\ todo = <<>>
  /\ status' = "down"
  /\ UNCHANGED <<storageVars, todo, ops, commands, kill_active, data_dumped, dump, boots>>

(* The process ends without a signal it can handle.                        *)
Crash ==
  /\ status \in {"running", "exiting"}
  /\ status' = "killed"
  /\ todo' = <<>>
  /\ UNCHANGED <<storageVars, ops, commands, kill_active, data_dumped, dump, boots>>

(* Mutant: the sweep of load_dump passes over what is missing.             *)
SweepForgives == FALSE

(* The sweep of load_dump looks up locks that half a deletion took away.   *)
SweepRaises ==
  \E l \in Saved!ExpiredListed :
    dump.locks_to_client[l] = NoClient \/ l \notin dump.all_locks

(* release_all_timeout + 1 is only evaluated if a client is left.          *)
LoadRaises ==
  SweepRaises \/ (TimeoutIsText /\ dump.tracked # Saved!LeftWithout)

(* The maintenance of load_dump, on what the file has.                     *)
Swept ==
  LET gone == Saved!ExpiredListed  left == Saved!LeftWithout
  IN [dump EXCEPT
        !.client_to_locks = Saved!Unlisted(gone),
        !.tracked = @ \ left,
        !.locks_to_client = [l \in LockIds |-> IF l \in gone THEN NoClient ELSE @[l]],
        !.all_locks = @ \ gone,
        !.client_last_address = [c \in Clients |-> IF c \in left THEN NoAddress ELSE @[c]]]

(* Mutant: the locks come back as they were saved, most without a deadline.*)
LoadedAsSaved == Swept

(* load_dump puts every lock that is left on a new grace period for its    *)
(* client to come back in.                                                 *)
Loaded ==
  [Swept EXCEPT
     !.mark_free_after =
       [l \in LockIds |-> IF \E c \in Clients : l \in Swept.client_to_locks[c]
                          THEN ReleaseAllTimeout + 1 ELSE @[l]]]

(* _clean_all_data                                                         *)
Cleaned ==
  [client_to_locks |-> [c \in Clients |-> {}], tracked |-> {},
   locks_to_client |-> [l \in LockIds |-> NoClient], all_locks |-> {},
   mark_free_after |-> [l \in LockIds |-> NotMarked],
   signals |-> [l \in LockIds |-> {}],
   client_last_address |-> [c \in Clients |-> NoAddress]]

(* live_lock_server.  The file stays where it is.                          *)
Boot ==
  /\ status \in {"down", "killed"}
  /\ boots < MaxBoots
  /\ boots' = boots + 1
  /\ status' = "running"
  /\ ops' = 0 /\ commands' = 0
  /\ kill_active' = FALSE /\ data_dumped' = FALSE
  /\ \/ dump # NoDump /\ ~LoadRaises /\ Becomes(Loaded)
     \/ dump # NoDump /\ LoadRaises /\ Becomes(Cleaned)
     \/ dump = NoDump /\ Becomes(Cleaned)
  /\ UNCHANGED <<todo, dump>>

(* Time passes for deadlines in memory and in the file, which are absolute *)
(* times, and also while no process runs.                                  *)
Later(marks) == [l \in LockIds |-> IF marks[l] > 0 THEN marks[l] - 1 ELSE marks[l]]

Tick ==
  /\ todo = <<>>
  /\ Elapse
  /\ \/ dump = NoDump /\ UNCHANGED dump
     \/ dump # NoDump /\ dump' = [dump EXCEPT !.mark_free_after = Later(@)]
  /\ UNCHANGED <<todo, processVars, boots>>

ShutdownNext ==
  HandlerBegins \/ HandlerStep \/ KillSignal \/ Exit \/ Crash \/ Boot \/ Tick

ShutdownSpec == ShutdownInit /\ [][ShutdownNext]_shutdownVars

(* A handler that has begun goes on, and an exception that nobody catches  *)
(* ends the process.                                                       *)
FairShutdownSpec ==
  ShutdownSpec /\ WF_shutdownVars(HandlerStep) /\ WF_shutdownVars(Exit)

-----------------------------------------------------------------------------
Agree(l, owner, listed, marks, sigs) ==
  /\ locks_to_client[l] = owner
  /\ l \in all_locks <=> listed
  /\ mark_free_after[l] = marks
  /\ signals[l] = sigs

(* Nothing that was done is missing from the file when the server has      *)
(* gone: once the process is down, the dump and its last memory tell the   *)
(* same of every lock, but for locks that are past their deadline in the   *)
(* dump.  A signal may come at any step, more than once, also between the  *)
(* guard's test of kill_active and its counting.  (dump_before_die, die    *)
(* and the two counters.)                                                  *)
DumpIsFinal ==
  status = "down" =>
    /\ dump # NoDump
    /\ \A l \in LockIds :
         \/ Saved!Lapsed(l)
         \/ Agree(l, dump.locks_to_client[l], l \in dump.all_locks,
                  dump.mark_free_after[l], dump.signals[l])

(* A server that was told to stop does stop: no order of signals, refused  *)
(* operations and ending commands leaves it running with a command counted *)
(* that is not there.  (on_command_end, and die.)                          *)
ServerExits == kill_active ~> status \in {"down", "killed"}

(* What load_dump makes of the file is whole, wherever the signal fell:    *)
(* whenever a server that accepts work runs no handler, its dictionaries   *)
(* agree, also after a restart from a torn dump.  The next deletion relies *)
(* on that.  (load_dump's sweep, and the except that cleans up after it.)  *)
MemoryIsWhole ==
  status = "running" /\ ~kill_active /\ todo = <<>> => IndexesAgree

(* The storage, with the running handler taken for done.                   *)
Settled == After(Memory, todo)

Storage == INSTANCE LockStorage WITH
  client_to_locks <- Settled.client_to_locks, tracked <- Settled.tracked,
  locks_to_client <- Settled.locks_to_client, all_locks <- Settled.all_locks,
  mark_free_after <- Settled.mark_free_after, signals <- Settled.signals,
  client_last_address <- Settled.client_last_address

(* A handler that no signal disturbs does write by write what the method   *)
(* of LockStorage does in one step: the method takes effect when the       *)
(* handler begins, and no other step of it changes what it will have done. *)
(* (The order of the writes: acquire after the deletion it makes, the key  *)
(* of a client forgotten after its last lock.)                             *)
MethodStep ==
  /\ \A c \in Clients, l \in LockIds :
       /\ Aq(c, l) => Storage!Acquire(c, l, FALSE)
       /\ ReleaseCommand(c, l) => Storage!Release(c, l)
  /\ \A l \in LockIds : LockedCommand(l) => Storage!Locked(l)
  /\ \A c \in Clients, k \in Addresses :
       /\ ConnAs(c, k) => Storage!UnreleaseAll(c) /\ Storage!SetClientLastAddress(c, k)
       /\ ConnNew(c, k) => Settled' = [Settled EXCEPT !.client_last_address[c] = k]
  /\ \A l \in LockIds, s \in Signals :
       /\ SignalCommand("signal", l, s) => Storage!AddSignal(l, s)
       /\ SignalCommand("unsignal", l, s) => Storage!RemoveSignal(l, s)
  /\ \A c \in Clients :
       ConnectionLost(c) => /\ Storage!ReleaseAll(c, DefaultReleaseAllTimeout)
                            /\ Settled'.client_last_address = Settled.client_last_address
  /\ MaintenanceRun => Storage!Maintenance
  /\ HandlerStep /\ ~kill_active' => Settled' = Settled

HandlersAreMethods == [][MethodStep]_shutdownVars

(* A restart by signal keeps the locks, if the dump is one between         *)
(* operations: whoever held a lock when the process went down, and has not *)
(* passed its deadline since, is its owner again, with its signals and a   *)
(* new grace period; no other lock is taken.  (The signal's way through    *)
(* guard and counters to the dump, and load_dump.)                         *)
RestartKeepsLocks ==
  [][status = "down" /\ status' = "running" /\ Saved!IndexesAgree =>
       \A l \in LockIds :
         IF l \in all_locks /\ ~Expired(l)
         THEN /\ locks_to_client'[l] = locks_to_client[l]
              /\ l \in all_locks'
              /\ mark_free_after'[l] = ReleaseAllTimeout + 1
              /\ signals'[l] = signals[l]
         ELSE locks_to_client'[l] = NoClient]_shutdownVars

-----------------------------------------------------------------------------
(* What the code's words promise and the code does not keep.               *)

(* LockStorage.dump: "all operations is completed": the dictionaries of a  *)
(* dump are in agreement.                                                  *)
DumpIsBetweenOperations == dump # NoDump => Saved!IndexesAgree
=============================================================================
