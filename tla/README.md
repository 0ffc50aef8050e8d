# Verification of LiveLock

LiveLock is a lock server for processes that cannot guess a TTL: a lock belongs
to a client for as long as the client's TCP connection lives, and for a grace
period after that in which the client may come back. This directory holds TLA+
models of the server and its Python client, the TLC runs that check them and
TLAPS proofs about them. Paths below are relative to `src/livelock/`.

## The system

| Part | State | Operations |
|---|---|---|
| In-memory storage (`memory_storage.py`, interface `storage.py`) | `client_to_locks`, `locks_to_client`, `all_locks` (a `MemoryLockInfo` with deadline and signals per lock), `client_last_address` | acquire, release, release_all, unrelease_all, locked, find, signals, maintenance, dump, load_dump |
| Storage adaptor (`server.py`) | `kill_active`, two counters of operations in progress, `_data_dumped`, maintenance event | guards every write, decides when a termination signal dumps and exits |
| Protocol (`server.py`) | per connection: transport, reader, `client_id`, authorisation | connection made and lost, commands CONN, AQ, AQR, RELEASE, LOCKED, SIGSET, SIGEXISTS, SIGDEL, FIND, PING, STATS, SHUTDOWN |
| Schedulers (`server.py`) | none | periodic maintenance; metrics |
| Client connection (`client.py`) | socket, client id, and the pid each belongs to | connect, CONN, send a request and read the answer, reconnect and repeat |
| Locks (`client.py`) | `acquired`, timeout | acquire (blocking or not), release, signals |
| RESP codec (`server.py`, `client.py`, `shared.py`) | what is being read | pack a value; two readers, one per side |
| Socket buffer (`connection.py`) | a BytesIO, two positions, the thread it is bound to | read, readline, purge |
| Operating-system glue, metrics, settings, packaging | | |

How they interact: the server is one asyncio loop. A task per connection reads
commands and runs each handler to its end; `connection_lost` and the
maintenance task run between handlers. A handler has one `await`, on the
maintenance event, which is set from the first sweep on (the scheduler's first
turn comes before any connection can have sent a command) and cleared only
within a call that does not yield; so it never suspends, and a handler is
atomic for everything but a termination signal. The client is synchronous:
it has one request outstanding; on a socket error it closes the socket, opens
another, says CONN with its id and repeats the request. The server may notice
the end of the old socket long after, so it can hold several connections of one
client, and decides by the address of the latest CONN which loss counts.

What is hard here: several connections of one client ending in any order;
deadlines that pass while the lock is still in the dictionaries; requests sent
twice or arriving late; a sweep that also forgets addresses; termination
signals in the middle of a handler; state that goes through a dump file; retries inside
of retries; a fork that copies sockets and acquired locks; answers that come in
pieces, late, or on a socket that somebody else reads; waiters who poll. The
full list, with lines, is `hazards` in `PROJECT.json`.

What makes each part correct:

- storage: its indexes agree; reads and writes give one answer; only the owner's
  release or the end of a grace period takes a lock away;
- protocol: the client's latest connection protects its locks, and the loss of
  the last one starts the grace period;
- schedulers: a lock nobody comes back for is freed in the end;
- client: a lock it relies on is lost only by the grace period or by a late
  RELEASE of its own; a client that dies leaves nothing behind, unless a late CONN
  or AQ undid its latest CONN; its retries end, do not multiply and never take an
  old answer for a new one; whatever forks or threads do, an object says it is
  acquired only while the server agrees; a blocking acquire raises at its
  deadline and notices a free lock in bounded time;
- adaptor, dump and restart: what is dumped is a state between operations, and
  a restart gives every lock back to its last owner for the grace period;
- codec: what is read is what was packed, whatever the pieces it arrives in.

## Modules

| Module | What it models |
|---|---|
| `LockStorage` | The storage: variables named as in the code, one action per method, and the invariants over the dictionaries. |
| `LiveLockServer` | Connections and commands over the storage (EXTENDS `LockStorage`), for clients that may send anything at any time. |
| `LockLease` | The abstract specification: each lock is free, held, in grace or lapsed, and has at most one owner. |
| `LeaseRefinement` | The mapping under which `LiveLockServer` implements `LockLease`. |
| `LiveLockClient` | The client library and a failing network, composed with the server (EXTENDS `LiveLockServer`). |
| `ClientProcesses` | The client library over forks and threads, composed with the server (EXTENDS `LiveLockServer`). |
| `SendCommand` | The retries of `_send_command`, which call each other. |
| `ClientCall` | The abstract specification of a call, which `SendCommand` implements and `LiveLockClient` takes for granted. |
| `AcquireLoop` | The blocking `acquire`: deadline, shrinking naps, late answers, several waiters. |
| `ByteStream` | What goes over a connection: bytes, and the two that end a line. |
| `SocketBuffer` | The client's read buffer, for any caller (EXTENDS `ByteStream`). |
| `RespCodec` | The wire format: packing, and the two readers as machines (EXTENDS `ByteStream`). |
| `RespSession` | A client and a server that exchange commands and answers as streams of bytes (EXTENDS `RespCodec`, `SocketBuffer`). |
| `ServerShutdown` | Termination signals, operation guard and counters, the dump file, restart (EXTENDS `LockStorage`): the handlers of the server cut into single writes. |
| `MC...` | What TLC needs: symmetry, the values of functions. `SendCommand` needs none. |
| `..._proofs` | Theorems and proofs about the module of that name; `LiveLockServer_proofs` has those of `LockStorage` and `LeaseRefinement` too, `RespSession_proofs` those of `SocketBuffer` and `RespCodec`. |
| `SequenceInduction` | Induction over the naturals for sets, and from it facts about recursion on intervals and folds of sequences, for the proofs. |

Four abstractions meet at a command. `RespSession` shows that a command arrives
as it was packed, so the modules above it pass records; `SendCommand` shows
that the retries of a call are those of `ClientCall`, so `LiveLockClient` only
keeps where a call is; `LiveLockClient` and `ClientProcesses` show when the
library's picture of a lock is the server's; `AcquireLoop` is a program on top
that only asks and sleeps.

### Correspondence with the code

`LockStorage`. A `MemoryLockInfo` is shared by `all_locks` and a client's list,
and at most one per lock id is reachable, so its fields are functions of the
lock id. Lists are sets: a lock is never appended twice (`IndexesAgree` is what
makes it so), and no method depends on their order. `client_to_locks` is a
`defaultdict`, so a mere lookup makes a key; `tracked` is the set of keys,
because maintenance only visits those and forgets the address of a client whose
list it finds empty. `mark_free_after` is the time left, with -1 for `None`, so
that a tick of the clock lowers it and the test `time.time() >=
mark_free_after` is `= 0`. Acquisition times are left out: only FIND and the
metrics show them. `maintenance` is one step over all clients: its time limit is
`timeout_ms*1000` seconds, and never ends it.

`LiveLockServer`. A connection is its peer address; two open connections of one
server cannot share one. The model does not let an address be used again before
the server has processed the loss of the connection that had it. `ConnAs` is
CONN with an id (`unrelease_all` and `set_client_last_address`), `ConnNew` CONN
without (a uuid: an id of which the server has no trace). The missing `return`
after `CONN_HAS_ID_ERROR` is modelled as it is: with `RepeatConn` a second
CONN changes the id. `release_all` is called with the adaptor's own timeout,
`DefaultReleaseAllTimeout`, as the code does; `ReleaseAllTimeout`, the
configured one, is used only where the code uses it. Commands that write nothing
have no action.

`LiveLockClient`. A client is one `LiveLockConnection` that has its id. `doing`
is where it is in `_send_command`: idle, without a socket and about to connect,
waiting for the answer to CONN, or to the request. `relied` is the set of locks
whose `acquired` is true and whose release has not been asked for. A socket
carries one request and one answer. `Fail` is any socket error or timeout: the
client tries again or raises; how often is left open (`SendCommand`). When the
client leaves a socket or crashes, a request on it goes its way: data already sent is
delivered before the FIN, and the kernel goes on retransmitting after `close`. Such a
late request may be executed after whatever was sent since, or be lost with its
connection (`Lose`). An answer that has reached the client's side survives the loss of
the connection at the server. The server's part of a step is an action of
`LiveLockServer`, unchanged.

`overtaken` is not state of the code: it only serves the properties. It holds the
clients of which a late request undid what their latest CONN had arranged: a late CONN
that is executed while the client has a session (`Session`), so that the server
remembers the address of the old connection; or a late AQ that is granted although
the connection whose loss would mark the lock has gone (`Watched` says which connections
these are). The next CONN on the connection that the client uses takes it out again.

`SendCommand`. `_send_command` calls `_connect`, which calls `_send_connect`,
which calls `_send_command`. `frames` is the stack of its calls, with their local
variables: `left` is `reconnect_attempts`, `tries` that of the loop in `_connect`
around `sock.connect`, `at` the statement the frame is in. `exception` is on its
way up the stack; `Retry` is the handler that goes on, `Raise` the one that does
not, and a frame whose first `_connect` failed, which is outside of the `try`. A
socket is `"closed"` when `_close` has closed it: the method is defined twice and
the second definition, which counts, does not set `_sock` to `None`, so the next
call uses it, fails and reconnects. The server answers CONN and CONNINFO with no
error (no password, no second CONN); the maximal payload is not exceeded.

`AcquireLoop`. Time is discrete, its unit the shortest round trip; halves of a
nap are rounded down. Under the client's single thread a call is: ask, wait for
the answer (`age`), nap (`sleep_time`). The server has no queue: `Serve` grants a
lock that is free to whoever asks. The lock is held by one of the waiters or
free; it is not lost to a grace period here, since connections do not fail.

`SocketBuffer`, `RespCodec`, `RespSession`. `Bytes` is any set with CR, LF and the
bytes that begin a value; the text of a number counts as one byte, for only its
presence matters, and `Text` says how each length up to `MaxLength` is written. A
value is the sequence of its nodes in the order in which `pack_resp` packs them
and the readers meet them, so that a list is `<<"list", n>>` and then its n items,
and `Lacking` says after each node how many values are still to come. `asked` and `lacking` are the arguments of the `read` or
`readline` in progress and of the `_read_from_socket` it is in; a position is a
number of symbols. The readers of the code are recursive and read as they go;
here they are a machine that says what it reads next (one byte, a line, or a
number of bytes), with a stack of the lists it is in: for each, how many items it
lacks. A loop that reads the last item of a list returns to the loop of the list
around it, which may be at its own last item; `Completed` takes these returns in
one step, and what the code has collected in its local lists is the prefix of
nodes read so far. The two sides have readers
of their own, which differ in what they accept. A lost connection takes along
all that is on its way; that the server may go on with an old connection is the
subject of `LiveLockClient`. A command of the run is built of strings, numbers and
lists, as the library's own calls are; `null`, `bool`, `bytes` and `dict` are only
sent by the server or by nobody.

`ClientProcesses`. A fork copies every attribute of the connection and of the
`LiveLock` objects; an object is named by its lock and the process that acquired
it. `holders` is the kernel's table of who has a descriptor of a connection. The
thread that a buffer is bound to is the one `doing` follows. Sockets do not fail
here, so a process connects once, and CONN with an id, which only a reconnect
sends, does not occur. Two things only serve the properties: `copied`, since a
process that was forked with an acquired object may release the lock it is about,
and so may then not rely on its own object of that lock; and process ids that are
not used twice.

`ServerShutdown`. A Python signal handler runs between any two instructions of
the handler it interrupts, so a handler is here a sequence `todo` of steps: the
writes of its storage methods in the order of the code, and around them what
`StorageOperationGuard` and the two counters do. The sequence is computed when
the handler begins, from the state it will find at every step, since only one
handler runs and the signal handler does not write the storage. `Written` is what
one write makes of the memory, `After` what a sequence of them does, and `Storage` is
`LockStorage` over `Settled`, the memory with the running handler taken for done:
`HandlersAreMethods` says that seen so, every handler is one step of the method it
was cut from, and its single writes are stutters. `check` and
`enter` are two steps because a signal between them matters; the decrement and
the test that follows it in `on_storage_operation_end` and `on_command_end` are
one, because a signal between them makes the same dump or ends the process in
the same way. `Unwound` is what an exception leaves to run: the `__exit__` of
the guard and the `finally` of `process_command`. `Do`, `Steps` and the like
only build the sequence. `Saved` is `LockStorage` over the content of the dump
file, so that the sweep of `load_dump` is the storage's own. Deadlines in the
file are absolute times, so `Tick` lowers them as well, also while no process
runs. Connections are left out, which allows any client's command at any time.
`Boot` is one step: signals are handled only after `load_dump`, until then they
end the process like any crash. `TimeoutIsText` is a configuration: the setting
comes from the environment and is a string.

## Runs

| Run | Question | Result |
|---|---|---|
| `server` | Do the storage invariants, the protection by the latest connection, tenure and the refinement hold under arbitrary clients? | hold |
| `client` | Does the client library keep the locks it relies on, when sockets fail, requests repeat or arrive late and clients crash, and is a lock without a deadline and without a connection always the work of a late request? | holds |
| `client_liveness` | Is every lock on a grace period freed or taken back, and are a crashed client's locks freed, whatever it left behind, unless a late request undid its latest CONN? | holds |
| `old_connection` | Is the loss of an old connection harmless to a live session? | refuted |
| `send` | Do the nested retries end and stay few, is every connection introduced once, no answer read by the wrong request, and is a call what `LiveLockClient` says it is? | holds |
| `acquire` | Does a blocking acquire raise in time, notice a free lock in time, keep what it was granted, and end? | holds |
| `session` | Does each side read what the other packed, in whatever pieces, over connections that break at any byte, and is every command answered? | holds |
| `processes` | Do the pid checks keep processes apart that fork at any moment and share sockets, ids and acquired objects? | holds |
| `foreign_thread` | Is a call from a wrong thread without effect? | refuted |
| `shutdown` | Does the last dump miss nothing, whenever and however often signals come, and do the single writes of a handler come to what the storage's method does? | holds |
| `restart` | Does a server that was told to stop stop, does the restart, from a dump that is not torn, give back all locks that are not over, and no other, and is the memory whole after a restart from any dump? | holds |
| `torn_dump` | Is every dump a state between operations? | refuted |

What the refuted ones show, and the words they contradict, is under `findings`
in `PROJECT.json`. The most consequential is `old_connection`: a client
reconnects while the server still holds its dead connection; it has no lock at
that moment, so the next sweep forgets its address; it takes a lock; the server
notices the dead connection, finds no address, and starts the grace period of a
lock whose owner is connected. Nothing ends that period but another CONN. Of
the shutdown, `torn_dump` loses every lock of the server: a half-deleted lock in
the file makes `load_dump` raise and start empty. `foreign_thread`: the refused
call has been sent, the server carries it out, and the next call of the right
thread takes its answer.

### Known divergences without a run

Some disagreements between words and code need no model to see, or the models can
show them with another constant:

- `server.py:411`: a second CONN is answered with `CONN_HAS_ID_ERROR` and carried
  out all the same, for want of a `return`. The models do as the code does
  (`RepeatConn`).
- `server.py:108`: the grace period is the adaptor's default, not the configured
  one.
- `client.py:290` closes a socket whose data may still arrive, and the server executes
  it after whatever came since. The models do as the code does, and the properties
  name what it leads to. A late RELEASE can free a lock that its client has taken
  again since: `ReliedLocksAreLostByLapseOrLateRelease` has that one case beside the
  grace period. A late CONN or AQ can leave a lock that nothing ever frees, which is
  the case that `OrphansAreOvertaken` has; without it (no lock is `Orphaned`) it is
  refuted in ten steps: a client gives up a connection before its CONN is executed and
  says CONN on another; the first CONN is executed after the second, so the server
  remembers the address of the connection that was given up and takes its loss for
  the client's; when the second connection is lost as well, nothing marks the
  lock that was taken on it meanwhile. A late AQ of a crashed client does the same
  when it is executed after the loss of the newer connection. The lock stays taken
  until that client says CONN again, which a crashed one never does.
- `memory_storage.py:186`: the grace period is a string when it comes from the
  environment, so `load_dump` raises and forgets every lock of a whole dump. With
  `TimeoutIsText = TRUE` in `restart.cfg`, `RestartKeepsLocks` is refuted.
- `memory_storage.py:170`: the dump is read at every start and never cleared, so
  after a crash an old one comes back.
- `server.py:253`: the server reads a null with a CRLF more than `pack_resp`
  sends, so an argument `None` makes it wait for data. No call of the library
  passes one.
- `client.py:106`: a forked child that never uses the library keeps its parent's
  connection open after the parent's death, and with it the parent's locks.
- `client.py:385`: a non-blocking acquire of an object that is already acquired
  is refused and sets `acquired` to `False`; nobody releases that lock then.
- `client.py:288`: an exception that is none of the three caught
  (`KeyboardInterrupt`, say) between sending and reading leaves the socket open
  with an answer on it, as a call from a foreign thread does.
- `client.py:292`: a call with `reconnect=False` after a failed one uses the
  closed socket (see `SendCommand`) and fails, as often as it is repeated, until
  one that may reconnect.
- `memory_storage.py:202`: maintenance adds milliseconds to seconds, and its time
  budget never ends it.

### Bounds

- `server`: two clients (one to own and one to take over), two locks (so that
  operations on all locks of a client differ from operations on one), three
  connections (a client with two connections and a rival), one signal, a grace
  period of two units (marked and not yet over, then over). Clients, locks and
  connections are symmetric.
- `client`: two clients (one that relies on a lock and a rival, or one that crashed
  and its successor), one lock, two connections, grace period 1. One lock is enough
  because requests on different locks of one client never overlap: the library sends
  one request at a time. Two connections are one for each client, or the session of
  one and an old connection of it with a late request. No signals: they do not touch
  who owns a lock.
- `client_liveness`: one client with three connections, each of which may carry a
  late request: its session, the one before and one more, which is what it takes for a
  late CONN and a late AQ to meet. No symmetry. Its lock is reentrant, that of `client`
  is not, so a repeated AQ is granted in the one and refused in the other. (Two clients
  with three connections hold the invariants and the action property of `client` as
  well, in some four minutes.)
- `shutdown`: two clients and two locks, so that a release_all, a CONN and a
  sweep have several writes of the same kind with signals between them, one signal
  name, one address, and one process lifetime, which is all its properties span. `restart`: two clients, one
  lock with a signal name, one restart or crash and what follows it, no
  symmetry; no address, so no CONN, which `shutdown` has. `MaxBoots` bounds the
  restarts; with none left the process may stay down, so these runs do not check
  for deadlock. The deadlines are 1 and `load_dump` sets 2, which are before, at
  and after the end.
- `send`: three attempts, as in the code, which is enough for a first try, a retry
  that is not the last and one that is, on each of three levels. (With four it
  holds as well, and the proofs are about any number.)
- `acquire`: three waiters, with a deadline several naps away, one closer than a
  nap, and none; a nap of four units halves twice before it is one; an answer
  takes one or two. No count of time needs a cap: naps and the time left count down, an
  answer comes after at most `MaxDelay`, a call ends soon after its deadline, and
  what counts up, how long the lock is free while somebody waits, has the bound that
  `FreeLockIsTakenInTime` states.
- `session`: pieces of one to four symbols, so that a piece ends before, inside
  and after every terminator and inside every length; commands and answers with
  empty strings, line ends inside of strings, empty and nested lists, errors and a
  dict. One command at a time, any number in sequence.
- `processes`: three processes, so that there is a child's child or two siblings;
  two ids and two connections (a parent's and a child's), one lock to quarrel
  about.
- The refuting runs use the smallest instance that shows the counterexample.

The counters that are capped: restarts (`MaxBoots`), and in `send` the two that
count connections and sends, which stop one past what the property allows. Times
count down, and a client has one request.

### Fairness

`FairClientSpec` assumes that time passes, that the maintenance task, an endless loop of
sleep and sweep, goes on, and that the server notices in the end that a connection is gone when the client's end was closed, by the client or
by its operating system: by FIN or reset, and where these are lost by TCP
keepalive and `TCP_USER_TIMEOUT`, which `connection_made` sets. No client is
assumed to do anything. `SendSpec`
assumes that a call goes on: every socket operation returns or fails, by its
timeout (`settimeout(5.0)`) if not otherwise. `FairLoopSpec` assumes that requests
are served and answered, naps end and time passes; nobody has to release a lock.
`SessionSpec` assumes that what was sent arrives as long as the connection lasts
and both sides go on reading. `FairShutdownSpec` assumes that a handler that has begun
executes its next instruction and that `SystemExit`, which neither the code nor
asyncio catches, ends the process.

## Proofs

For every set of clients, locks, signals, connections, processes and waiters,
every timeout and delay, every number of attempts, of termination signals and of
restarts, every stream of bytes, every command and answer of whatever length and nesting, and both values of the switches unless the statement says otherwise:

| Theorem | States |
|---|---|
| `TypeCorrect`, `StorageConsistent`, `LatestConnectionProtects`, `ReadsAgree` | `Spec => []` of `TypeOK`, `IndexesAgree`, `LatestConnectionKeepsLocks`, `FindAgreesWithAcquire` |
| `OwnersKeepTenure` | `Spec => TenureEndsByReleaseOrLapse` |
| `ServerImplementsLease` | `Spec => ImplementsLease` |
| `ClientDrivesServer`, `ProcessesDriveServer` | `ClientSpec => Spec`, `ProcessSpec => Spec`: all of the above hold of both compositions |
| `ClientTypeCorrect` | `ClientSpec => []ClientTypeOK` |
| `OrphansOnlyByOvertaking` | `ClientSpec => []OrphansAreOvertaken` |
| `ReliedLocksAreSafe` | `ClientSpec => ReliedLocksAreLostByLapseOrLateRelease` |
| `SendTypeCorrect`, `AnswersAreFresh`, `ConnOnce`, `RetriesAreBounded` | `SendSpec => []` of `SendTypeOK`, `NoStaleAnswer`, `ConnComesFirstAndOnce`, `RetriesDoNotMultiply` |
| `CallsAreCalls` | `SendSpec => ImplementsCall` |
| `ProcessTypeCorrect`, `AcquiredLocksAreOwned`, `NothingIsLeftOver` | `ProcessSpec => []` of `ProcessTypeOK`, `AcquiredIsOwned`, `NothingLeftOver` |
| `LoopTypeCorrect`, `RaisingIsTimely`, `ObjectsAgreeWithServer`, `FreeLockIsTaken` | `LoopSpec => []` of `LoopTypeOK`, `RaisesAtTheDeadline`, `NoLockIsForgotten`, `FreeLockIsTakenInTime` |
| `BufferTypeCorrect`, `ReadsAreCorrect` | `BufferSpec => []BufferTypeOK`, `BufferSpec => ReadsAreExact` |
| `CommandsAlwaysArriveWhole`, `AnswersAlwaysArriveWhole`, `ReadersAlwaysUnderstand`, `NothingIsEverLeftBetweenCalls` | `SessionSpec => []` of `CommandsArriveWhole`, `AnswersArriveWhole`, `ReadersUnderstand`, `NothingIsLeftBetweenCalls` |
| `SessionReadsAreCorrect` | `SessionSpec => []BufferTypeOK /\ ReadsAreExact` |
| `ShutdownTypes`, `DumpsAreFinal`, `MemoriesAreWhole` | `ShutdownSpec => []` of `ShutdownTypeOK`, `DumpIsFinal`, `MemoryIsWhole` |
| `RestartsKeepLocks` | `ShutdownSpec => RestartKeepsLocks`, if not `TimeoutIsText` |
| `HandlersDoTheirMethods` | `ShutdownSpec => HandlersAreMethods` |

Assumptions: the markers for "no client" and "no address" are none of the
clients and addresses (`SentinelAssumption`, and in `LoopAssumption` the same of
`NoWaiter`), timeouts, delays, read size and attempts are positive
(`TimeoutAssumption`, `ServerAssumption`, `LoopAssumption`, `BufferAssumption`,
`AttemptsAssumption`, `ShutdownAssumption`), a missing dump file is no storage, CR
and LF differ (`LineEndAssumption`), no two lengths are written alike and no
number is written with a line end (`CodecAssumption`), clients send lists of what
`_receive_resp` of the server knows or lines that do not begin like such a value,
and the server answers with one line or with a value (`SessionAssumption`), and the library does not repeat CONN (`ClientAssumption`,
`ProcessAssumption`). Clients and locks may be infinitely many: a storage only ever
lists finitely many of them, which the invariant of the shutdown says.

The arguments:

- Server. `LiveLockServer_proofs` first shows of each storage method that it keeps
  the dictionaries typed and in agreement, with one lemma for the deletion all of
  them share. The inductive invariant is `IndInv`: types,
  agreement of the indexes and `LatestConnectionKeepsLocks`. The last is not
  inductive without agreement: when `connection_lost` marks the list of one
  client, that no lock of another client is in it is what keeps the other
  client's latest connection protecting its locks; and CONN with a fresh id
  relies on there being no locks under it. Tenure and the refinement then follow
  step by step: a client's list is what it owns, so release_all and
  unrelease_all move all its leases and no others.
- Client. `Conversations`: whatever is on a wire is what the client whose socket it is
  waits for, or a late request on a connection that nobody uses any more; a client
  never asks for what it relies on. So a RELEASE of a lock that its client relies on is
  a late one. `Ownership`, of every client that is not overtaken: the latest address
  that the server remembers of it is that of the connection it uses, once it has said
  CONN there, and locks that its last known connection left are marked.
  `OrphansAreOvertaken` is not inductive: a lock is kept by a connection, and it takes
  `Ownership` to know that the loss of any other one leaves its lock alone or marks it.
  The cases that matter are the late requests: a late CONN while there is no session
  and a late AQ on a watched connection keep `Ownership`, all others make the client
  an overtaken one.
- Retries. A frame retries only while its caller does not, so the stack is at most
  three deep (`Stack`, `AtMostThree`). What a connection has seen follows from the
  innermost frame alone (`Talk`); the bound on connections is the sum of three
  loops of which only one counts down at a time (`Connects`): the CONN and the
  CONNINFO of the first introduction, and the request. `CallsAreCalls` maps every
  step to a step or a stutter of `ClientCall`.
- Processes. A chain: a socket a process opened itself is used by nobody else; so
  what is on it is its own one request or answer; so its id is its own; so no two
  connections have one id; so nobody else can release or mark its locks.
- Acquire loop. `OnTime` (a nap ends before the deadline, a request is sent before
  it), `Holds` (the owner has the object or the answer), and a claim on the lock:
  somebody who waits will ask before the bound on `unclaimed` is reached.
- Buffer. The positions are right only together with `lacking` being exactly what
  the call is short of (`BufferInv`). The theorems are about `BufferSpec`, with any
  sender and any caller; `RespSession` uses the same actions.
- Session. The bytes of a message are cut before each node (`Coding`), and
  `Reading(r, v, data)` says that a machine r stands before a node of v, in its
  line or in its bytes, that `data` is exactly what is packed from there on, and
  that the stack of r owes (`Owes`) the number of values that v lacks there. Four
  lemmas for each side say that whatever it takes next, a byte, a line or the bytes
  it wants, leaves it reading v with the rest of `data`: a line because the first
  LF (for the client) or the first CRLF (for the server) of `data` is the one that
  ends the line of the node, bytes because the stated length counts them. That
  `Completed` leaves the innermost list that lacks more than one item takes that
  a stack owes one value and, for every list, one less than its entry. In
  `SessionInv` the message that is on its way is a request (`Arriving`) or an
  answer (`Answering`), never both; `data` is what the reader has in front of it,
  what is on the connection, and what was cut off (`Missing`), which is nothing
  while the connection lasts. So a reader that is done has had all of it, and one
  whose connection was cut is never done with part of it.
- Shutdown. `ShutdownInv` says which forms the rest of a handler can have (`Form`:
  before, in and after a guarded operation, in a second one, or unguarded), which
  of the two counters each form goes with, and that once the signal was handled
  and no operation is under way, the file tells what was last done to every lock
  (`FileTells`). A deletion begun by `locked` or maintenance, which no guard
  covers, is the one place where writes follow the last dump, and it only deletes
  what has lapsed: that is what `DumpIsFinal` grants. `WholeInv` is for the
  dictionaries: the dump is whole or torn in one deletion of a lapsed lock
  (`Repairable`), and what is left of a handler leads through memories that are
  repairable wherever a signal may dump to one that is whole (`SoundForm`).
  `load_dump` deletes the torn lock or raises and cleans up, so the memory after
  a restart is whole either way. That a handler is its method needs `WholeInv`
  too (a deletion finds its lock where the other dictionaries say it is), and the
  value of `After` for every handler: for lists in any order, so by induction on
  their length.
- Induction. The library's induction theorems take an operator and cannot be used;
  `SequenceInduction` states induction for a set instead (`Induction`, from
  well-foundedness), and from it that a function defined by recursion on an
  interval exists and is what its equations say. Everything about folds over
  lists rests on these.

Only model-checked: the liveness properties (out of the prover's reach) and the
refutations. Every invariant and every action property that holds in a run is also
a theorem.

## Plan

Left for later: processes whose sockets fail, which joins
`ClientProcesses` and `LiveLockClient`; `configure`, which replaces the connection
of a thread.

## Not modelled

Metrics, TCP options and probes, settings, packaging and the example scripts: no
state of the protocol depends on them. `configure` and `LiveLockStub` (the class that
`LIVELOCK_STUB` puts in the place of `LiveLock`, which asks no server) are left out too.
The password (the models run with none), the debug DUMP command, a signal that
interrupts the signal handler itself and a dump file damaged by a crash during the
write (`load_dump` then starts empty, as it does without a file) are left out. Reply
texts are reduced to yes and no.
