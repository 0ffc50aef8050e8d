------------------------------ MODULE AcquireLoop ------------------------------
(***************************************************************************)
(* The blocking LiveLock.acquire (livelock/client.py): the lock is asked   *)
(* for, and asked for again after a nap, until it is granted or a deadline *)
(* has passed.  Several waiters, each with a LiveLock object and a         *)
(* connection of its own, ask for the same lock; there is no queue on the  *)
(* server, so who asks first after a release gets it.                      *)
(*                                                                         *)
(* Time is discrete; its unit is the shortest time in which a request can  *)
(* be answered, and halves of it are rounded down.  Connections do not     *)
(* fail here, and a release is one step (LiveLockClient has both).         *)
(***************************************************************************)
EXTENDS Integers

CONSTANTS
  Waiters,
  NoWaiter,       \* the owner of a lock that is free
  Timeout,        \* per waiter: the timeout of its acquire, 0: none
  retry_interval, \* the longest nap
  MaxDelay        \* the longest time a request takes to be answered

ASSUME LoopAssumption ==
  /\ NoWaiter \notin Waiters
  /\ Timeout \in [Waiters -> Nat]
  /\ retry_interval \in Nat \ {0} /\ MaxDelay \in Nat \ {0}

VARIABLES
  pc,         \* "out": returned, "raised", "asking", "asleep"
  acquired,   \* per waiter: the field of its LiveLock object
  left,       \* per waiter: the time left until its deadline
  age,        \* the time since its request was sent
  reply,      \* what the server made of the request: "none", "yes", "no"
  sleep_time, \* the rest of its nap
  owner,      \* the owner of the lock on the server
  unclaimed   \* how long the lock has been free while somebody waits for it

loopVars == <<pc, acquired, left, age, reply, sleep_time, owner, unclaimed>>

Waiting(w) == pc[w] \in {"asking", "asleep"}

LoopTypeOK ==
  /\ pc \in [Waiters -> {"out", "raised", "asking", "asleep"}]
  /\ acquired \in [Waiters -> BOOLEAN]
  /\ left \in [Waiters -> Int]
  /\ age \in [Waiters -> 0 .. MaxDelay]
  /\ reply \in [Waiters -> {"none", "yes", "no"}]
  /\ sleep_time \in [Waiters -> 0 .. retry_interval]
  /\ owner \in Waiters \cup {NoWaiter}
  /\ unclaimed \in Nat

LoopInit ==
  /\ pc = [w \in Waiters |-> "out"]
  /\ acquired = [w \in Waiters |-> FALSE]
  /\ left = [w \in Waiters |-> 0]
  /\ age = [w \in Waiters |-> 0]
  /\ reply = [w \in Waiters |-> "none"]
  /\ sleep_time = [w \in Waiters |-> 0]
  /\ owner = NoWaiter
  /\ unclaimed = 0

-----------------------------------------------------------------------------
Ask(w) ==
  /\ pc' = [pc EXCEPT ![w] = "asking"]
  /\ age' = [age EXCEPT ![w] = 0]
  /\ reply' = [reply EXCEPT ![w] = "none"]

(* acquire is called, also on an object that is acquired: the first request*)
(* is sent whatever the timeout is.                                        *)
Call(w) ==
  /\ ~Waiting(w)
  /\ Ask(w)
  /\ left' = [left EXCEPT ![w] = Timeout[w]]
  /\ UNCHANGED <<acquired, sleep_time, owner, unclaimed>>

(* The server's acquire, for a lock that is not reentrant.                 *)
Serve(w) ==
  /\ pc[w] = "asking" /\ reply[w] = "none"
  /\ reply' = [reply EXCEPT ![w] = IF owner = NoWaiter THEN "yes" ELSE "no"]
  /\ owner' = IF owner = NoWaiter THEN w ELSE owner
  /\ unclaimed' = 0
  /\ UNCHANGED <<pc, acquired, left, age, sleep_time>>

(* Mutant: only a waiter that is ahead of its deadline looks at the answer.*)
GrantedInTime(w) == reply[w] = "yes" /\ (Timeout[w] = 0 \/ left[w] > 0)

Granted(w) == reply[w] = "yes"

(* Mutant: the loop ends with the last whole nap.                          *)
GoesOnForWholeNaps(w) == Timeout[w] = 0 \/ left[w] >= retry_interval

(* The loop's condition.                                                   *)
GoesOn(w) == Timeout[w] = 0 \/ left[w] > 0

(* Mutants: a nap as long as the time that is left; no shorter last nap.   *)
NapUntilTheDeadline(w) == IF Timeout[w] = 0 THEN retry_interval ELSE left[w]

NapTooLong(w) == retry_interval + 1

(* When less than a nap is left, half of that: "seems last try".           *)
NapTime(w) ==
  IF Timeout[w] = 0 \/ left[w] >= retry_interval THEN retry_interval
  ELSE left[w] \div 2

(* The answer arrives: acquire returns, raises or takes a nap.             *)
Answered(w) ==
  /\ pc[w] = "asking" /\ reply[w] # "none" /\ age[w] > 0
  /\ \/ /\ Granted(w)
        /\ acquired' = [acquired EXCEPT ![w] = TRUE]
        /\ pc' = [pc EXCEPT ![w] = "out"]
        /\ UNCHANGED sleep_time
     \/ /\ ~Granted(w) /\ GoesOn(w)
        /\ sleep_time' = [sleep_time EXCEPT ![w] = NapTime(w)]
        /\ pc' = [pc EXCEPT ![w] = "asleep"]
        /\ UNCHANGED acquired
     \/ /\ ~Granted(w) /\ ~GoesOn(w)
        /\ pc' = [pc EXCEPT ![w] = "raised"]
        /\ UNCHANGED <<acquired, sleep_time>>
  /\ unclaimed' = IF \E v \in Waiters : pc'[v] \in {"asking", "asleep"}
                  THEN unclaimed ELSE 0
  /\ UNCHANGED <<left, age, reply, owner>>

(* Mutant: the deadline is computed in the loop.                           *)
WakeUpAfresh(w) ==
  /\ pc[w] = "asleep" /\ sleep_time[w] = 0
  /\ Ask(w)
  /\ left' = [left EXCEPT ![w] = Timeout[w]]
  /\ UNCHANGED <<acquired, sleep_time, owner, unclaimed>>

WakeUp(w) ==
  /\ pc[w] = "asleep" /\ sleep_time[w] = 0
  /\ Ask(w)
  /\ UNCHANGED <<acquired, left, sleep_time, owner, unclaimed>>

Release(w) ==
  /\ ~Waiting(w) /\ acquired[w]
  /\ acquired' = [acquired EXCEPT ![w] = FALSE]
  /\ owner' = IF owner = w THEN NoWaiter ELSE owner
  /\ UNCHANGED <<pc, left, age, reply, sleep_time, unclaimed>>

(* A unit of time passes, unless an answer or the end of a nap is due.     *)
Due(w) ==
  \/ pc[w] = "asking" /\ age[w] = MaxDelay
  \/ pc[w] = "asleep" /\ sleep_time[w] = 0

Tick ==
  /\ \E w \in Waiters : Waiting(w)
  /\ \A w \in Waiters : ~Due(w)
  /\ left' = [w \in Waiters |->
                IF Waiting(w) /\ Timeout[w] > 0 THEN left[w] - 1 ELSE left[w]]
  /\ age' = [w \in Waiters |-> IF pc[w] = "asking" THEN age[w] + 1 ELSE age[w]]
  /\ sleep_time' = [w \in Waiters |->
                      IF pc[w] = "asleep" THEN sleep_time[w] - 1 ELSE sleep_time[w]]
  /\ unclaimed' = IF owner = NoWaiter THEN unclaimed + 1 ELSE 0
  /\ UNCHANGED <<pc, acquired, reply, owner>>

LoopNext ==
  \/ \E w \in Waiters :
       Call(w) \/ Serve(w) \/ Answered(w) \/ WakeUp(w) \/ Release(w)
  \/ Tick

LoopSpec == LoopInit /\ [][LoopNext]_loopVars

(* Requests are served and answered, naps end, and time passes.  Nobody    *)
(* has to call or to release anything.                                     *)
FairLoopSpec ==
  /\ LoopSpec
  /\ \A w \in Waiters :
       WF_loopVars(Serve(w)) /\ WF_loopVars(Answered(w)) /\ WF_loopVars(WakeUp(w))
  /\ WF_loopVars(Tick)

-----------------------------------------------------------------------------
(* acquire raises when its time is over and not before, and not later than *)
(* one slow answer after that: the naps get shorter towards the deadline,  *)
(* and a waiter without a timeout never raises.                            *)
RaisesAtTheDeadline ==
  \A w \in Waiters :
     pc[w] = "raised" => Timeout[w] > 0 /\ left[w] \in (- MaxDelay) .. 0

(* Outside of a call a waiter has the lock exactly when its object says so:*)
(* one that raises has not been granted the lock by an answer that came    *)
(* too late, and no two objects are acquired at a time.                    *)
NoLockIsForgotten ==
  \A w \in Waiters : ~Waiting(w) => (acquired[w] <=> owner = w)

(* A lock that is free while somebody waits is taken after a nap and two   *)
(* answers at the latest: the one that was on its way when it became free, *)
(* and the next.                                                           *)
FreeLockIsTakenInTime == unclaimed <= retry_interval + 2 * MaxDelay

(* A call with a timeout comes to an end, though the lock is never         *)
(* released: halving the nap does not go on forever.                       *)
EveryCallEnds ==
  \A w \in Waiters : Timeout[w] > 0 => (Waiting(w) ~> ~Waiting(w))
=============================================================================
