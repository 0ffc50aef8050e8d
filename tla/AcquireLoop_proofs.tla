-------------------------- MODULE AcquireLoop_proofs --------------------------
(***************************************************************************)
(* The blocking acquire for any number of waiters, any timeouts, any nap   *)
(* and any delay.  Three inductive invariants, each a statement about one  *)
(* waiter that its own steps and the clock have to keep: how far it is     *)
(* from its deadline, who has the lock, and when it will ask next.         *)
(***************************************************************************)
EXTENDS AcquireLoop, TLAPS

(* A nap never lasts past the deadline, and a request is sent before it.   *)
OnTime(w) ==
  /\ pc[w] = "asleep" /\ Timeout[w] > 0 => sleep_time[w] <= left[w]
  /\ pc[w] = "asking" /\ Timeout[w] > 0 => left[w] + age[w] >= 0
  /\ pc[w] = "raised" => Timeout[w] > 0 /\ left[w] <= 0 /\ left[w] >= - MaxDelay

(* Who owns the lock has its object acquired, or the answer on its way.    *)
HasAnswer(w) == pc[w] = "asking" /\ reply[w] = "yes"

Holds(w) ==
  /\ acquired[w] \/ HasAnswer(w) => owner = w
  /\ owner = w => acquired[w] \/ HasAnswer(w)

Refused(w) == pc[w] = "asking" /\ reply[w] = "no"

(* The longest time until the server looks at the next request of a        *)
(* waiter, when the lock is free.                                          *)
Wait(w) ==
  IF pc[w] = "asleep" THEN sleep_time[w] + MaxDelay
  ELSE IF Refused(w) THEN retry_interval + 2 * MaxDelay - age[w]
  ELSE MaxDelay - age[w]

(* One of the waiters asks in time, and who was refused was refused before *)
(* the lock became free.                                                   *)
Soon(w) == Waiting(w) /\ unclaimed + Wait(w) <= retry_interval + 2 * MaxDelay

Claims ==
  /\ owner # NoWaiter => unclaimed = 0
  /\ \A w \in Waiters : Refused(w) => unclaimed <= age[w]
  /\ unclaimed = 0 \/ \E w \in Waiters : Soon(w)

LoopInv ==
  /\ LoopTypeOK
  /\ \A w \in Waiters : OnTime(w) /\ Holds(w)

-----------------------------------------------------------------------------
(* NapTime: at most the retry interval, and at most the time that is left. *)
LEMMA NapFits ==
  ASSUME NEW w \in Waiters, LoopTypeOK, GoesOn(w)
  PROVE  /\ NapTime(w) \in 0 .. retry_interval
         /\ Timeout[w] > 0 => NapTime(w) <= left[w]
<1>1. left[w] \in Int /\ Timeout[w] \in Nat /\ retry_interval \in Nat \ {0}
  BY LoopAssumption DEF LoopTypeOK
<1>2. CASE Timeout[w] = 0 \/ left[w] >= retry_interval
  BY <1>1, <1>2 DEF NapTime
<1>3. CASE ~(Timeout[w] = 0 \/ left[w] >= retry_interval)
  <2>1. NapTime(w) = left[w] \div 2 /\ left[w] > 0 /\ left[w] < retry_interval
    BY <1>1, <1>3 DEF NapTime, GoesOn
  <2>2. left[w] \div 2 \in 0 .. left[w]
    BY <1>1, <2>1
  <2> QED
    BY <1>1, <2>1, <2>2
<1> QED
  BY <1>2, <1>3

(* The invariant of the loop holds at first, and the lock is claimed.      *)
LEMMA InitInv == LoopInit => LoopInv /\ Claims
  BY LoopAssumption
  DEF LoopInit, LoopInv, LoopTypeOK, OnTime, Holds, HasAnswer, Claims, Refused

(* Every step of a call, of its server and of time keeps the invariant.    *)
LEMMA InvKept == ASSUME LoopInv, [LoopNext]_loopVars PROVE LoopInv'
<1> USE LoopAssumption DEF LoopInv, LoopTypeOK, OnTime, Holds, HasAnswer
<1>1. CASE UNCHANGED loopVars
  BY <1>1 DEF loopVars
<1>2. ASSUME NEW w \in Waiters, Call(w) PROVE LoopInv'
  BY <1>2 DEF Call, Ask, Waiting
<1>3. ASSUME NEW w \in Waiters, Serve(w) PROVE LoopInv'
  BY <1>3 DEF Serve
<1>4. ASSUME NEW w \in Waiters, Answered(w) PROVE LoopInv'
  <2>1. CASE Granted(w)
    BY <1>4, <2>1 DEF Answered, Granted
  <2>2. CASE ~Granted(w) /\ GoesOn(w)
    BY <1>4, <2>2, NapFits DEF Answered, Granted
  <2>3. CASE ~Granted(w) /\ ~GoesOn(w)
    BY <1>4, <2>3 DEF Answered, Granted, GoesOn
  <2> QED
    BY <2>1, <2>2, <2>3
<1>5. ASSUME NEW w \in Waiters, WakeUp(w) PROVE LoopInv'
  BY <1>5 DEF WakeUp, Ask
<1>6. ASSUME NEW w \in Waiters, Release(w) PROVE LoopInv'
  BY <1>6 DEF Release, Waiting
<1>7. CASE Tick
  BY <1>7 DEF Tick, Due, Waiting
<1> QED
  BY <1>1, <1>2, <1>3, <1>4, <1>5, <1>6, <1>7 DEF LoopNext

(* Nor is the lock left unclaimed for longer.                              *)
LEMMA ClaimsKept ==
  ASSUME LoopInv, LoopInv', Claims, [LoopNext]_loopVars PROVE Claims'
<1> USE LoopAssumption DEF LoopInv, LoopTypeOK, Holds, HasAnswer, Claims, Refused, Soon, Wait, Waiting
<1>1. CASE UNCHANGED loopVars
  BY <1>1 DEF loopVars
<1>2. ASSUME NEW w \in Waiters, Call(w) PROVE Claims'
  BY <1>2 DEF Call, Ask
<1>3. ASSUME NEW w \in Waiters, Serve(w) PROVE Claims'
  BY <1>3 DEF Serve
<1>4. ASSUME NEW w \in Waiters, Answered(w) PROVE Claims'
  BY <1>4, NapFits DEF Answered, Granted
<1>5. ASSUME NEW w \in Waiters, WakeUp(w) PROVE Claims'
  BY <1>5 DEF WakeUp, Ask
<1>6. ASSUME NEW w \in Waiters, Release(w) PROVE Claims'
  BY <1>6 DEF Release
<1>7. CASE Tick
  BY <1>7 DEF Tick, Due
<1> QED
  BY <1>1, <1>2, <1>3, <1>4, <1>5, <1>6, <1>7 DEF LoopNext

-----------------------------------------------------------------------------
(* So both hold always.                                                    *)
LEMMA LoopInvariant == LoopSpec => [](LoopInv /\ Claims)
<1>1. LoopInit => LoopInv /\ Claims
  BY InitInv
<1>2. LoopInv /\ Claims /\ [LoopNext]_loopVars => (LoopInv /\ Claims)'
  BY InvKept, ClaimsKept
<1> QED
  BY <1>1, <1>2, PTL DEF LoopSpec

(* The loop's variables stay within their types: no nap is longer than the *)
(* retry interval, and no request is older than the longest delay.         *)
THEOREM LoopTypeCorrect == LoopSpec => []LoopTypeOK
  BY LoopInvariant, PTL DEF LoopInv

(* A call raises at its deadline: not before, and at most one slow answer  *)
(* after it.                                                               *)
THEOREM RaisingIsTimely == LoopSpec => []RaisesAtTheDeadline
<1>1. LoopInv => RaisesAtTheDeadline
  BY LoopAssumption DEF LoopInv, LoopTypeOK, OnTime, RaisesAtTheDeadline
<1> QED
  BY <1>1, LoopInvariant, PTL

(* Outside of its calls, a waiter's object is acquired exactly when it owns*)
(* the lock.                                                               *)
THEOREM ObjectsAgreeWithServer == LoopSpec => []NoLockIsForgotten
<1>1. LoopInv => NoLockIsForgotten
  BY DEF LoopInv, Holds, HasAnswer, Waiting, NoLockIsForgotten
<1> QED
  BY <1>1, LoopInvariant, PTL

(* A free lock that somebody waits for is taken within a nap and two       *)
(* answers.                                                                *)
THEOREM FreeLockIsTaken == LoopSpec => []FreeLockIsTakenInTime
<1>1. LoopInv /\ Claims => FreeLockIsTakenInTime
  BY LoopAssumption
  DEF LoopInv, LoopTypeOK, Claims, Soon, Wait, Waiting, FreeLockIsTakenInTime
<1> QED
  BY <1>1, LoopInvariant, PTL
=============================================================================
