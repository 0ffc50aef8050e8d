------------------------ MODULE ServerShutdown_proofs ------------------------
(***************************************************************************)
(* The end and the new beginning of the server, for any clients, locks,    *)
(* signals and addresses and any number of termination signals: the dump   *)
(* of a process that went down has everything that was done to the locks,  *)
(* and a restart from it gives them back; the dictionaries agree after a   *)
(* restart from any dump, a torn one too; and the writes of a handler come *)
(* to what the methods of the storage promise.                             *)
(*                                                                         *)
(* Two invariants carry this. ShutdownInv: what is left of a handler has   *)
(* one of the forms of the code, and the file tells what was last done, or *)
(* will, when the operation that is under way has ended. WholeInv: the     *)
(* dump is whole or torn in a deletion whose lock has lapsed, and what is  *)
(* left of a handler makes the memory whole. What the writes of a handler  *)
(* come to is the fold After; the facts about it are by induction on the   *)
(* list of writes (SequenceInduction).                                     *)
(***************************************************************************)
EXTENDS ServerShutdown, SequenceInduction, FiniteSetTheorems

-----------------------------------------------------------------------------
(* Memories and writes.                                                    *)

(* Every list and the table of lists is finite, so that it can be gone     *)
(* through in some order.                                                  *)
Finite(m) ==
  /\ IsFiniteSet(m.tracked)
  /\ \A c \in Clients : IsFiniteSet(m.client_to_locks[c])

Memories == {m \in Storages : Finite(m)}

Writes ==
  {s \in Steps :
     \/ s.does \in {"key", "unkey", "unaddress"} /\ s.client \in Clients
     \/ s.does \in {"own", "list"} /\ s.client \in Clients /\ s.on \in LockIds
     \/ s.does \in {"index", "disown", "unindex", "unlist", "grace", "keep"} /\ s.on \in LockIds
     \/ s.does \in {"signal", "unsignal"} /\ s.on \in LockIds \X Signals
     \/ s.does = "address" /\ s.client \in Clients /\ s.on \in Addresses}

(* The writes of the storage are none of the steps that guard or end a     *)
(* handler.                                                                *)
LEMMA WritesAreNoBookkeeping == \A s \in Writes : s \in Steps /\ s.does \notin Bookkeeping
  BY DEF Writes, Bookkeeping

(* The writes one by one.                                                  *)
LEMMA WrittenIs ==
  ASSUME NEW m, NEW s
  PROVE  /\ s.does = "key" => Written(m, s) = [m EXCEPT !.tracked = @ \cup {s.client}]
         /\ s.does = "own" => Written(m, s) = [m EXCEPT !.locks_to_client[s.on] = s.client]
         /\ s.does = "index" => Written(m, s) = [m EXCEPT !.all_locks = @ \cup {s.on}]
         /\ s.does = "disown" => Written(m, s) = [m EXCEPT !.locks_to_client[s.on] = NoClient]
         /\ s.does = "unindex" => Written(m, s) = [m EXCEPT !.all_locks = @ \ {s.on}]
         /\ s.does = "unlist" =>
              Written(m, s) = [m EXCEPT !.client_to_locks[s.client] = @ \ {s.on}]
         /\ s.does = "unkey" => Written(m, s) = [m EXCEPT !.tracked = @ \ {s.client}]
         /\ s.does = "unaddress" =>
              Written(m, s) = [m EXCEPT !.client_last_address[s.client] = NoAddress]
         /\ s.does = "address" =>
              Written(m, s) = [m EXCEPT !.client_last_address[s.client] = s.on]
<1>1. s.does = "key" => Written(m, s) = [m EXCEPT !.tracked = @ \cup {s.client}]
  BY DEF Written
<1>2. s.does = "own" => Written(m, s) = [m EXCEPT !.locks_to_client[s.on] = s.client]
  BY DEF Written
<1>3. s.does = "index" => Written(m, s) = [m EXCEPT !.all_locks = @ \cup {s.on}]
  BY DEF Written
<1>4. s.does = "disown" => Written(m, s) = [m EXCEPT !.locks_to_client[s.on] = NoClient]
  BY DEF Written
<1>5. s.does = "unindex" => Written(m, s) = [m EXCEPT !.all_locks = @ \ {s.on}]
  BY DEF Written
<1>6. s.does = "unlist" => Written(m, s) = [m EXCEPT !.client_to_locks[s.client] = @ \ {s.on}]
  BY DEF Written
<1>7. s.does = "unkey" => Written(m, s) = [m EXCEPT !.tracked = @ \ {s.client}]
  BY DEF Written
<1>8. s.does = "unaddress" =>
        Written(m, s) = [m EXCEPT !.client_last_address[s.client] = NoAddress]
  BY DEF Written
<1>9. s.does = "address" =>
        Written(m, s) = [m EXCEPT !.client_last_address[s.client] = s.on]
  BY DEF Written
<1> QED
  BY <1>1, <1>2, <1>3, <1>4, <1>5, <1>6, <1>7, <1>8, <1>9

(* What the marks of release_all and unrelease_all write.                  *)
LEMMA MarkingIsWritten ==
  ASSUME NEW m, NEW s
  PROVE  /\ s.does = "grace" =>
              Written(m, s) = [m EXCEPT !.mark_free_after[s.on] = DefaultReleaseAllTimeout]
         /\ s.does = "keep" => Written(m, s) = [m EXCEPT !.mark_free_after[s.on] = NotMarked]
<1>1. s.does = "grace" =>
        Written(m, s) = [m EXCEPT !.mark_free_after[s.on] = DefaultReleaseAllTimeout]
  BY DEF Written
<1>2. s.does = "keep" => Written(m, s) = [m EXCEPT !.mark_free_after[s.on] = NotMarked]
  BY DEF Written
<1> QED
  BY <1>1, <1>2

(* What the two signal methods write.                                      *)
LEMMA SignalIsWritten ==
  ASSUME NEW m, NEW s
  PROVE  /\ s.does = "signal" => Written(m, s) = [m EXCEPT !.signals[s.on[1]] = @ \cup {s.on[2]}]
         /\ s.does = "unsignal" => Written(m, s) = [m EXCEPT !.signals[s.on[1]] = @ \ {s.on[2]}]
<1>1. s.does = "signal" => Written(m, s) = [m EXCEPT !.signals[s.on[1]] = @ \cup {s.on[2]}]
  BY DEF Written
<1>2. s.does = "unsignal" => Written(m, s) = [m EXCEPT !.signals[s.on[1]] = @ \ {s.on[2]}]
  BY DEF Written
<1> QED
  BY <1>1, <1>2

(* The new MemoryLockInfo of an acquisition.                               *)
LEMMA ListIsWritten ==
  ASSUME NEW m, NEW s, s.does = "list"
  PROVE  Written(m, s) = [m EXCEPT !.client_to_locks[s.client] = @ \cup {s.on},
                                   !.tracked = @ \cup {s.client},
                                   !.mark_free_after[s.on] = NotMarked,
                                   !.signals[s.on] = {}]
  BY DEF Written

(* A write of a storage method leaves a memory.                            *)
LEMMA WrittenIsTyped ==
  ASSUME NEW m \in Storages, NEW s \in Writes
  PROVE  Written(m, s) \in Storages
<1>1. CASE s.does \in {"key", "unkey"}
  BY <1>1, WrittenIs DEF Writes, Storages
<1>2. CASE s.does \in {"own", "disown"}
  BY <1>2, WrittenIs DEF Writes, Storages
<1>3. CASE s.does \in {"index", "unindex"}
  BY <1>3, WrittenIs DEF Writes, Storages
<1>4. CASE s.does = "unlist"
  <2>1. PICK c, l : c = s.client /\ l = s.on
    OBVIOUS
  <2>2. l \in LockIds /\ Written(m, s) = [m EXCEPT !.client_to_locks[c] = @ \ {l}]
    BY <1>4, <2>1, WrittenIs DEF Writes
  <2>3. [m.client_to_locks EXCEPT ![c] = @ \ {l}] \in [Clients -> SUBSET LockIds]
    BY <2>2 DEF Storages
  <2> QED
    BY <2>2, <2>3 DEF Storages
<1>5. CASE s.does = "list"
  <2>1. PICK c, l : c = s.client /\ l = s.on
    OBVIOUS
  <2>2. l \in LockIds /\ c \in Clients
    BY <1>5, <2>1 DEF Writes
  <2>3. Written(m, s) = [m EXCEPT !.client_to_locks[c] = @ \cup {l},
                                  !.tracked = @ \cup {c},
                                  !.mark_free_after[l] = NotMarked,
                                  !.signals[l] = {}]
    <3>1. Written(m, s) = [m EXCEPT !.client_to_locks[s.client] = @ \cup {s.on},
                                    !.tracked = @ \cup {s.client},
                                    !.mark_free_after[s.on] = NotMarked,
                                    !.signals[s.on] = {}]
      BY <1>5, ListIsWritten
    <3> QED
      BY <2>1, <3>1
  <2>4. /\ [m.client_to_locks EXCEPT ![c] = @ \cup {l}] \in [Clients -> SUBSET LockIds]
        /\ m.tracked \cup {c} \in SUBSET Clients
        /\ [m.mark_free_after EXCEPT ![l] = NotMarked] \in [LockIds -> Nat \cup {NotMarked}]
        /\ [m.signals EXCEPT ![l] = {}] \in [LockIds -> SUBSET Signals]
    BY <2>2 DEF Storages
  <2> QED
    BY <2>3, <2>4 DEF Storages
<1>6. CASE s.does \in {"grace", "keep"}
  <2>1. DefaultReleaseAllTimeout \in Nat /\ s.on \in LockIds
    BY <1>6, ShutdownAssumption DEF Writes
  <2> QED
    BY <1>6, <2>1, MarkingIsWritten DEF Storages
<1>7. CASE s.does \in {"signal", "unsignal"}
  <2>1. PICK l, x : l = s.on[1] /\ x = s.on[2]
    OBVIOUS
  <2>2. l \in LockIds /\ x \in Signals
    BY <1>7, <2>1 DEF Writes
  <2>3. \/ Written(m, s) = [m EXCEPT !.signals[l] = @ \cup {x}]
        \/ Written(m, s) = [m EXCEPT !.signals[l] = @ \ {x}]
    BY <1>7, <2>1, SignalIsWritten
  <2> QED
    BY <2>2, <2>3 DEF Storages
<1>8. CASE s.does \in {"address", "unaddress"}
  BY <1>8, WrittenIs DEF Writes, Storages
<1> QED
  BY <1>1, <1>2, <1>3, <1>4, <1>5, <1>6, <1>7, <1>8 DEF Writes

(* A write keeps every list finite.                                        *)
LEMMA WrittenIsFinite ==
  ASSUME NEW m \in Storages, Finite(m), NEW s \in Writes
  PROVE  Finite(Written(m, s))
<1> DEFINE w == Written(m, s)
<1>1. IsFiniteSet(m.tracked)
  BY DEF Finite
<1>2. \/ w.tracked = m.tracked
      \/ w.tracked = m.tracked \cup {s.client}
      \/ w.tracked = m.tracked \ {s.client}
  BY DEF Written, Storages
<1>3. IsFiniteSet(w.tracked)
  BY <1>1, <1>2, FS_AddElement, FS_RemoveElement
<1>4. ASSUME NEW c \in Clients
      PROVE  IsFiniteSet(w.client_to_locks[c])
  <2>1. IsFiniteSet(m.client_to_locks[c])
    BY DEF Finite
  <2>2. \/ w.client_to_locks[c] = m.client_to_locks[c]
        \/ w.client_to_locks[c] = m.client_to_locks[c] \cup {s.on}
        \/ w.client_to_locks[c] = m.client_to_locks[c] \ {s.on}
    BY DEF Written, Storages
  <2> QED
    BY <2>1, <2>2, FS_AddElement, FS_RemoveElement
<1> QED
  BY <1>3, <1>4 DEF Finite

(* A write leads from memory to memory.                                    *)
LEMMA WrittenIsMemory ==
  ASSUME NEW m \in Memories, NEW s \in Writes
  PROVE  Written(m, s) \in Memories
  BY WrittenIsTyped, WrittenIsFinite DEF Memories
-----------------------------------------------------------------------------
(* What a sequence of steps makes of a memory.                             *)

Tasks == Writes \cup {s \in Steps : s.does \in Bookkeeping}

(* Bookkeeping writes nothing.                                             *)
LEMMA BookkeepingWritesNothing ==
  ASSUME NEW m, NEW s \in Steps, s.does \in Bookkeeping
  PROVE  Written(m, s) = m
  BY DEF Written, Bookkeeping

(* So does every step of a handler.                                        *)
LEMMA TaskLeavesMemory ==
  ASSUME NEW m \in Memories, NEW s \in Tasks
  PROVE  Written(m, s) \in Memories
  BY WrittenIsMemory, BookkeepingWritesNothing DEF Tasks

Progress(f, m, steps) ==
  /\ f \in [0 .. Len(steps) -> Memories]
  /\ f[0] = m
  /\ \A i \in 1 .. Len(steps) : f[i] = Written(f[i - 1], steps[i])

(* After is what its recursive definition says.                            *)
LEMMA AfterIs ==
  ASSUME NEW m \in Memories, NEW steps \in Seq(Tasks)
  PROVE  \E f : Progress(f, m, steps) /\ After(m, steps) = f[Len(steps)]
<1> DEFINE n == Len(steps)
           IsAfter(g) == g = [i \in 0 .. n |-> IF i = 0 THEN m ELSE Written(g[i - 1], steps[i])]
           chosen == CHOOSE g : IsAfter(g)
<1>1. n \in Nat /\ \A i \in 1 .. n : steps[i] \in Tasks
  OBVIOUS
<1>2. PICK F : F = [i \in 1 .. n |-> [x \in Memories |-> Written(x, steps[i])]]
  OBVIOUS
<1>3. \A i \in 1 .. n : \A x \in Memories :
        F[i][x] = Written(x, steps[i]) /\ F[i][x] \in Memories
  <2> HIDE DEF n
  <2> QED
    BY <1>1, <1>2, TaskLeavesMemory
<1>4. PICK f : Recursion(f, Memories, n, m, F)
  <2> HIDE DEF n
  <2> QED
    BY <1>1, <1>3, RecursionExists
<1>5. Progress(f, m, steps)
  <2> SUFFICES \A i \in 1 .. n : f[i] = Written(f[i - 1], steps[i])
    BY <1>4 DEF Progress, Recursion
  <2> TAKE i \in 1 .. n
  <2>1. i - 1 \in 0 .. n /\ f[i - 1] \in Memories
    <3> HIDE DEF n
    <3> QED
      BY <1>1, <1>4 DEF Recursion
  <2> HIDE DEF n
  <2> QED
    BY <2>1, <1>3, <1>4 DEF Recursion
<1>6. After(m, steps) = chosen[n]
  BY DEF After
<1>7. IsAfter(f)
  <2>1. \A i \in 0 .. n : f[i] = IF i = 0 THEN m ELSE Written(f[i - 1], steps[i])
    BY <1>1, <1>5 DEF Progress
  <2>2. f \in [0 .. n -> Memories]
    BY <1>5 DEF Progress
  <2> HIDE DEF n
  <2> QED
    BY <2>1, <2>2
<1>8. IsAfter(chosen)
  <2> HIDE DEF IsAfter
  <2> QED
    BY <1>7
<1> HIDE DEF chosen, n
<1>9. chosen[0] = f[0]
  BY <1>1, <1>7, <1>8
<1>10. \A i \in 1 .. n : chosen[i - 1] = f[i - 1] => chosen[i] = f[i]
  BY <1>1, <1>7, <1>8
<1>11. \A i \in 0 .. n : chosen[i] = f[i]
  <2>1. Alike(chosen, f, n)
    BY <1>9, <1>10 DEF Alike
  <2> QED
    BY <1>1, <2>1, RecursionUnique
<1> QED
  BY <1>1, <1>5, <1>6, <1>11 DEF n

(* Two ways of being after the same steps are one.                         *)
LEMMA ProgressUnique ==
  ASSUME NEW m, NEW steps \in Seq(Tasks), NEW f, NEW g,
         Progress(f, m, steps), Progress(g, m, steps)
  PROVE  \A i \in 0 .. Len(steps) : f[i] = g[i]
<1>1. f[0] = g[0]
  BY DEF Progress
<1>2. \A i \in 1 .. Len(steps) : f[i - 1] = g[i - 1] => f[i] = g[i]
  BY DEF Progress
<1>3. Len(steps) \in Nat /\ Alike(f, g, Len(steps))
  BY <1>1, <1>2 DEF Alike
<1> QED
  BY <1>3, RecursionUnique

(* And so do any number of them.                                           *)
LEMMA AfterIsMemory ==
  ASSUME NEW m \in Memories, NEW steps \in Seq(Tasks)
  PROVE  After(m, steps) \in Memories
<1>1. PICK f : Progress(f, m, steps) /\ After(m, steps) = f[Len(steps)]
  BY AfterIs
<1> QED
  BY <1>1 DEF Progress

(* No steps do nothing.                                                    *)
LEMMA AfterNothing ==
  ASSUME NEW m \in Memories
  PROVE  After(m, <<>>) = m
<1>1. <<>> \in Seq(Tasks) /\ Len(<<>>) = 0
  OBVIOUS
<1>2. PICK f : Progress(f, m, <<>>) /\ After(m, <<>>) = f[0]
  BY <1>1, AfterIs
<1> QED
  BY <1>2 DEF Progress

(* One step does its write.                                                *)
LEMMA AfterOne ==
  ASSUME NEW m \in Memories, NEW s \in Tasks
  PROVE  After(m, <<s>>) = Written(m, s)
<1>1. <<s>> \in Seq(Tasks) /\ Len(<<s>>) = 1 /\ <<s>>[1] = s
  OBVIOUS
<1>2. PICK f : Progress(f, m, <<s>>) /\ After(m, <<s>>) = f[1]
  BY <1>1, AfterIs
<1>3. f[1] = Written(f[1 - 1], s) /\ f[0] = m
  BY <1>1, <1>2 DEF Progress
<1> QED
  BY <1>2, <1>3

(* One sequence of steps after the other.                                  *)
Joined(g, h, x, y) == [i \in 0 .. x + y |-> IF i <= x THEN g[i] ELSE h[i - x]]

(* What comes to be by a, and then by b, comes to be by both.              *)
LEMMA ProgressConcat ==
  ASSUME NEW m, NEW a \in Seq(Tasks), NEW b \in Seq(Tasks), NEW g, NEW h,
         Progress(g, m, a), Progress(h, g[Len(a)], b)
  PROVE  /\ Progress(Joined(g, h, Len(a), Len(b)), m, a \o b)
         /\ Joined(g, h, Len(a), Len(b))[Len(a \o b)] = h[Len(b)]
<1>1. PICK x, y, z : x = Len(a) /\ y = Len(b) /\ z = Len(a \o b)
  OBVIOUS
<1>2. x \in Nat /\ y \in Nat /\ z = x + y
  BY <1>1
<1>3. PICK k : k = [i \in 0 .. z |-> IF i <= x THEN g[i] ELSE h[i - x]]
  OBVIOUS
<1>4. k \in [0 .. z -> Memories]
  <2>1. \A i \in 0 .. x : g[i] \in Memories
    BY <1>1 DEF Progress
  <2>2. \A i \in 0 .. y : h[i] \in Memories
    BY <1>1 DEF Progress
  <2> QED
    BY <1>2, <1>3, <2>1, <2>2
<1>5. k[0] = m
  BY <1>2, <1>3 DEF Progress
<1>6. ASSUME NEW i \in 1 .. z
       PROVE  k[i] = Written(k[i - 1], (a \o b)[i])
  <2>1. CASE i \in 1 .. x
    <3>1. (a \o b)[i] = a[i]
      BY <2>1, <1>1
    <3>2. g[i] = Written(g[i - 1], a[i])
      BY <2>1, <1>1 DEF Progress
    <3>3. k[i] = g[i] /\ k[i - 1] = g[i - 1]
      BY <2>1, <1>2, <1>3
    <3> QED
      BY <3>1, <3>2, <3>3
  <2>2. CASE i \notin 1 .. x
    <3>1. i - x \in 1 .. y /\ x + (i - x) = i
      BY <2>2, <1>2
    <3>2. (a \o b)[i] = b[i - x]
      BY <2>2, <3>1, <1>1, <1>2
    <3>3. h[i - x] = Written(h[(i - x) - 1], b[i - x])
      BY <3>1, <1>1 DEF Progress
    <3>4. k[i] = h[i - x]
      BY <2>2, <3>1, <1>2, <1>3
    <3>5. k[i - 1] = h[(i - x) - 1]
      <4>1. h[0] = g[x]
        BY <1>1 DEF Progress
      <4>2. CASE i - 1 = x
        BY <4>1, <4>2, <1>2, <1>3
      <4>3. CASE i - 1 # x
        BY <4>3, <2>2, <1>2, <1>3
      <4> QED
        BY <4>2, <4>3
    <3> QED
      BY <3>2, <3>3, <3>4, <3>5
  <2> QED
    BY <2>1, <2>2
<1>7. Progress(k, m, a \o b)
  BY <1>1, <1>4, <1>5, <1>6 DEF Progress
<1>8. k[z] = h[y]
  <2>1. h[0] = g[x]
    BY <1>1 DEF Progress
  <2>2. CASE y = 0
    BY <2>1, <2>2, <1>2, <1>3
  <2>3. CASE y # 0
    BY <2>3, <1>2, <1>3
  <2> QED
    BY <2>2, <2>3
<1>9. k = Joined(g, h, x, y)
  BY <1>2, <1>3 DEF Joined
<1> QED
  BY <1>1, <1>7, <1>8, <1>9

(* Steps one after the other do what each part does.                       *)
LEMMA AfterConcat ==
  ASSUME NEW m \in Memories, NEW a \in Seq(Tasks), NEW b \in Seq(Tasks)
  PROVE  After(m, a \o b) = After(After(m, a), b)
<1>1. PICK ab \in Seq(Tasks) : ab = a \o b
  <2>1. a \o b \in Seq(Tasks)
    OBVIOUS
  <2> QED
    BY <2>1
<1>2. PICK g : Progress(g, m, a) /\ After(m, a) = g[Len(a)]
  BY AfterIs
<1>3. After(m, a) \in Memories
  BY AfterIsMemory
<1>4. PICK h : Progress(h, After(m, a), b) /\ After(After(m, a), b) = h[Len(b)]
  BY <1>3, AfterIs
<1>5. PICK k : k = Joined(g, h, Len(a), Len(b))
  OBVIOUS
<1>6. Progress(k, m, ab) /\ k[Len(ab)] = h[Len(b)]
  BY <1>1, <1>2, <1>4, <1>5, ProgressConcat
<1>7. PICK f : Progress(f, m, ab) /\ After(m, ab) = f[Len(ab)]
  BY <1>1, AfterIs
<1>8. f[Len(ab)] = k[Len(ab)]
  <2>1. Progress(f, m, ab) /\ Progress(k, m, ab)
    BY <1>6, <1>7
  <2>2. \A i \in 0 .. Len(ab) : f[i] = k[i]
    BY <2>1, ProgressUnique
  <2>3. Len(ab) \in 0 .. Len(ab)
    BY <1>1
  <2> QED
    BY <2>2, <2>3
<1> QED
  BY <1>1, <1>4, <1>6, <1>7, <1>8

(* The first step comes first.                                             *)
LEMMA AfterFirst ==
  ASSUME NEW m \in Memories, NEW s \in Tasks, NEW b \in Seq(Tasks)
  PROVE  After(m, <<s>> \o b) = After(Written(m, s), b)
<1>1. <<s>> \in Seq(Tasks)
  OBVIOUS
<1>2. After(m, <<s>> \o b) = After(After(m, <<s>>), b)
  BY <1>1, AfterConcat
<1>3. After(m, <<s>>) = Written(m, s)
  BY AfterOne
<1> QED
  BY <1>2, <1>3

(* The same of the head of a list that is not empty.                       *)
LEMMA AfterHead ==
  ASSUME NEW m \in Memories, NEW steps \in Seq(Tasks), steps # <<>>
  PROVE  After(m, steps) = After(Written(m, Head(steps)), Tail(steps))
<1>1. Head(steps) \in Tasks /\ Tail(steps) \in Seq(Tasks) /\ steps = <<Head(steps)>> \o Tail(steps)
  OBVIOUS
<1> QED
  BY <1>1, AfterFirst

(* Two writes.                                                             *)
LEMMA AfterTwo ==
  ASSUME NEW m \in Memories, NEW a \in Writes, NEW b \in Writes
  PROVE  After(m, <<a, b>>) = Written(Written(m, a), b)
<1>1. a \in Tasks /\ b \in Tasks
  BY DEF Tasks
<1>2. <<b>> \in Seq(Tasks)
  BY <1>1
<1>3. Head(<<a, b>>) = a /\ Tail(<<a, b>>) = <<b>> /\ <<a, b>> # <<>> /\ <<a, b>> \in Seq(Tasks)
  BY <1>1
<1>4. Written(m, a) \in Memories
  BY WrittenIsMemory
<1>5. After(m, <<a, b>>) = After(Written(m, a), <<b>>)
  BY <1>3, AfterHead
<1>6. After(Written(m, a), <<b>>) = Written(Written(m, a), b)
  BY <1>1, <1>4, AfterOne
<1> QED
  BY <1>3, <1>5, <1>6

(* Three writes.                                                           *)
LEMMA AfterThree ==
  ASSUME NEW m \in Memories, NEW a \in Writes, NEW b \in Writes, NEW c \in Writes
  PROVE  After(m, <<a, b, c>>) = Written(Written(Written(m, a), b), c)
<1>1. a \in Tasks /\ b \in Tasks /\ c \in Tasks
  BY DEF Tasks
<1>2. <<b, c>> \in Seq(Tasks)
  BY <1>1
<1>3. /\ Head(<<a, b, c>>) = a /\ Tail(<<a, b, c>>) = <<b, c>>
      /\ <<a, b, c>> # <<>> /\ <<a, b, c>> \in Seq(Tasks)
  BY <1>1
<1>4. Written(m, a) \in Memories
  BY WrittenIsMemory
<1>5. After(m, <<a, b, c>>) = After(Written(m, a), <<b, c>>)
  BY <1>3, AfterHead
<1>6. After(Written(m, a), <<b, c>>) = Written(Written(Written(m, a), b), c)
  BY <1>4, AfterTwo
<1> QED
  BY <1>3, <1>5, <1>6

-----------------------------------------------------------------------------
(* Orders in which a finite set is gone through.                           *)

(* An order of a finite set goes through each member once.                 *)
LEMMA OrderIs ==
  ASSUME NEW S, IsFiniteSet(S), NEW order \in SetToSeqs(S)
  PROVE  /\ order \in Seq(S)
         /\ \A i, j \in 1 .. Len(order) : order[i] = order[j] => i = j
         /\ \A x \in S : \E i \in 1 .. Len(order) : order[i] = x
<1> DEFINE n == Cardinality(S)
<1>1. n \in Nat
  BY FS_CardinalityType
<1>2. order \in [1 .. n -> S] /\ \A i, j \in 1 .. n : i # j => order[i] # order[j]
  BY DEF SetToSeqs
<1> HIDE DEF n
<1>3. order \in Seq(S) /\ Len(order) = n
  BY <1>1, <1>2
<1>4. order \in Injection(1 .. n, S)
  BY <1>2 DEF Injection, IsInjective
<1>5. Cardinality(1 .. n) = n
  BY <1>1, FS_Interval
<1>6. order \in Surjection(1 .. n, S)
  BY <1>4, <1>5, FS_Injection DEF n
<1> QED
  BY <1>2, <1>3, <1>6 DEF Surjection

-----------------------------------------------------------------------------
(* The forms that what is left of a handler can have.                      *)

Ending(n) == IF n = 1 THEN <<Bare("end")>> ELSE <<>>

(* Only CONN with an id does a second operation after the first.           *)
Mores ==
  {<<>>} \cup {Guarded(<<Do("address", c, k)>>) : c \in Clients, k \in Addresses}

Leaving(more, n) == <<Bare("leave")>> \o (more \o Ending(n))

Unguarded(w) == ops = 0 /\ todo = w \o Ending(commands)

Checking(w, more) ==
  ops = 0 /\ todo = <<Bare("check")>> \o (<<Bare("enter")>> \o (w \o Leaving(more, commands)))

Entering(w, more) ==
  ops = 0 /\ todo = <<Bare("enter")>> \o (w \o Leaving(more, commands))

Within(w, more) ==
  ops = 1 /\ todo = w \o Leaving(more, commands)

Terminating ==
  ops = 0 /\ commands = 1 /\ todo = <<Bare("terminate")>> \o Ending(1)

(* Steps of the bookkeeping are steps of a handler.                        *)
LEMMA BareIsTask ==
  ASSUME NEW does \in Bookkeeping
  PROVE  Bare(does) \in Tasks /\ Bare(does).does = does
  BY DEF Tasks, Bare, Do, Steps, Bookkeeping, Does

(* At most one step ends a handler.                                        *)
LEMMA EndingIs ==
  ASSUME NEW n \in {0, 1}
  PROVE  /\ Ending(n) \in Seq(Tasks)
         /\ Ending(n) # <<>> => /\ n = 1
                                /\ Head(Ending(n)) = Bare("end")
                                /\ Tail(Ending(n)) = <<>>
<1>1. Bare("end") \in Tasks
  BY BareIsTask DEF Bookkeeping
<1> QED
  BY <1>1 DEF Ending

(* Writes are steps of a handler.                                          *)
LEMMA WritesAreTasks ==
  ASSUME NEW w \in Seq(Writes)
  PROVE  w \in Seq(Tasks)
  BY SeqMonotonic DEF Tasks

(* Concatenation under a name the provers do not look behind.              *)
Then(a, b) == a \o b

(* Steps may be put together in any grouping.                              *)
LEMMA ThenIsAssociative ==
  \A a, b, c \in Seq(Tasks) :
    Then(Then(a, b), c) = Then(a, Then(b, c)) /\ Then(a, b) \in Seq(Tasks)
<1> SUFFICES ASSUME NEW a \in Seq(Tasks), NEW b \in Seq(Tasks), NEW c \in Seq(Tasks)
             PROVE  (a \o b) \o c = a \o (b \o c) /\ a \o b \in Seq(Tasks)
  BY DEF Then
<1> QED
  BY ConcatAssociative, ConcatProperties, SMTT(40)

(* Guarded, with the parentheses of Checking.                              *)
LEMMA GuardedIs ==
  ASSUME NEW w \in Seq(Tasks), NEW r \in Seq(Tasks)
  PROVE  /\ Guarded(w) \in Seq(Tasks)
         /\ Guarded(w) \o r = <<Bare("check")>> \o (<<Bare("enter")>> \o (w \o (<<Bare("leave")>> \o r)))
<1>1. PICK C, E, L : C = <<Bare("check")>> /\ E = <<Bare("enter")>> /\ L = <<Bare("leave")>>
  OBVIOUS
<1>2. C \in Seq(Tasks) /\ E \in Seq(Tasks) /\ L \in Seq(Tasks)
  BY <1>1, BareIsTask DEF Bookkeeping
<1>3. Guarded(w) = Then(Then(Then(C, E), w), L)
  <2>1. <<Bare("check"), Bare("enter")>> = C \o E
    BY <1>1
  <2> QED
    BY <1>1, <2>1 DEF Guarded, Then
<1>4. Guarded(w) \in Seq(Tasks)
  BY <1>2, <1>3, ThenIsAssociative
<1>5. Then(Guarded(w), r) = Then(C, Then(E, Then(w, Then(L, r))))
  <2>0. PICK x \in Seq(Tasks) : x = Then(Then(C, E), w)
    BY <1>2, ThenIsAssociative
  <2>1. Then(Then(x, L), r) = Then(x, Then(L, r))
    BY <1>2, <2>0, ThenIsAssociative
  <2>2. Then(Then(Then(C, E), w), Then(L, r)) = Then(Then(C, E), Then(w, Then(L, r)))
    BY <1>2, ThenIsAssociative
  <2>3. Then(Then(C, E), Then(w, Then(L, r))) = Then(C, Then(E, Then(w, Then(L, r))))
    BY <1>2, ThenIsAssociative
  <2> QED
    BY <1>3, <2>0, <2>1, <2>2, <2>3
<1> QED
  BY <1>1, <1>4, <1>5 DEF Then

(* After the first guarded operation comes nothing or the guarded write of *)
(* the address.                                                            *)
LEMMA MoresAre ==
  ASSUME NEW more \in Mores
  PROVE  /\ more \in Seq(Tasks)
         /\ \/ more = <<>>
            \/ \E s \in Writes : s.does = "address" /\ more = Guarded(<<s>>)
<1>1. CASE more = <<>>
  BY <1>1
<1>2. CASE more # <<>>
  <2>1. PICK c \in Clients, k \in Addresses : more = Guarded(<<Do("address", c, k)>>)
    BY <1>2 DEF Mores
  <2>2. Do("address", c, k) \in Writes
    BY DEF Do, Writes, Steps, Does
  <2>3. <<Do("address", c, k)>> \in Seq(Tasks)
    BY <2>2 DEF Tasks
  <2>4. Guarded(<<Do("address", c, k)>>) \in Seq(Tasks)
    BY <2>3, GuardedIs
  <2> QED
    BY <2>1, <2>2, <2>4 DEF Do
<1> QED
  BY <1>1, <1>2

(* What follows the writes of a guarded operation.                         *)
LEMMA LeavingIs ==
  ASSUME NEW more \in Mores, NEW n \in {0, 1}
  PROVE  /\ more \o Ending(n) \in Seq(Tasks)
         /\ Leaving(more, n) \in Seq(Tasks) /\ Leaving(more, n) # <<>>
         /\ Head(Leaving(more, n)) = Bare("leave")
         /\ Tail(Leaving(more, n)) = more \o Ending(n)
<1>1. more \o Ending(n) \in Seq(Tasks)
  BY EndingIs, MoresAre, ConcatProperties
<1>2. Bare("leave") \in Tasks
  BY BareIsTask DEF Bookkeeping
<1> QED
  BY <1>1, <1>2 DEF Leaving
(* What comes first, and what is left then.                                *)
LEMMA FirstWrite ==
  ASSUME NEW w \in Seq(Writes), NEW r \in Seq(Tasks)
  PROVE  /\ w = <<>> => w \o r = r
         /\ w # <<>> => /\ w \o r # <<>>
                        /\ Head(w \o r) = Head(w) /\ Head(w) \in Writes
                        /\ Tail(w \o r) = Tail(w) \o r /\ Tail(w) \in Seq(Writes)
<1>1. w \in Seq(Tasks)
  BY WritesAreTasks
<1>2. CASE w = <<>>
  BY <1>2
<1>3. CASE w # <<>>
  <2>1. Head(w) \in Writes /\ Tail(w) \in Seq(Writes)
    BY <1>3
  <2>2. w \o r # <<>> /\ Head(w \o r) = Head(w)
    BY <1>1, <1>3
  <2>3. Tail(w \o r) = Tail(w) \o r
    BY <1>1, <1>3
  <2> QED
    BY <2>1, <2>2, <2>3
<1> QED
  BY <1>2, <1>3

(* A list that begins with a step of the bookkeeping.                      *)
LEMMA FirstBare ==
  ASSUME NEW does \in Bookkeeping, NEW r \in Seq(Tasks)
  PROVE  /\ <<Bare(does)>> \o r # <<>>
         /\ Head(<<Bare(does)>> \o r) = Bare(does)
         /\ Tail(<<Bare(does)>> \o r) = r
         /\ <<Bare(does)>> \o r \in Seq(Tasks)
<1>1. Bare(does) \in Tasks
  BY BareIsTask
<1> QED
  BY <1>1

(* What is left of a handler outside a guard.                              *)
LEMMA UnguardedIs ==
  ASSUME NEW w \in Seq(Writes), commands \in {0, 1}, Unguarded(w)
  PROVE  /\ todo \in Seq(Tasks)
         /\ w = <<>> => todo = Ending(commands)
         /\ w # <<>> => /\ todo # <<>>
                        /\ Head(todo) = Head(w) /\ Head(w) \in Writes
                        /\ Tail(todo) = Tail(w) \o Ending(commands) /\ Tail(w) \in Seq(Writes)
<1>1. todo = w \o Ending(commands) /\ Ending(commands) \in Seq(Tasks) /\ w \in Seq(Tasks)
  BY EndingIs, WritesAreTasks DEF Unguarded
<1>2. todo \in Seq(Tasks)
  BY <1>1, ConcatProperties
<1> QED
  BY <1>1, <1>2, FirstWrite

(* What is left inside an operation that is counted.                       *)
LEMMA WithinIs ==
  ASSUME NEW w \in Seq(Writes), NEW more \in Mores, commands \in {0, 1}, Within(w, more)
  PROVE  /\ todo \in Seq(Tasks)
         /\ todo # <<>>
         /\ w = <<>> => Head(todo) = Bare("leave") /\ Tail(todo) = more \o Ending(commands)
         /\ w # <<>> => /\ Head(todo) = Head(w) /\ Head(w) \in Writes
                        /\ Tail(todo) = Tail(w) \o Leaving(more, commands) /\ Tail(w) \in Seq(Writes)
<1>1. /\ todo = w \o Leaving(more, commands) /\ w \in Seq(Tasks)
      /\ Leaving(more, commands) \in Seq(Tasks) /\ Leaving(more, commands) # <<>>
      /\ Head(Leaving(more, commands)) = Bare("leave")
      /\ Tail(Leaving(more, commands)) = more \o Ending(commands)
  BY LeavingIs, WritesAreTasks DEF Within
<1>2. todo \in Seq(Tasks)
  BY <1>1, ConcatProperties
<1> HIDE DEF Leaving
<1> QED
  BY <1>1, <1>2, FirstWrite

(* What is left before the operation is counted.                           *)
LEMMA EnteringIs ==
  ASSUME NEW w \in Seq(Writes), NEW more \in Mores, commands \in {0, 1}, Entering(w, more)
  PROVE  /\ todo \in Seq(Tasks) /\ todo # <<>> /\ Head(todo) = Bare("enter")
         /\ Tail(todo) = w \o Leaving(more, commands)
<1>1. w \o Leaving(more, commands) \in Seq(Tasks)
  BY WritesAreTasks, LeavingIs, ConcatProperties
<1> QED
  BY <1>1, FirstBare DEF Entering, Bookkeeping

(* What is left before the guard is tested.                                *)
LEMMA CheckingIs ==
  ASSUME NEW w \in Seq(Writes), NEW more \in Mores, commands \in {0, 1}, Checking(w, more)
  PROVE  /\ todo \in Seq(Tasks) /\ todo # <<>> /\ Head(todo) = Bare("check")
         /\ Tail(todo) = <<Bare("enter")>> \o (w \o Leaving(more, commands))
<1>1. w \o Leaving(more, commands) \in Seq(Tasks)
  BY WritesAreTasks, LeavingIs, ConcatProperties
<1>2. <<Bare("enter")>> \o (w \o Leaving(more, commands)) \in Seq(Tasks)
  BY <1>1, FirstBare DEF Bookkeeping
<1> QED
  BY <1>2, FirstBare DEF Checking, Bookkeeping

(* What is left of the shutdown command.                                   *)
LEMMA TerminatingIs ==
  ASSUME Terminating
  PROVE  /\ todo \in Seq(Tasks) /\ todo # <<>> /\ Head(todo) = Bare("terminate")
         /\ Tail(todo) = Ending(1)
  BY EndingIs, FirstBare DEF Terminating, Bookkeeping

-----------------------------------------------------------------------------
(* The steps of a handler take it from one form to the next.               *)

(* Nothing may be left to write, and nothing may follow.                   *)
LEMMA EmptyWrites == <<>> \in Seq(Writes) /\ <<>> \in Mores
  BY DEF Mores

(* Outside a guard a handler writes, or ends its command.                  *)
LEMMA UnguardedSteps ==
  ASSUME NEW w \in Seq(Writes), commands \in {0, 1}, Unguarded(w), HandlerStep
  PROVE  \/ Write /\ w # <<>> /\ Head(todo) = Head(w) /\ Unguarded(Tail(w))'
         \/ End /\ w = <<>> /\ commands = 1 /\ commands' = 0 /\ Unguarded(<<>>)'
<1>1. ops = 0
  BY DEF Unguarded
<1>2. CASE w = <<>>
  <2>1. todo = Ending(commands) /\ todo # <<>>
    BY <1>2, UnguardedIs
       DEF HandlerStep, Write, Check, Enter, Leave, End, Terminate, HeadDoes
  <2>2. commands = 1 /\ Head(todo) = Bare("end") /\ Tail(todo) = <<>>
    BY <2>1, EndingIs
  <2>3. Head(todo).does = "end"
    BY <2>2, BareIsTask DEF Bookkeeping
  <2>4. End
    BY <2>3 DEF HandlerStep, Write, Check, Enter, Leave, End, Terminate, HeadDoes, Bookkeeping
  <2>5. commands' = 0 /\ todo' = <<>> /\ ops' = 0
    BY <1>1, <2>2, <2>4 DEF End
  <2>6. <<>> \o Ending(0) = <<>>
    BY DEF Ending
  <2> QED
    BY <1>2, <2>2, <2>4, <2>5, <2>6 DEF Unguarded
<1>3. CASE w # <<>>
  <2>1. Head(todo) = Head(w) /\ Head(w) \in Writes /\ Tail(todo) = Tail(w) \o Ending(commands)
    BY <1>3, UnguardedIs
  <2>2. Write
    BY <2>1, WritesAreNoBookkeeping
       DEF HandlerStep, Check, Enter, Leave, End, Terminate, HeadDoes, Bookkeeping
  <2>3. Unguarded(Tail(w))'
    BY <1>1, <2>1, <2>2 DEF Unguarded, Write, processVars
  <2> QED
    BY <1>3, <2>1, <2>2, <2>3
<1> QED
  BY <1>2, <1>3

(* Inside an operation it writes, or leaves it for what follows.           *)
LEMMA WithinSteps ==
  ASSUME NEW w \in Seq(Writes), NEW more \in Mores, commands \in {0, 1}, Within(w, more),
         HandlerStep
  PROVE  \/ Write /\ w # <<>> /\ Head(todo) = Head(w) /\ Within(Tail(w), more)'
         \/ Leave /\ w = <<>> /\ Unguarded(<<>>)'
         \/ /\ Leave /\ w = <<>>
            /\ \E s \in Writes : s.does = "address" /\ more = Guarded(<<s>>) /\ Checking(<<s>>, <<>>)'
<1>1. ops = 1
  BY DEF Within
<1>2. CASE w = <<>>
  <2>1. Head(todo) = Bare("leave") /\ Tail(todo) = more \o Ending(commands)
    BY <1>2, WithinIs
  <2>2. Head(todo).does = "leave"
    BY <2>1, BareIsTask DEF Bookkeeping
  <2>3. Leave
    BY <2>2 DEF HandlerStep, Write, Check, Enter, Leave, End, Terminate, HeadDoes, Bookkeeping
  <2>4. ops' = 0 /\ commands' = commands /\ todo' = more \o Ending(commands)
    BY <1>1, <2>1, <2>3 DEF Leave
  <2>5. CASE more = <<>>
    <3>1. Unguarded(<<>>)'
      BY <2>4, <2>5 DEF Unguarded
    <3> QED
      BY <1>2, <2>3, <3>1
  <2>6. CASE more # <<>>
    <3>1. PICK s \in Writes : s.does = "address" /\ more = Guarded(<<s>>)
      BY <2>6, MoresAre
    <3>2. <<s>> \in Seq(Tasks) /\ Ending(commands) \in Seq(Tasks)
      BY EndingIs DEF Tasks
    <3>3. todo' = <<Bare("check")>>
                    \o (<<Bare("enter")>> \o (<<s>> \o (<<Bare("leave")>> \o Ending(commands))))
      BY <2>4, <3>1, <3>2, GuardedIs
    <3>4. Leaving(<<>>, commands) = <<Bare("leave")>> \o Ending(commands)
      BY <3>2 DEF Leaving
    <3>5. Checking(<<s>>, <<>>)'
      BY <2>4, <3>3, <3>4 DEF Checking
    <3> QED
      BY <1>2, <2>3, <3>1, <3>5
  <2> QED
    BY <2>5, <2>6
<1>3. CASE w # <<>>
  <2>1. Head(todo) = Head(w) /\ Head(w) \in Writes /\ Tail(todo) = Tail(w) \o Leaving(more, commands)
    BY <1>3, WithinIs
  <2>2. Write
    BY <2>1, WritesAreNoBookkeeping
       DEF HandlerStep, Check, Enter, Leave, End, Terminate, HeadDoes, Bookkeeping
  <2>3. Within(Tail(w), more)'
    BY <1>1, <2>1, <2>2 DEF Within, Write, processVars
  <2> QED
    BY <1>3, <2>1, <2>2, <2>3
<1> QED
  BY <1>2, <1>3

(* A tested operation is counted.                                          *)
LEMMA EnteringSteps ==
  ASSUME NEW w \in Seq(Writes), NEW more \in Mores, commands \in {0, 1}, Entering(w, more),
         HandlerStep
  PROVE  Enter /\ Within(w, more)'
<1>1. Head(todo) = Bare("enter") /\ Tail(todo) = w \o Leaving(more, commands) /\ ops = 0
  BY EnteringIs DEF Entering
<1>2. Head(todo).does = "enter"
  BY <1>1, BareIsTask DEF Bookkeeping
<1>3. Enter
  BY <1>2 DEF HandlerStep, Write, Check, Enter, Leave, End, Terminate, HeadDoes, Bookkeeping
<1> QED
  <2>1. ops' = 1 /\ todo' = w \o Leaving(more, commands) /\ commands' = commands
    BY <1>1, <1>3 DEF Enter
  <2> QED
    BY <1>3, <2>1 DEF Within

(* A guard that finds a signal ends the handler.                           *)
LEMMA CheckingSteps ==
  ASSUME NEW w \in Seq(Writes), NEW more \in Mores, commands \in {0, 1}, Checking(w, more),
         HandlerStep
  PROVE  Check /\ IF kill_active THEN Unguarded(<<>>)' ELSE Entering(w, more)'
<1>1. /\ Head(todo) = Bare("check") /\ ops = 0
      /\ Tail(todo) = <<Bare("enter")>> \o (w \o Leaving(more, commands))
  BY CheckingIs DEF Checking
<1>2. Head(todo).does = "check"
  BY <1>1, BareIsTask DEF Bookkeeping
<1>3. Check
  BY <1>2 DEF HandlerStep, Write, Check, Enter, Leave, End, Terminate, HeadDoes, Bookkeeping
<1>4. Unwound = <<>> \o Ending(commands)
  BY <1>1 DEF Unwound, Ending
<1> QED
  BY <1>1, <1>3, <1>4 DEF Check, Entering, Unguarded, processVars

(* The shutdown command sends the signal.                                  *)
LEMMA TerminatingSteps ==
  ASSUME Terminating, HandlerStep
  PROVE  Terminate /\ commands' = 1 /\ Unguarded(<<>>)'
<1>1. Head(todo) = Bare("terminate") /\ Tail(todo) = Ending(1) /\ ops = 0 /\ commands = 1
  BY TerminatingIs DEF Terminating
<1>2. Head(todo).does = "terminate"
  BY <1>1, BareIsTask DEF Bookkeeping
<1>3. Terminate
  BY <1>2 DEF HandlerStep, Write, Check, Enter, Leave, End, Terminate, HeadDoes, Bookkeeping
<1>4. Ending(1) = <<>> \o Ending(1)
  BY DEF Ending
<1> QED
  BY <1>1, <1>3, <1>4 DEF Terminate, OnKillRequested, Unguarded
-----------------------------------------------------------------------------
(* The form a handler has when it begins.                                  *)

(* A deletion consists of writes.                                          *)
LEMMA DeletionIs ==
  ASSUME Memory \in Memories, NEW l \in LockIds, NEW lapsed \in BOOLEAN
  PROVE  Deletion(l) \in Seq(Writes) /\ DeletionIf(lapsed, l) \in Seq(Writes)
<1>1. locks_to_client[l] \in Clients \cup {NoClient}
  BY DEF Memory, Memories, Storages
<1>2. \A does \in {"disown", "unindex", "unlist"} : Do(does, locks_to_client[l], l) \in Writes
  BY <1>1 DEF Do, Writes, Steps, Does
<1> QED
  BY <1>2 DEF Deletion, DeletionIf

(* Entering a lock consists of writes.                                     *)
LEMMA AcquisitionIs ==
  ASSUME Memory \in Memories, NEW c \in Clients, NEW l \in LockIds
  PROVE  Acquisition(c, l) \in Seq(Writes)
<1>1. \A does \in {"own", "list", "index"} : Do(does, c, l) \in Writes
  BY DEF Do, Writes, Steps, Does
<1>2. DeletionIf(Lapsed(l), l) \in Seq(Writes)
  BY DeletionIs DEF Lapsed
<1>3. <<Do("own", c, l), Do("list", c, l), Do("index", c, l)>> \in Seq(Writes)
  BY <1>1
<1> QED
  BY <1>2, <1>3, ConcatProperties, EmptyWrites DEF Acquisition

(* A release consists of writes.                                           *)
LEMMA ReleaseWritesAre ==
  ASSUME Memory \in Memories, NEW c \in Clients, NEW l \in LockIds
  PROVE  ReleaseWrites(c, l) \in Seq(Writes)
<1>1. Do("key", c, l) \in Writes
  BY DEF Do, Writes, Steps, Does
<1>2. DeletionIf(l \in client_to_locks[c], l) \in Seq(Writes)
  BY DeletionIs, EmptyWrites DEF DeletionIf
<1>3. <<Do("key", c, l)>> \in Seq(Writes)
  BY <1>1
<1> QED
  BY <1>2, <1>3, ConcatProperties DEF ReleaseWrites

(* A mark for each lock of a list.                                         *)
LEMMA OnEachIs ==
  ASSUME NEW c \in Clients, NEW does \in {"grace", "keep"}, NEW order \in Seq(LockIds)
  PROVE  /\ OnEach(does, c, order) \in Seq(Writes)
         /\ Len(OnEach(does, c, order)) = Len(order)
         /\ \A i \in 1 .. Len(order) : OnEach(does, c, order)[i] = Do(does, c, order[i])
<1>1. \A i \in 1 .. Len(order) : Do(does, c, order[i]) \in Writes
  BY DEF Do, Writes, Steps, Does
<1> QED
  BY <1>1 DEF OnEach

(* An order of a client's list names the locks of the list.                *)
LEMMA ListOrderIs ==
  ASSUME Memory \in Memories, NEW c \in Clients, NEW order \in ListOrders(c)
  PROVE  /\ order \in Seq(LockIds)
         /\ \A l \in LockIds : l \in client_to_locks[c] <=> \E i \in 1 .. Len(order) : order[i] = l
<1>1. IsFiniteSet(client_to_locks[c]) /\ client_to_locks[c] \subseteq LockIds
  BY DEF Memory, Memories, Storages, Finite
<1>2. order \in SetToSeqs(client_to_locks[c])
  BY DEF ListOrders
<1>3. /\ order \in Seq(client_to_locks[c])
      /\ \A l \in client_to_locks[c] : \E i \in 1 .. Len(order) : order[i] = l
  BY <1>1, <1>2, OrderIs
<1> QED
  BY <1>1, <1>3, SeqMonotonic

(* Marking a list consists of writes.                                      *)
LEMMA MarkingIs ==
  ASSUME Memory \in Memories, NEW c \in Clients, NEW does \in {"grace", "keep"},
         NEW order \in ListOrders(c)
  PROVE  Marking(does, c, order) \in Seq(Writes)
<1>1. <<Do("key", c, NoAddress)>> \in Seq(Writes)
  BY DEF Do, Writes, Steps, Does
<1>2. OnEach(does, c, order) \in Seq(Writes)
  BY ListOrderIs, OnEachIs
<1> QED
  BY <1>1, <1>2, ConcatProperties DEF Marking

(* FlattenSeq of sequences over S is a sequence over S.                    *)
LEMMA FlattenSeqIn ==
  ASSUME NEW S, NEW seqs, NEW n \in Nat, Len(seqs) = n,
         \A i \in 1 .. n : seqs[i] \in Seq(S), n = 0 => seqs = <<>>
  PROVE  FlattenSeq(seqs) \in Seq(S)
<1>1. PICK flat : Flattening(flat, S, seqs, n) /\ FlattenSeq(seqs) = flat[n]
  BY FlattenSeqIs
<1> QED
  BY <1>1 DEF Flattening

(* The orders in which maintenance may go through the lists.               *)
SweepOrders(visit, orders) ==
  /\ visit \in SetToSeqs(tracked)
  /\ orders \in [tracked -> UNION {SetToSeqs(ExpiredOf(c)) : c \in tracked}]
  /\ \A c \in tracked : orders[c] \in SetToSeqs(ExpiredOf(c))

(* A sweep visits each tracked client once and each of its expired locks   *)
(* once.                                                                   *)
LEMMA SweepOrdersAre ==
  ASSUME Memory \in Memories, NEW visit, NEW orders, SweepOrders(visit, orders)
  PROVE  /\ visit \in Seq(Clients)
         /\ \A i, j \in 1 .. Len(visit) : visit[i] = visit[j] => i = j
         /\ \A i \in 1 .. Len(visit) : visit[i] \in tracked
         /\ \A c \in tracked : \E i \in 1 .. Len(visit) : visit[i] = c
         /\ \A c \in tracked :
              /\ c \in Clients /\ orders[c] \in Seq(LockIds)
              /\ \A i, j \in 1 .. Len(orders[c]) : orders[c][i] = orders[c][j] => i = j
              /\ \A l \in LockIds :
                   l \in ExpiredOf(c) <=> \E i \in 1 .. Len(orders[c]) : orders[c][i] = l
<1>1. IsFiniteSet(tracked) /\ tracked \subseteq Clients
  BY DEF Memory, Memories, Storages, Finite
<1>2. /\ visit \in Seq(tracked)
      /\ \A i, j \in 1 .. Len(visit) : visit[i] = visit[j] => i = j
      /\ \A c \in tracked : \E i \in 1 .. Len(visit) : visit[i] = c
  <2>1. visit \in SetToSeqs(tracked) /\ IsFiniteSet(tracked)
    BY <1>1 DEF SweepOrders
  <2> QED
    BY <2>1, OrderIs
<1>3. visit \in Seq(Clients)
  BY <1>1, <1>2, SeqMonotonic
<1>4. \A i \in 1 .. Len(visit) : visit[i] \in tracked
  BY <1>2
<1>5. ASSUME NEW c \in tracked
      PROVE  /\ c \in Clients /\ orders[c] \in Seq(LockIds)
             /\ \A i, j \in 1 .. Len(orders[c]) : orders[c][i] = orders[c][j] => i = j
             /\ \A l \in LockIds :
                  l \in ExpiredOf(c) <=> \E i \in 1 .. Len(orders[c]) : orders[c][i] = l
  <2>1. c \in Clients /\ client_to_locks[c] \subseteq LockIds /\ IsFiniteSet(client_to_locks[c])
    BY <1>1 DEF Memory, Memories, Storages, Finite
  <2>2. ExpiredOf(c) \in SUBSET client_to_locks[c] /\ ExpiredOf(c) \subseteq LockIds
    BY <2>1 DEF ExpiredOf
  <2>3. IsFiniteSet(ExpiredOf(c))
    BY <2>1, <2>2, FS_Subset
  <2>4. orders[c] \in SetToSeqs(ExpiredOf(c))
    BY DEF SweepOrders
  <2>5. /\ orders[c] \in Seq(ExpiredOf(c))
        /\ \A i, j \in 1 .. Len(orders[c]) : orders[c][i] = orders[c][j] => i = j
        /\ \A l \in ExpiredOf(c) : \E i \in 1 .. Len(orders[c]) : orders[c][i] = l
    BY <2>3, <2>4, OrderIs
  <2>6. orders[c] \in Seq(LockIds)
    BY <2>2, <2>5, SeqMonotonic
  <2>7. \A i \in 1 .. Len(orders[c]) : orders[c][i] \in ExpiredOf(c)
    BY <2>5
  <2>8. ASSUME NEW l \in LockIds
        PROVE  l \in ExpiredOf(c) <=> \E i \in 1 .. Len(orders[c]) : orders[c][i] = l
    BY <2>5, <2>7
  <2> QED
    BY <2>1, <2>5, <2>6, <2>8
<1> QED
  BY <1>2, <1>3, <1>4, <1>5

(* The sweep of a list consists of writes.                                 *)
LEMMA SweepOfIs ==
  ASSUME Memory \in Memories, NEW c \in Clients, NEW order \in Seq(LockIds)
  PROVE  SweepOf(c, order) \in Seq(Writes)
<1>1. PICK seqs : seqs = [i \in DOMAIN order |-> Deletion(order[i])]
  OBVIOUS
<1>2. PICK n : n = Len(order)
  OBVIOUS
<1>3. n \in Nat /\ Len(seqs) = n /\ (n = 0 => seqs = <<>>)
  BY <1>1, <1>2
<1>4. \A i \in 1 .. n : seqs[i] \in Seq(Writes)
  <2> TAKE i \in 1 .. n
  <2>1. order[i] \in LockIds /\ seqs[i] = Deletion(order[i])
    BY <1>1, <1>2
  <2>2. Deletion(order[i]) \in Seq(Writes)
    BY <2>1, DeletionIs
  <2> QED
    BY <2>1, <2>2
<1>5. FlattenSeq(seqs) \in Seq(Writes)
  BY <1>3, <1>4, FlattenSeqIn
<1>6. Do("unkey", c, NoAddress) \in Writes /\ Do("unaddress", c, NoAddress) \in Writes
  BY DEF Do, Writes, Steps, Does
<1> DEFINE rest == IF ExpiredOf(c) = client_to_locks[c]
                   THEN <<Do("unkey", c, NoAddress), Do("unaddress", c, NoAddress)>>
                   ELSE <<>>
<1>7. rest \in Seq(Writes)
  BY <1>6
<1>8. SweepOf(c, order) = FlattenSeq(seqs) \o rest
  BY <1>1 DEF SweepOf
<1> HIDE DEF rest
<1> QED
  BY <1>5, <1>7, <1>8, ConcatProperties

(* The whole sweep consists of writes.                                     *)
LEMMA SweepIs ==
  ASSUME Memory \in Memories, NEW visit, NEW orders, SweepOrders(visit, orders)
  PROVE  Sweep(visit, orders) \in Seq(Writes)
<1>1. PICK seqs : seqs = [i \in DOMAIN visit |-> SweepOf(visit[i], orders[visit[i]])]
  OBVIOUS
<1>2. PICK n : n = Len(visit)
  OBVIOUS
<1>3. visit \in Seq(Clients)
  BY SweepOrdersAre
<1>4. n \in Nat /\ Len(seqs) = n /\ (n = 0 => seqs = <<>>)
  BY <1>1, <1>2, <1>3
<1>5. \A i \in 1 .. n : visit[i] \in tracked /\ visit[i] \in Clients /\ orders[visit[i]] \in Seq(LockIds)
  BY <1>2, SweepOrdersAre
<1>6. \A i \in 1 .. n : seqs[i] \in Seq(Writes)
  <2> TAKE i \in 1 .. n
  <2>1. seqs[i] = SweepOf(visit[i], orders[visit[i]])
    BY <1>1, <1>2, <1>3
  <2> QED
    BY <2>1, <1>5, SweepOfIs
<1> QED
  BY <1>1, <1>4, <1>6, FlattenSeqIn DEF Sweep
(* A guarded handler begins by the check.                                  *)
LEMMA GuardedBegins ==
  ASSUME NEW w \in Seq(Writes), NEW more \in Mores, NEW n \in {0, 1}, ops = 0,
         Begin(n, Guarded(w) \o (more \o Ending(n)))
  PROVE  Checking(w, more)' /\ commands' = n
<1>1. more \o Ending(n) \in Seq(Tasks) /\ w \in Seq(Tasks)
  BY LeavingIs, WritesAreTasks
<1>2. Guarded(w) \o (more \o Ending(n))
        = <<Bare("check")>> \o (<<Bare("enter")>> \o (w \o (<<Bare("leave")>> \o (more \o Ending(n)))))
  BY <1>1, GuardedIs
<1>3. ops' = 0 /\ commands' = n /\ todo' = Guarded(w) \o (more \o Ending(n))
  BY DEF Begin
<1> QED
  BY <1>2, <1>3 DEF Checking, Leaving

(* A command with one guarded operation begins with the test of the guard. *)
LEMMA CommandGuarded ==
  ASSUME NEW w \in Seq(Writes), ops = 0, Command(Guarded(w))
  PROVE  Checking(w, <<>>)' /\ commands' = 1
<1>1. <<Bare("end")>> = <<>> \o Ending(1)
  BY DEF Ending
<1> QED
  BY <1>1, GuardedBegins, EmptyWrites DEF Command

(* Every handler that begins has one of the forms, with the writes of its  *)
(* storage method.                                                         *)
LEMMA AqBegins ==
  ASSUME Memory \in Memories, ops = 0, NEW c \in Clients, NEW l \in LockIds, Aq(c, l)
  PROVE  \E w \in Seq(Writes) : w = Acquisition(c, l) /\ Checking(w, <<>>)' /\ commands' = 1
<1>1. PICK w \in Seq(Writes) : w = Acquisition(c, l)
  BY AcquisitionIs
<1> QED
  BY <1>1, CommandGuarded DEF Aq

(* The release command begins.                                             *)
LEMMA ReleaseBegins ==
  ASSUME Memory \in Memories, ops = 0, NEW c \in Clients, NEW l \in LockIds,
         ReleaseCommand(c, l)
  PROVE  \E w \in Seq(Writes) : w = ReleaseWrites(c, l) /\ Checking(w, <<>>)' /\ commands' = 1
<1>1. PICK w \in Seq(Writes) : w = ReleaseWrites(c, l)
  BY ReleaseWritesAre
<1> QED
  BY <1>1, CommandGuarded DEF ReleaseCommand

(* The locked command begins, without a guard.                             *)
LEMMA LockedBegins ==
  ASSUME Memory \in Memories, ops = 0, NEW l \in LockIds, LockedCommand(l)
  PROVE  \E w \in Seq(Writes) :
           w = DeletionIf(Lapsed(l), l) /\ Unguarded(w)' /\ commands' = 1
<1>1. PICK w \in Seq(Writes) : w = DeletionIf(Lapsed(l), l)
  BY DeletionIs DEF Lapsed
<1>2. Begin(1, w \o Ending(1))
  BY <1>1 DEF LockedCommand, Command, Ending
<1> QED
  BY <1>1, <1>2 DEF Begin, Unguarded

(* A reconnection begins with the marks; the address follows.              *)
LEMMA ConnAsBegins ==
  ASSUME Memory \in Memories, ops = 0, NEW c \in Clients, NEW k \in Addresses, ConnAs(c, k)
  PROVE  \E order \in ListOrders(c), w \in Seq(Writes), more \in Mores :
           /\ w = Marking("keep", c, order) /\ more = Guarded(<<Do("address", c, k)>>)
           /\ Checking(w, more)' /\ commands' = 1
<1>1. PICK order \in ListOrders(c) :
        Command(Guarded(Marking("keep", c, order)) \o Guarded(<<Do("address", c, k)>>))
  BY DEF ConnAs
<1>2. PICK w \in Seq(Writes) : w = Marking("keep", c, order)
  BY MarkingIs
<1>3. PICK more \in Mores : more = Guarded(<<Do("address", c, k)>>)
  BY DEF Mores
<1>4. more \in Seq(Tasks) /\ w \in Seq(Tasks) /\ Ending(1) \in Seq(Tasks)
  BY <1>3, MoresAre, WritesAreTasks, EndingIs
<1>5. Guarded(w) \in Seq(Tasks)
  BY <1>4, GuardedIs
<1>6. (Guarded(w) \o more) \o Ending(1) = Guarded(w) \o (more \o Ending(1))
  BY <1>4, <1>5, ThenIsAssociative DEF Then
<1>7. Begin(1, Guarded(w) \o (more \o Ending(1)))
  BY <1>1, <1>2, <1>3, <1>6 DEF Command, Ending
<1>8. Checking(w, more)' /\ commands' = 1
  BY <1>7, GuardedBegins
<1> QED
  BY <1>1, <1>2, <1>3, <1>8

(* A new connection begins with its address.                               *)
LEMMA ConnNewBegins ==
  ASSUME Memory \in Memories, ops = 0, NEW c \in Clients, NEW k \in Addresses, ConnNew(c, k)
  PROVE  \E w \in Seq(Writes) :
           w = <<Do("address", c, k)>> /\ Checking(w, <<>>)' /\ commands' = 1
<1>1. Do("address", c, k) \in Writes
  BY DEF Do, Writes, Steps, Does
<1>2. <<Do("address", c, k)>> \in Seq(Writes)
  BY <1>1
<1>3. Checking(<<Do("address", c, k)>>, <<>>)' /\ commands' = 1
  BY <1>2, CommandGuarded DEF ConnNew
<1> QED
  BY <1>2, <1>3

SignalWrites(does, l, s) == IF l \in all_locks THEN <<Do(does, NoClient, <<l, s>>)>> ELSE <<>>

(* The signal commands begin.                                              *)
LEMMA SignalBegins ==
  ASSUME Memory \in Memories, ops = 0, NEW l \in LockIds, NEW s \in Signals,
         NEW does \in {"signal", "unsignal"}, SignalCommand(does, l, s)
  PROVE  \E w \in Seq(Writes) :
           w = SignalWrites(does, l, s) /\ Checking(w, <<>>)' /\ commands' = 1
<1>1. Do(does, NoClient, <<l, s>>) \in Writes
  BY DEF Do, Writes, Steps, Does
<1>2. PICK w \in Seq(Writes) : w = SignalWrites(does, l, s)
  <2>1. SignalWrites(does, l, s) \in Seq(Writes)
    BY <1>1 DEF SignalWrites
  <2> QED
    BY <2>1
<1> QED
  BY <1>2, CommandGuarded DEF SignalCommand, SignalWrites

(* The shutdown command begins.                                            *)
LEMMA ShutdownBegins ==
  ASSUME ops = 0, Shutdown
  PROVE  Terminating'
  BY DEF Shutdown, Command, Begin, Terminating, Ending

(* The loss of a connection begins with the marks of release_all.          *)
LEMMA LostBegins ==
  ASSUME Memory \in Memories, ops = 0, NEW c \in Clients, ConnectionLost(c)
  PROVE  \E order \in ListOrders(c), w \in Seq(Writes) :
           w = Marking("grace", c, order) /\ Checking(w, <<>>)' /\ commands' = 0
<1>1. PICK order \in ListOrders(c) : Begin(0, Guarded(Marking("grace", c, order)))
  BY DEF ConnectionLost
<1>2. PICK w \in Seq(Writes) : w = Marking("grace", c, order)
  BY MarkingIs
<1>3. Guarded(w) \in Seq(Tasks)
  BY WritesAreTasks, GuardedIs
<1>4. Guarded(w) = Guarded(w) \o (<<>> \o Ending(0))
  BY <1>3 DEF Ending
<1>5. Checking(w, <<>>)' /\ commands' = 0
  BY <1>1, <1>2, <1>4, GuardedBegins, EmptyWrites
<1> QED
  BY <1>1, <1>2, <1>5

(* Maintenance begins its sweep, without a guard.                          *)
LEMMA MaintenanceBegins ==
  ASSUME Memory \in Memories, ops = 0, MaintenanceRun
  PROVE  \E visit, orders, w :
           /\ w \in Seq(Writes) /\ SweepOrders(visit, orders) /\ w = Sweep(visit, orders)
           /\ Unguarded(w)' /\ commands' = 0
<1>1. PICK visit, orders : SweepOrders(visit, orders) /\ Begin(0, Sweep(visit, orders))
  BY DEF MaintenanceRun, SweepOrders
<1>2. PICK w \in Seq(Writes) : w = Sweep(visit, orders)
  BY <1>1, SweepIs
<1>3. w = w \o Ending(0)
  BY <1>2 DEF Ending
<1>4. Unguarded(w)' /\ commands' = 0
  BY <1>1, <1>2, <1>3 DEF Begin, Unguarded
<1> QED
  BY <1>1, <1>2, <1>4
-----------------------------------------------------------------------------
(* The inductive invariant of the shutdown.                                *)

TypeInv ==
  /\ Memory \in Memories
  /\ dump # NoDump => dump \in Memories
  /\ ops \in {0, 1} /\ commands \in {0, 1}
  /\ kill_active \in BOOLEAN /\ data_dumped \in BOOLEAN
  /\ status \in {"running", "exiting", "down", "killed"}
  /\ boots \in 0 .. MaxBoots

(* What LOCKED, the one command that writes without a guard, has left to   *)
(* write: up to the write that takes the lock out of all_locks the lock    *)
(* has lapsed, in the dump too when there is one.                          *)
RestOfDeletion(w) ==
  \E l \in LockIds, c \in Clients \cup {NoClient} :
    \/ w = <<Do("unlist", c, l)>>
    \/ /\ \/ w = <<Do("unindex", c, l), Do("unlist", c, l)>>
          \/ w = <<Do("disown", c, l), Do("unindex", c, l), Do("unlist", c, l)>>
       /\ Lapsed(l) /\ (kill_active => Saved!Lapsed(l))

Unfinished(w) == Unguarded(w) /\ (commands = 1 /\ w # <<>> => RestOfDeletion(w))

Form ==
  \/ \E w \in Seq(Writes) : Unfinished(w)
  \/ \E w \in Seq(Writes), more \in Mores :
       Checking(w, more) \/ Entering(w, more) \/ Within(w, more)
  \/ Terminating

(* The dump and the memory tell the same of every lock that has not lapsed *)
(* in the dump.                                                            *)
FileTells ==
  /\ dump # NoDump
  /\ dump.mark_free_after = mark_free_after
  /\ dump.signals = signals
  /\ \A l \in LockIds :
       \/ Saved!Lapsed(l)
       \/ dump.locks_to_client[l] = locks_to_client[l] /\ (l \in dump.all_locks <=> l \in all_locks)

Going ==
  /\ Form
  /\ kill_active /\ status = "running" => commands = 1
  /\ status \in {"exiting", "down"} =>
       kill_active /\ commands = 0 /\ (todo = <<>> \/ todo = <<Bare("leave")>>)
  /\ status = "down" => todo = <<>>
  /\ kill_active /\ ops = 0 => FileTells

ShutdownInv ==
  /\ TypeInv
  /\ status = "killed" => todo = <<>>
  /\ status # "killed" => Going

(* What is left are steps of a handler; nothing is left of none.           *)
LEMMA FormIs ==
  ASSUME TypeInv, Form
  PROVE  todo \in Seq(Tasks) /\ (todo = <<>> => ops = 0 /\ commands = 0 /\ Unguarded(<<>>))
<1>1. commands \in {0, 1}
  BY DEF TypeInv
<1>2. CASE \E w \in Seq(Writes) : Unfinished(w)
  <2>1. PICK w \in Seq(Writes) : Unguarded(w)
    BY <1>2 DEF Unfinished
  <2>2. todo \in Seq(Tasks)
    BY <1>1, <2>1, UnguardedIs
  <2>3. ASSUME todo = <<>>
        PROVE  ops = 0 /\ commands = 0 /\ w = <<>>
    <3>1. w = <<>> /\ Ending(commands) = <<>>
      BY <1>1, <2>1, <2>3, UnguardedIs
    <3> QED
      BY <1>1, <2>1, <3>1 DEF Unguarded, Ending
  <2> QED
    BY <2>1, <2>2, <2>3
<1>3. CASE \E w \in Seq(Writes), more \in Mores :
             Checking(w, more) \/ Entering(w, more) \/ Within(w, more)
  BY <1>1, <1>3, CheckingIs, EnteringIs, WithinIs
<1>4. CASE Terminating
  BY <1>4, TerminatingIs
<1> QED
  BY <1>2, <1>3, <1>4 DEF Form

(* What is left are steps of a handler.                                    *)
LEMMA TodoIsTasks == ASSUME ShutdownInv PROVE todo \in Seq(Tasks)
<1>1. CASE status = "killed"
  BY <1>1 DEF ShutdownInv
<1>2. CASE status # "killed"
  BY <1>2, FormIs DEF ShutdownInv, Going
<1> QED
  BY <1>1, <1>2

(* At rest.                                                                *)
LEMMA EmptyForm == ASSUME ops = 0, commands = 0, todo = <<>> PROVE Form
<1>1. Unfinished(<<>>)
  BY DEF Unfinished, Unguarded, Ending
<1> QED
  BY <1>1, EmptyWrites DEF Form

(* A process that has just begun has nothing left to do.                   *)
LEMMA EmptyFormNext == ASSUME ops' = 0, commands' = 0, todo' = <<>> PROVE Form'
<1>1. Unfinished(<<>>)'
  BY DEF Unfinished, Unguarded, Ending
<1> QED
  BY <1>1, EmptyWrites DEF Form

(* The memory becomes what is loaded.                                      *)
LEMMA BecomesMemory == ASSUME NEW r \in Memories, Becomes(r) PROVE Memory' = r
<1>1. r \in Storages
  BY DEF Memories
<1> QED
  BY <1>1 DEF Becomes, Memory, Storages

(* A first process that starts without a dump.                             *)
LEMMA InitInv == ASSUME ShutdownInit PROVE ShutdownInv
<1>1. Memory \in Storages
  BY DEF ShutdownInit, StorageInit, Memory, Storages, NotMarked
<1>2. Finite(Memory)
  BY FS_EmptySet DEF ShutdownInit, StorageInit, Memory, Finite
<1>3. Memory \in Memories
  BY <1>1, <1>2 DEF Memories
<1>4. 0 \in 0 .. MaxBoots
  BY ShutdownAssumption
<1>5. TypeInv
  BY <1>3, <1>4 DEF TypeInv, ShutdownInit
<1>6. Form
  BY EmptyForm DEF ShutdownInit
<1> QED
  BY <1>5, <1>6 DEF ShutdownInv, Going, ShutdownInit

-----------------------------------------------------------------------------
(* Handlers begin.                                                         *)

(* The beginning of a handler writes nothing.                              *)
LEMMA BeginIsQuiet ==
  ASSUME HandlerBegins
  PROVE  /\ status = "running" /\ todo = <<>> /\ ~kill_active
         /\ UNCHANGED <<storageVars, ops, kill_active, data_dumped, status, dump, boots>>
         /\ commands' \in {0, 1}
  BY DEF HandlerBegins, Aq, ReleaseCommand, LockedCommand, ConnAs, ConnNew, SignalCommand,
         Shutdown, ConnectionLost, MaintenanceRun, Command, Begin

(* It leaves the steps of its handler to do.                               *)
LEMMA BeginForm == ASSUME ShutdownInv, HandlerBegins PROVE Form'
<1>1. Memory \in Memories /\ ops = 0 /\ UNCHANGED storageVars /\ kill_active' = FALSE
  BY BeginIsQuiet, FormIs DEF ShutdownInv, Going, TypeInv
<1>2. ASSUME \E w \in Seq(Writes), more \in Mores : Checking(w, more)'
      PROVE  Form'
  BY <1>2 DEF Form
<1>3. CASE \E c \in Clients, l \in LockIds : Aq(c, l) \/ ReleaseCommand(c, l)
  BY <1>1, <1>2, <1>3, AqBegins, ReleaseBegins, EmptyWrites
<1>4. CASE \E l \in LockIds : LockedCommand(l)
  <2>1. PICK l \in LockIds : LockedCommand(l)
    BY <1>4
  <2>2. PICK w \in Seq(Writes) : w = DeletionIf(Lapsed(l), l) /\ Unguarded(w)'
    BY <1>1, <2>1, LockedBegins
  <2>3. ASSUME w # <<>>
        PROVE  RestOfDeletion(w)'
    <3>1. Lapsed(l) /\ w = Deletion(l)
      BY <2>2, <2>3 DEF DeletionIf
    <3>2. PICK c \in Clients \cup {NoClient} : c = locks_to_client[l]
      BY <1>1 DEF Memory, Memories, Storages
    <3>3. w = <<Do("disown", c, l), Do("unindex", c, l), Do("unlist", c, l)>>
      BY <3>1, <3>2 DEF Deletion
    <3>4. Lapsed(l)'
      BY <1>1, <3>1 DEF Lapsed, Expired, storageVars
    <3> QED
      BY <1>1, <3>3, <3>4 DEF RestOfDeletion
  <2>4. Unfinished(w)'
    BY <2>2, <2>3 DEF Unfinished
  <2> QED
    BY <2>4 DEF Form
<1>5. CASE \E c \in Clients, k \in Addresses : ConnAs(c, k) \/ ConnNew(c, k)
  BY <1>1, <1>2, <1>5, ConnAsBegins, ConnNewBegins, EmptyWrites
<1>6. CASE \E l \in LockIds, s \in Signals, does \in {"signal", "unsignal"} :
             SignalCommand(does, l, s)
  BY <1>1, <1>2, <1>6, SignalBegins, EmptyWrites
<1>7. CASE Shutdown
  BY <1>1, <1>7, ShutdownBegins DEF Form
<1>8. CASE \E c \in Clients : ConnectionLost(c)
  BY <1>1, <1>2, <1>8, LostBegins, EmptyWrites
<1>9. CASE MaintenanceRun
  <2>1. PICK w : w \in Seq(Writes) /\ Unguarded(w)' /\ commands' = 0
    BY <1>1, <1>9, MaintenanceBegins
  <2>2. Unfinished(w)'
    BY <2>1 DEF Unfinished
  <2> QED
    BY <2>1, <2>2 DEF Form
<1> QED
  BY <1>3, <1>4, <1>5, <1>6, <1>7, <1>8, <1>9 DEF HandlerBegins

(* The beginning of a handler keeps the invariant.                         *)
LEMMA BeginInv == ASSUME ShutdownInv, HandlerBegins PROVE ShutdownInv'
<1>1. TypeInv'
  BY BeginIsQuiet DEF ShutdownInv, TypeInv, Memory, storageVars
<1>2. Form'
  BY BeginForm
<1> QED
  BY <1>1, <1>2, BeginIsQuiet DEF ShutdownInv, Going
-----------------------------------------------------------------------------
(* A handler goes on.                                                      *)

(* A memory is not the missing file.                                       *)
LEMMA MemoryIsNoDump ==
  ASSUME NEW m \in Memories
  PROVE  m # NoDump /\ m \in Storages
  BY ShutdownAssumption DEF Memories

(* A write step does the write at its head.                                *)
LEMMA WriteIsWritten ==
  ASSUME TypeInv, todo \in Seq(Tasks), Write
  PROVE  Head(todo) \in Writes /\ Memory' = Written(Memory, Head(todo)) /\ Memory' \in Memories
<1>1. Head(todo) \in Tasks /\ Head(todo).does \notin Bookkeeping
  BY DEF Write
<1>2. Head(todo) \in Writes
  BY <1>1 DEF Tasks
<1>3. Written(Memory, Head(todo)) \in Memories
  BY <1>2, WrittenIsMemory DEF TypeInv
<1>4. Memory' = Written(Memory, Head(todo))
  BY <1>3, BecomesMemory DEF Write
<1> QED
  BY <1>2, <1>3, <1>4

(* A deletion that LOCKED makes goes on.                                   *)
LEMMA RestGoesOn ==
  ASSUME TypeInv, NEW w \in Seq(Writes), RestOfDeletion(w), Write, todo \in Seq(Tasks),
         Head(todo) = Head(w), Tail(w) # <<>>
  PROVE  RestOfDeletion(Tail(w))'
<1>1. PICK l \in LockIds, c \in Clients \cup {NoClient} :
        \/ w = <<Do("unlist", c, l)>>
        \/ /\ \/ w = <<Do("unindex", c, l), Do("unlist", c, l)>>
              \/ w = <<Do("disown", c, l), Do("unindex", c, l), Do("unlist", c, l)>>
           /\ Lapsed(l) /\ (kill_active => Saved!Lapsed(l))
  BY DEF RestOfDeletion
<1>4. w # <<Do("unlist", c, l)>>
  <2>1. Tail(<<Do("unlist", c, l)>>) = <<>>
    OBVIOUS
  <2> QED
    BY <2>1
<1>2. CASE w = <<Do("unindex", c, l), Do("unlist", c, l)>>
  <2>1. Tail(w) = <<Do("unlist", c, l)>>
    BY <1>2
  <2> QED
    BY <2>1 DEF RestOfDeletion
<1>3. CASE w = <<Do("disown", c, l), Do("unindex", c, l), Do("unlist", c, l)>>
  <2>1. Tail(w) = <<Do("unindex", c, l), Do("unlist", c, l)>> /\ Head(todo).does = "disown"
    BY <1>3 DEF Do
  <2>2. Memory' = Written(Memory, Head(todo))
    BY WriteIsWritten
  <2>3. mark_free_after' = mark_free_after /\ all_locks' = all_locks
    BY <2>1, <2>2 DEF Written, Memory
  <2>4. Lapsed(l)' /\ (kill_active' => Saved!Lapsed(l)')
    BY <1>1, <1>4, <2>3 DEF Write, processVars, Lapsed, Expired, Saved!Lapsed, Saved!Expired
  <2> QED
    BY <2>1, <2>4 DEF RestOfDeletion
<1> QED
  BY <1>1, <1>2, <1>3, <1>4

(* A step of a handler leaves the rest of the handler.                     *)
LEMMA StepForm ==
  ASSUME TypeInv, Form, HandlerStep
  PROVE  Form' /\ ops' \in {0, 1} /\ commands' \in {0, 1}
<1>0. commands \in {0, 1} /\ todo \in Seq(Tasks)
  BY FormIs DEF TypeInv
<1>1. CASE \E w \in Seq(Writes) : Unfinished(w)
  <2>1. PICK w \in Seq(Writes) : Unfinished(w)
    BY <1>1
  <2>2. CASE Write /\ w # <<>> /\ Head(todo) = Head(w) /\ Unguarded(Tail(w))'
    <3>1. commands' = commands /\ ops' = 0 /\ Tail(w) \in Seq(Writes)
      BY <2>2 DEF Write, processVars, Unguarded
    <3>2. commands' = 1 /\ Tail(w) # <<>> => RestOfDeletion(Tail(w))'
      BY <1>0, <2>1, <2>2, <3>1, RestGoesOn DEF Unfinished
    <3>3. Unfinished(Tail(w))'
      BY <2>2, <3>2 DEF Unfinished
    <3> QED
      BY <1>0, <3>1, <3>3 DEF Form
  <2>3. CASE End /\ commands' = 0 /\ Unguarded(<<>>)'
    <3>1. ops' = 0 /\ Unfinished(<<>>)'
      BY <2>3 DEF Unguarded, Unfinished
    <3> QED
      BY <2>3, <3>1, EmptyWrites DEF Form
  <2> QED
    BY <1>0, <2>1, <2>2, <2>3, UnguardedSteps DEF Unfinished
<1>2. ASSUME Unguarded(<<>>)', commands' \in {0, 1}
      PROVE  Form' /\ ops' \in {0, 1} /\ commands' \in {0, 1}
  <2>1. Unfinished(<<>>)' /\ ops' = 0
    BY <1>2 DEF Unfinished, Unguarded
  <2> QED
    BY <1>2, <2>1, EmptyWrites DEF Form
<1>3. CASE \E w \in Seq(Writes), more \in Mores : Within(w, more)
  <2>1. PICK w \in Seq(Writes), more \in Mores : Within(w, more)
    BY <1>3
  <2>2. CASE Write /\ w # <<>> /\ Within(Tail(w), more)'
    <3>1. commands' = commands /\ ops' = 1 /\ Tail(w) \in Seq(Writes)
      BY <2>2 DEF Write, processVars, Within
    <3> QED
      BY <1>0, <2>2, <3>1 DEF Form
  <2>3. CASE Leave /\ Unguarded(<<>>)'
    BY <1>0, <1>2, <2>3 DEF Leave
  <2>4. CASE Leave /\ \E s \in Writes : Checking(<<s>>, <<>>)'
    <3>1. PICK s \in Writes : Checking(<<s>>, <<>>)'
      BY <2>4
    <3>2. <<s>> \in Seq(Writes) /\ commands' = commands /\ ops' = 0
      BY <2>4, <3>1 DEF Leave, Checking
    <3> QED
      BY <1>0, <3>1, <3>2, EmptyWrites DEF Form
  <2> QED
    BY <1>0, <2>1, <2>2, <2>3, <2>4, WithinSteps
<1>4. CASE \E w \in Seq(Writes), more \in Mores : Entering(w, more)
  <2>1. PICK w \in Seq(Writes), more \in Mores : Entering(w, more)
    BY <1>4
  <2>2. Enter /\ Within(w, more)'
    BY <1>0, <2>1, EnteringSteps
  <2>3. commands' = commands /\ ops' = 1
    BY <2>2 DEF Enter, Within
  <2> QED
    BY <1>0, <2>2, <2>3 DEF Form
<1>5. CASE \E w \in Seq(Writes), more \in Mores : Checking(w, more)
  <2>1. PICK w \in Seq(Writes), more \in Mores : Checking(w, more)
    BY <1>5
  <2>2. Check /\ IF kill_active THEN Unguarded(<<>>)' ELSE Entering(w, more)'
    BY <1>0, <2>1, CheckingSteps
  <2>3. commands' = commands /\ ops' = ops /\ ops = 0
    BY <2>1, <2>2 DEF Check, Checking, processVars
  <2> QED
    BY <1>0, <1>2, <2>2, <2>3 DEF Form
<1>6. CASE Terminating
  BY <1>2, <1>6, TerminatingSteps
<1> QED
  BY <1>1, <1>3, <1>4, <1>5, <1>6 DEF Form

(* It keeps the types.                                                     *)
LEMMA StepTypes ==
  ASSUME TypeInv, Form, HandlerStep
  PROVE  TypeInv'
<1>0. todo \in Seq(Tasks) /\ ops' \in {0, 1} /\ commands' \in {0, 1}
  BY FormIs, StepForm
<1>1. CASE Write
  BY <1>0, <1>1, WriteIsWritten DEF TypeInv, Write, processVars
<1>2. CASE Check
  BY <1>0, <1>2 DEF Check, TypeInv, Memory, storageVars, processVars
<1>3. CASE Enter
  BY <1>0, <1>3 DEF Enter, TypeInv, Memory, storageVars
<1>4. CASE Leave
  BY <1>0, <1>4 DEF Leave, TypeInv, Memory, storageVars
<1>5. CASE End
  BY <1>0, <1>5 DEF End, Die, TypeInv, Memory, storageVars
<1>6. CASE Terminate
  BY <1>0, <1>6 DEF Terminate, OnKillRequested, Die, TypeInv, Memory, storageVars
<1> QED
  BY <1>1, <1>2, <1>3, <1>4, <1>5, <1>6 DEF HandlerStep

(* What a running process that was told to stop has to be like.            *)
LEMMA FreshFile ==
  ASSUME Memory' \in Memories, dump' = Memory'
  PROVE  FileTells'
<1>1. dump' # NoDump
  BY MemoryIsNoDump
<1>2. /\ dump'.mark_free_after = mark_free_after' /\ dump'.signals = signals'
      /\ dump'.locks_to_client = locks_to_client' /\ dump'.all_locks = all_locks'
  BY DEF Memory
<1> QED
  BY <1>1, <1>2 DEF FileTells

(* The file still tells when neither it nor the memory changes.            *)
LEMMA SameFile ==
  ASSUME FileTells, UNCHANGED <<storageVars, dump>>
  PROVE  FileTells'
  BY DEF FileTells, storageVars, Saved!Lapsed, Saved!Expired

(* LOCKED writes on while the process is told to stop.                     *)
LEMMA WriteTells ==
  ASSUME TypeInv, Going, status # "killed", Write, kill_active, ops = 0
  PROVE  FileTells'
<1>0. commands \in {0, 1} /\ todo \in Seq(Tasks) /\ Form /\ todo # <<>>
  BY FormIs DEF TypeInv, Going, Write
<1>1. commands = 1
  <2>1. todo # <<Bare("leave")>>
    BY BareIsTask DEF Write, Bookkeeping
  <2> QED
    BY <1>0, <2>1 DEF Going, TypeInv
<1>2. PICK w \in Seq(Writes) : Unfinished(w)
  <2>1. ASSUME NEW w \in Seq(Writes), NEW more \in Mores,
               Checking(w, more) \/ Entering(w, more) \/ Within(w, more)
        PROVE  FALSE
    <3>1. \A does \in {"check", "enter"} : Head(todo) # Bare(does)
      BY BareIsTask DEF Write, Bookkeeping
    <3>2. ~Within(w, more)
      BY DEF Within
    <3> QED
      BY <1>0, <2>1, <3>1, <3>2, CheckingIs, EnteringIs
  <2>2. ~Terminating
    <3>1. Head(todo) # Bare("terminate")
      BY BareIsTask DEF Write, Bookkeeping
    <3> QED
      BY <3>1, TerminatingIs
  <2> QED
    BY <1>0, <2>1, <2>2 DEF Form
<1>3. w # <<>> /\ Head(todo) = Head(w)
  <2>1. Ending(1) # <<>> => Head(Ending(1)) # Head(todo)
    BY BareIsTask, EndingIs DEF Write, Bookkeeping
  <2> QED
    BY <1>0, <1>1, <1>2, <2>1, UnguardedIs DEF Unfinished
<1>4. PICK l \in LockIds, c \in Clients \cup {NoClient} :
        \/ w = <<Do("unlist", c, l)>>
        \/ /\ \/ w = <<Do("unindex", c, l), Do("unlist", c, l)>>
              \/ w = <<Do("disown", c, l), Do("unindex", c, l), Do("unlist", c, l)>>
           /\ Saved!Lapsed(l)
  BY <1>1, <1>2, <1>3 DEF Unfinished, RestOfDeletion
<1>5. \/ Head(todo).does = "unlist"
      \/ Head(todo).does \in {"unindex", "disown"} /\ Head(todo).on = l /\ Saved!Lapsed(l)
  BY <1>3, <1>4 DEF Do
<1>6. Memory' = Written(Memory, Head(todo)) /\ Memory \in Storages
  BY <1>0, WriteIsWritten DEF TypeInv, Memories
<1>7. /\ mark_free_after' = mark_free_after /\ signals' = signals
      /\ \A k \in LockIds :
           \/ Saved!Lapsed(k)
           \/ locks_to_client'[k] = locks_to_client[k] /\ (k \in all_locks' <=> k \in all_locks)
  <2>1. PICK m, r, t : m = Memory /\ r = Memory' /\ t = Head(todo)
    OBVIOUS
  <2>2. m \in Storages /\ r = Written(m, t)
    BY <1>6, <2>1
  <2>3. /\ r.mark_free_after = m.mark_free_after /\ r.signals = m.signals
        /\ \A k \in LockIds :
             \/ Saved!Lapsed(k)
             \/ r.locks_to_client[k] = m.locks_to_client[k] /\ (k \in r.all_locks <=> k \in m.all_locks)
    <3>1. CASE t.does = "unlist"
      <4>1. r = [m EXCEPT !.client_to_locks[t.client] = @ \ {t.on}]
        BY <2>2, <3>1, WrittenIs
      <4> QED
        BY <2>2, <4>1 DEF Storages
    <3>2. CASE t.does = "unindex" /\ t.on = l /\ Saved!Lapsed(l)
      <4>1. r = [m EXCEPT !.all_locks = @ \ {l}]
        BY <2>2, <3>2, WrittenIs
      <4> QED
        BY <2>2, <3>2, <4>1 DEF Storages
    <3>3. CASE t.does = "disown" /\ t.on = l /\ Saved!Lapsed(l)
      <4>1. r = [m EXCEPT !.locks_to_client[l] = NoClient]
        BY <2>2, <3>3, WrittenIs
      <4> QED
        BY <2>2, <3>3, <4>1 DEF Storages
    <3> QED
      BY <1>5, <2>1, <3>1, <3>2, <3>3
  <2> QED
    BY <2>1, <2>3 DEF Memory
<1>8. FileTells /\ dump' = dump
  BY DEF Going, Write
<1> QED
  BY <1>7, <1>8 DEF FileTells, Saved!Lapsed, Saved!Expired

(* After the signal, the end of an operation leaves a file that tells.     *)
LEMMA StepTells ==
  ASSUME TypeInv, Going, status # "killed", HandlerStep, kill_active', ops' = 0
  PROVE  FileTells'
<1>0. TypeInv' /\ Form
  BY StepTypes DEF Going
<1>1. CASE Write
  <2>1. kill_active /\ ops = 0
    BY <1>1 DEF Write, processVars
  <2> QED
    BY <1>1, <2>1, WriteTells
<1>2. CASE Check
  <2>1. kill_active /\ ops = 0
    BY <1>2 DEF Check, processVars
  <2> QED
    BY <1>2, <2>1, SameFile DEF Check, Going
<1>3. CASE Enter
  BY <1>3 DEF Enter, TypeInv
<1>4. CASE Leave
  <2>1. dump' = Memory'
    BY <1>4 DEF Leave, Memory, storageVars
  <2> QED
    BY <1>0, <2>1, FreshFile DEF TypeInv
<1>5. CASE End
  <2>1. kill_active /\ ops = 0 /\ UNCHANGED storageVars
    BY <1>5 DEF End
  <2>2. dump' = dump \/ dump' = Memory'
    BY <1>5 DEF End, Die, Memory, storageVars
  <2> QED
    BY <1>0, <2>1, <2>2, FreshFile, SameFile DEF TypeInv, Going
<1>6. CASE Terminate
  <2>1. dump' = Memory'
    BY <1>6 DEF Terminate, OnKillRequested, Memory, storageVars
  <2> QED
    BY <1>0, <2>1, FreshFile DEF TypeInv
<1> QED
  BY <1>1, <1>2, <1>3, <1>4, <1>5, <1>6 DEF HandlerStep

(* exit is called when the last command ends, and what is left then is at  *)
(* most the end of the operation that was interrupted.                     *)
LEMMA StepStops ==
  ASSUME TypeInv, Going, status # "killed", HandlerStep
  PROVE  /\ status' \in {"running", "exiting"}
         /\ kill_active' /\ status' = "running" => commands' = 1
         /\ status' = "exiting" =>
              kill_active' /\ commands' = 0 /\ (todo' = <<>> \/ todo' = <<Bare("leave")>>)
<1>0. commands \in {0, 1} /\ todo \in Seq(Tasks) /\ Form /\ todo # <<>>
  BY FormIs DEF TypeInv, Going, HandlerStep, Write, Check, Enter, Leave, End, Terminate, HeadDoes
<1>1. status \in {"running", "exiting"}
  BY <1>0 DEF TypeInv, Going
<1>2. CASE status = "exiting"
  <2>1. todo = <<Bare("leave")>> /\ kill_active /\ commands = 0
    BY <1>0, <1>2 DEF Going
  <2>2. Head(todo).does = "leave" /\ Tail(todo) = <<>>
    BY <2>1, BareIsTask DEF Bookkeeping
  <2>3. Leave
    BY <2>2 DEF HandlerStep, Write, Check, Enter, Leave, End, Terminate, HeadDoes, Bookkeeping
  <2> QED
    BY <1>2, <2>1, <2>2, <2>3 DEF Leave
<1>3. CASE status = "running" /\ (Write \/ Check \/ Enter \/ Leave)
  BY <1>3 DEF Going, Write, Check, Enter, Leave, processVars
<1>4. CASE status = "running" /\ End
  <2>1. Head(todo).does = "end"
    BY <1>4 DEF End, HeadDoes
  <2>2. commands = 1 /\ todo' = <<>>
    <3>1. ASSUME NEW does \in Bookkeeping \ {"end"}
          PROVE  Head(todo) # Bare(does)
      BY <2>1, BareIsTask
    <3>2. ASSUME NEW w \in Seq(Writes), NEW more \in Mores,
                 Checking(w, more) \/ Entering(w, more) \/ Within(w, more)
          PROVE  FALSE
      <4>1. Head(todo) \notin Writes
        BY <2>1, WritesAreNoBookkeeping DEF Bookkeeping
      <4> QED
        BY <1>0, <3>1, <3>2, <4>1, CheckingIs, EnteringIs, WithinIs DEF Bookkeeping
    <3>3. ~Terminating
      BY <3>1, TerminatingIs DEF Bookkeeping
    <3>4. PICK w \in Seq(Writes) : Unguarded(w)
      BY <1>0, <3>2, <3>3 DEF Form, Unfinished
    <3>5. w = <<>>
      BY <1>0, <2>1, <3>4, UnguardedIs, WritesAreNoBookkeeping DEF Bookkeeping
    <3>6. todo = Ending(commands)
      BY <1>0, <3>4, <3>5, UnguardedIs
    <3> QED
      BY <1>0, <1>4, <3>6, EndingIs DEF End
  <2> QED
    BY <1>4, <2>2 DEF End, Going
<1>5. CASE status = "running" /\ Terminate
  <2>1. Head(todo).does = "terminate"
    BY <1>5 DEF Terminate, HeadDoes
  <2>2. commands = 1
    <3>1. ASSUME NEW does \in Bookkeeping \ {"terminate"}
          PROVE  Head(todo) # Bare(does)
      BY <2>1, BareIsTask
    <3>2. ASSUME NEW w \in Seq(Writes), NEW more \in Mores,
                 Checking(w, more) \/ Entering(w, more) \/ Within(w, more)
          PROVE  FALSE
      <4>1. Head(todo) \notin Writes
        BY <2>1, WritesAreNoBookkeeping DEF Bookkeeping
      <4> QED
        BY <1>0, <3>1, <3>2, <4>1, CheckingIs, EnteringIs, WithinIs DEF Bookkeeping
    <3>3. ASSUME NEW w \in Seq(Writes), Unguarded(w)
          PROVE  FALSE
      <4>1. w = <<>>
        BY <1>0, <2>1, <3>3, UnguardedIs, WritesAreNoBookkeeping DEF Bookkeeping
      <4>2. todo = Ending(commands)
        BY <1>0, <3>3, <4>1, UnguardedIs
      <4> QED
        BY <1>0, <4>2, <3>1, EndingIs DEF Bookkeeping
    <3> QED
      BY <1>0, <3>2, <3>3 DEF Form, Unfinished, Terminating
  <2> QED
    BY <1>5, <2>2 DEF Terminate, OnKillRequested
<1> QED
  BY <1>1, <1>2, <1>3, <1>4, <1>5 DEF HandlerStep

(* A step of a handler keeps the invariant.                                *)
LEMMA StepInv == ASSUME ShutdownInv, HandlerStep PROVE ShutdownInv'
<1>1. status # "killed" /\ TypeInv /\ Going
  BY DEF ShutdownInv, HandlerStep, Write, Check, Enter, Leave, End, Terminate, HeadDoes
<1>2. TypeInv' /\ Form'
  BY <1>1, StepTypes, StepForm DEF Going
<1> QED
  BY <1>1, <1>2, StepTells, StepStops DEF ShutdownInv, Going
-----------------------------------------------------------------------------
(* The process ends and begins.                                            *)

(* A signal takes no step of the handler away.                             *)
LEMMA SignalForm ==
  ASSUME TypeInv, Going, KillSignal
  PROVE  Form' /\ TypeInv'
<1>0. Form /\ commands \in {0, 1} /\ ops \in {0, 1} /\ todo \in Seq(Tasks)
  BY FormIs DEF TypeInv, Going
<1>1. TypeInv'
  BY DEF KillSignal, OnKillRequested, Die, TypeInv, Memory, storageVars
<1>2. CASE commands = 0
  <2>1. todo' = Unwound /\ commands' = 0 /\ ops' = ops
    BY <1>2 DEF KillSignal, OnKillRequested
  <2>2. CASE ops = 0
    BY <1>1, <1>2, <2>1, <2>2, EmptyFormNext DEF Unwound
  <2>3. CASE ops = 1
    <3>1. Bare("leave") \in Tasks
      BY BareIsTask DEF Bookkeeping
    <3>2. Within(<<>>, <<>>)'
      BY <1>2, <2>1, <2>3, <3>1 DEF Within, Leaving, Ending, Unwound
    <3> QED
      BY <1>1, <3>2, EmptyWrites DEF Form
  <2> QED
    BY <1>0, <2>2, <2>3
<1>3. CASE commands = 1
  <2>1. todo' = todo /\ commands' = commands /\ ops' = ops
    BY <1>3 DEF KillSignal, OnKillRequested
  <2>2. ASSUME NEW w \in Seq(Writes), Unfinished(w)
        PROVE  Unfinished(w)'
    <3>1. Unguarded(w)' /\ ops = 0
      BY <2>1, <2>2 DEF Unfinished, Unguarded
    <3>2. dump' = Memory /\ UNCHANGED storageVars
      BY <3>1 DEF KillSignal, OnKillRequested
    <3>3. \A l \in LockIds : Lapsed(l) => Lapsed(l)' /\ Saved!Lapsed(l)'
      BY <3>2 DEF Memory, storageVars, Lapsed, Expired, Saved!Lapsed, Saved!Expired
    <3>4. RestOfDeletion(w) => RestOfDeletion(w)'
      BY <3>3 DEF RestOfDeletion
    <3> QED
      BY <2>1, <2>2, <3>1, <3>4 DEF Unfinished
  <2>3. ASSUME NEW w \in Seq(Writes), NEW more \in Mores
        PROVE  /\ Checking(w, more) => Checking(w, more)'
               /\ Entering(w, more) => Entering(w, more)'
               /\ Within(w, more) => Within(w, more)'
    BY <2>1 DEF Checking, Entering, Within
  <2>4. Terminating => Terminating'
    BY <2>1 DEF Terminating
  <2> QED
    BY <1>0, <1>1, <2>2, <2>3, <2>4 DEF Form
<1> QED
  BY <1>0, <1>1, <1>2, <1>3

(* A signal keeps the invariant.                                           *)
LEMMA SignalInv == ASSUME ShutdownInv, KillSignal PROVE ShutdownInv'
<1>1. TypeInv /\ Going /\ status = "running" /\ commands \in {0, 1} /\ ops \in {0, 1}
  BY DEF ShutdownInv, KillSignal, TypeInv
<1>2. TypeInv' /\ Form'
  BY <1>1, SignalForm
<1>3. kill_active' /\ commands' = commands /\ ops' = ops
  BY DEF KillSignal, OnKillRequested
<1>4. ASSUME ops' = 0
      PROVE  FileTells'
  <2>1. dump' = Memory'
    BY <1>3, <1>4 DEF KillSignal, OnKillRequested, Memory, storageVars
  <2> QED
    BY <1>2, <2>1, FreshFile DEF TypeInv
<1>5. /\ status' = "running" => commands' = 1
      /\ status' \in {"running", "exiting"}
      /\ status' = "exiting" => commands' = 0 /\ (todo' = <<>> \/ todo' = <<Bare("leave")>>)
  <2>1. CASE commands = 1
    BY <1>1, <2>1 DEF KillSignal, OnKillRequested
  <2>2. CASE commands = 0
    <3>1. Unwound = <<>> \/ Unwound = <<Bare("leave")>>
      BY <1>1, <2>2 DEF Unwound
    <3> QED
      BY <2>2, <3>1 DEF KillSignal, OnKillRequested
  <2> QED
    BY <1>1, <2>1, <2>2
<1> QED
  BY <1>2, <1>3, <1>4, <1>5 DEF ShutdownInv, Going

(* So does the end of the loop,                                            *)
LEMMA ExitInv == ASSUME ShutdownInv, Exit PROVE ShutdownInv'
<1>1. TypeInv /\ Going /\ UNCHANGED <<storageVars, dump>>
  BY DEF ShutdownInv, Exit
<1>2. TypeInv'
  BY <1>1 DEF Exit, TypeInv, Memory, storageVars
<1>3. ops = 0 /\ commands = 0
  BY <1>1, FormIs DEF Exit, Going
<1>4. Form'
  BY <1>3, EmptyFormNext DEF Exit
<1>5. kill_active' /\ ops' = 0 => FileTells'
  BY <1>1, SameFile DEF Exit, Going
<1> QED
  BY <1>1, <1>2, <1>4, <1>5 DEF ShutdownInv, Going, Exit

(* a crash,                                                                *)
LEMMA CrashInv == ASSUME ShutdownInv, Crash PROVE ShutdownInv'
  BY DEF ShutdownInv, Crash, TypeInv, Memory, storageVars

(* What load_dump makes of a file is a memory.                             *)
LEMMA LoadedIsMemory ==
  ASSUME dump \in Memories
  PROVE  Loaded \in Memories /\ Swept \in Memories
<1>1. dump \in Storages /\ Finite(dump)
  BY DEF Memories
<1>2. Swept \in Storages
  BY <1>1 DEF Swept, Storages, Saved!Unlisted
<1>3. Loaded \in Storages
  <2>1. ReleaseAllTimeout + 1 \in Nat
    BY TimeoutAssumption
  <2> HIDE DEF Swept
  <2> QED
    BY <1>2, <2>1 DEF Loaded, Storages
<1>4. Swept.tracked \subseteq dump.tracked
  BY <1>1 DEF Swept, Storages
<1>5. \A c \in Clients : Swept.client_to_locks[c] \subseteq dump.client_to_locks[c]
  BY <1>1 DEF Swept, Storages, Saved!Unlisted
<1>6. Finite(Swept)
  <2> HIDE DEF Swept
  <2> QED
    BY <1>1, <1>4, <1>5, FS_Subset DEF Finite
<1>7. Loaded.tracked = Swept.tracked /\ Loaded.client_to_locks = Swept.client_to_locks
  <2> HIDE DEF Swept
  <2> QED
    BY <1>2 DEF Loaded, Storages
<1>8. Finite(Loaded)
  <2> HIDE DEF Swept, Loaded
  <2> QED
    BY <1>6, <1>7 DEF Finite
<1> QED
  BY <1>2, <1>3, <1>6, <1>8 DEF Memories

(* The empty storage is a memory.                                          *)
LEMMA CleanedIsMemory == Cleaned \in Memories
<1>1. Cleaned \in Storages
  BY DEF Cleaned, Storages, NotMarked
<1>2. Finite(Cleaned)
  BY FS_EmptySet DEF Cleaned, Finite
<1> QED
  BY <1>1, <1>2 DEF Memories

(* A restart keeps the invariant, with or without a file.                  *)
LEMMA BootInv == ASSUME ShutdownInv, Boot PROVE ShutdownInv'
<1>1. TypeInv /\ todo = <<>>
  BY DEF ShutdownInv, Going, Boot
<1>2. Memory' \in Memories
  BY <1>1, LoadedIsMemory, CleanedIsMemory, BecomesMemory DEF Boot, TypeInv
<1>3. boots' \in 0 .. MaxBoots
  BY <1>1, ShutdownAssumption DEF Boot, TypeInv
<1>4. TypeInv'
  BY <1>1, <1>2, <1>3 DEF Boot, TypeInv
<1>5. Form'
  BY <1>1, EmptyFormNext DEF Boot
<1> QED
  BY <1>4, <1>5 DEF ShutdownInv, Going, Boot

(* Time passes alike for the memory and the file.                          *)
LEMMA LaterIs ==
  ASSUME NEW marks \in [LockIds -> Nat \cup {NotMarked}]
  PROVE  /\ Later(marks) \in [LockIds -> Nat \cup {NotMarked}]
         /\ \A l \in LockIds : marks[l] = 0 => Later(marks)[l] = 0
  BY DEF Later, NotMarked

(* So does time that passes,                                               *)
LEMMA TickInv == ASSUME ShutdownInv, Tick PROVE ShutdownInv'
<1>1. TypeInv /\ mark_free_after \in [LockIds -> Nat \cup {NotMarked}]
  BY DEF ShutdownInv, TypeInv, Memory, Memories, Storages
<1>2. mark_free_after' = Later(mark_free_after)
  BY DEF Tick, Elapse, Later
<1>3. mark_free_after' \in [LockIds -> Nat \cup {NotMarked}]
  BY <1>1, <1>2, LaterIs
<1>4. Memory' \in Storages
  BY <1>1, <1>3 DEF TypeInv, Memory, Memories, Storages, Tick, Elapse
<1>5. Memory' \in Memories
  BY <1>1, <1>4 DEF TypeInv, Memory, Memories, Finite, Tick, Elapse
<1>6. ASSUME dump # NoDump
      PROVE  /\ dump' = [dump EXCEPT !.mark_free_after = Later(@)]
             /\ dump.mark_free_after \in [LockIds -> Nat \cup {NotMarked}]
             /\ dump' \in Memories
  <2>1. dump \in Storages /\ Finite(dump)
    BY <1>1, <1>6 DEF TypeInv, Memories
  <2>2. dump' = [dump EXCEPT !.mark_free_after = Later(@)]
    BY <1>6 DEF Tick
  <2>3. dump.mark_free_after \in [LockIds -> Nat \cup {NotMarked}]
    BY <2>1 DEF Storages
  <2>4. Later(dump.mark_free_after) \in [LockIds -> Nat \cup {NotMarked}]
    BY <2>3, LaterIs
  <2>5. dump' \in Storages
    BY <2>1, <2>2, <2>4 DEF Storages
  <2>6. dump'.tracked = dump.tracked /\ dump'.client_to_locks = dump.client_to_locks
    BY <2>1, <2>2 DEF Storages
  <2>7. Finite(dump')
    BY <2>1, <2>6 DEF Finite
  <2> QED
    BY <2>2, <2>3, <2>5, <2>7 DEF Memories
<1>7. TypeInv'
  BY <1>1, <1>5, <1>6 DEF TypeInv, Tick, processVars
<1>8. ASSUME status # "killed"
      PROVE  Going'
  <2>1. Going /\ UNCHANGED processVars /\ todo = <<>> /\ todo' = <<>>
    BY <1>8 DEF ShutdownInv, Tick
  <2>2. ops = 0 /\ commands = 0
    BY <1>1, <2>1, FormIs DEF Going
  <2>3. Form'
    BY <2>1, <2>2, EmptyFormNext DEF processVars
  <2>4. ASSUME FileTells
        PROVE  FileTells'
    <3>1. dump # NoDump /\ dump \in Storages /\ dump' \in Memories
      BY <1>1, <1>6, <2>4 DEF FileTells, TypeInv, Memories
    <3>2. /\ dump'.mark_free_after = Later(dump.mark_free_after)
          /\ dump'.signals = dump.signals
          /\ dump'.locks_to_client = dump.locks_to_client
          /\ dump'.all_locks = dump.all_locks
      BY <1>6, <3>1 DEF Storages
    <3>3. UNCHANGED <<signals, locks_to_client, all_locks>>
      BY DEF Tick, Elapse
    <3>4. \A l \in LockIds : Saved!Lapsed(l) => Saved!Lapsed(l)'
      BY <1>6, <3>1, <3>2, LaterIs DEF Saved!Lapsed, Saved!Expired
    <3> QED
      BY <1>2, <2>4, <3>1, <3>2, <3>3, <3>4, MemoryIsNoDump DEF FileTells
  <2> QED
    BY <2>1, <2>3, <2>4 DEF Going, processVars
<1> QED
  BY <1>7, <1>8 DEF ShutdownInv, Tick, processVars

(* and a step of nothing.                                                  *)
LEMMA StutterInv == ASSUME ShutdownInv, UNCHANGED shutdownVars PROVE ShutdownInv'
<1>1. UNCHANGED <<storageVars, todo, ops, commands, kill_active, data_dumped, status, dump, boots>>
  BY DEF shutdownVars, processVars
<1>2. TypeInv'
  BY <1>1 DEF ShutdownInv, TypeInv, Memory, storageVars
<1>3. ASSUME Form
      PROVE  Form'
  <2>1. \A l \in LockIds : (Lapsed(l) => Lapsed(l)') /\ (Saved!Lapsed(l) => Saved!Lapsed(l)')
    BY <1>1 DEF storageVars, Lapsed, Expired, Saved!Lapsed, Saved!Expired
  <2>2. ASSUME NEW w \in Seq(Writes), Unfinished(w)
        PROVE  Unfinished(w)'
    <3>1. RestOfDeletion(w) => RestOfDeletion(w)'
      BY <1>1, <2>1 DEF RestOfDeletion
    <3> QED
      BY <1>1, <2>2, <3>1 DEF Unfinished, Unguarded
  <2>3. ASSUME NEW w \in Seq(Writes), NEW more \in Mores
        PROVE  /\ Checking(w, more) => Checking(w, more)'
               /\ Entering(w, more) => Entering(w, more)'
               /\ Within(w, more) => Within(w, more)'
    BY <1>1 DEF Checking, Entering, Within
  <2>4. Terminating => Terminating'
    BY <1>1 DEF Terminating
  <2> QED
    BY <1>3, <2>2, <2>3, <2>4 DEF Form
<1>4. FileTells => FileTells'
  BY <1>1, SameFile
<1> QED
  BY <1>1, <1>2, <1>3, <1>4 DEF ShutdownInv, Going

(* The invariant is inductive.                                             *)
LEMMA NextInv == ASSUME ShutdownInv, [ShutdownNext]_shutdownVars PROVE ShutdownInv'
  BY BeginInv, StepInv, SignalInv, ExitInv, CrashInv, BootInv, TickInv, StutterInv
     DEF ShutdownNext

(* Writers, counters, dump and process status go together in every state   *)
(* (the inductive invariant of this module).                               *)
LEMMA ShutdownInvariant == ShutdownSpec => []ShutdownInv
  BY InitInv, NextInv, PTL DEF ShutdownSpec

-----------------------------------------------------------------------------
(* What the writes of a method come to.                                    *)

(* g is m without the locks of S, and without the clients of T.            *)
Lacks(g, m, S, T) ==
  /\ g \in Memories
  /\ \A c \in Clients, l \in LockIds :
       l \in g.client_to_locks[c] <=> l \in m.client_to_locks[c] /\ ~(l \in S /\ m.locks_to_client[l] = c)
  /\ \A c \in Clients : c \in g.tracked <=> c \in m.tracked /\ c \notin T
  /\ \A l \in LockIds : g.locks_to_client[l] = IF l \in S THEN NoClient ELSE m.locks_to_client[l]
  /\ \A l \in LockIds : l \in g.all_locks <=> l \in m.all_locks /\ l \notin S
  /\ g.mark_free_after = m.mark_free_after
  /\ g.signals = m.signals
  /\ \A c \in Clients :
       g.client_last_address[c] = IF c \in T THEN NoAddress ELSE m.client_last_address[c]

(* A memory lacks nothing of itself.                                       *)
LEMMA NothingLacks == ASSUME NEW m \in Memories PROVE Lacks(m, m, {}, {})
  BY DEF Lacks

(* The writes of a deletion in the memory m.                               *)
DeletionOf(m, l) ==
  LET c == m.locks_to_client[l]
  IN  <<Do("disown", c, l), Do("unindex", c, l), Do("unlist", c, l)>>

(* The deletion of the code is the one of the present memory.              *)
LEMMA DeletionOfMemory == \A l \in LockIds : Deletion(l) = DeletionOf(Memory, l)
  BY DEF Deletion, DeletionOf, Memory

(* A deletion in any storage consists of writes.                           *)
LEMMA DeletionOfIs ==
  ASSUME NEW m \in Storages, NEW l \in LockIds
  PROVE  /\ DeletionOf(m, l) \in Seq(Writes)
         /\ \A does \in {"disown", "unindex", "unlist"} : Do(does, m.locks_to_client[l], l) \in Writes
<1>1. m.locks_to_client[l] \in Clients \cup {NoClient}
  BY DEF Storages
<1>2. \A does \in {"disown", "unindex", "unlist"} : Do(does, m.locks_to_client[l], l) \in Writes
  BY <1>1 DEF Do, Writes, Steps, Does
<1> QED
  BY <1>2 DEF DeletionOf

(* The writes one by one.                                                  *)
LEMMA DeletingWrites ==
  ASSUME NEW m, NEW c, NEW l
  PROVE  /\ Written(m, Do("disown", c, l)) = [m EXCEPT !.locks_to_client[l] = NoClient]
         /\ Written(m, Do("unindex", c, l)) = [m EXCEPT !.all_locks = @ \ {l}]
         /\ Written(m, Do("unlist", c, l)) = [m EXCEPT !.client_to_locks[c] = @ \ {l}]
  BY DEF Written, Do

(* What the three writes of a deletion come to.                            *)
LEMMA DeletedIs ==
  ASSUME NEW g \in Memories, NEW l \in LockIds, NEW c \in Clients \cup {NoClient}
  PROVE  LET w == <<Do("disown", c, l), Do("unindex", c, l), Do("unlist", c, l)>>
             r == After(g, w)
         IN  /\ r \in Memories
             /\ r.client_to_locks = [g.client_to_locks EXCEPT ![c] = @ \ {l}]
             /\ r.tracked = g.tracked
             /\ r.locks_to_client = [g.locks_to_client EXCEPT ![l] = NoClient]
             /\ r.all_locks = g.all_locks \ {l}
             /\ r.mark_free_after = g.mark_free_after
             /\ r.signals = g.signals
             /\ r.client_last_address = g.client_last_address
<1>1. PICK g1, g2, r : /\ g1 = Written(g, Do("disown", c, l))
                       /\ g2 = Written(g1, Do("unindex", c, l))
                       /\ r = Written(g2, Do("unlist", c, l))
  OBVIOUS
<1>2. \A does \in {"disown", "unindex", "unlist"} : Do(does, c, l) \in Writes
  BY DEF Do, Writes, Steps, Does
<1>3. r = After(g, <<Do("disown", c, l), Do("unindex", c, l), Do("unlist", c, l)>>)
  BY <1>1, <1>2, AfterThree
<1>4. r \in Memories
  BY <1>1, <1>2, WrittenIsMemory
<1>5. /\ g1 = [g EXCEPT !.locks_to_client[l] = NoClient]
      /\ g2 = [g1 EXCEPT !.all_locks = @ \ {l}]
      /\ r = [g2 EXCEPT !.client_to_locks[c] = @ \ {l}]
  BY <1>1, DeletingWrites
<1>6. g \in Storages /\ g1 \in Storages /\ g2 \in Storages
  BY <1>1, <1>2, WrittenIsTyped DEF Memories
<1>7. /\ g1.locks_to_client = [g.locks_to_client EXCEPT ![l] = NoClient]
      /\ g1.client_to_locks = g.client_to_locks /\ g1.tracked = g.tracked
      /\ g1.all_locks = g.all_locks /\ g1.mark_free_after = g.mark_free_after
      /\ g1.signals = g.signals /\ g1.client_last_address = g.client_last_address
  BY <1>5, <1>6 DEF Storages
<1>8. /\ g2.all_locks = g1.all_locks \ {l}
      /\ g2.client_to_locks = g1.client_to_locks /\ g2.tracked = g1.tracked
      /\ g2.locks_to_client = g1.locks_to_client /\ g2.mark_free_after = g1.mark_free_after
      /\ g2.signals = g1.signals /\ g2.client_last_address = g1.client_last_address
  BY <1>5, <1>6 DEF Storages
<1>9. /\ r.client_to_locks = [g2.client_to_locks EXCEPT ![c] = @ \ {l}]
      /\ r.tracked = g2.tracked /\ r.all_locks = g2.all_locks
      /\ r.locks_to_client = g2.locks_to_client /\ r.mark_free_after = g2.mark_free_after
      /\ r.signals = g2.signals /\ r.client_last_address = g2.client_last_address
  BY <1>5, <1>6 DEF Storages
<1> QED
  BY <1>3, <1>4, <1>7, <1>8, <1>9

(* One more lock is gone.                                                  *)
LEMMA AfterDeletion ==
  ASSUME NEW m \in Memories, NEW S, NEW T, NEW g, Lacks(g, m, S, T), NEW l \in LockIds
  PROVE  Lacks(After(g, DeletionOf(m, l)), m, S \cup {l}, T)
<1>1. PICK c, r : c = m.locks_to_client[l] /\ r = After(g, DeletionOf(m, l))
  OBVIOUS
<1>2. c \in Clients \cup {NoClient} /\ g \in Memories
  BY <1>1 DEF Memories, Storages, Lacks
<1>3. /\ r \in Memories
      /\ r.client_to_locks = [g.client_to_locks EXCEPT ![c] = @ \ {l}]
      /\ r.tracked = g.tracked
      /\ r.locks_to_client = [g.locks_to_client EXCEPT ![l] = NoClient]
      /\ r.all_locks = g.all_locks \ {l}
      /\ r.mark_free_after = g.mark_free_after
      /\ r.signals = g.signals
      /\ r.client_last_address = g.client_last_address
  <2>1. r = After(g, <<Do("disown", c, l), Do("unindex", c, l), Do("unlist", c, l)>>)
    BY <1>1 DEF DeletionOf
  <2> QED
    BY <1>2, <2>1, DeletedIs
<1>4. /\ g.client_to_locks \in [Clients -> SUBSET LockIds]
      /\ g.locks_to_client \in [LockIds -> Clients \cup {NoClient}]
  BY <1>2 DEF Memories, Storages
<1>5. ASSUME NEW k \in Clients, NEW x \in LockIds
      PROVE  x \in r.client_to_locks[k]
               <=> x \in m.client_to_locks[k] /\ ~(x \in S \cup {l} /\ m.locks_to_client[x] = k)
  BY <1>1, <1>3, <1>4 DEF Lacks
<1>6. ASSUME NEW x \in LockIds
      PROVE  r.locks_to_client[x] = IF x \in S \cup {l} THEN NoClient ELSE m.locks_to_client[x]
  BY <1>3, <1>4 DEF Lacks
<1> QED
  BY <1>1, <1>3, <1>5, <1>6 DEF Lacks

-----------------------------------------------------------------------------
(* Memories whose dictionaries agree, and those that load_dump finds torn. *)

Whole(m) ==
  /\ \A c \in Clients, l \in LockIds : l \in m.client_to_locks[c] <=> m.locks_to_client[l] = c
  /\ \A l \in LockIds : l \in m.all_locks <=> m.locks_to_client[l] # NoClient
  /\ \A c \in Clients : m.client_to_locks[c] # {} => c \in m.tracked

(* A deletion of an expired lock is under way.                             *)
Torn(m) ==
  \E l \in LockIds, c \in Clients :
    /\ c \in m.tracked /\ l \in m.client_to_locks[c]
    /\ m.mark_free_after[l] = 0 /\ m.locks_to_client[l] = NoClient

Repairable(m) == Whole(m) \/ Torn(m)

(* The writes w lead the memory m from one that can be repaired to the     *)
(* next, and in the end to one that is whole.                              *)
Sound(f, n) == (\A i \in 0 .. n : Repairable(f[i])) /\ Whole(f[n])

Safe(m, w) == \E f : Progress(f, m, w) /\ Sound(f, Len(w))

(* A safe handler starts repairable and ends whole.                        *)
LEMMA SafeIs ==
  ASSUME NEW m \in Memories, NEW w \in Seq(Tasks), Safe(m, w)
  PROVE  Repairable(m) /\ Whole(After(m, w))
<1>1. PICK f : Progress(f, m, w) /\ Sound(f, Len(w))
  BY DEF Safe
<1>2. PICK g : Progress(g, m, w) /\ After(m, w) = g[Len(w)]
  BY AfterIs
<1>3. Len(w) \in Nat /\ f[Len(w)] = g[Len(w)]
  BY <1>1, <1>2, ProgressUnique
<1>4. f[0] = m
  BY <1>1 DEF Progress
<1> QED
  BY <1>1, <1>2, <1>3, <1>4 DEF Sound

(* Doing nothing to a whole memory is safe.                                *)
LEMMA SafeNothing ==
  ASSUME NEW m \in Memories, Whole(m)
  PROVE  Safe(m, <<>>)
<1>1. PICK f : f = [i \in 0 .. 0 |-> m]
  OBVIOUS
<1>2. Progress(f, m, <<>>)
  BY <1>1 DEF Progress
<1>3. Sound(f, 0)
  BY <1>1 DEF Sound, Repairable
<1> QED
  BY <1>2, <1>3 DEF Safe

(* Two writes are safe with a repairable memory between them.              *)
LEMMA SafeTwo ==
  ASSUME NEW m \in Memories, NEW a \in Writes, NEW b \in Writes, Repairable(m),
         Repairable(Written(m, a)), Whole(Written(Written(m, a), b))
  PROVE  Safe(m, <<a, b>>)
<1>1. PICK g1, g2 : g1 = Written(m, a) /\ g2 = Written(g1, b)
  OBVIOUS
<1>2. g1 \in Memories /\ g2 \in Memories
  BY <1>1, WrittenIsMemory
<1>3. PICK f : f = [i \in 0 .. 2 |-> IF i = 0 THEN m ELSE IF i = 1 THEN g1 ELSE g2]
  OBVIOUS
<1>4. f[0] = m /\ f[1] = g1 /\ f[2] = g2 /\ f \in [0 .. 2 -> Memories]
  BY <1>2, <1>3
<1>5. \A i \in 1 .. 2 : f[i] = Written(f[i - 1], <<a, b>>[i])
  <2>1. f[1 - 1] = m /\ f[2 - 1] = g1
    BY <1>4
  <2>2. \A i \in 1 .. 2 : i = 1 \/ i = 2
    OBVIOUS
  <2> QED
    BY <1>1, <1>4, <2>1, <2>2
<1>6. Progress(f, m, <<a, b>>)
  BY <1>4, <1>5 DEF Progress
<1>7. Sound(f, 2)
  BY <1>1, <1>4 DEF Sound, Repairable
<1> QED
  BY <1>6, <1>7 DEF Safe

(* Safe handlers one after the other are safe.                             *)
LEMMA SafeConcat ==
  ASSUME NEW m \in Memories, NEW a \in Seq(Tasks), NEW b \in Seq(Tasks),
         Safe(m, a), Safe(After(m, a), b)
  PROVE  Safe(m, a \o b)
<1>1. PICK g : Progress(g, m, a) /\ Sound(g, Len(a))
  BY DEF Safe
<1>2. PICK h : Progress(h, After(m, a), b) /\ Sound(h, Len(b))
  BY DEF Safe
<1>0. Len(a) \in Nat /\ Len(b) \in Nat
  OBVIOUS
<1>3. PICK x, y : x = Len(a) /\ y = Len(b) /\ x \in Nat /\ y \in Nat
  BY <1>0
<1>4. After(m, a) = g[x]
  <2>1. PICK e : Progress(e, m, a) /\ After(m, a) = e[Len(a)]
    BY AfterIs
  <2>2. \A i \in 0 .. Len(a) : g[i] = e[i]
    BY <1>1, <2>1, ProgressUnique
  <2> QED
    BY <1>3, <2>1, <2>2
<1>5. PICK k : k = Joined(g, h, x, y)
  OBVIOUS
<1>6. Progress(k, m, a \o b) /\ k[Len(a \o b)] = h[y]
  BY <1>1, <1>2, <1>3, <1>4, <1>5, ProgressConcat
<1>7. Len(a \o b) = x + y
  BY <1>3
<1>8. ASSUME NEW i \in 0 .. x + y
      PROVE  Repairable(k[i])
  <2>1. CASE i <= x
    <3>1. k[i] = g[i] /\ i \in 0 .. x
      BY <1>3, <1>5, <2>1 DEF Joined
    <3> QED
      BY <1>1, <1>3, <3>1 DEF Sound
  <2>2. CASE ~(i <= x)
    <3>1. k[i] = h[i - x] /\ i - x \in 0 .. y
      BY <1>3, <1>5, <2>2 DEF Joined
    <3> QED
      BY <1>2, <1>3, <3>1 DEF Sound
  <2> QED
    BY <2>1, <2>2
<1>9. Sound(k, Len(a \o b))
  BY <1>2, <1>3, <1>6, <1>7, <1>8 DEF Sound
<1> QED
  BY <1>6, <1>9 DEF Safe

(* The rest of a safe handler is safe.                                     *)
LEMMA SafeRest ==
  ASSUME NEW m \in Memories, NEW w \in Seq(Tasks), Safe(m, w), w # <<>>
  PROVE  Safe(Written(m, Head(w)), Tail(w))
<1>1. PICK f : Progress(f, m, w) /\ Sound(f, Len(w))
  BY DEF Safe
<1>2. PICK n \in Nat : Len(w) = n + 1
  <2>1. Len(w) - 1 \in Nat /\ Len(w) = (Len(w) - 1) + 1
    OBVIOUS
  <2> QED
    BY <2>1
<1>3. /\ Len(Tail(w)) = n /\ Tail(w) \in Seq(Tasks) /\ Head(w) = w[1]
      /\ \A i \in 1 .. n : Tail(w)[i] = w[i + 1]
  BY <1>2
<1>4. PICK g : g = [i \in 0 .. n |-> f[i + 1]]
  OBVIOUS
<1>5. g \in [0 .. n -> Memories]
  BY <1>1, <1>2, <1>4 DEF Progress
<1>6. g[0] = Written(m, Head(w))
  <2>1. f[1] = Written(f[1 - 1], w[1]) /\ f[0] = m
    BY <1>1, <1>2 DEF Progress
  <2> QED
    BY <1>3, <1>4, <2>1
<1>7. ASSUME NEW i \in 1 .. n
      PROVE  g[i] = Written(g[i - 1], Tail(w)[i])
  <2>1. f[i + 1] = Written(f[(i + 1) - 1], w[i + 1])
    BY <1>1, <1>2 DEF Progress
  <2>2. g[i] = f[i + 1] /\ g[i - 1] = f[(i + 1) - 1]
    BY <1>4
  <2> QED
    BY <1>3, <2>1, <2>2
<1>8. Progress(g, Written(m, Head(w)), Tail(w))
  BY <1>3, <1>5, <1>6, <1>7 DEF Progress
<1>9. Sound(g, n)
  BY <1>1, <1>2, <1>4 DEF Sound
<1> QED
  BY <1>3, <1>8, <1>9 DEF Safe

-----------------------------------------------------------------------------
(* Writes that concern neither owners nor lists.                           *)

Quiet == {"key", "grace", "keep", "signal", "unsignal", "address"}

(* Quiet writes leave the ownership and the lists alone.                   *)
LEMMA QuietWrites ==
  ASSUME NEW m \in Storages, NEW s \in Writes, s.does \in Quiet
  PROVE  /\ Written(m, s).client_to_locks = m.client_to_locks
         /\ Written(m, s).locks_to_client = m.locks_to_client
         /\ Written(m, s).all_locks = m.all_locks
         /\ m.tracked \subseteq Written(m, s).tracked
<1>1. CASE s.does = "key"
  BY <1>1, WrittenIs DEF Storages
<1>2. CASE s.does = "grace"
  BY <1>2, MarkingIsWritten DEF Storages
<1>3. CASE s.does = "keep"
  BY <1>3, MarkingIsWritten DEF Storages
<1>4. CASE s.does = "signal"
  BY <1>4, SignalIsWritten DEF Storages
<1>5. CASE s.does = "unsignal"
  BY <1>5, SignalIsWritten DEF Storages
<1>6. CASE s.does = "address"
  BY <1>6, WrittenIs DEF Storages
<1> QED
  BY <1>1, <1>2, <1>3, <1>4, <1>5, <1>6 DEF Quiet

(* A quiet write keeps the memory whole.                                   *)
LEMMA QuietKeepsWhole ==
  ASSUME NEW m \in Memories, Whole(m), NEW s \in Writes, s.does \in Quiet
  PROVE  Whole(Written(m, s))
<1>1. m \in Storages
  BY DEF Memories
<1> QED
  BY <1>1, QuietWrites DEF Whole

AllQuiet(w) == \A i \in 1 .. Len(w) : w[i].does \in Quiet

(* And so do any number of them.                                           *)
LEMMA QuietAfter ==
  ASSUME NEW m \in Memories, Whole(m), NEW w \in Seq(Writes), AllQuiet(w)
  PROVE  Whole(After(m, w))
<1>1. w \in Seq(Tasks) /\ Len(w) \in Nat
  BY WritesAreTasks
<1>2. PICK f : Progress(f, m, w) /\ After(m, w) = f[Len(w)]
  BY <1>1, AfterIs
<1> DEFINE S == {i \in 0 .. Len(w) : Whole(f[i])}
<1>3. 0 \in S
  BY <1>1, <1>2 DEF Progress
<1>4. ASSUME NEW i \in 0 .. Len(w) - 1, i \in S
      PROVE  i + 1 \in S
  <2>1. i + 1 \in 1 .. Len(w) /\ (i + 1) - 1 = i
    BY <1>1
  <2>2. f[i] \in Memories /\ f[i + 1] = Written(f[i], w[i + 1])
    BY <1>1, <1>2, <2>1 DEF Progress
  <2>3. w[i + 1] \in Writes /\ w[i + 1].does \in Quiet
    BY <2>1 DEF AllQuiet
  <2>4. Whole(f[i + 1])
    BY <1>4, <2>2, <2>3, QuietKeepsWhole
  <2> QED
    BY <1>1, <2>1, <2>4
<1>5. \A i \in 0 .. Len(w) : i \in S
  <2> HIDE DEF S
  <2>1. \A i \in 0 .. Len(w) - 1 : i \in S => i + 1 \in S
    BY <1>4
  <2> QED
    BY <1>1, <1>3, <2>1, InductionTo
<1> QED
  BY <1>1, <1>2, <1>5

(* A client that is forgotten had no lock that is still there.             *)
Cleared(m, S, T) == \A c \in Clients : c \in T => \A l \in LockIds : l \in m.client_to_locks[c] => l \in S

(* A whole memory from which whole entries are gone is whole.              *)
LEMMA LacksIsWhole ==
  ASSUME NEW m \in Memories, Whole(m), NEW S, NEW T, NEW g, Lacks(g, m, S, T), Cleared(m, S, T)
  PROVE  Whole(g)
<1>1. m \in Storages /\ g \in Storages
  BY DEF Memories, Lacks
<1>2. ASSUME NEW c \in Clients, NEW l \in LockIds
      PROVE  l \in g.client_to_locks[c] <=> g.locks_to_client[l] = c
  BY SentinelAssumption DEF Lacks, Whole
<1>3. ASSUME NEW l \in LockIds
      PROVE  l \in g.all_locks <=> g.locks_to_client[l] # NoClient
  BY DEF Lacks, Whole
<1>4. ASSUME NEW c \in Clients, g.client_to_locks[c] # {}
      PROVE  c \in g.tracked
  <2>1. PICK l \in LockIds : l \in g.client_to_locks[c]
    BY <1>1, <1>4 DEF Storages
  <2>2. l \in m.client_to_locks[c] /\ m.locks_to_client[l] = c /\ l \notin S
    BY <2>1 DEF Lacks, Whole
  <2>3. c \in m.tracked /\ c \notin T
    BY <2>2 DEF Whole, Cleared
  <2> QED
    BY <2>3 DEF Lacks
<1> QED
  BY <1>2, <1>3, <1>4 DEF Whole

(* A deletion passes through memories that are torn, and ends in one that  *)
(* is whole.                                                               *)
LEMMA DeletionIsSafe ==
  ASSUME NEW m \in Memories, Whole(m), NEW S, NEW T, NEW g, Lacks(g, m, S, T), Cleared(m, S, T),
         NEW l \in LockIds, m.locks_to_client[l] \in Clients, m.mark_free_after[l] = 0
  PROVE  Safe(g, DeletionOf(m, l))
<1>1. PICK c \in Clients : c = m.locks_to_client[l]
  OBVIOUS
<1>2. PICK d, u, v : d = Do("disown", c, l) /\ u = Do("unindex", c, l) /\ v = Do("unlist", c, l)
  OBVIOUS
<1>3. d \in Writes /\ u \in Writes /\ v \in Writes
  BY <1>2 DEF Do, Writes, Steps, Does
<1>4. PICK g1, g2, g3 : g1 = Written(g, d) /\ g2 = Written(g1, u) /\ g3 = Written(g2, v)
  OBVIOUS
<1>5. g \in Memories /\ g1 \in Memories /\ g2 \in Memories /\ g3 \in Memories
  BY <1>3, <1>4, WrittenIsMemory DEF Lacks
<1>6. g \in Storages /\ g1 \in Storages /\ g2 \in Storages
  BY <1>5 DEF Memories
<1>7. /\ g1 = [g EXCEPT !.locks_to_client[l] = NoClient]
      /\ g2 = [g1 EXCEPT !.all_locks = @ \ {l}]
      /\ g3 = [g2 EXCEPT !.client_to_locks[c] = @ \ {l}]
  BY <1>2, <1>4, DeletingWrites
<1>8. /\ g1.locks_to_client = [g.locks_to_client EXCEPT ![l] = NoClient]
      /\ g1.client_to_locks = g.client_to_locks /\ g1.tracked = g.tracked
      /\ g1.all_locks = g.all_locks /\ g1.mark_free_after = g.mark_free_after
  BY <1>6, <1>7 DEF Storages
<1>9. /\ g2.all_locks = g1.all_locks \ {l}
      /\ g2.client_to_locks = g1.client_to_locks /\ g2.tracked = g1.tracked
      /\ g2.locks_to_client = g1.locks_to_client /\ g2.mark_free_after = g1.mark_free_after
  BY <1>6, <1>7 DEF Storages
<1>10. /\ g3.client_to_locks = [g2.client_to_locks EXCEPT ![c] = @ \ {l}]
       /\ g3.tracked = g2.tracked /\ g3.all_locks = g2.all_locks
       /\ g3.locks_to_client = g2.locks_to_client
  BY <1>6, <1>7 DEF Storages
<1>11. g.locks_to_client \in [LockIds -> Clients \cup {NoClient}]
  BY <1>6 DEF Storages
<1>12. Whole(g)
  BY LacksIsWhole
<1>13. Repairable(g1) /\ Repairable(g2)
  <2>1. CASE l \in S
    <3>1. g.locks_to_client[l] = NoClient /\ l \notin g.all_locks
      BY <2>1 DEF Lacks
    <3>2. g1.locks_to_client = g.locks_to_client /\ g2.all_locks = g.all_locks
      BY <1>8, <1>9, <1>11, <3>1
    <3> QED
      BY <1>8, <1>9, <1>12, <3>2 DEF Repairable, Whole
  <2>2. CASE l \notin S
    <3>1. l \in m.client_to_locks[c] /\ c \in m.tracked /\ c \notin T
      BY <1>1, <2>2 DEF Whole, Cleared
    <3>2. l \in g.client_to_locks[c] /\ c \in g.tracked /\ g.mark_free_after[l] = 0
      BY <2>2, <3>1 DEF Lacks
    <3>3. g1.locks_to_client[l] = NoClient
      BY <1>8, <1>11
    <3> QED
      BY <1>8, <1>9, <3>2, <3>3 DEF Repairable, Torn
  <2> QED
    BY <2>1, <2>2
<1>14. Whole(g3)
  <2>1. DeletionOf(m, l) = <<d, u, v>>
    BY <1>1, <1>2 DEF DeletionOf
  <2>2. g3 = After(g, <<d, u, v>>)
    BY <1>3, <1>4, <1>5, AfterThree
  <2>3. Lacks(g3, m, S \cup {l}, T)
    BY <2>1, <2>2, AfterDeletion
  <2>4. Cleared(m, S \cup {l}, T)
    BY DEF Cleared
  <2> QED
    BY <2>3, <2>4, LacksIsWhole
<1>15. Safe(g, <<d, u, v>>)
  <2>1. PICK f : f = [i \in 0 .. 3 |-> IF i = 0 THEN g ELSE IF i = 1 THEN g1 ELSE IF i = 2 THEN g2 ELSE g3]
    OBVIOUS
  <2>2. f[0] = g /\ f[1] = g1 /\ f[2] = g2 /\ f[3] = g3 /\ f \in [0 .. 3 -> Memories]
    BY <1>5, <2>1
  <2>3. \A i \in 1 .. 3 : f[i] = Written(f[i - 1], <<d, u, v>>[i])
    <3>1. f[1 - 1] = g /\ f[2 - 1] = g1 /\ f[3 - 1] = g2
      BY <2>2
    <3>2. \A i \in 1 .. 3 : i = 1 \/ i = 2 \/ i = 3
      OBVIOUS
    <3> QED
      BY <1>4, <2>2, <3>1, <3>2
  <2>4. Progress(f, g, <<d, u, v>>)
    BY <2>2, <2>3 DEF Progress
  <2>5. Sound(f, 3)
    BY <1>12, <1>13, <1>14, <2>2 DEF Sound, Repairable
  <2> QED
    BY <2>4, <2>5 DEF Safe
<1> QED
  BY <1>1, <1>2, <1>15 DEF DeletionOf

-----------------------------------------------------------------------------
(* The sweep, list by list and lock by lock.                               *)

(* Pieces of work that lead from R to R one after the other.               *)
Leads(R, i, h, w) == <<i, After(h, w)>> \in R /\ Safe(h, w)

(* Where each of a list of handlers leads one step on, all of them lead to *)
(* the last.                                                               *)
LEMMA FlatReaches ==
  ASSUME NEW R, NEW g \in Memories, Whole(g), <<0, g>> \in R,
         NEW n \in Nat, NEW seqs, NEW flat, Flattening(flat, Writes, seqs, n),
         \A i \in 1 .. n : seqs[i] \in Seq(Writes),
         \A i \in 1 .. n : \A h \in Memories : <<i - 1, h>> \in R => Leads(R, i, h, seqs[i])
  PROVE  Leads(R, n, g, flat[n])
<1>0. \A i \in 0 .. n : flat[i] \in Seq(Writes)
  BY DEF Flattening
<1> DEFINE P == {i \in 0 .. n : Leads(R, i, g, flat[i])}
<1>1. 0 \in P
  <2>1. flat[0] = <<>>
    BY DEF Flattening
  <2>2. After(g, flat[0]) = g /\ Safe(g, flat[0])
    BY <2>1, AfterNothing, SafeNothing
  <2> QED
    BY <2>2 DEF Leads
<1>2. ASSUME NEW i \in 0 .. n - 1, i \in P
      PROVE  i + 1 \in P
  <2>1. i + 1 \in 1 .. n /\ (i + 1) - 1 = i
    OBVIOUS
  <2>2. flat[i + 1] = flat[i] \o seqs[i + 1]
    BY <2>1 DEF Flattening
  <2>3. PICK a, b : a = flat[i] /\ b = seqs[i + 1]
    OBVIOUS
  <2>4. a \in Seq(Tasks) /\ b \in Seq(Tasks)
    BY <1>0, <2>1, <2>3, WritesAreTasks
  <2>5. PICK h \in Memories : h = After(g, a)
    BY <2>4, AfterIsMemory
  <2>6. <<i, h>> \in R /\ Safe(g, a)
    BY <1>2, <2>3, <2>5 DEF Leads
  <2>7. Leads(R, i + 1, h, b)
    BY <2>1, <2>3, <2>6
  <2>8. After(g, a \o b) = After(h, b)
    BY <2>4, <2>5, AfterConcat
  <2>9. Safe(g, a \o b)
    BY <2>4, <2>5, <2>6, <2>7, SafeConcat DEF Leads
  <2>10. Leads(R, i + 1, g, a \o b)
    BY <2>7, <2>8, <2>9 DEF Leads
  <2>11. flat[i + 1] = a \o b /\ i + 1 \in 0 .. n
    BY <2>1, <2>2, <2>3
  <2> QED
    BY <2>10, <2>11
<1>3. \A i \in 0 .. n : i \in P
  <2> HIDE DEF P
  <2>1. \A i \in 0 .. n - 1 : i \in P => i + 1 \in P
    BY <1>2
  <2> QED
    BY <1>1, <2>1, InductionTo
<1> QED
  BY <1>3

(* The sweep of one client's list.                                         *)
Covers(order, S) ==
  /\ order \in Seq(LockIds)
  /\ \A l \in LockIds : l \in S <=> \E i \in 1 .. Len(order) : order[i] = l

(* From g the writes w take the locks of S and the clients of T.           *)
Takes(g, w, m, S, T) ==
  /\ w \in Seq(Writes) /\ Safe(g, w)
  /\ Lacks(After(g, w), m, S, T) /\ Cleared(m, S, T)

DeletionsOf(m, order) == FlattenSeq([i \in DOMAIN order |-> DeletionOf(m, order[i])])

(* The deletions of an order of locks take just these locks away, safely.  *)
LEMMA DeletionsReach ==
  ASSUME NEW m \in Memories, Whole(m), NEW S, NEW T, NEW g, Lacks(g, m, S, T), Cleared(m, S, T),
         NEW X \in SUBSET LockIds, NEW order, Covers(order, X),
         \A l \in X : m.locks_to_client[l] \in Clients /\ m.mark_free_after[l] = 0
  PROVE  Takes(g, DeletionsOf(m, order), m, S \cup X, T)
<1>0. order \in Seq(LockIds) /\ \A i \in 1 .. Len(order) : order[i] \in X
  BY DEF Covers
<1>1. PICK seqs : seqs = [i \in DOMAIN order |-> DeletionOf(m, order[i])]
  OBVIOUS
<1>2. PICK n \in Nat : n = Len(order)
  BY <1>0
<1>3. Len(seqs) = n /\ (n = 0 => seqs = <<>>)
  BY <1>0, <1>1, <1>2
<1>4. \A i \in 1 .. n : order[i] \in X /\ seqs[i] = DeletionOf(m, order[i])
  BY <1>0, <1>1, <1>2
<1>5. m \in Storages /\ g \in Memories
  BY DEF Memories, Lacks
<1>6. \A i \in 1 .. n : seqs[i] \in Seq(Writes)
  BY <1>4, <1>5, DeletionOfIs
<1>7. PICK flat : Flattening(flat, Writes, seqs, n) /\ FlattenSeq(seqs) = flat[n]
  BY <1>3, <1>6, FlattenSeqIs
<1>8. PICK D : D = [i \in 0 .. n |-> S \cup {order[j] : j \in 1 .. i}]
  OBVIOUS
<1>9. D[0] = S
  BY <1>8
<1>10. \A i \in 1 .. n : D[i] = D[i - 1] \cup {order[i]}
  <2> TAKE i \in 1 .. n
  <2>1. {order[j] : j \in 1 .. i} = {order[j] : j \in 1 .. i - 1} \cup {order[i]}
    OBVIOUS
  <2>2. D[i] = S \cup {order[j] : j \in 1 .. i}
    BY <1>8
  <2>3. D[i - 1] = S \cup {order[j] : j \in 1 .. i - 1}
    BY <1>8
  <2> QED
    BY <2>1, <2>2, <2>3
<1>11. D[n] = S \cup X
  <2>1. {order[j] : j \in 1 .. n} = X
    BY <1>0, <1>2 DEF Covers
  <2>2. n \in 0 .. n
    OBVIOUS
  <2>3. D[n] = S \cup {order[j] : j \in 1 .. n}
    BY <1>8, <2>2
  <2> QED
    BY <2>1, <2>3
<1>12. PICK R : R = {p \in (0 .. n) \X Memories : Lacks(p[2], m, D[p[1]], T) /\ Cleared(m, D[p[1]], T)}
  OBVIOUS
<1>13. \A i \in 0 .. n, h \in Memories :
         <<i, h>> \in R <=> Lacks(h, m, D[i], T) /\ Cleared(m, D[i], T)
  BY <1>12
<1>14. <<0, g>> \in R
  BY <1>5, <1>9, <1>13
<1>15. ASSUME NEW i \in 1 .. n, NEW h \in Memories, <<i - 1, h>> \in R
       PROVE  Leads(R, i, h, seqs[i])
  <2>1. PICK E : E = D[i - 1] /\ Lacks(h, m, E, T) /\ Cleared(m, E, T)
    BY <1>13, <1>15
  <2>2. PICK l \in LockIds : l = order[i]
    BY <1>4
  <2>3. m.locks_to_client[l] \in Clients /\ m.mark_free_after[l] = 0 /\ seqs[i] = DeletionOf(m, l)
    BY <1>4, <2>2
  <2>4. Safe(h, seqs[i])
    BY <2>1, <2>3, DeletionIsSafe
  <2>5. Lacks(After(h, seqs[i]), m, E \cup {l}, T)
    BY <2>1, <2>3, AfterDeletion
  <2>6. Cleared(m, E \cup {l}, T)
    BY <2>1 DEF Cleared
  <2>7. D[i] = E \cup {l}
    BY <1>10, <2>1, <2>2
  <2>8. After(h, seqs[i]) \in Memories
    BY <2>5 DEF Lacks
  <2>9. <<i, After(h, seqs[i])>> \in R
    <3>1. PICK x \in Memories : x = After(h, seqs[i])
      BY <2>8
    <3>2. Lacks(x, m, D[i], T) /\ Cleared(m, D[i], T)
      BY <2>5, <2>6, <2>7, <3>1
    <3> QED
      BY <1>13, <3>1, <3>2
  <2> QED
    BY <2>4, <2>9 DEF Leads
<1>16. Whole(g)
  BY LacksIsWhole
<1>17. Leads(R, n, g, flat[n])
  BY <1>5, <1>6, <1>7, <1>14, <1>15, <1>16, FlatReaches
<1>18. flat[n] \in Seq(Writes)
  BY <1>7 DEF Flattening
<1>19. After(g, flat[n]) \in Memories
  BY <1>5, <1>18, WritesAreTasks, AfterIsMemory
<1>20. Lacks(After(g, flat[n]), m, D[n], T) /\ Cleared(m, D[n], T) /\ Safe(g, flat[n])
  BY <1>13, <1>17, <1>19 DEF Leads
<1>21. DeletionsOf(m, order) = flat[n]
  BY <1>1, <1>7 DEF DeletionsOf
<1> QED
  BY <1>11, <1>18, <1>20, <1>21 DEF Takes

(* A client is forgotten.                                                  *)
LEMMA ForgettingIs ==
  ASSUME NEW m \in Memories, Whole(m), NEW S, NEW T, NEW g, Lacks(g, m, S, T), Cleared(m, S, T),
         NEW c \in Clients, m.client_to_locks[c] \subseteq S
  PROVE  LET w == <<Do("unkey", c, NoAddress), Do("unaddress", c, NoAddress)>>
         IN  /\ w \in Seq(Writes) /\ Safe(g, w)
             /\ Lacks(After(g, w), m, S, T \cup {c}) /\ Cleared(m, S, T \cup {c})
<1>1. PICK u, v : u = Do("unkey", c, NoAddress) /\ v = Do("unaddress", c, NoAddress)
  OBVIOUS
<1>2. u \in Writes /\ v \in Writes
  BY <1>1 DEF Do, Writes, Steps, Does
<1>3. PICK g1, g2 : g1 = Written(g, u) /\ g2 = Written(g1, v)
  OBVIOUS
<1>4. g \in Memories /\ g1 \in Memories /\ g2 \in Memories
  BY <1>2, <1>3, WrittenIsMemory DEF Lacks
<1>5. g \in Storages /\ g1 \in Storages
  BY <1>4 DEF Memories
<1>6. /\ g1 = [g EXCEPT !.tracked = @ \ {c}]
      /\ g2 = [g1 EXCEPT !.client_last_address[c] = NoAddress]
  <2>1. u.does = "unkey" /\ u.client = c /\ v.does = "unaddress" /\ v.client = c
    BY <1>1 DEF Do
  <2> QED
    BY <1>3, <2>1, WrittenIs
<1>7. /\ g1.tracked = g.tracked \ {c}
      /\ g1.client_to_locks = g.client_to_locks /\ g1.locks_to_client = g.locks_to_client
      /\ g1.all_locks = g.all_locks /\ g1.mark_free_after = g.mark_free_after
      /\ g1.signals = g.signals /\ g1.client_last_address = g.client_last_address
  BY <1>5, <1>6 DEF Storages
<1>8. /\ g2.client_last_address = [g1.client_last_address EXCEPT ![c] = NoAddress]
      /\ g2.tracked = g1.tracked
      /\ g2.client_to_locks = g1.client_to_locks /\ g2.locks_to_client = g1.locks_to_client
      /\ g2.all_locks = g1.all_locks /\ g2.mark_free_after = g1.mark_free_after
      /\ g2.signals = g1.signals
  BY <1>5, <1>6 DEF Storages
<1>9. Cleared(m, S, T \cup {c})
  BY DEF Cleared
<1>10. Lacks(g2, m, S, T \cup {c})
  <2>1. g.client_last_address \in [Clients -> Addresses \cup {NoAddress}]
    BY <1>5 DEF Storages
  <2>2. ASSUME NEW k \in Clients
        PROVE  g2.client_last_address[k] = IF k \in T \cup {c} THEN NoAddress ELSE m.client_last_address[k]
    BY <1>7, <1>8, <2>1 DEF Lacks
  <2>3. ASSUME NEW k \in Clients
        PROVE  k \in g2.tracked <=> k \in m.tracked /\ k \notin T \cup {c}
    BY <1>7, <1>8 DEF Lacks
  <2> QED
    BY <1>4, <1>7, <1>8, <2>2, <2>3 DEF Lacks
<1>11. Whole(g) /\ Whole(g2)
  BY <1>9, <1>10, LacksIsWhole
<1>12. Whole(g1)
  BY <1>7, <1>8, <1>11 DEF Whole
<1>13. Safe(g, <<u, v>>)
  BY <1>2, <1>3, <1>4, <1>11, <1>12, SafeTwo DEF Repairable
<1>14. After(g, <<u, v>>) = g2
  BY <1>2, <1>3, <1>4, AfterTwo
<1>15. <<u, v>> \in Seq(Writes)
  BY <1>2
<1> QED
  BY <1>1, <1>9, <1>10, <1>13, <1>14, <1>15

Forgotten(c) == IF ExpiredOf(c) = client_to_locks[c] THEN {c} ELSE {}

(* The sweep of one client's list takes its expired locks, and the client  *)
(* if it has no others.                                                    *)
LEMMA SweepOfReaches ==
  ASSUME Memory \in Memories, Whole(Memory), NEW c \in Clients,
         NEW order, Covers(order, ExpiredOf(c)),
         NEW S, NEW T, NEW g, Lacks(g, Memory, S, T), Cleared(Memory, S, T)
  PROVE  Takes(g, SweepOf(c, order), Memory, S \cup ExpiredOf(c), T \cup Forgotten(c))
<1>1. order \in Seq(LockIds) /\ g \in Memories /\ client_to_locks[c] \subseteq LockIds
  BY DEF Covers, Lacks, Memory, Memories, Storages
<1>2. ExpiredOf(c) \in SUBSET LockIds
  BY <1>1 DEF ExpiredOf
<1>3. \A l \in ExpiredOf(c) : Memory.locks_to_client[l] \in Clients /\ Memory.mark_free_after[l] = 0
  BY <1>1 DEF ExpiredOf, Expired, Whole, Memory
<1>4. \A i \in 1 .. Len(order) : order[i] \in LockIds
  BY <1>1
<1>5. [i \in DOMAIN order |-> Deletion(order[i])] = [i \in DOMAIN order |-> DeletionOf(Memory, order[i])]
  BY <1>1, <1>4, DeletionOfMemory
<1>6. PICK d : d = FlattenSeq([i \in DOMAIN order |-> Deletion(order[i])])
  OBVIOUS
<1>7. Takes(g, d, Memory, S \cup ExpiredOf(c), T)
  <2>1. PICK m : m = Memory
    OBVIOUS
  <2>2. d = DeletionsOf(m, order)
    BY <1>5, <1>6, <2>1 DEF DeletionsOf
  <2>3. PICK X : X = ExpiredOf(c)
    OBVIOUS
  <2>4. Takes(g, DeletionsOf(m, order), m, S \cup X, T)
    BY <1>2, <1>3, <2>1, <2>3, DeletionsReach
  <2> QED
    BY <2>1, <2>2, <2>3, <2>4
<1>8. PICK D : D = S \cup ExpiredOf(c)
  OBVIOUS
<1>9. /\ d \in Seq(Writes) /\ Safe(g, d)
       /\ Lacks(After(g, d), Memory, D, T) /\ Cleared(Memory, D, T)
  BY <1>7, <1>8 DEF Takes
<1>10. CASE ExpiredOf(c) # client_to_locks[c]
  <2>1. SweepOf(c, order) = d \o <<>>
    BY <1>6, <1>10 DEF SweepOf
  <2>2. d \o <<>> = d
    BY <1>9
  <2>3. T \cup Forgotten(c) = T
    BY <1>10 DEF Forgotten
  <2> QED
    BY <1>8, <1>9, <2>1, <2>2, <2>3 DEF Takes
<1>11. CASE ExpiredOf(c) = client_to_locks[c]
  <2>1. PICK u : u = <<Do("unkey", c, NoAddress), Do("unaddress", c, NoAddress)>>
    OBVIOUS
  <2>2. SweepOf(c, order) = d \o u
    BY <1>6, <1>11, <2>1 DEF SweepOf
  <2>3. PICK h : h = After(g, d)
    OBVIOUS
  <2>4. Memory.client_to_locks[c] \subseteq D
    BY <1>8, <1>11 DEF Memory
  <2>5. /\ u \in Seq(Writes) /\ Safe(h, u)
        /\ Lacks(After(h, u), Memory, D, T \cup {c}) /\ Cleared(Memory, D, T \cup {c})
    BY <1>9, <2>1, <2>3, <2>4, ForgettingIs
  <2>6. u \in Seq(Tasks) /\ d \in Seq(Tasks)
    BY <1>9, <2>5, WritesAreTasks
  <2>7. After(g, d \o u) = After(h, u) /\ Safe(g, d \o u)
    BY <1>1, <1>9, <2>3, <2>5, <2>6, AfterConcat, SafeConcat
  <2>8. d \o u \in Seq(Writes)
    BY <1>9, <2>5, ConcatProperties
  <2>9. Forgotten(c) = {c}
    BY <1>11 DEF Forgotten
  <2> QED
    BY <1>8, <2>2, <2>5, <2>7, <2>8, <2>9 DEF Takes
<1> QED
  BY <1>10, <1>11

(* The sweep of all.                                                       *)
LEMMA SweepReaches ==
  ASSUME Memory \in Memories, Whole(Memory), NEW visit, NEW orders, SweepOrders(visit, orders)
  PROVE  Takes(Memory, Sweep(visit, orders), Memory, UNION {ExpiredOf(c) : c \in tracked},
                UNION {Forgotten(c) : c \in tracked})
<1>1. PICK seqs : seqs = [i \in DOMAIN visit |-> SweepOf(visit[i], orders[visit[i]])]
  OBVIOUS
<1>2. PICK n \in Nat : n = Len(visit)
  BY SweepOrdersAre
<1>3. visit \in Seq(Clients)
  BY SweepOrdersAre
<1>4. Len(seqs) = n /\ (n = 0 => seqs = <<>>)
  BY <1>1, <1>2, <1>3
<1>5. \A i \in 1 .. n : visit[i] \in tracked /\ visit[i] \in Clients
  BY <1>2, SweepOrdersAre
<1>6. \A c \in tracked : c \in Clients /\ Covers(orders[c], ExpiredOf(c))
  BY SweepOrdersAre DEF Covers
<1>7. \A i \in 1 .. n : seqs[i] = SweepOf(visit[i], orders[visit[i]]) /\ seqs[i] \in Seq(Writes)
  <2> TAKE i \in 1 .. n
  <2>1. seqs[i] = SweepOf(visit[i], orders[visit[i]])
    BY <1>1, <1>2, <1>3
  <2>2. orders[visit[i]] \in Seq(LockIds)
    BY <1>5, <1>6 DEF Covers
  <2> QED
    BY <2>1, <2>2, <1>5, SweepOfIs
<1>8. PICK flat : Flattening(flat, Writes, seqs, n) /\ FlattenSeq(seqs) = flat[n]
  BY <1>4, <1>7, FlattenSeqIs
<1>9. PICK X, F : /\ X = [i \in 1 .. n |-> ExpiredOf(visit[i])]
                  /\ F = [i \in 1 .. n |-> Forgotten(visit[i])]
  OBVIOUS
<1>10. PICK D, E : /\ D = [i \in 0 .. n |-> UNION {X[j] : j \in 1 .. i}]
                   /\ E = [i \in 0 .. n |-> UNION {F[j] : j \in 1 .. i}]
  OBVIOUS
<1>11. D[0] = {} /\ E[0] = {}
  BY <1>10
<1>12. \A i \in 1 .. n : D[i] = D[i - 1] \cup X[i] /\ E[i] = E[i - 1] \cup F[i]
  <2> TAKE i \in 1 .. n
  <2>1. /\ UNION {X[j] : j \in 1 .. i} = (UNION {X[j] : j \in 1 .. i - 1}) \cup X[i]
        /\ UNION {F[j] : j \in 1 .. i} = (UNION {F[j] : j \in 1 .. i - 1}) \cup F[i]
    OBVIOUS
  <2>2. D[i] = UNION {X[j] : j \in 1 .. i} /\ E[i] = UNION {F[j] : j \in 1 .. i}
    BY <1>10
  <2>3. D[i - 1] = UNION {X[j] : j \in 1 .. i - 1} /\ E[i - 1] = UNION {F[j] : j \in 1 .. i - 1}
    BY <1>10
  <2> QED
    BY <2>1, <2>2, <2>3
<1>13. D[n] = UNION {ExpiredOf(c) : c \in tracked} /\ E[n] = UNION {Forgotten(c) : c \in tracked}
  <2>1. \A c \in tracked : \E i \in 1 .. n : visit[i] = c
    BY <1>2, SweepOrdersAre
  <2>2. UNION {X[j] : j \in 1 .. n} = UNION {ExpiredOf(c) : c \in tracked}
    BY <1>5, <1>9, <2>1
  <2>3. UNION {F[j] : j \in 1 .. n} = UNION {Forgotten(c) : c \in tracked}
    BY <1>5, <1>9, <2>1
  <2>4. n \in 0 .. n
    OBVIOUS
  <2>5. D[n] = UNION {X[j] : j \in 1 .. n} /\ E[n] = UNION {F[j] : j \in 1 .. n}
    BY <1>10, <2>4
  <2> QED
    BY <2>2, <2>3, <2>5
<1>14. PICK m : m = Memory
  OBVIOUS
<1>15. PICK R :
         R = {p \in (0 .. n) \X Memories :
                Lacks(p[2], m, D[p[1]], E[p[1]]) /\ Cleared(m, D[p[1]], E[p[1]])}
  OBVIOUS
<1>16. \A i \in 0 .. n, h \in Memories :
         <<i, h>> \in R <=> Lacks(h, m, D[i], E[i]) /\ Cleared(m, D[i], E[i])
  BY <1>15
<1>17. <<0, m>> \in R
  <2>1. Lacks(m, m, {}, {}) /\ Cleared(m, {}, {})
    BY <1>14, NothingLacks DEF Cleared
  <2> QED
    BY <1>11, <1>14, <1>16, <2>1
<1>18. ASSUME NEW i \in 1 .. n, NEW h \in Memories, <<i - 1, h>> \in R
       PROVE  Leads(R, i, h, seqs[i])
  <2>1. PICK S, T : S = D[i - 1] /\ T = E[i - 1] /\ Lacks(h, m, S, T) /\ Cleared(m, S, T)
    BY <1>16, <1>18
  <2>2. PICK c \in tracked : c = visit[i]
    BY <1>5
  <2>3. c \in Clients /\ Covers(orders[c], ExpiredOf(c)) /\ seqs[i] = SweepOf(c, orders[c])
    BY <1>6, <1>7, <2>2
  <2>4. Takes(h, seqs[i], m, S \cup ExpiredOf(c), T \cup Forgotten(c))
    BY <1>14, <2>1, <2>3, SweepOfReaches
  <2>5. D[i] = S \cup ExpiredOf(c) /\ E[i] = T \cup Forgotten(c)
    BY <1>9, <1>12, <2>1, <2>2
  <2>6. PICK x : x = After(h, seqs[i])
    OBVIOUS
  <2>7. Lacks(x, m, D[i], E[i]) /\ Cleared(m, D[i], E[i]) /\ Safe(h, seqs[i])
    BY <1>14, <2>4, <2>5, <2>6 DEF Takes
  <2>8. x \in Memories
    BY <2>7 DEF Lacks
  <2>9. <<i, x>> \in R
    BY <1>16, <2>7, <2>8
  <2> QED
    BY <2>6, <2>7, <2>9 DEF Leads
<1>19. Leads(R, n, m, flat[n])
  BY <1>7, <1>8, <1>14, <1>17, <1>18, FlatReaches
<1>20. flat[n] \in Seq(Writes)
  BY <1>8 DEF Flattening
<1>21. After(m, flat[n]) \in Memories
  BY <1>14, <1>20, WritesAreTasks, AfterIsMemory
<1>22. Lacks(After(m, flat[n]), m, D[n], E[n]) /\ Cleared(m, D[n], E[n]) /\ Safe(m, flat[n])
  BY <1>16, <1>19, <1>21 DEF Leads
<1>23. Sweep(visit, orders) = flat[n]
  BY <1>1, <1>8 DEF Sweep
<1> QED
  BY <1>13, <1>14, <1>20, <1>22, <1>23 DEF Takes

-----------------------------------------------------------------------------
(* The memory after acquire and release.                                   *)

(* What a memory lacks, in the words of the storage.                       *)
Unlists(m, S) == [c \in Clients |-> m.client_to_locks[c] \ {l \in S : m.locks_to_client[l] = c}]

Disowns(m, S) == [l \in LockIds |-> IF l \in S THEN NoClient ELSE m.locks_to_client[l]]

Forgets(m, T) == [c \in Clients |-> IF c \in T THEN NoAddress ELSE m.client_last_address[c]]

(* What a memory that lacks some locks looks like, table by table.         *)
LEMMA LacksIs ==
  ASSUME NEW m \in Memories, NEW S, NEW T, NEW g, Lacks(g, m, S, T)
  PROVE  /\ g.client_to_locks = Unlists(m, S)
         /\ g.tracked = m.tracked \ T
         /\ g.locks_to_client = Disowns(m, S)
         /\ g.all_locks = m.all_locks \ S
         /\ g.mark_free_after = m.mark_free_after
         /\ g.signals = m.signals
         /\ g.client_last_address = Forgets(m, T)
<1>1. m \in Storages /\ g \in Storages
  BY DEF Memories, Lacks
<1>2. /\ g.client_to_locks \in [Clients -> SUBSET LockIds]
      /\ m.client_to_locks \in [Clients -> SUBSET LockIds]
      /\ g.locks_to_client \in [LockIds -> Clients \cup {NoClient}]
      /\ g.client_last_address \in [Clients -> Addresses \cup {NoAddress}]
      /\ g.tracked \subseteq Clients /\ m.tracked \subseteq Clients
      /\ g.all_locks \subseteq LockIds /\ m.all_locks \subseteq LockIds
  BY <1>1 DEF Storages
<1>3. ASSUME NEW c \in Clients
      PROVE  g.client_to_locks[c] = m.client_to_locks[c] \ {l \in S : m.locks_to_client[l] = c}
  <2>1. g.client_to_locks[c] \subseteq LockIds /\ m.client_to_locks[c] \subseteq LockIds
    BY <1>2
  <2> QED
    BY <2>1 DEF Lacks
<1>4. g.client_to_locks = [c \in Clients |-> m.client_to_locks[c] \ {l \in S : m.locks_to_client[l] = c}]
  BY <1>2, <1>3
<1>5. g.locks_to_client = [l \in LockIds |-> IF l \in S THEN NoClient ELSE m.locks_to_client[l]]
  BY <1>2 DEF Lacks
<1>6. g.client_last_address = [c \in Clients |-> IF c \in T THEN NoAddress ELSE m.client_last_address[c]]
  BY <1>2 DEF Lacks
<1>7. g.tracked = m.tracked \ T /\ g.all_locks = m.all_locks \ S
  BY <1>2 DEF Lacks
<1> QED
  BY <1>4, <1>5, <1>6, <1>7 DEF Lacks, Unlists, Disowns, Forgets

(* Lacks, where every client stays.                                        *)
LEMMA LosesLocks ==
  ASSUME NEW m \in Memories, NEW S, NEW g, Lacks(g, m, S, {})
  PROVE  /\ g.client_to_locks = Unlists(m, S)
         /\ g.tracked = m.tracked
         /\ g.locks_to_client = Disowns(m, S)
         /\ g.all_locks = m.all_locks \ S
         /\ g.mark_free_after = m.mark_free_after
         /\ g.signals = m.signals
         /\ g.client_last_address = m.client_last_address
<1>1. ASSUME NEW T, Lacks(g, m, S, T)
      PROVE  /\ g.client_to_locks = Unlists(m, S)
             /\ g.tracked = m.tracked \ T
             /\ g.locks_to_client = Disowns(m, S)
             /\ g.all_locks = m.all_locks \ S
             /\ g.mark_free_after = m.mark_free_after
             /\ g.signals = m.signals
             /\ g.client_last_address = Forgets(m, T)
  BY <1>1, LacksIs
<1>2. g.tracked = m.tracked \ {} /\ g.client_last_address = Forgets(m, {})
  BY <1>1
<1>3. m.client_last_address \in [Clients -> Addresses \cup {NoAddress}]
  BY DEF Memories, Storages
<1>4. Forgets(m, {}) = m.client_last_address
  BY <1>3 DEF Forgets
<1> QED
  BY <1>1, <1>2, <1>4

(* A deletion on a condition takes the lock away on that condition.        *)
LEMMA DeletionIfComes ==
  ASSUME NEW m \in Memories, NEW l \in LockIds, NEW b \in BOOLEAN
  PROVE  Lacks(After(m, IF b THEN DeletionOf(m, l) ELSE <<>>), m, IF b THEN {l} ELSE {}, {})
<1>1. CASE b
  <2>1. Lacks(After(m, DeletionOf(m, l)), m, {} \cup {l}, {})
    BY NothingLacks, AfterDeletion
  <2>2. {} \cup {l} = {l}
    OBVIOUS
  <2> QED
    BY <1>1, <2>1, <2>2
<1>2. CASE ~b
  BY <1>2, AfterNothing, NothingLacks
<1> QED
  BY <1>1, <1>2

(* A lock is entered for a client.                                         *)
Entered(r, g, c, l) ==
  /\ r.client_to_locks = [g.client_to_locks EXCEPT ![c] = @ \cup {l}]
  /\ r.tracked = g.tracked \cup {c}
  /\ r.locks_to_client = [g.locks_to_client EXCEPT ![l] = c]
  /\ r.all_locks = g.all_locks \cup {l}
  /\ r.mark_free_after = [g.mark_free_after EXCEPT ![l] = NotMarked]
  /\ r.signals = [g.signals EXCEPT ![l] = {}]
  /\ r.client_last_address = g.client_last_address

(* What the three writes of an acquisition come to.                        *)
LEMMA EnteringWrites ==
  ASSUME NEW g \in Memories, NEW c \in Clients, NEW l \in LockIds
  PROVE  LET w == <<Do("own", c, l), Do("list", c, l), Do("index", c, l)>>
         IN  w \in Seq(Writes) /\ Entered(After(g, w), g, c, l)
<1>1. PICK o, u, x : o = Do("own", c, l) /\ u = Do("list", c, l) /\ x = Do("index", c, l)
  OBVIOUS
<1>2. o \in Writes /\ u \in Writes /\ x \in Writes
  BY <1>1 DEF Do, Writes, Steps, Does
<1>3. PICK g1, g2, r : g1 = Written(g, o) /\ g2 = Written(g1, u) /\ r = Written(g2, x)
  OBVIOUS
<1>4. g \in Storages /\ g1 \in Storages /\ g2 \in Storages
  BY <1>2, <1>3, WrittenIsTyped DEF Memories
<1>5. g1 = [g EXCEPT !.locks_to_client[l] = c]
  <2>1. o.does = "own" /\ o.client = c /\ o.on = l
    BY <1>1 DEF Do
  <2> QED
    BY <1>3, <2>1, WrittenIs
<1>6. g2 = [g1 EXCEPT !.client_to_locks[c] = @ \cup {l}, !.tracked = @ \cup {c},
                      !.mark_free_after[l] = NotMarked, !.signals[l] = {}]
  <2>1. u.does = "list" /\ u.client = c /\ u.on = l
    BY <1>1 DEF Do
  <2>2. g2 = [g1 EXCEPT !.client_to_locks[u.client] = @ \cup {u.on}, !.tracked = @ \cup {u.client},
                        !.mark_free_after[u.on] = NotMarked, !.signals[u.on] = {}]
    <3>1. Written(g1, u) = [g1 EXCEPT !.client_to_locks[u.client] = @ \cup {u.on},
                                      !.tracked = @ \cup {u.client},
                                      !.mark_free_after[u.on] = NotMarked, !.signals[u.on] = {}]
      BY <2>1, ListIsWritten
    <3> QED
      BY <1>3, <3>1
  <2> QED
    BY <2>1, <2>2
<1>7. r = [g2 EXCEPT !.all_locks = @ \cup {l}]
  <2>1. x.does = "index" /\ x.on = l
    BY <1>1 DEF Do
  <2> QED
    BY <1>3, <2>1, WrittenIs
<1>8. /\ g1.locks_to_client = [g.locks_to_client EXCEPT ![l] = c]
      /\ g1.client_to_locks = g.client_to_locks /\ g1.tracked = g.tracked
      /\ g1.all_locks = g.all_locks /\ g1.mark_free_after = g.mark_free_after
      /\ g1.signals = g.signals /\ g1.client_last_address = g.client_last_address
  BY <1>4, <1>5 DEF Storages
<1>9. /\ g2.client_to_locks = [g1.client_to_locks EXCEPT ![c] = @ \cup {l}]
      /\ g2.tracked = g1.tracked \cup {c}
      /\ g2.mark_free_after = [g1.mark_free_after EXCEPT ![l] = NotMarked]
      /\ g2.signals = [g1.signals EXCEPT ![l] = {}]
      /\ g2.locks_to_client = g1.locks_to_client /\ g2.all_locks = g1.all_locks
      /\ g2.client_last_address = g1.client_last_address
  BY <1>4, <1>6 DEF Storages
<1>10. /\ r.all_locks = g2.all_locks \cup {l}
       /\ r.client_to_locks = g2.client_to_locks /\ r.tracked = g2.tracked
       /\ r.locks_to_client = g2.locks_to_client /\ r.mark_free_after = g2.mark_free_after
       /\ r.signals = g2.signals /\ r.client_last_address = g2.client_last_address
  BY <1>4, <1>7 DEF Storages
<1>11. Entered(r, g, c, l)
  BY <1>8, <1>9, <1>10 DEF Entered
<1>12. After(g, <<o, u, x>>) = r /\ <<o, u, x>> \in Seq(Writes)
  BY <1>2, <1>3, AfterThree
<1> QED
  BY <1>1, <1>11, <1>12

(* acquire, where the lock is free.                                        *)
LEMMA AcquisitionComes ==
  ASSUME Memory \in Memories, NEW c \in Clients, NEW l \in LockIds, IsFree(l)
  PROVE  \E g : /\ Lacks(g, Memory, IF Lapsed(l) THEN {l} ELSE {}, {})
                /\ Entered(After(Memory, Acquisition(c, l)), g, c, l)
<1>1. PICK m : m = Memory
  OBVIOUS
<1>2. PICK d : d = DeletionIf(Lapsed(l), l)
  OBVIOUS
<1>3. d = IF Lapsed(l) THEN DeletionOf(m, l) ELSE <<>>
  BY <1>1, <1>2, DeletionOfMemory DEF DeletionIf
<1>4. d \in Seq(Tasks)
  BY <1>2, DeletionIs, WritesAreTasks DEF Lapsed
<1>5. PICK g : g = After(m, d)
  OBVIOUS
<1>6. Lacks(g, m, IF Lapsed(l) THEN {l} ELSE {}, {})
  <2>1. Lapsed(l) \in BOOLEAN
    BY DEF Lapsed
  <2> QED
    BY <1>1, <1>3, <1>5, <2>1, DeletionIfComes
<1>7. PICK e : e = <<Do("own", c, l), Do("list", c, l), Do("index", c, l)>>
  OBVIOUS
<1>8. g \in Memories
  BY <1>6 DEF Lacks
<1>9. e \in Seq(Tasks) /\ Entered(After(g, e), g, c, l)
  BY <1>7, <1>8, EnteringWrites, WritesAreTasks
<1>10. After(m, d \o e) = After(g, e)
  BY <1>1, <1>4, <1>5, <1>9, AfterConcat
<1>11. Acquisition(c, l) = d \o e
  BY <1>2, <1>7 DEF Acquisition
<1> QED
  BY <1>1, <1>6, <1>9, <1>10, <1>11

(* A free lock that is entered leaves the memory whole.                    *)
LEMMA EnteredIsWhole ==
  ASSUME NEW g \in Memories, Whole(g), NEW c \in Clients, NEW l \in LockIds,
         g.locks_to_client[l] = NoClient, NEW r, Entered(r, g, c, l)
  PROVE  Whole(r)
<1>1. /\ g.client_to_locks \in [Clients -> SUBSET LockIds]
      /\ g.locks_to_client \in [LockIds -> Clients \cup {NoClient}]
  BY DEF Memories, Storages
<1>2. ASSUME NEW k \in Clients, NEW x \in LockIds
      PROVE  x \in r.client_to_locks[k] <=> r.locks_to_client[x] = k
  BY <1>1, SentinelAssumption DEF Entered, Whole
<1>3. ASSUME NEW x \in LockIds
      PROVE  x \in r.all_locks <=> r.locks_to_client[x] # NoClient
  BY <1>1, SentinelAssumption DEF Entered, Whole
<1>4. ASSUME NEW k \in Clients, r.client_to_locks[k] # {}
      PROVE  k \in r.tracked
  BY <1>1, <1>4 DEF Entered, Whole
<1> QED
  BY <1>2, <1>3, <1>4 DEF Whole

(* release                                                                 *)
LEMMA KeyIsWritten ==
  ASSUME NEW m \in Memories, NEW c \in Clients, NEW on \in LockIds \cup {NoAddress}
  PROVE  /\ Do("key", c, on) \in Writes
         /\ Written(m, Do("key", c, on)) \in Memories
         /\ Written(m, Do("key", c, on)).client_to_locks = m.client_to_locks
         /\ Written(m, Do("key", c, on)).tracked = m.tracked \cup {c}
         /\ Written(m, Do("key", c, on)).locks_to_client = m.locks_to_client
         /\ Written(m, Do("key", c, on)).all_locks = m.all_locks
         /\ Written(m, Do("key", c, on)).mark_free_after = m.mark_free_after
         /\ Written(m, Do("key", c, on)).signals = m.signals
         /\ Written(m, Do("key", c, on)).client_last_address = m.client_last_address
<1>1. Do("key", c, on) \in Writes
  BY DEF Do, Writes, Steps, Does
<1>2. Written(m, Do("key", c, on)) = [m EXCEPT !.tracked = @ \cup {c}]
  <2>1. Do("key", c, on).does = "key" /\ Do("key", c, on).client = c
    BY DEF Do
  <2> QED
    BY <2>1, WrittenIs
<1>3. m \in Storages
  BY DEF Memories
<1> QED
  BY <1>1, <1>2, <1>3, WrittenIsMemory DEF Storages

(* A release takes the lock away from the list it is on.                   *)
LEMMA ReleaseComes ==
  ASSUME Memory \in Memories, NEW c \in Clients, NEW l \in LockIds
  PROVE  Lacks(After(Memory, ReleaseWrites(c, l)), Written(Memory, Do("key", c, l)),
               {l} \cap client_to_locks[c], {})
<1>1. PICK m : m = Memory
  OBVIOUS
<1>2. PICK k : k = Do("key", c, l)
  OBVIOUS
<1>3. PICK g : g = Written(m, k)
  OBVIOUS
<1>4. /\ k \in Writes /\ g \in Memories /\ g.locks_to_client = m.locks_to_client
      /\ k \in Tasks
  BY <1>1, <1>2, <1>3, KeyIsWritten DEF Tasks
<1>5. PICK b \in BOOLEAN : b <=> l \in client_to_locks[c]
  <2>1. (l \in client_to_locks[c]) \in BOOLEAN
    OBVIOUS
  <2> QED
    BY <2>1
<1>6. PICK d : d = DeletionIf(b, l)
  OBVIOUS
<1>7. d = IF b THEN DeletionOf(g, l) ELSE <<>>
  BY <1>1, <1>4, <1>6, DeletionOfMemory DEF DeletionIf, DeletionOf
<1>8. d \in Seq(Tasks)
  BY <1>6, DeletionIs, WritesAreTasks
<1>9. Lacks(After(g, d), g, IF b THEN {l} ELSE {}, {})
  BY <1>4, <1>7, DeletionIfComes
<1>10. {l} \cap client_to_locks[c] = IF b THEN {l} ELSE {}
  BY <1>5
<1>11. ReleaseWrites(c, l) = <<k>> \o d
  BY <1>2, <1>5, <1>6 DEF ReleaseWrites, DeletionIf
<1>12. After(m, <<k>> \o d) = After(g, d)
  BY <1>1, <1>3, <1>4, <1>8, AfterFirst
<1> QED
  BY <1>1, <1>2, <1>3, <1>9, <1>10, <1>11, <1>12

(* release_all and unrelease_all: the memory r is g with the mark on the   *)
(* locks of S.                                                             *)
Marked(r, g, S, mark) ==
  /\ r \in Memories
  /\ r.client_to_locks = g.client_to_locks /\ r.tracked = g.tracked
  /\ r.locks_to_client = g.locks_to_client /\ r.all_locks = g.all_locks
  /\ r.signals = g.signals /\ r.client_last_address = g.client_last_address
  /\ \A l \in LockIds : r.mark_free_after[l] = IF l \in S THEN mark ELSE g.mark_free_after[l]

MarkOf(does) == IF does = "grace" THEN DefaultReleaseAllTimeout ELSE NotMarked

(* One more lock is marked.                                                *)
LEMMA MarkIsWritten ==
  ASSUME NEW g \in Memories, NEW S, NEW does \in {"grace", "keep"}, NEW h,
         Marked(h, g, S, MarkOf(does)), NEW c \in Clients, NEW l \in LockIds
  PROVE  Marked(Written(h, Do(does, c, l)), g, S \cup {l}, MarkOf(does))
<1>1. PICK s : s = Do(does, c, l)
  OBVIOUS
<1>2. s \in Writes /\ s.does = does /\ s.on = l
  BY <1>1 DEF Do, Writes, Steps, Does
<1>3. PICK r : r = Written(h, s)
  OBVIOUS
<1>4. h \in Memories /\ r \in Memories
  BY <1>2, <1>3, WrittenIsMemory DEF Marked
<1>5. h \in Storages
  BY <1>4 DEF Memories
<1>6. r = [h EXCEPT !.mark_free_after[l] = MarkOf(does)]
  BY <1>2, <1>3, MarkingIsWritten DEF MarkOf
<1>7. /\ r.client_to_locks = h.client_to_locks /\ r.tracked = h.tracked
      /\ r.locks_to_client = h.locks_to_client /\ r.all_locks = h.all_locks
      /\ r.signals = h.signals /\ r.client_last_address = h.client_last_address
      /\ r.mark_free_after = [h.mark_free_after EXCEPT ![l] = MarkOf(does)]
  BY <1>5, <1>6 DEF Storages
<1>8. h.mark_free_after \in [LockIds -> Nat \cup {NotMarked}]
  BY <1>5 DEF Storages
<1>9. \A x \in LockIds :
        r.mark_free_after[x] = IF x \in S \cup {l} THEN MarkOf(does) ELSE g.mark_free_after[x]
  BY <1>7, <1>8 DEF Marked
<1>10. Marked(r, g, S \cup {l}, MarkOf(does))
  BY <1>4, <1>7, <1>9 DEF Marked
<1> QED
  BY <1>1, <1>3, <1>10

(* All locks of an order are marked.                                       *)
LEMMA MarksCome ==
  ASSUME NEW g \in Memories, NEW does \in {"grace", "keep"}, NEW c \in Clients,
         NEW S \in SUBSET LockIds, NEW order, Covers(order, S)
  PROVE  Marked(After(g, OnEach(does, c, order)), g, S, MarkOf(does))
<1>1. PICK w : w = OnEach(does, c, order)
  OBVIOUS
<1>2. order \in Seq(LockIds) /\ \A l \in LockIds : l \in S <=> \E i \in 1 .. Len(order) : order[i] = l
  BY DEF Covers
<1>3. PICK n \in Nat : n = Len(order)
  BY <1>2
<1>4. /\ w \in Seq(Tasks) /\ Len(w) = n
      /\ \A i \in 1 .. n : order[i] \in LockIds /\ w[i] = Do(does, c, order[i])
  BY <1>1, <1>2, <1>3, OnEachIs, WritesAreTasks
<1>5. PICK f : Progress(f, g, w) /\ After(g, w) = f[n]
  BY <1>4, AfterIs
<1>6. PICK D : D = [i \in 0 .. n |-> {order[j] : j \in 1 .. i}]
  OBVIOUS
<1>7. D[0] = {}
  BY <1>6
<1>8. \A i \in 1 .. n : D[i] = D[i - 1] \cup {order[i]}
  <2> TAKE i \in 1 .. n
  <2>1. {order[j] : j \in 1 .. i} = {order[j] : j \in 1 .. i - 1} \cup {order[i]}
    OBVIOUS
  <2>2. D[i] = {order[j] : j \in 1 .. i}
    BY <1>6
  <2>3. D[i - 1] = {order[j] : j \in 1 .. i - 1}
    BY <1>6
  <2> QED
    BY <2>1, <2>2, <2>3
<1>9. D[n] = S
  <2>1. {order[j] : j \in 1 .. n} = S
    BY <1>2, <1>3, <1>4
  <2>2. n \in 0 .. n
    OBVIOUS
  <2> QED
    BY <1>6, <2>1, <2>2
<1> DEFINE P == {i \in 0 .. n : Marked(f[i], g, D[i], MarkOf(does))}
<1>10. 0 \in P
  <2>1. f[0] = g
    BY <1>5 DEF Progress
  <2>2. Marked(g, g, {}, MarkOf(does))
    BY DEF Marked
  <2> QED
    BY <1>7, <2>1, <2>2
<1>11. ASSUME NEW i \in 0 .. n - 1, i \in P
       PROVE  i + 1 \in P
  <2>1. i + 1 \in 1 .. n /\ (i + 1) - 1 = i
    OBVIOUS
  <2>2. f[i + 1] = Written(f[i], w[i + 1])
    BY <1>4, <1>5, <2>1 DEF Progress
  <2>3. PICK l \in LockIds : l = order[i + 1] /\ w[i + 1] = Do(does, c, l)
    BY <1>4, <2>1
  <2>4. PICK E, h : E = D[i] /\ h = f[i] /\ Marked(h, g, E, MarkOf(does))
    BY <1>11
  <2>5. Marked(f[i + 1], g, E \cup {l}, MarkOf(does))
    <3>1. Marked(Written(h, Do(does, c, l)), g, E \cup {l}, MarkOf(does))
      BY <2>4, MarkIsWritten
    <3> QED
      BY <2>2, <2>3, <2>4, <3>1
  <2>6. D[i + 1] = E \cup {l}
    BY <1>8, <2>1, <2>3, <2>4
  <2> QED
    BY <2>1, <2>5, <2>6
<1>12. \A i \in 0 .. n : i \in P
  <2> HIDE DEF P
  <2>1. \A i \in 0 .. n - 1 : i \in P => i + 1 \in P
    BY <1>11
  <2> QED
    BY <1>10, <2>1, InductionTo
<1>13. Marked(f[n], g, D[n], MarkOf(does))
  BY <1>12
<1> QED
  BY <1>1, <1>5, <1>9, <1>13

(* A marking marks the locks on the client's list.                         *)
LEMMA MarkingComes ==
  ASSUME Memory \in Memories, NEW c \in Clients, NEW does \in {"grace", "keep"},
         NEW order \in ListOrders(c)
  PROVE  Marked(After(Memory, Marking(does, c, order)), Written(Memory, Do("key", c, NoAddress)),
                client_to_locks[c], MarkOf(does))
<1>1. PICK m : m = Memory
  OBVIOUS
<1>2. PICK k : k = Do("key", c, NoAddress)
  OBVIOUS
<1>3. PICK g \in Memories : g = Written(m, k)
  BY <1>1, <1>2, KeyIsWritten
<1>4. k \in Tasks
  BY <1>1, <1>2, KeyIsWritten DEF Tasks
<1>5. PICK S : S = client_to_locks[c]
  OBVIOUS
<1>6. S \in SUBSET LockIds
  BY <1>5 DEF Memory, Memories, Storages
<1>7. Covers(order, S)
  BY <1>5, ListOrderIs DEF Covers
<1>8. PICK w : w = OnEach(does, c, order)
  OBVIOUS
<1>9. w \in Seq(Tasks)
  BY <1>7, <1>8, OnEachIs, WritesAreTasks DEF Covers
<1>10. Marked(After(g, w), g, S, MarkOf(does))
  BY <1>6, <1>7, <1>8, MarksCome
<1>11. After(m, <<k>> \o w) = After(g, w)
  BY <1>1, <1>3, <1>4, <1>9, AfterFirst
<1>12. Marking(does, c, order) = <<k>> \o w
  BY <1>2, <1>8 DEF Marking
<1> QED
  BY <1>1, <1>2, <1>3, <1>5, <1>10, <1>11, <1>12

(* A marking only writes marks.                                            *)
LEMMA MarkingIsQuiet ==
  ASSUME Memory \in Memories, NEW c \in Clients, NEW does \in {"grace", "keep"},
         NEW order \in ListOrders(c)
  PROVE  AllQuiet(Marking(does, c, order))
<1>1. PICK k, w : k = Do("key", c, NoAddress) /\ w = OnEach(does, c, order)
  OBVIOUS
<1>2. order \in Seq(LockIds)
  BY ListOrderIs
<1>3. w \in Seq(Tasks) /\ Len(w) = Len(order) /\ \A i \in 1 .. Len(order) : w[i] = Do(does, c, order[i])
  BY <1>1, <1>2, OnEachIs, WritesAreTasks
<1>4. \A i \in 1 .. Len(w) : w[i].does \in Quiet
  <2> TAKE i \in 1 .. Len(w)
  <2>1. w[i] = Do(does, c, order[i])
    BY <1>3
  <2>2. Do(does, c, order[i]).does = does
    BY DEF Do
  <2> QED
    BY <2>1, <2>2 DEF Quiet
<1>5. k.does \in Quiet
  BY <1>1 DEF Do, Quiet
<1>6. \A i \in 1 .. Len(<<k>> \o w) : (<<k>> \o w)[i].does \in Quiet
  <2> TAKE i \in 1 .. Len(<<k>> \o w)
  <2>1. Len(<<k>> \o w) = 1 + Len(w)
    BY <1>3
  <2>2. (<<k>> \o w)[i] = IF i = 1 THEN k ELSE w[i - 1]
    BY <1>3, <2>1
  <2>3. i # 1 => i - 1 \in 1 .. Len(w)
    BY <1>3, <2>1
  <2> QED
    BY <1>4, <1>5, <2>2, <2>3
<1>7. Marking(does, c, order) = <<k>> \o w
  BY <1>1 DEF Marking
<1> QED
  BY <1>6, <1>7 DEF AllQuiet

-----------------------------------------------------------------------------
(* Memories that are whole when the handlers are done.                     *)

(* The writes that a handler still has to make leave the memory whole.     *)
Guards(w) == Whole(Memory) /\ Whole(After(Memory, w)) /\ (commands = 0 => AllQuiet(w))

(* Inside the guard only a command may have torn the memory.               *)
Inside(w) == Whole(After(Memory, w)) /\ (commands = 0 => AllQuiet(w) /\ Whole(Memory))

SoundForm ==
  \/ \E w \in Seq(Writes) : Unguarded(w) /\ Safe(Memory, w)
  \/ \E w \in Seq(Writes), more \in Mores : (Checking(w, more) \/ Entering(w, more)) /\ Guards(w)
  \/ \E w \in Seq(Writes), more \in Mores : Within(w, more) /\ Inside(w)
  \/ Terminating /\ Whole(Memory)

(* Acquiring leaves a whole memory whole.                                  *)
LEMMA AcquisitionIsWhole ==
  ASSUME Memory \in Memories, Whole(Memory), NEW c \in Clients, NEW l \in LockIds
  PROVE  Whole(After(Memory, Acquisition(c, l)))
<1>1. CASE ~IsFree(l)
  <2>1. Acquisition(c, l) = <<>>
    BY <1>1 DEF Acquisition
  <2> QED
    BY <2>1, AfterNothing
<1>2. CASE IsFree(l)
  <2>1. PICK S : S = IF Lapsed(l) THEN {l} ELSE {}
    OBVIOUS
  <2>2. PICK g : Lacks(g, Memory, S, {}) /\ Entered(After(Memory, Acquisition(c, l)), g, c, l)
    BY <1>2, <2>1, AcquisitionComes
  <2>3. g \in Memories /\ Whole(g)
    <3>1. Cleared(Memory, S, {})
      BY DEF Cleared
    <3> QED
      BY <2>2, <3>1, LacksIsWhole DEF Lacks
  <2>4. g.locks_to_client[l] = NoClient
    <3>1. g.locks_to_client[l] = IF l \in S THEN NoClient ELSE locks_to_client[l]
      BY <2>2 DEF Lacks, Memory
    <3> QED
      BY <1>2, <2>1, <3>1 DEF IsFree
  <2> QED
    BY <2>2, <2>3, <2>4, EnteredIsWhole
<1> QED
  BY <1>1, <1>2

(* So does releasing.                                                      *)
LEMMA ReleaseIsWhole ==
  ASSUME Memory \in Memories, Whole(Memory), NEW c \in Clients, NEW l \in LockIds
  PROVE  Whole(After(Memory, ReleaseWrites(c, l)))
<1>1. PICK g, S, r : /\ g = Written(Memory, Do("key", c, l))
                     /\ S = {l} \cap client_to_locks[c]
                     /\ r = After(Memory, ReleaseWrites(c, l))
  OBVIOUS
<1>2. Lacks(r, g, S, {})
  BY <1>1, ReleaseComes
<1>3. Do("key", c, l) \in Writes /\ Do("key", c, l).does \in Quiet /\ g \in Memories
  BY <1>1, KeyIsWritten DEF Do, Quiet
<1>4. Whole(g)
  BY <1>1, <1>3, QuietKeepsWhole
<1>5. Cleared(g, S, {})
  BY DEF Cleared
<1> QED
  BY <1>1, <1>2, <1>3, <1>4, <1>5, LacksIsWhole

(* Asking for a lock is safe: a signal may fall between its writes.        *)
LEMMA LockedIsSafe ==
  ASSUME Memory \in Memories, Whole(Memory), NEW l \in LockIds
  PROVE  Safe(Memory, DeletionIf(Lapsed(l), l))
<1>1. CASE ~Lapsed(l)
  <2>1. DeletionIf(Lapsed(l), l) = <<>>
    BY <1>1 DEF DeletionIf
  <2> QED
    BY <2>1, SafeNothing
<1>2. CASE Lapsed(l)
  <2>1. PICK m : m = Memory
    OBVIOUS
  <2>2. DeletionIf(Lapsed(l), l) = DeletionOf(m, l)
    BY <1>2, <2>1, DeletionOfMemory DEF DeletionIf
  <2>3. m \in Memories /\ Whole(m) /\ Lacks(m, m, {}, {}) /\ Cleared(m, {}, {})
    BY <2>1, NothingLacks DEF Cleared
  <2>4. m.locks_to_client[l] \in Clients /\ m.mark_free_after[l] = 0
    <3>1. l \in m.all_locks /\ m.mark_free_after[l] = 0
      BY <1>2, <2>1 DEF Lapsed, Expired, Memory
    <3>2. m.locks_to_client[l] \in Clients \cup {NoClient}
      BY <2>3 DEF Memories, Storages
    <3> QED
      BY <2>3, <3>1, <3>2 DEF Whole
  <2>5. Safe(m, DeletionOf(m, l))
    BY <2>3, <2>4, DeletionIsSafe
  <2> QED
    BY <2>1, <2>2, <2>5
<1> QED
  BY <1>1, <1>2

(* One quiet write.                                                        *)
LEMMA OneIsQuiet ==
  ASSUME NEW s, s.does \in Quiet
  PROVE  AllQuiet(<<s>>)
  BY DEF AllQuiet

(* The signal methods write quietly.                                       *)
LEMMA SignalIsQuiet ==
  ASSUME NEW l, NEW s, NEW does \in {"signal", "unsignal"}
  PROVE  AllQuiet(SignalWrites(does, l, s))
<1>1. AllQuiet(<<>>)
  BY DEF AllQuiet
<1>2. AllQuiet(<<Do(does, NoClient, <<l, s>>)>>)
  <2>1. Do(does, NoClient, <<l, s>>).does \in Quiet
    BY DEF Do, Quiet
  <2> QED
    BY <2>1, OneIsQuiet
<1> QED
  BY <1>1, <1>2 DEF SignalWrites

(* Every handler that begins in a whole memory leads to one.               *)
LEMMA BeginSound ==
  ASSUME Memory \in Memories, Whole(Memory), ops = 0, HandlerBegins
  PROVE  SoundForm'
<1>0. Memory' = Memory /\ commands' \in {0, 1}
  BY BeginIsQuiet DEF Memory, storageVars
<1>1. ASSUME NEW w \in Seq(Writes), NEW more \in Mores, Checking(w, more)',
             Whole(After(Memory, w)), commands' = 1
      PROVE  SoundForm'
  <2>1. Guards(w)'
    BY <1>0, <1>1 DEF Guards
  <2> QED
    BY <1>1, <2>1 DEF SoundForm
<1>2. ASSUME NEW w \in Seq(Writes), NEW more \in Mores, Checking(w, more)', AllQuiet(w)
      PROVE  SoundForm'
  <2>1. Whole(After(Memory, w))
    BY <1>2, QuietAfter
  <2>2. Guards(w)'
    BY <1>0, <1>2, <2>1 DEF Guards
  <2> QED
    BY <1>2, <2>2 DEF SoundForm
<1>3. CASE \E c \in Clients, l \in LockIds : Aq(c, l)
  <2>1. PICK c \in Clients, l \in LockIds : Aq(c, l)
    BY <1>3
  <2>2. PICK w \in Seq(Writes) : w = Acquisition(c, l) /\ Checking(w, <<>>)' /\ commands' = 1
    BY <2>1, AqBegins
  <2> QED
    BY <1>1, <2>2, AcquisitionIsWhole, EmptyWrites
<1>4. CASE \E c \in Clients, l \in LockIds : ReleaseCommand(c, l)
  <2>1. PICK c \in Clients, l \in LockIds : ReleaseCommand(c, l)
    BY <1>4
  <2>2. PICK w \in Seq(Writes) : w = ReleaseWrites(c, l) /\ Checking(w, <<>>)' /\ commands' = 1
    BY <2>1, ReleaseBegins
  <2> QED
    BY <1>1, <2>2, ReleaseIsWhole, EmptyWrites
<1>5. CASE \E l \in LockIds : LockedCommand(l)
  <2>1. PICK l \in LockIds : LockedCommand(l)
    BY <1>5
  <2>2. PICK w \in Seq(Writes) : w = DeletionIf(Lapsed(l), l) /\ Unguarded(w)'
    BY <2>1, LockedBegins
  <2>3. Safe(Memory, w)
    BY <2>2, LockedIsSafe
  <2>4. Unguarded(w)' /\ Safe(Memory, w)'
    BY <1>0, <2>2, <2>3 DEF Safe, Progress
  <2> QED
    BY <2>4 DEF SoundForm
<1>6. CASE \E c \in Clients, k \in Addresses : ConnAs(c, k)
  <2>1. PICK c \in Clients, k \in Addresses : ConnAs(c, k)
    BY <1>6
  <2>2. PICK order \in ListOrders(c), w \in Seq(Writes), more \in Mores :
          w = Marking("keep", c, order) /\ Checking(w, more)'
    BY <2>1, ConnAsBegins
  <2> QED
    BY <1>2, <2>2, MarkingIsQuiet
<1>7. CASE \E c \in Clients, k \in Addresses : ConnNew(c, k)
  <2>1. PICK c \in Clients, k \in Addresses : ConnNew(c, k)
    BY <1>7
  <2>2. PICK w \in Seq(Writes) : w = <<Do("address", c, k)>> /\ Checking(w, <<>>)'
    BY <2>1, ConnNewBegins
  <2>3. Do("address", c, k).does \in Quiet
    BY DEF Do, Quiet
  <2> QED
    BY <1>2, <2>2, <2>3, OneIsQuiet, EmptyWrites
<1>8. CASE \E l \in LockIds, s \in Signals, does \in {"signal", "unsignal"} : SignalCommand(does, l, s)
  <2>1. PICK l \in LockIds, s \in Signals, does \in {"signal", "unsignal"} : SignalCommand(does, l, s)
    BY <1>8
  <2>2. PICK w \in Seq(Writes) : w = SignalWrites(does, l, s) /\ Checking(w, <<>>)'
    BY <2>1, SignalBegins
  <2> QED
    BY <1>2, <2>2, SignalIsQuiet, EmptyWrites
<1>9. CASE Shutdown
  <2>1. Terminating'
    BY <1>9, ShutdownBegins
  <2> QED
    BY <1>0, <2>1 DEF SoundForm
<1>10. CASE \E c \in Clients : ConnectionLost(c)
  <2>1. PICK c \in Clients : ConnectionLost(c)
    BY <1>10
  <2>2. PICK order \in ListOrders(c), w \in Seq(Writes) :
          w = Marking("grace", c, order) /\ Checking(w, <<>>)'
    BY <2>1, LostBegins
  <2> QED
    BY <1>2, <2>2, MarkingIsQuiet, EmptyWrites
<1>11. CASE MaintenanceRun
  <2>1. PICK visit, orders, w :
          /\ w \in Seq(Writes) /\ SweepOrders(visit, orders) /\ w = Sweep(visit, orders)
          /\ Unguarded(w)'
    BY <1>11, MaintenanceBegins
  <2>2. Safe(Memory, w)
    BY <2>1, SweepReaches DEF Takes
  <2>3. Unguarded(w)' /\ Safe(Memory, w)'
    BY <1>0, <2>1, <2>2 DEF Safe, Progress
  <2> QED
    BY <2>1, <2>3 DEF SoundForm
<1> QED
  BY <1>3, <1>4, <1>5, <1>6, <1>7, <1>8, <1>9, <1>10, <1>11 DEF HandlerBegins

(* Whatever was written to the file can be repaired, and a server that     *)
(* runs or still has something to do leads its memory to one that is whole.*)
WholeInv ==
  /\ dump # NoDump => Repairable(dump)
  /\ status = "running" \/ (status = "exiting" /\ todo # <<>>) => SoundForm

(* Where a signal may dump, the memory is repairable.                      *)
LEMMA SoundIsRepairable ==
  ASSUME Memory \in Memories, SoundForm, commands = 0 \/ ops = 0
  PROVE  Repairable(Memory)
<1>1. CASE \E w \in Seq(Writes) : Unguarded(w) /\ Safe(Memory, w)
  BY <1>1, SafeIs, WritesAreTasks
<1>2. CASE \E w \in Seq(Writes), more \in Mores : (Checking(w, more) \/ Entering(w, more)) /\ Guards(w)
  BY <1>2 DEF Guards, Repairable
<1>3. CASE \E w \in Seq(Writes), more \in Mores : Within(w, more) /\ Inside(w)
  BY <1>3 DEF Within, Inside, Repairable
<1>4. CASE Terminating /\ Whole(Memory)
  BY <1>4 DEF Repairable
<1> QED
  BY <1>1, <1>2, <1>3, <1>4 DEF SoundForm

(* The rest of a handler ends where the handler did.                       *)
LEMMA RestIsWhole ==
  ASSUME NEW m \in Memories, NEW w \in Seq(Writes), w # <<>>
  PROVE  /\ Whole(After(m, w)) => Whole(After(Written(m, Head(w)), Tail(w)))
         /\ AllQuiet(w) => AllQuiet(Tail(w))
         /\ AllQuiet(w) /\ Whole(m) => Whole(Written(m, Head(w)))
<1>1. w \in Seq(Tasks) /\ Head(w) \in Writes /\ Tail(w) \in Seq(Writes)
  BY WritesAreTasks
<1>2. After(m, w) = After(Written(m, Head(w)), Tail(w))
  BY <1>1, AfterHead
<1>3. ASSUME AllQuiet(w)
      PROVE  AllQuiet(Tail(w)) /\ Head(w).does \in Quiet
  <2>1. \A i \in 1 .. Len(Tail(w)) : Tail(w)[i] = w[i + 1] /\ i + 1 \in 1 .. Len(w)
    OBVIOUS
  <2>2. Head(w) = w[1] /\ 1 \in 1 .. Len(w)
    OBVIOUS
  <2> QED
    BY <1>3, <2>1, <2>2 DEF AllQuiet
<1> QED
  BY <1>1, <1>2, <1>3, QuietKeepsWhole

(* A step of a handler.                                                    *)
LEMMA StepSound ==
  ASSUME TypeInv, SoundForm, HandlerStep
  PROVE  SoundForm' /\ (dump' = dump \/ (dump' = Memory /\ Whole(Memory)))
<1>0. commands \in {0, 1} /\ Memory \in Memories
  BY DEF TypeInv
<1>1. ASSUME Unguarded(<<>>)', Memory' = Memory, Whole(Memory)
      PROVE  SoundForm'
  <2>1. Safe(Memory, <<>>)
    BY <1>0, <1>1, SafeNothing
  <2>2. Safe(Memory, <<>>)'
    BY <1>1, <2>1 DEF Safe, Progress
  <2> QED
    BY <1>1, <2>2, EmptyWrites DEF SoundForm
<1>2. CASE \E w \in Seq(Writes) : Unguarded(w) /\ Safe(Memory, w)
  <2>1. PICK w \in Seq(Writes) : Unguarded(w) /\ Safe(Memory, w)
    BY <1>2
  <2>2. w \in Seq(Tasks) /\ todo \in Seq(Tasks)
    BY <1>0, <2>1, WritesAreTasks, UnguardedIs
  <2>3. CASE Write /\ w # <<>> /\ Head(todo) = Head(w) /\ Unguarded(Tail(w))'
    <3>1. Memory' = Written(Memory, Head(w))
      BY <2>2, <2>3, WriteIsWritten
    <3>2. PICK m, t : m = Written(Memory, Head(w)) /\ t = Tail(w)
      OBVIOUS
    <3>3. Safe(m, t) /\ t \in Seq(Writes)
      BY <1>0, <2>1, <2>2, <2>3, <3>2, SafeRest
    <3>4. Safe(Memory, t)'
      BY <3>1, <3>2, <3>3 DEF Safe, Progress
    <3>5. Unguarded(t)'
      BY <2>3, <3>2
    <3> QED
      BY <2>3, <3>3, <3>4, <3>5 DEF SoundForm, Write
  <2>4. CASE End /\ w = <<>> /\ Unguarded(<<>>)'
    <3>1. Memory' = Memory
      BY <2>4 DEF End, Memory, storageVars
    <3>2. Whole(Memory)
      BY <1>0, <2>1, <2>2, <2>4, SafeIs, AfterNothing
    <3> QED
      BY <1>1, <2>4, <3>1, <3>2 DEF End, Die
  <2> QED
    BY <1>0, <2>1, <2>3, <2>4, UnguardedSteps
<1>3. CASE \E w \in Seq(Writes), more \in Mores : Within(w, more) /\ Inside(w)
  <2>1. PICK w \in Seq(Writes), more \in Mores : Within(w, more) /\ Inside(w)
    BY <1>3
  <2>2. w \in Seq(Tasks) /\ todo \in Seq(Tasks)
    BY <1>0, <2>1, WritesAreTasks, WithinIs
  <2>3. CASE Write /\ w # <<>> /\ Head(todo) = Head(w) /\ Within(Tail(w), more)'
    <3>1. Memory' = Written(Memory, Head(w)) /\ commands' = commands
      BY <2>2, <2>3, WriteIsWritten DEF TypeInv, Write, processVars
    <3>2. Inside(Tail(w))'
      BY <1>0, <2>1, <2>3, <3>1, RestIsWhole DEF Inside
    <3>0. Tail(w) \in Seq(Writes)
      BY <2>1, <2>3
    <3>3. PICK t \in Seq(Writes) : t = Tail(w)
      BY <3>0
    <3>4. Within(t, more)' /\ Inside(t)'
      BY <2>3, <3>2, <3>3
    <3> QED
      BY <2>3, <3>4 DEF SoundForm, Write
  <2>4. ASSUME Leave, w = <<>>
        PROVE  Memory' = Memory /\ Whole(Memory) /\ (dump' = dump \/ dump' = Memory)
    <3>1. Memory' = Memory
      BY <2>4 DEF Leave, Memory, storageVars
    <3>2. Whole(Memory)
      BY <1>0, <2>1, <2>4, AfterNothing DEF Inside
    <3> QED
      BY <2>4, <3>1, <3>2 DEF Leave
  <2>5. CASE Leave /\ w = <<>> /\ Unguarded(<<>>)'
    BY <1>1, <2>4, <2>5
  <2>6. CASE /\ Leave /\ w = <<>>
             /\ \E s \in Writes : s.does = "address" /\ more = Guarded(<<s>>) /\ Checking(<<s>>, <<>>)'
    <3>1. PICK s \in Writes : s.does = "address" /\ Checking(<<s>>, <<>>)'
      BY <2>6
    <3>2. <<s>> \in Seq(Writes) /\ AllQuiet(<<s>>)
      BY <3>1, OneIsQuiet DEF Quiet
    <3>3. Whole(After(Memory, <<s>>))
      BY <1>0, <2>4, <2>6, <3>2, QuietAfter
    <3>4. Guards(<<s>>)'
      BY <2>4, <2>6, <3>2, <3>3 DEF Guards
    <3> QED
      BY <2>4, <2>6, <3>1, <3>2, <3>4, EmptyWrites DEF SoundForm
  <2> QED
    BY <1>0, <2>1, <2>3, <2>5, <2>6, WithinSteps
<1>4. CASE \E w \in Seq(Writes), more \in Mores : Entering(w, more) /\ Guards(w)
  <2>1. PICK w \in Seq(Writes), more \in Mores : Entering(w, more) /\ Guards(w)
    BY <1>4
  <2>2. Enter /\ Within(w, more)'
    BY <1>0, <2>1, EnteringSteps
  <2>3. Inside(w)'
    BY <2>1, <2>2 DEF Guards, Inside, Enter, Memory, storageVars
  <2> QED
    BY <2>2, <2>3 DEF SoundForm, Enter
<1>5. CASE \E w \in Seq(Writes), more \in Mores : Checking(w, more) /\ Guards(w)
  <2>1. PICK w \in Seq(Writes), more \in Mores : Checking(w, more) /\ Guards(w)
    BY <1>5
  <2>2. Check /\ IF kill_active THEN Unguarded(<<>>)' ELSE Entering(w, more)'
    BY <1>0, <2>1, CheckingSteps
  <2>3. Memory' = Memory /\ commands' = commands /\ dump' = dump
    BY <2>2 DEF Check, Memory, storageVars, processVars
  <2>4. Guards(w)'
    BY <2>1, <2>3 DEF Guards
  <2> QED
    BY <1>1, <2>1, <2>2, <2>3, <2>4 DEF SoundForm, Guards
<1>6. CASE Terminating /\ Whole(Memory)
  <2>1. Terminate /\ Unguarded(<<>>)'
    BY <1>6, TerminatingSteps
  <2>2. Memory' = Memory /\ dump' = Memory
    BY <1>6, <2>1 DEF Terminate, OnKillRequested, Memory, storageVars, Terminating
  <2> QED
    BY <1>1, <1>6, <2>1, <2>2
<1> QED
  BY <1>2, <1>3, <1>4, <1>5, <1>6 DEF SoundForm

(* A step of a handler keeps the memory's promise.                         *)
LEMMA StepWhole ==
  ASSUME ShutdownInv, WholeInv, HandlerStep
  PROVE  WholeInv'
<1>1. todo # <<>> /\ status # "killed" /\ TypeInv /\ Going
  BY DEF ShutdownInv, HandlerStep, Write, Check, Enter, Leave, End, Terminate, HeadDoes
<1>2. SoundForm
  BY <1>1 DEF WholeInv, Going, TypeInv
<1>3. SoundForm' /\ (dump' = dump \/ (dump' = Memory /\ Whole(Memory)))
  BY <1>1, <1>2, StepSound
<1> QED
  BY <1>1, <1>3 DEF WholeInv, Repairable

(* Between handlers a running server's memory is whole.                    *)
LEMMA RestIsWholeMemory ==
  ASSUME TypeInv, SoundForm, todo = <<>>
  PROVE  Whole(Memory) /\ ops = 0 /\ commands = 0
<1>1. commands \in {0, 1} /\ Memory \in Memories
  BY DEF TypeInv
<1>2. ASSUME NEW w \in Seq(Writes), Unguarded(w), Safe(Memory, w)
      PROVE  Whole(Memory) /\ ops = 0 /\ commands = 0
  <2>1. w = <<>> /\ Ending(commands) = <<>>
    BY <1>1, <1>2, UnguardedIs
  <2>2. Whole(Memory)
    BY <1>1, <1>2, <2>1, SafeIs, AfterNothing, WritesAreTasks
  <2> QED
    BY <1>1, <1>2, <2>1, <2>2 DEF Unguarded, Ending
<1>3. ASSUME NEW w \in Seq(Writes), NEW more \in Mores
      PROVE  ~Checking(w, more) /\ ~Entering(w, more) /\ ~Within(w, more)
  BY <1>1, CheckingIs, EnteringIs, WithinIs
<1>4. ~Terminating
  BY TerminatingIs
<1> QED
  BY <1>2, <1>3, <1>4 DEF SoundForm

(* The beginning of a handler makes it.                                    *)
LEMMA BeginWhole ==
  ASSUME ShutdownInv, WholeInv, HandlerBegins
  PROVE  WholeInv'
<1>1. status = "running" /\ todo = <<>> /\ dump' = dump /\ TypeInv
  BY BeginIsQuiet DEF ShutdownInv
<1>2. Whole(Memory) /\ ops = 0
  BY <1>1, RestIsWholeMemory DEF WholeInv
<1>3. SoundForm'
  BY <1>1, <1>2, BeginSound DEF TypeInv
<1> QED
  BY <1>1, <1>3 DEF WholeInv

(* A server that has just begun, or waits, with a whole memory.            *)
LEMMA RestingSound ==
  ASSUME ops' = 0, commands' = 0, todo' = <<>>, Memory' \in Memories, Whole(Memory)'
  PROVE  SoundForm'
<1>1. PICK m : m = Memory'
  OBVIOUS
<1>2. Safe(m, <<>>)
  BY <1>1, SafeNothing DEF Whole
<1>3. Safe(Memory, <<>>)'
  BY <1>1, <1>2 DEF Safe, Progress
<1>4. Unguarded(<<>>)'
  BY DEF Unguarded, Ending
<1> QED
  BY <1>3, <1>4, EmptyWrites DEF SoundForm

(* It stays where nothing is written.                                      *)
LEMMA SameSound ==
  ASSUME SoundForm, Memory' = Memory, todo' = todo, ops' = ops, commands' = commands
  PROVE  SoundForm'
<1>1. ASSUME NEW w \in Seq(Writes), Unguarded(w), Safe(Memory, w)
      PROVE  SoundForm'
  <2>1. Unguarded(w)' /\ Safe(Memory, w)'
    BY <1>1 DEF Unguarded, Safe, Progress
  <2> QED
    BY <2>1 DEF SoundForm
<1>2. ASSUME NEW w \in Seq(Writes), NEW more \in Mores, Checking(w, more) \/ Entering(w, more), Guards(w)
      PROVE  SoundForm'
  <2>1. (Checking(w, more)' \/ Entering(w, more)') /\ Guards(w)'
    BY <1>2 DEF Checking, Entering, Guards
  <2> QED
    BY <2>1 DEF SoundForm
<1>3. ASSUME NEW w \in Seq(Writes), NEW more \in Mores, Within(w, more), Inside(w)
      PROVE  SoundForm'
  <2>1. Within(w, more)' /\ Inside(w)'
    BY <1>3 DEF Within, Inside
  <2> QED
    BY <2>1 DEF SoundForm
<1>4. ASSUME Terminating, Whole(Memory)
      PROVE  SoundForm'
  <2>1. Terminating' /\ Whole(Memory)'
    BY <1>4 DEF Terminating
  <2> QED
    BY <2>1 DEF SoundForm
<1> QED
  BY <1>1, <1>2, <1>3, <1>4 DEF SoundForm

(* A signal dumps a repairable memory at worst.                            *)
LEMMA SignalWhole ==
  ASSUME ShutdownInv, WholeInv, KillSignal
  PROVE  WholeInv'
<1>1. /\ TypeInv /\ SoundForm /\ Memory \in Memories /\ commands \in {0, 1} /\ ops \in {0, 1}
      /\ Memory' = Memory /\ ops' = ops /\ commands' = commands /\ status = "running"
  BY DEF ShutdownInv, WholeInv, KillSignal, OnKillRequested, TypeInv, Memory, storageVars
<1>2. dump' # NoDump => Repairable(dump')
  <2>1. dump' = dump \/ (dump' = Memory /\ (ops = 0 \/ commands = 0))
    BY <1>1 DEF KillSignal, OnKillRequested, Die
  <2> QED
    BY <1>1, <2>1, SoundIsRepairable DEF WholeInv
<1>3. CASE commands = 1
  <2>1. todo' = todo /\ status' = status
    BY <1>3 DEF KillSignal, OnKillRequested
  <2> QED
    BY <1>1, <1>2, <2>1, SameSound DEF WholeInv
<1>4. CASE commands = 0
  <2>1. todo' = Unwound /\ status' = "exiting"
    BY <1>4 DEF KillSignal, OnKillRequested
  <2>2. CASE ops = 0
    <3>1. todo' = <<>>
      BY <1>4, <2>1, <2>2 DEF Unwound
    <3> QED
      BY <1>2, <2>1, <3>1 DEF WholeInv
  <2>3. CASE ops = 1
    <3>1. Whole(Memory)
      BY <1>1, <1>4, <2>3 DEF SoundForm, Unguarded, Checking, Entering, Terminating, Inside
    <3>2. Bare("leave") \in Tasks
      BY BareIsTask DEF Bookkeeping
    <3>3. Within(<<>>, <<>>)'
      BY <1>1, <1>4, <2>1, <2>3, <3>2 DEF Within, Leaving, Ending, Unwound
    <3>4. Inside(<<>>)'
      <4>1. AllQuiet(<<>>) /\ Whole(After(Memory, <<>>))
        BY <1>1, <3>1, AfterNothing DEF AllQuiet
      <4> QED
        BY <1>1, <3>1, <4>1 DEF Inside
    <3>5. SoundForm'
      BY <3>3, <3>4, EmptyWrites DEF SoundForm
    <3> QED
      BY <1>2, <3>5 DEF WholeInv
  <2> QED
    BY <1>1, <2>2, <2>3
<1> QED
  BY <1>1, <1>3, <1>4

(* A torn file is not loaded, and a whole one is made a whole memory.      *)
LEMMA SweptLacks ==
  ASSUME dump \in Memories, Whole(dump)
  PROVE  Lacks(Swept, dump, Saved!ExpiredListed, Saved!LeftWithout)
         /\ Cleared(dump, Saved!ExpiredListed, Saved!LeftWithout)
<1>1. dump \in Storages /\ Swept \in Memories
  BY LoadedIsMemory DEF Memories
<1>2. PICK S, T, U : S = Saved!ExpiredListed /\ T = Saved!LeftWithout /\ U = Saved!Unlisted(S)
  OBVIOUS
<1>3. U = [c \in Clients |-> dump.client_to_locks[c] \ {l \in S : dump.locks_to_client[l] = c}]
  BY <1>2 DEF Saved!Unlisted
<1>4. Swept = [dump EXCEPT !.client_to_locks = U,
                           !.tracked = @ \ T,
                           !.locks_to_client = [l \in LockIds |-> IF l \in S THEN NoClient ELSE @[l]],
                           !.all_locks = @ \ S,
                           !.client_last_address = [c \in Clients |-> IF c \in T THEN NoAddress ELSE @[c]]]
  BY <1>2 DEF Swept
<1>5. /\ Swept.client_to_locks = U /\ Swept.tracked = dump.tracked \ T
      /\ Swept.locks_to_client = [l \in LockIds |-> IF l \in S THEN NoClient ELSE dump.locks_to_client[l]]
      /\ Swept.all_locks = dump.all_locks \ S
      /\ Swept.client_last_address =
           [c \in Clients |-> IF c \in T THEN NoAddress ELSE dump.client_last_address[c]]
      /\ Swept.mark_free_after = dump.mark_free_after /\ Swept.signals = dump.signals
  BY <1>1, <1>4 DEF Storages
<1>6. Lacks(Swept, dump, S, T)
  <2>1. ASSUME NEW c \in Clients, NEW l \in LockIds
        PROVE  l \in Swept.client_to_locks[c]
                 <=> l \in dump.client_to_locks[c] /\ ~(l \in S /\ dump.locks_to_client[l] = c)
    BY <1>3, <1>5
  <2>2. /\ \A c \in Clients : c \in Swept.tracked <=> c \in dump.tracked /\ c \notin T
        /\ \A l \in LockIds : Swept.locks_to_client[l] = IF l \in S THEN NoClient ELSE dump.locks_to_client[l]
        /\ \A l \in LockIds : l \in Swept.all_locks <=> l \in dump.all_locks /\ l \notin S
        /\ \A c \in Clients : Swept.client_last_address[c]
                                = IF c \in T THEN NoAddress ELSE dump.client_last_address[c]
    BY <1>5
  <2> QED
    BY <1>1, <1>5, <2>1, <2>2 DEF Lacks
<1>7. Cleared(dump, S, T)
  <2>1. ASSUME NEW c \in Clients, c \in T, NEW l \in LockIds, l \in dump.client_to_locks[c]
        PROVE  l \in S
    <3>1. U[c] = {}
      BY <1>2, <2>1 DEF Saved!LeftWithout
    <3> QED
      BY <1>3, <2>1, <3>1
  <2> QED
    BY <2>1 DEF Cleared
<1> QED
  BY <1>2, <1>6, <1>7

(* A whole dump is loaded whole.                                           *)
LEMMA LoadedIsWhole ==
  ASSUME dump \in Memories, Whole(dump)
  PROVE  Whole(Loaded)
<1>1. Whole(Swept) /\ Swept \in Storages
  BY SweptLacks, LacksIsWhole, LoadedIsMemory DEF Memories
<1>2. /\ Loaded.client_to_locks = Swept.client_to_locks /\ Loaded.tracked = Swept.tracked
      /\ Loaded.locks_to_client = Swept.locks_to_client /\ Loaded.all_locks = Swept.all_locks
  <2> HIDE DEF Swept
  <2> QED
    BY <1>1 DEF Loaded, Storages
<1> QED
  BY <1>1, <1>2 DEF Whole

(* Loading a dump torn in a deletion raises an error.                      *)
LEMMA TornRaises ==
  ASSUME dump \in Memories, Torn(dump)
  PROVE  LoadRaises
<1>1. PICK l \in LockIds, c \in Clients :
        /\ c \in dump.tracked /\ l \in dump.client_to_locks[c]
        /\ dump.mark_free_after[l] = 0 /\ dump.locks_to_client[l] = NoClient
  BY DEF Torn
<1>2. l \in Saved!ExpiredListed
  BY <1>1 DEF Saved!ExpiredListed, Saved!Expired
<1> QED
  BY <1>1, <1>2 DEF LoadRaises, SweepRaises

(* The empty storage is whole.                                             *)
LEMMA CleanedIsWhole == Whole(Cleaned)
  BY SentinelAssumption DEF Cleaned, Whole

(* A restart gives a whole memory, from either file.                       *)
LEMMA BootWhole ==
  ASSUME ShutdownInv, WholeInv, Boot
  PROVE  WholeInv'
<1>1. TypeInv /\ todo = <<>>
  BY DEF ShutdownInv, Going, Boot
<1>2. Memory' \in Memories /\ Whole(Memory')
  <2>1. CASE dump # NoDump /\ ~LoadRaises /\ Becomes(Loaded)
    <3>1. dump \in Memories /\ Whole(dump)
      BY <1>1, <2>1, TornRaises DEF WholeInv, Repairable, TypeInv
    <3>2. Loaded \in Memories /\ Whole(Loaded)
      BY <3>1, LoadedIsMemory, LoadedIsWhole
    <3> QED
      BY <2>1, <3>2, BecomesMemory
  <2>2. CASE Becomes(Cleaned)
    BY <2>2, CleanedIsMemory, CleanedIsWhole, BecomesMemory
  <2> QED
    BY <2>1, <2>2 DEF Boot
<1>3. SoundForm'
  BY <1>1, <1>2, RestingSound DEF Boot
<1> QED
  BY <1>3 DEF WholeInv, Boot

(* Marks that do not stop being passed leave the memory repairable.        *)
LEMMA MarksChangeNothing ==
  ASSUME NEW m, NEW r, Repairable(m),
         r.client_to_locks = m.client_to_locks, r.tracked = m.tracked,
         r.locks_to_client = m.locks_to_client, r.all_locks = m.all_locks,
         \A l \in LockIds : m.mark_free_after[l] = 0 => r.mark_free_after[l] = 0
  PROVE  Repairable(r) /\ (Whole(m) => Whole(r))
<1>1. Whole(m) => Whole(r)
  BY DEF Whole
<1>2. Torn(m) => Torn(r)
  BY DEF Torn
<1> QED
  BY <1>1, <1>2 DEF Repairable

(* Time that passes keeps the promise.                                     *)
LEMMA TickWhole ==
  ASSUME ShutdownInv, WholeInv, Tick
  PROVE  WholeInv'
<1>1. TypeInv /\ TypeInv' /\ todo = <<>> /\ todo' = <<>> /\ UNCHANGED processVars
  BY TickInv DEF ShutdownInv, Tick
<1>2. mark_free_after \in [LockIds -> Nat \cup {NotMarked}] /\ mark_free_after' = Later(mark_free_after)
  BY <1>1 DEF TypeInv, Memory, Memories, Storages, Tick, Elapse, Later
<1>3. ASSUME dump # NoDump
      PROVE  Repairable(dump')
  <2>1. dump \in Storages /\ dump' = [dump EXCEPT !.mark_free_after = Later(@)]
    BY <1>1, <1>3 DEF TypeInv, Memories, Tick
  <2>2. /\ dump'.client_to_locks = dump.client_to_locks /\ dump'.tracked = dump.tracked
        /\ dump'.locks_to_client = dump.locks_to_client /\ dump'.all_locks = dump.all_locks
        /\ dump'.mark_free_after = Later(dump.mark_free_after)
        /\ dump.mark_free_after \in [LockIds -> Nat \cup {NotMarked}]
    BY <2>1 DEF Storages
  <2>3. \A l \in LockIds : dump.mark_free_after[l] = 0 => dump'.mark_free_after[l] = 0
    BY <2>2, LaterIs
  <2> QED
    BY <1>3, <2>2, <2>3, MarksChangeNothing DEF WholeInv
<1>4. ASSUME status = "running"
      PROVE  SoundForm'
  <2>1. Whole(Memory) /\ ops = 0 /\ commands = 0
    BY <1>1, <1>4, RestIsWholeMemory DEF WholeInv
  <2>2. Whole(Memory')
    <3>1. /\ Memory'.client_to_locks = Memory.client_to_locks /\ Memory'.tracked = Memory.tracked
          /\ Memory'.locks_to_client = Memory.locks_to_client /\ Memory'.all_locks = Memory.all_locks
      BY DEF Memory, Tick, Elapse
    <3> QED
      BY <2>1, <3>1 DEF Whole
  <2> QED
    BY <1>1, <2>1, <2>2, RestingSound DEF processVars, TypeInv
<1>5. dump' # NoDump => dump # NoDump
  BY DEF Tick
<1> QED
  BY <1>1, <1>3, <1>4, <1>5 DEF WholeInv, processVars

(* The first process has a whole memory.                                   *)
LEMMA WholeInit ==
  ASSUME ShutdownInit
  PROVE  WholeInv
<1>1. Whole(Memory) /\ Memory \in Memories
  BY InitInv, SentinelAssumption DEF ShutdownInit, StorageInit, Memory, Whole, ShutdownInv, TypeInv
<1>2. Unguarded(<<>>)
  BY DEF ShutdownInit, Unguarded, Ending
<1>3. Safe(Memory, <<>>)
  BY <1>1, SafeNothing
<1>4. SoundForm
  BY <1>2, <1>3, EmptyWrites DEF SoundForm
<1> QED
  BY <1>4 DEF WholeInv, ShutdownInit

(* The promise is inductive.                                               *)
LEMMA NextWhole ==
  ASSUME ShutdownInv, WholeInv, [ShutdownNext]_shutdownVars
  PROVE  WholeInv'
<1>1. CASE Exit
  BY <1>1 DEF Exit, WholeInv
<1>2. CASE Crash
  BY <1>2 DEF Crash, WholeInv
<1>3. CASE UNCHANGED shutdownVars
  <2>1. /\ Memory' = Memory /\ todo' = todo /\ ops' = ops /\ commands' = commands
        /\ status' = status /\ dump' = dump
    BY <1>3 DEF shutdownVars, processVars, storageVars, Memory
  <2> QED
    BY <2>1, SameSound DEF WholeInv
<1> QED
  BY <1>1, <1>2, <1>3, BeginWhole, StepWhole, SignalWhole, BootWhole, TickWhole DEF ShutdownNext

(* The memory keeps its promise in every state.                            *)
LEMMA WholeInvariant == ShutdownSpec => [](ShutdownInv /\ WholeInv)
<1>1. ShutdownInit => ShutdownInv /\ WholeInv
  BY InitInv, WholeInit
<1>2. ShutdownInv /\ WholeInv /\ [ShutdownNext]_shutdownVars => (ShutdownInv /\ WholeInv)'
  BY NextInv, NextWhole
<1> QED
  BY <1>1, <1>2, PTL DEF ShutdownSpec

-----------------------------------------------------------------------------
(* Handlers do what the methods of the storage do.                         *)

(* Bookkeeping around the writes of a method adds nothing to them.         *)
LEMMA AfterBare ==
  ASSUME NEW m \in Memories, NEW does \in Bookkeeping, NEW r \in Seq(Tasks)
  PROVE  After(m, <<Bare(does)>> \o r) = After(m, r)
<1>1. Bare(does) \in Tasks /\ Bare(does) \in Steps /\ Bare(does).does \in Bookkeeping
  BY BareIsTask DEF Bookkeeping, Bare, Do, Steps, Does
<1>2. Written(m, Bare(does)) = m
  BY <1>1, BookkeepingWritesNothing
<1> QED
  BY <1>1, <1>2, AfterFirst

(* The end of a command writes nothing.                                    *)
LEMMA AfterEnding ==
  ASSUME NEW m \in Memories, NEW w \in Seq(Tasks), NEW n \in {0, 1}
  PROVE  After(m, w \o Ending(n)) = After(m, w)
<1>1. PICK g \in Memories : g = After(m, w)
  BY AfterIsMemory
<1>2. Ending(n) \in Seq(Tasks)
  BY EndingIs
<1>3. After(m, w \o Ending(n)) = After(g, Ending(n))
  BY <1>1, <1>2, AfterConcat
<1>4. After(g, Ending(n)) = g
  <2>1. CASE n = 0
    BY <2>1, AfterNothing DEF Ending
  <2>2. CASE n = 1
    <3>1. Bare("end") \in Tasks /\ Bare("end") \in Steps /\ Bare("end").does \in Bookkeeping
      BY BareIsTask DEF Bookkeeping, Bare, Do, Steps, Does
    <3>2. After(g, <<Bare("end")>>) = Written(g, Bare("end"))
      BY <3>1, AfterOne
    <3> QED
      BY <2>2, <3>1, <3>2, BookkeepingWritesNothing DEF Ending
  <2> QED
    BY <2>1, <2>2
<1> QED
  BY <1>1, <1>3, <1>4

(* The guard of an operation writes nothing.                               *)
LEMMA AfterGuard ==
  ASSUME NEW m \in Memories, NEW w \in Seq(Writes), NEW more \in Mores, NEW n \in {0, 1}
  PROVE  After(m, <<Bare("check")>> \o (<<Bare("enter")>> \o (w \o Leaving(more, n))))
           = After(After(m, w), more)
<1>1. PICK v, l, t : v = w /\ l = Leaving(more, n) /\ t = more \o Ending(n)
  OBVIOUS
<1>2. v \in Seq(Tasks) /\ l \in Seq(Tasks) /\ t \in Seq(Tasks) /\ l = <<Bare("leave")>> \o t
  BY <1>1, WritesAreTasks, LeavingIs DEF Leaving
<1>3. PICK x \in Seq(Tasks) : x = v \o l
  <2>1. v \o l \in Seq(Tasks)
    BY <1>2
  <2> QED
    BY <2>1
<1>4. PICK y \in Seq(Tasks) : y = <<Bare("enter")>> \o x
  BY <1>3, FirstBare DEF Bookkeeping
<1>5. After(m, <<Bare("check")>> \o y) = After(m, x)
  <2>1. After(m, <<Bare("check")>> \o y) = After(m, y)
    BY AfterBare DEF Bookkeeping
  <2>2. After(m, <<Bare("enter")>> \o x) = After(m, x)
    BY AfterBare DEF Bookkeeping
  <2> QED
    BY <1>4, <2>1, <2>2
<1>6. PICK g \in Memories : g = After(m, v)
  BY <1>2, AfterIsMemory
<1>7. After(m, x) = After(g, l)
  <2>1. After(m, v \o l) = After(After(m, v), l)
    BY <1>2, AfterConcat
  <2> QED
    BY <1>3, <1>6, <2>1
<1>8. After(g, l) = After(g, t)
  BY <1>2, AfterBare DEF Bookkeeping
<1>9. After(g, t) = After(g, more)
  BY <1>1, MoresAre, AfterEnding
<1> QED
  BY <1>1, <1>3, <1>4, <1>5, <1>6, <1>7, <1>8, <1>9

(* The address that follows is written.                                    *)
LEMMA AfterMore ==
  ASSUME NEW m \in Memories, NEW s \in Writes
  PROVE  After(m, Guarded(<<s>>)) = Written(m, s)
<1>1. <<s>> \in Seq(Tasks) /\ s \in Tasks
  BY DEF Tasks
<1>2. PICK l \in Tasks : l = Bare("leave")
  BY BareIsTask DEF Bookkeeping
<1>3. PICK x \in Seq(Tasks) : x = <<s>> \o <<l>>
  <2>1. <<s>> \o <<l>> \in Seq(Tasks)
    BY <1>1, <1>2
  <2> QED
    BY <2>1
<1>4. Guarded(<<s>>) = <<Bare("check")>> \o (<<Bare("enter")>> \o x)
  <2>0. <<>> \in Seq(Tasks)
    OBVIOUS
  <2>1. PICK e \in Seq(Tasks) : e = <<>>
    BY <2>0
  <2>2. /\ Guarded(<<s>>) \in Seq(Tasks)
        /\ Guarded(<<s>>) \o e = <<Bare("check")>> \o (<<Bare("enter")>> \o (<<s>> \o (<<l>> \o e)))
    BY <1>1, <1>2, GuardedIs
  <2>3. Guarded(<<s>>) \o e = Guarded(<<s>>)
    BY <2>1, <2>2
  <2>4. <<l>> \o e = <<l>>
    BY <1>2, <2>1
  <2> QED
    BY <1>3, <2>2, <2>3, <2>4
<1>5. PICK y \in Seq(Tasks) : y = <<Bare("enter")>> \o x
  BY <1>3, FirstBare DEF Bookkeeping
<1>6. After(m, Guarded(<<s>>)) = After(m, x)
  <2>1. After(m, <<Bare("check")>> \o y) = After(m, y)
    BY AfterBare DEF Bookkeeping
  <2>2. After(m, <<Bare("enter")>> \o x) = After(m, x)
    BY AfterBare DEF Bookkeeping
  <2> QED
    BY <1>4, <1>5, <2>1, <2>2
<1>7. PICK g \in Memories : g = Written(m, s)
  BY WrittenIsMemory
<1>8. After(m, x) = After(g, <<l>>)
  BY <1>1, <1>2, <1>3, <1>7, AfterFirst
<1>9. After(g, <<l>>) = g
  <2>1. After(g, <<l>>) = Written(g, l)
    BY <1>2, AfterOne
  <2>2. l \in Steps /\ l.does \in Bookkeeping
    BY <1>2 DEF Bookkeeping, Bare, Do, Steps, Does
  <2> QED
    BY <2>1, <2>2, BookkeepingWritesNothing
<1> QED
  BY <1>6, <1>7, <1>8, <1>9

(* What a handler with a guard will have done.                             *)
LEMMA SettledGuarded ==
  ASSUME Memory \in Memories, Memory' = Memory, commands' \in {0, 1},
         NEW w \in Seq(Writes), NEW more \in Mores, Checking(w, more)'
  PROVE  Settled' = After(After(Memory, w), more)
<1>1. PICK n, m : n = commands' /\ m = Memory
  OBVIOUS
<1>2. todo' = <<Bare("check")>> \o (<<Bare("enter")>> \o (w \o Leaving(more, n)))
  BY <1>1 DEF Checking
<1>3. Settled' = After(m, todo')
  BY <1>1 DEF Settled
<1>4. After(m, <<Bare("check")>> \o (<<Bare("enter")>> \o (w \o Leaving(more, n)))) = After(After(m, w), more)
  BY <1>1, AfterGuard
<1> QED
  BY <1>1, <1>2, <1>3, <1>4

(* What a handler without a guard will have done.                          *)
LEMMA SettledUnguarded ==
  ASSUME Memory \in Memories, Memory' = Memory, commands' \in {0, 1},
         NEW w \in Seq(Writes), Unguarded(w)'
  PROVE  Settled' = After(Memory, w)
<1>1. PICK n, m : n = commands' /\ m = Memory
  OBVIOUS
<1>2. todo' = w \o Ending(n)
  BY <1>1 DEF Unguarded
<1>3. Settled' = After(m, todo')
  BY <1>1 DEF Settled
<1>4. After(m, w \o Ending(n)) = After(m, w)
  BY <1>1, WritesAreTasks, AfterEnding
<1> QED
  BY <1>1, <1>2, <1>3, <1>4

(* What a handler with one guarded operation will have done.               *)
LEMMA SettledOne ==
  ASSUME Memory \in Memories, Memory' = Memory, commands' \in {0, 1},
         NEW w \in Seq(Writes), Checking(w, <<>>)'
  PROVE  Settled' = After(Memory, w)
<1>1. After(Memory, w) \in Memories
  BY WritesAreTasks, AfterIsMemory
<1>2. Settled' = After(After(Memory, w), <<>>)
  BY EmptyWrites, SettledGuarded
<1> QED
  BY <1>1, <1>2, AfterNothing

(* A step of a handler that no signal disturbs changes nothing of what the *)
(* handler will have done.                                                 *)
LEMMA StepsSettle ==
  ASSUME TypeInv, todo \in Seq(Tasks), HandlerStep, ~kill_active'
  PROVE  Settled' = Settled
<1>1. ~Terminate
  BY DEF Terminate, OnKillRequested
<1>2. todo # <<>> /\ todo' = Tail(todo)
  BY <1>1 DEF HandlerStep, Write, Check, Enter, Leave, End, HeadDoes, processVars
<1>3. Memory' = Written(Memory, Head(todo))
  <2>1. CASE Write
    BY <2>1, WriteIsWritten
  <2>2. CASE ~Write
    <3>1. Head(todo).does \in Bookkeeping /\ Memory' = Memory
      BY <1>1, <2>2 DEF HandlerStep, Check, Enter, Leave, End, HeadDoes, Bookkeeping, Memory, storageVars
    <3>2. Head(todo) \in Tasks
      BY <1>2
    <3>3. Head(todo) \in Steps
      BY <3>2 DEF Tasks, Writes
    <3> QED
      BY <3>1, <3>3, BookkeepingWritesNothing
  <2> QED
    BY <2>1, <2>2
<1>4. PICK m, t : m = Memory /\ t = todo
  OBVIOUS
<1>5. After(m, t) = After(Written(m, Head(t)), Tail(t))
  BY <1>2, <1>4, AfterHead DEF TypeInv
<1> QED
  BY <1>2, <1>3, <1>4, <1>5 DEF Settled

(* The handlers one by one, as they begin.                                 *)
LEMMA AqIsAcquire ==
  ASSUME Memory \in Memories, Memory' = Memory, ops = 0, commands' \in {0, 1}, Settled = Memory,
         NEW c \in Clients, NEW l \in LockIds, Aq(c, l)
  PROVE  Storage!Acquire(c, l, FALSE)
<1>1. PICK m, r : m = Memory /\ r = After(Memory, Acquisition(c, l))
  OBVIOUS
<1>2. Settled = m /\ Settled' = r /\ m \in Memories
  <2>1. PICK w \in Seq(Writes) : w = Acquisition(c, l) /\ Checking(w, <<>>)'
    BY AqBegins
  <2>2. Settled' = After(Memory, w)
    BY <2>1, SettledOne
  <2> QED
    BY <1>1, <2>1, <2>2
<1>3. m \in Storages
  BY <1>2 DEF Memories
<1>4. IsFree(l) <=> Storage!IsFree(l)
  BY <1>1, <1>2 DEF IsFree, Lapsed, Expired, Storage!IsFree, Storage!Lapsed, Storage!Expired, Memory
<1>5. CASE ~IsFree(l)
  <2>1. r = m
    BY <1>1, <1>2, <1>5, AfterNothing DEF Acquisition
  <2> QED
    BY <1>2, <1>4, <1>5, <2>1 DEF Storage!Acquire
<1>6. CASE IsFree(l)
  <2>1. PICK S : S = IF Lapsed(l) THEN {l} ELSE {}
    OBVIOUS
  <2>2. PICK g : Lacks(g, m, S, {}) /\ Entered(r, g, c, l)
    BY <1>1, <1>6, <2>1, AcquisitionComes
  <2>3. /\ g.client_to_locks = Unlists(m, S)
        /\ g.tracked = m.tracked
        /\ g.locks_to_client = Disowns(m, S)
        /\ g.all_locks = m.all_locks \ S
        /\ g.mark_free_after = m.mark_free_after
        /\ g.signals = m.signals
        /\ g.client_last_address = m.client_last_address
    BY <1>2, <2>2, LosesLocks
  <2>4. /\ m.client_to_locks \in [Clients -> SUBSET LockIds]
        /\ m.locks_to_client \in [LockIds -> Clients \cup {NoClient}]
    BY <1>3 DEF Storages
  <2>5. r.locks_to_client = [m.locks_to_client EXCEPT ![l] = c]
    BY <2>1, <2>2, <2>3, <2>4 DEF Entered, Disowns
  <2>6. g.client_to_locks = Unlists(m, {l})
    <3>1. Lapsed(l) \/ m.locks_to_client[l] = NoClient
      BY <1>1, <1>6 DEF IsFree, Memory
    <3>2. CASE Lapsed(l)
      BY <2>1, <2>3, <3>2
    <3>3. CASE ~Lapsed(l)
      <4>1. \A k \in Clients : /\ {x \in {l} : m.locks_to_client[x] = k} = {}
                               /\ {x \in S : m.locks_to_client[x] = k} = {}
        BY <2>1, <3>1, <3>3, SentinelAssumption
      <4> QED
        BY <2>3, <4>1 DEF Unlists
    <3> QED
      BY <3>2, <3>3
  <2>7. r.client_to_locks
          = [Unlists(m, {l}) EXCEPT ![c] = @ \cup {l}]
    BY <2>2, <2>6 DEF Entered
  <2>8. r.tracked = m.tracked \cup {c} /\ r.all_locks = m.all_locks \cup {l}
    BY <2>1, <2>2, <2>3 DEF Entered
  <2>9. /\ r.mark_free_after = [m.mark_free_after EXCEPT ![l] = NotMarked]
        /\ r.signals = [m.signals EXCEPT ![l] = {}]
    BY <2>2, <2>3 DEF Entered
  <2>10. r.client_last_address = m.client_last_address
    BY <2>2, <2>3 DEF Entered
  <2>11. Storage!IsFree(l)
    BY <1>4, <1>6
  <2> QED
    BY <1>2, <2>5, <2>7, <2>8, <2>9, <2>10, <2>11
       DEF Storage!Acquire, Storage!Unlisted, Unlists, NotMarked, Storage!NotMarked
<1> QED
  BY <1>5, <1>6

(* The release command does what release does.                             *)
LEMMA ReleaseIsRelease ==
  ASSUME Memory \in Memories, Memory' = Memory, ops = 0, commands' \in {0, 1}, Settled = Memory,
         NEW c \in Clients, NEW l \in LockIds, ReleaseCommand(c, l)
  PROVE  Storage!Release(c, l)
<1>1. PICK m, r : m = Memory /\ r = After(Memory, ReleaseWrites(c, l))
  OBVIOUS
<1>2. Settled = m /\ Settled' = r /\ m \in Memories
  <2>1. PICK w \in Seq(Writes) : w = ReleaseWrites(c, l) /\ Checking(w, <<>>)'
    BY ReleaseBegins
  <2>2. Settled' = After(Memory, w)
    BY <2>1, SettledOne
  <2> QED
    BY <1>1, <2>1, <2>2
<1>3. PICK S, g : S = {l} \cap m.client_to_locks[c] /\ g = Written(m, Do("key", c, l))
  OBVIOUS
<1>4. Lacks(r, g, S, {})
  BY <1>1, <1>3, ReleaseComes DEF Memory
<1>5. /\ g \in Memories
      /\ g.client_to_locks = m.client_to_locks /\ g.tracked = m.tracked \cup {c}
      /\ g.locks_to_client = m.locks_to_client /\ g.all_locks = m.all_locks
      /\ g.mark_free_after = m.mark_free_after /\ g.signals = m.signals
      /\ g.client_last_address = m.client_last_address
  BY <1>2, <1>3, KeyIsWritten
<1>6. /\ r.client_to_locks = Unlists(g, S)
      /\ r.tracked = g.tracked
      /\ r.locks_to_client = Disowns(g, S)
      /\ r.all_locks = g.all_locks \ S
      /\ r.mark_free_after = g.mark_free_after
      /\ r.signals = g.signals
      /\ r.client_last_address = g.client_last_address
  BY <1>4, <1>5, LosesLocks
<1> QED
  BY <1>2, <1>3, <1>5, <1>6
     DEF Storage!Release, Storage!DeleteLocks, Storage!Unlisted, Unlists, Disowns

(* The locked command does what locked does.                               *)
LEMMA LockedIsLocked ==
  ASSUME Memory \in Memories, Memory' = Memory, ops = 0, commands' \in {0, 1}, Settled = Memory,
         NEW l \in LockIds, LockedCommand(l)
  PROVE  Storage!Locked(l)
<1>1. PICK m, r : m = Memory /\ r = After(Memory, DeletionIf(Lapsed(l), l))
  OBVIOUS
<1>2. Settled = m /\ Settled' = r /\ m \in Memories
  <2>1. PICK w \in Seq(Writes) : w = DeletionIf(Lapsed(l), l) /\ Unguarded(w)'
    BY LockedBegins
  <2>2. Settled' = After(Memory, w)
    BY <2>1, SettledUnguarded
  <2> QED
    BY <1>1, <2>1, <2>2
<1>3. PICK S : S = {x \in {l} : Storage!Lapsed(x)}
  OBVIOUS
<1>4. Lapsed(l) \in BOOLEAN /\ S = IF Lapsed(l) THEN {l} ELSE {}
  <2>1. Lapsed(l) <=> Storage!Lapsed(l)
    BY <1>1, <1>2 DEF Lapsed, Expired, Storage!Lapsed, Storage!Expired, Memory
  <2>2. Lapsed(l) \in BOOLEAN
    BY DEF Lapsed
  <2> QED
    BY <1>3, <2>1, <2>2
<1>5. r = After(m, IF Lapsed(l) THEN DeletionOf(m, l) ELSE <<>>)
  BY <1>1, DeletionOfMemory DEF DeletionIf
<1>6. Lacks(r, m, S, {})
  BY <1>2, <1>4, <1>5, DeletionIfComes
<1>7. /\ r.client_to_locks = Unlists(m, S)
      /\ r.tracked = m.tracked
      /\ r.locks_to_client = Disowns(m, S)
      /\ r.all_locks = m.all_locks \ S
      /\ r.mark_free_after = m.mark_free_after
      /\ r.signals = m.signals
      /\ r.client_last_address = m.client_last_address
  BY <1>2, <1>6, LosesLocks
<1> QED
  BY <1>2, <1>3, <1>7
     DEF Storage!Locked, Storage!DeleteLocks, Storage!Unlisted, Unlists, Disowns

(* The signal commands do what the signal methods do.                      *)
LEMMA SignalIsSignal ==
  ASSUME Memory \in Memories, Memory' = Memory, ops = 0, commands' \in {0, 1}, Settled = Memory,
         NEW l \in LockIds, NEW s \in Signals
  PROVE  /\ SignalCommand("signal", l, s) => Storage!AddSignal(l, s)
         /\ SignalCommand("unsignal", l, s) => Storage!RemoveSignal(l, s)
<1>1. PICK m \in Memories : m = Memory
  OBVIOUS
<1>2. m \in Storages /\ m.signals \in [LockIds -> SUBSET Signals]
  BY DEF Memories, Storages
<1>3. ASSUME NEW does \in {"signal", "unsignal"}, SignalCommand(does, l, s)
      PROVE  \E d \in Writes :
               /\ d = Do(does, NoClient, <<l, s>>)
               /\ Settled' = IF l \in m.all_locks THEN Written(m, d) ELSE m
  <2>1. PICK d \in Writes : d = Do(does, NoClient, <<l, s>>)
    <3>1. Do(does, NoClient, <<l, s>>) \in Writes
      BY DEF Do, Writes, Steps, Does
    <3> QED
      BY <3>1
  <2>2. PICK w \in Seq(Writes) : w = SignalWrites(does, l, s) /\ Checking(w, <<>>)'
    BY <1>3, SignalBegins
  <2>3. Settled' = After(m, w)
    BY <1>1, <2>2, SettledOne
  <2>4. CASE l \in all_locks
    <3>1. w = <<d>> /\ d \in Tasks
      BY <2>1, <2>2, <2>4 DEF SignalWrites, Tasks
    <3> QED
      BY <1>1, <2>1, <2>3, <2>4, <3>1, AfterOne DEF Memory
  <2>5. CASE l \notin all_locks
    <3>1. w = <<>>
      BY <2>2, <2>5 DEF SignalWrites
    <3> QED
      BY <1>1, <2>1, <2>3, <2>5, <3>1, AfterNothing DEF Memory
  <2> QED
    BY <2>4, <2>5
<1>4. ASSUME SignalCommand("signal", l, s)
      PROVE  Storage!AddSignal(l, s)
  <2>1. PICK d \in Writes : /\ d = Do("signal", NoClient, <<l, s>>)
                            /\ Settled' = IF l \in m.all_locks THEN Written(m, d) ELSE m
    BY <1>3, <1>4
  <2>2. Written(m, d) = [m EXCEPT !.signals[l] = @ \cup {s}]
    <3>1. d.does = "signal" /\ d.on[1] = l /\ d.on[2] = s
      BY <2>1 DEF Do
    <3>2. Written(m, d) = [m EXCEPT !.signals[d.on[1]] = @ \cup {d.on[2]}]
      BY <3>1, SignalIsWritten
    <3> QED
      BY <3>1, <3>2
  <2>3. PICK r : r = Settled'
    OBVIOUS
  <2>4. /\ r.client_to_locks = m.client_to_locks /\ r.tracked = m.tracked
        /\ r.locks_to_client = m.locks_to_client /\ r.all_locks = m.all_locks
        /\ r.mark_free_after = m.mark_free_after
        /\ r.client_last_address = m.client_last_address
        /\ r.signals = [m.signals EXCEPT ![l] = IF l \in m.all_locks THEN @ \cup {s} ELSE @]
    BY <1>2, <2>1, <2>2, <2>3 DEF Storages
  <2> QED
    BY <1>1, <2>3, <2>4 DEF Storage!AddSignal
<1>5. ASSUME SignalCommand("unsignal", l, s)
      PROVE  Storage!RemoveSignal(l, s)
  <2>1. PICK d \in Writes : /\ d = Do("unsignal", NoClient, <<l, s>>)
                            /\ Settled' = IF l \in m.all_locks THEN Written(m, d) ELSE m
    BY <1>3, <1>5
  <2>2. Written(m, d) = [m EXCEPT !.signals[l] = @ \ {s}]
    <3>1. d.does = "unsignal" /\ d.on[1] = l /\ d.on[2] = s
      BY <2>1 DEF Do
    <3>2. Written(m, d) = [m EXCEPT !.signals[d.on[1]] = @ \ {d.on[2]}]
      BY <3>1, SignalIsWritten
    <3> QED
      BY <3>1, <3>2
  <2>3. PICK r : r = Settled'
    OBVIOUS
  <2>4. /\ r.client_to_locks = m.client_to_locks /\ r.tracked = m.tracked
        /\ r.locks_to_client = m.locks_to_client /\ r.all_locks = m.all_locks
        /\ r.mark_free_after = m.mark_free_after
        /\ r.client_last_address = m.client_last_address
        /\ r.signals = [m.signals EXCEPT ![l] = IF l \in m.all_locks THEN @ \ {s} ELSE @]
    BY <1>2, <2>1, <2>2, <2>3 DEF Storages
  <2> QED
    BY <1>1, <2>3, <2>4 DEF Storage!RemoveSignal
<1> QED
  BY <1>4, <1>5

(* release_all and unrelease_all.                                          *)
Marks(m, S, mark) == [l \in LockIds |-> IF l \in S THEN mark ELSE m.mark_free_after[l]]

AllMarked(r, m, c, mark) ==
  /\ r \in Memories
  /\ r.client_to_locks = m.client_to_locks /\ r.tracked = m.tracked \cup {c}
  /\ r.locks_to_client = m.locks_to_client /\ r.all_locks = m.all_locks
  /\ r.signals = m.signals /\ r.client_last_address = m.client_last_address
  /\ r.mark_free_after = Marks(m, m.client_to_locks[c], mark)

(* A marking and the key of the client, table by table.                    *)
LEMMA MarkedIs ==
  ASSUME NEW m \in Memories, NEW c \in Clients, NEW mark, NEW r,
         Marked(r, Written(m, Do("key", c, NoAddress)), m.client_to_locks[c], mark)
  PROVE  AllMarked(r, m, c, mark)
<1>1. PICK g : g = Written(m, Do("key", c, NoAddress))
  OBVIOUS
<1>2. /\ g.client_to_locks = m.client_to_locks /\ g.tracked = m.tracked \cup {c}
      /\ g.locks_to_client = m.locks_to_client /\ g.all_locks = m.all_locks
      /\ g.mark_free_after = m.mark_free_after /\ g.signals = m.signals
      /\ g.client_last_address = m.client_last_address
  BY <1>1, KeyIsWritten
<1>3. /\ r \in Memories
      /\ r.client_to_locks = g.client_to_locks /\ r.tracked = g.tracked
      /\ r.locks_to_client = g.locks_to_client /\ r.all_locks = g.all_locks
      /\ r.signals = g.signals /\ r.client_last_address = g.client_last_address
      /\ \A l \in LockIds :
           r.mark_free_after[l] = IF l \in m.client_to_locks[c] THEN mark ELSE g.mark_free_after[l]
  BY <1>1 DEF Marked
<1>4. r.mark_free_after \in [LockIds -> Nat \cup {NotMarked}]
  BY <1>3 DEF Memories, Storages
<1>5. r.mark_free_after = Marks(m, m.client_to_locks[c], mark)
  BY <1>2, <1>3, <1>4 DEF Marks
<1> QED
  BY <1>2, <1>3, <1>5 DEF AllMarked

(* A reconnection does unrelease_all and sets the address.                 *)
LEMMA ConnAsIsUnrelease ==
  ASSUME Memory \in Memories, Memory' = Memory, ops = 0, commands' \in {0, 1}, Settled = Memory,
         NEW c \in Clients, NEW k \in Addresses, ConnAs(c, k)
  PROVE  Storage!UnreleaseAll(c) /\ Storage!SetClientLastAddress(c, k)
<1>1. PICK order \in ListOrders(c), w \in Seq(Writes), more \in Mores :
        /\ w = Marking("keep", c, order) /\ more = Guarded(<<Do("address", c, k)>>)
        /\ Checking(w, more)'
  BY ConnAsBegins
<1>2. PICK m \in Memories : m = Memory
  OBVIOUS
<1>3. PICK g, r, d : g = After(Memory, w) /\ d = Do("address", c, k) /\ r = Written(g, d)
  OBVIOUS
<1>4. Marked(g, Written(m, Do("key", c, NoAddress)), m.client_to_locks[c], NotMarked)
  <2>1. Marked(After(Memory, Marking("keep", c, order)), Written(Memory, Do("key", c, NoAddress)),
               client_to_locks[c], MarkOf("keep"))
    BY <1>1, MarkingComes
  <2> QED
    BY <1>1, <1>2, <1>3, <2>1 DEF MarkOf, Memory
<1>5. /\ g \in Memories
      /\ g.client_to_locks = m.client_to_locks /\ g.tracked = m.tracked \cup {c}
      /\ g.locks_to_client = m.locks_to_client /\ g.all_locks = m.all_locks
      /\ g.signals = m.signals /\ g.client_last_address = m.client_last_address
      /\ g.mark_free_after = Marks(m, m.client_to_locks[c], NotMarked)
  <2>1. AllMarked(g, m, c, NotMarked)
    BY <1>4, MarkedIs
  <2> QED
    BY <2>1 DEF AllMarked
<1>6. d \in Writes /\ d.does = "address" /\ d.client = c /\ d.on = k
  BY <1>2, <1>3 DEF Do, Writes, Steps, Does
<1>7. Settled' = r
  <2>1. Settled' = After(g, more)
    BY <1>1, <1>2, <1>3, SettledGuarded
  <2> QED
    BY <1>1, <1>2, <1>3, <1>5, <1>6, <2>1, AfterMore
<1>8. r = [g EXCEPT !.client_last_address[c] = k] /\ g \in Storages
  BY <1>2, <1>3, <1>5, <1>6, WrittenIs DEF Memories
<1>9. /\ r.client_to_locks = g.client_to_locks /\ r.tracked = g.tracked
      /\ r.locks_to_client = g.locks_to_client /\ r.all_locks = g.all_locks
      /\ r.signals = g.signals /\ r.mark_free_after = g.mark_free_after
      /\ r.client_last_address = [g.client_last_address EXCEPT ![c] = k]
  BY <1>8 DEF Storages
<1> QED
  BY <1>2, <1>3, <1>5, <1>7, <1>9
     DEF Storage!UnreleaseAll, Storage!MarkAll, Storage!SetClientLastAddress, Marks,
         NotMarked, Storage!NotMarked

(* A new connection sets the address.                                      *)
LEMMA ConnNewIsAddress ==
  ASSUME Memory \in Memories, Memory' = Memory, ops = 0, commands' \in {0, 1}, Settled = Memory,
         NEW c \in Clients, NEW k \in Addresses, ConnNew(c, k)
  PROVE  Settled' = [Settled EXCEPT !.client_last_address[c] = k]
<1>1. PICK d : d = Do("address", c, k)
  OBVIOUS
<1>2. d \in Writes /\ d \in Tasks /\ d.does = "address" /\ d.client = c /\ d.on = k
  BY <1>1 DEF Do, Writes, Steps, Does, Tasks
<1>3. PICK w \in Seq(Writes) : w = <<d>> /\ Checking(w, <<>>)'
  BY <1>1, ConnNewBegins
<1>4. Settled' = After(Memory, <<d>>)
  BY <1>3, SettledOne
<1>5. After(Memory, <<d>>) = Written(Memory, d)
  BY <1>2, AfterOne
<1> QED
  BY <1>2, <1>4, <1>5, WrittenIs

(* A lost connection does release_all with the default timeout.            *)
LEMMA LostIsRelease ==
  ASSUME Memory \in Memories, Memory' = Memory, ops = 0, commands' \in {0, 1}, Settled = Memory,
         NEW c \in Clients, ConnectionLost(c)
  PROVE  /\ Storage!ReleaseAll(c, DefaultReleaseAllTimeout)
         /\ Settled'.client_last_address = Settled.client_last_address
<1>1. PICK order \in ListOrders(c), w \in Seq(Writes) :
        w = Marking("grace", c, order) /\ Checking(w, <<>>)'
  BY LostBegins
<1>2. PICK m \in Memories : m = Memory
  OBVIOUS
<1>3. PICK r : r = After(Memory, w)
  OBVIOUS
<1>4. Marked(r, Written(m, Do("key", c, NoAddress)), m.client_to_locks[c], DefaultReleaseAllTimeout)
  <2>1. Marked(After(Memory, Marking("grace", c, order)), Written(Memory, Do("key", c, NoAddress)),
               client_to_locks[c], MarkOf("grace"))
    BY <1>1, MarkingComes
  <2> QED
    BY <1>1, <1>2, <1>3, <2>1 DEF MarkOf, Memory
<1>5. DefaultReleaseAllTimeout \in Nat \cup {NotMarked} /\ DefaultReleaseAllTimeout # 0
  BY ShutdownAssumption
<1>6. /\ r.client_to_locks = m.client_to_locks /\ r.tracked = m.tracked \cup {c}
      /\ r.locks_to_client = m.locks_to_client /\ r.all_locks = m.all_locks
      /\ r.signals = m.signals /\ r.client_last_address = m.client_last_address
      /\ r.mark_free_after = Marks(m, m.client_to_locks[c], DefaultReleaseAllTimeout)
  <2>1. AllMarked(r, m, c, DefaultReleaseAllTimeout)
    BY <1>4, MarkedIs
  <2> QED
    BY <2>1 DEF AllMarked
<1>7. Settled' = r
  BY <1>1, <1>2, <1>3, SettledOne
<1> QED
  BY <1>2, <1>3, <1>5, <1>6, <1>7 DEF Storage!ReleaseAll, Storage!MarkAll, Marks

(* The sweep of the storage, from the lists of the clients.                *)
LEMMA SweepIsMaintenance ==
  ASSUME Memory \in Memories, Whole(Memory), Memory' = Memory, ops = 0, commands' \in {0, 1},
         Settled = Memory, MaintenanceRun
  PROVE  Storage!Maintenance
<1>1. PICK visit, orders, w :
        /\ w \in Seq(Writes) /\ SweepOrders(visit, orders) /\ w = Sweep(visit, orders)
        /\ Unguarded(w)'
  BY MaintenanceBegins
<1>2. PICK m \in Memories : m = Memory
  OBVIOUS
<1>3. PICK r : r = After(Memory, w)
  OBVIOUS
<1>4. PICK S, T : /\ S = UNION {ExpiredOf(c) : c \in tracked}
                  /\ T = UNION {Forgotten(c) : c \in tracked}
  OBVIOUS
<1>5. Lacks(r, m, S, T)
  BY <1>1, <1>2, <1>3, <1>4, SweepReaches DEF Takes
<1>6. /\ r.client_to_locks = Unlists(m, S)
      /\ r.tracked = m.tracked \ T
      /\ r.locks_to_client = Disowns(m, S)
      /\ r.all_locks = m.all_locks \ S
      /\ r.mark_free_after = m.mark_free_after
      /\ r.signals = m.signals
      /\ r.client_last_address = Forgets(m, T)
  BY <1>2, <1>5, LacksIs
<1>7. Settled' = r
  BY <1>1, <1>2, <1>3, SettledUnguarded
<1>8. /\ tracked \subseteq Clients /\ \A c \in Clients : client_to_locks[c] \subseteq LockIds
      /\ tracked = m.tracked
  BY <1>2, <1>3 DEF Memory, Memories, Storages
<1>9. S = Storage!ExpiredListed
  <2>1. \A l : l \in S <=> \E c \in tracked : l \in client_to_locks[c] /\ Expired(l)
    BY <1>4 DEF ExpiredOf
  <2>2. \A l : l \in Storage!ExpiredListed
                 <=> l \in LockIds /\ Expired(l) /\ \E c \in tracked : l \in client_to_locks[c]
    BY DEF Storage!ExpiredListed, Storage!Expired, Expired, Memory
  <2> QED
    BY <1>8, <2>1, <2>2
<1>10. T = Storage!LeftWithout
  <2>1. Storage!Unlisted(S) = Unlists(m, S)
    BY <1>2, <1>3 DEF Storage!Unlisted, Unlists
  <2>2. \A c : c \in T <=> c \in tracked /\ ExpiredOf(c) = client_to_locks[c]
    BY <1>4 DEF Forgotten
  <2>3. ASSUME NEW c \in tracked
        PROVE  ExpiredOf(c) = client_to_locks[c] <=> Unlists(m, S)[c] = {}
    <3>1. c \in Clients
      BY <1>8
    <3>2. Unlists(m, S)[c] = client_to_locks[c] \ {l \in S : locks_to_client[l] = c}
      BY <1>2, <1>3, <3>1 DEF Unlists, Memory
    <3>3. \A l \in client_to_locks[c] : l \in LockIds /\ locks_to_client[l] = c
      BY <1>8, <3>1 DEF Whole, Memory
    <3>4. \A l \in client_to_locks[c] : l \in S <=> Expired(l)
      <4>1. \A l : l \in S <=> \E k \in tracked : l \in client_to_locks[k] /\ Expired(l)
        BY <1>4 DEF ExpiredOf
      <4> QED
        BY <4>1
    <3> QED
      BY <3>2, <3>3, <3>4 DEF ExpiredOf
  <2>4. \A c : c \in Storage!LeftWithout <=> c \in tracked /\ Unlists(m, S)[c] = {}
    BY <1>2, <1>3, <1>8, <1>9, <2>1 DEF Storage!LeftWithout
  <2> QED
    BY <2>2, <2>3, <2>4
<1> QED
  BY <1>2, <1>3, <1>6, <1>7, <1>9, <1>10
     DEF Storage!Maintenance, Storage!DeleteLocks, Storage!Unlisted, Unlists, Disowns, Forgets

(* Each handler will have done what its methods do.                        *)
LEMMA BeginsAreMethods ==
  ASSUME TypeInv, Whole(Memory), ops = 0, HandlerBegins
  PROVE  /\ \A c \in Clients, l \in LockIds :
              /\ Aq(c, l) => Storage!Acquire(c, l, FALSE)
              /\ ReleaseCommand(c, l) => Storage!Release(c, l)
         /\ \A l \in LockIds : LockedCommand(l) => Storage!Locked(l)
         /\ \A c \in Clients, k \in Addresses :
              /\ ConnAs(c, k) => Storage!UnreleaseAll(c) /\ Storage!SetClientLastAddress(c, k)
              /\ ConnNew(c, k) => Settled' = [Settled EXCEPT !.client_last_address[c] = k]
         /\ \A l \in LockIds, s \in Signals :
              /\ SignalCommand("signal", l, s) => Storage!AddSignal(l, s)
              /\ SignalCommand("unsignal", l, s) => Storage!RemoveSignal(l, s)
         /\ \A c \in Clients :
              ConnectionLost(c) => /\ Storage!ReleaseAll(c, DefaultReleaseAllTimeout)
                                   /\ Settled'.client_last_address = Settled.client_last_address
         /\ MaintenanceRun => Storage!Maintenance
<1>1. Memory \in Memories /\ Memory' = Memory /\ commands' \in {0, 1} /\ todo = <<>>
  BY BeginIsQuiet DEF TypeInv, Memory, storageVars
<1>2. Settled = Memory
  BY <1>1, AfterNothing DEF Settled
<1>3. \A c \in Clients, l \in LockIds :
        /\ Aq(c, l) => Storage!Acquire(c, l, FALSE)
        /\ ReleaseCommand(c, l) => Storage!Release(c, l)
  BY <1>1, <1>2, AqIsAcquire, ReleaseIsRelease
<1>4. \A l \in LockIds : LockedCommand(l) => Storage!Locked(l)
  BY <1>1, <1>2, LockedIsLocked
<1>5. \A c \in Clients, k \in Addresses :
        /\ ConnAs(c, k) => Storage!UnreleaseAll(c) /\ Storage!SetClientLastAddress(c, k)
        /\ ConnNew(c, k) => Settled' = [Settled EXCEPT !.client_last_address[c] = k]
  BY <1>1, <1>2, ConnAsIsUnrelease, ConnNewIsAddress
<1>6. \A l \in LockIds, s \in Signals :
        /\ SignalCommand("signal", l, s) => Storage!AddSignal(l, s)
        /\ SignalCommand("unsignal", l, s) => Storage!RemoveSignal(l, s)
  BY <1>1, <1>2, SignalIsSignal
<1>7. \A c \in Clients :
        ConnectionLost(c) => /\ Storage!ReleaseAll(c, DefaultReleaseAllTimeout)
                             /\ Settled'.client_last_address = Settled.client_last_address
  BY <1>1, <1>2, LostIsRelease
<1>8. MaintenanceRun => Storage!Maintenance
  BY <1>1, <1>2, SweepIsMaintenance
<1> QED
  BY <1>3, <1>4, <1>5, <1>6, <1>7, <1>8

(* Each of them begins as a handler.                                       *)
LEMMA HandlersBegin ==
  /\ \A c \in Clients, l \in LockIds : Aq(c, l) \/ ReleaseCommand(c, l) => HandlerBegins
  /\ \A l \in LockIds : LockedCommand(l) => HandlerBegins
  /\ \A c \in Clients, k \in Addresses : ConnAs(c, k) \/ ConnNew(c, k) => HandlerBegins
  /\ \A l \in LockIds, s \in Signals :
       SignalCommand("signal", l, s) \/ SignalCommand("unsignal", l, s) => HandlerBegins
  /\ \A c \in Clients : ConnectionLost(c) => HandlerBegins
  /\ MaintenanceRun => HandlerBegins
  BY DEF HandlerBegins

-----------------------------------------------------------------------------
(* The theorems.                                                           *)

(* Every state of the shutdown is well-typed: what is left of a handler    *)
(* are steps of the code, both counters stay 0 or 1, and a dump file has   *)
(* a whole storage in it.                                                  *)
THEOREM ShutdownTypes == ShutdownSpec => []ShutdownTypeOK
<1>1. ASSUME ShutdownInv
      PROVE  ShutdownTypeOK
  <2>1. TypeInv /\ Memory \in Storages
    BY <1>1 DEF ShutdownInv, TypeInv, Memories
  <2>2. StorageTypeOK
    BY <2>1 DEF Memory, Storages, StorageTypeOK
  <2>3. \A i \in DOMAIN todo : todo[i] \in Steps
    <3>1. todo \in Seq(Tasks)
      BY <1>1, TodoIsTasks
    <3> QED
      BY <3>1 DEF Tasks, Writes
  <2>4. dump \in Storages \cup {NoDump}
    BY <2>1 DEF TypeInv, Memories
  <2> QED
    BY <2>1, <2>2, <2>3, <2>4 DEF TypeInv, ShutdownTypeOK
<1> QED
  BY <1>1, ShutdownInvariant, PTL

(* However many signals come and wherever they fall, in a guarded storage  *)
(* operation, in one that is not guarded, between the test of the guard    *)
(* and its counting, or in a command: the file that a process leaves when  *)
(* it is down has what was last done to every lock.                        *)
THEOREM DumpsAreFinal == ShutdownSpec => []DumpIsFinal
<1>1. ASSUME ShutdownInv
      PROVE  DumpIsFinal
  <2> SUFFICES ASSUME status = "down"
               PROVE  /\ dump # NoDump
                      /\ \A l \in LockIds :
                           \/ Saved!Lapsed(l)
                           \/ Agree(l, dump.locks_to_client[l], l \in dump.all_locks,
                                    dump.mark_free_after[l], dump.signals[l])
    BY DEF DumpIsFinal
  <2>1. Going /\ TypeInv /\ todo = <<>> /\ kill_active
    BY <1>1 DEF ShutdownInv, Going
  <2>2. ops = 0
    BY <2>1, FormIs DEF Going
  <2>3. FileTells
    BY <2>1, <2>2 DEF Going
  <2> QED
    BY <2>3 DEF FileTells, Agree
<1> QED
  BY <1>1, ShutdownInvariant, PTL

(* A process that went down on a signal and is started again from a file   *)
(* written between operations has every lock that has not passed its       *)
(* deadline, with its owner and signals and a new grace period, and no     *)
(* other lock; release_all_timeout has to be a number.                     *)
THEOREM RestartsKeepLocks ==
  ASSUME ~TimeoutIsText
  PROVE  ShutdownSpec => RestartKeepsLocks
<1>1. ASSUME ShutdownInv, Boot, status = "down", Saved!IndexesAgree, NEW l \in LockIds
      PROVE  IF l \in all_locks /\ ~Expired(l)
             THEN /\ locks_to_client'[l] = locks_to_client[l]
                  /\ l \in all_locks'
                  /\ mark_free_after'[l] = ReleaseAllTimeout + 1
                  /\ signals'[l] = signals[l]
             ELSE locks_to_client'[l] = NoClient
  <2>1. Going /\ TypeInv /\ todo = <<>> /\ kill_active
    BY <1>1 DEF ShutdownInv, Going
  <2>2. ops = 0
    BY <2>1, FormIs DEF Going
  <2>3. FileTells /\ dump # NoDump
    BY <2>1, <2>2 DEF Going, FileTells
  <2>4. dump \in Memories /\ dump \in Storages
    BY <2>1, <2>3 DEF TypeInv, Memories
  <2>5. ~LoadRaises
    BY <1>1, <2>4, SentinelAssumption
       DEF LoadRaises, SweepRaises, Saved!ExpiredListed, Saved!Expired, Saved!IndexesAgree, Storages
  <2>6. Becomes(Loaded)
    BY <1>1, <2>3, <2>5 DEF Boot
  <2> DEFINE gone == Saved!ExpiredListed
  <2>7. /\ Swept.locks_to_client[l] = IF l \in gone THEN NoClient ELSE dump.locks_to_client[l]
        /\ Swept.all_locks = dump.all_locks \ gone
        /\ Swept.signals = dump.signals
        /\ Swept.client_to_locks = Saved!Unlisted(gone)
        /\ Swept \in Storages
    BY <2>4, LoadedIsMemory DEF Swept, Storages, Memories
  <2>8. /\ locks_to_client'[l] = Swept.locks_to_client[l]
        /\ all_locks' = Swept.all_locks
        /\ signals' = Swept.signals
        /\ mark_free_after'[l] = IF \E c \in Clients : l \in Swept.client_to_locks[c]
                                 THEN ReleaseAllTimeout + 1 ELSE Swept.mark_free_after[l]
    <3> HIDE DEF Swept
    <3> QED
      BY <2>6, <2>7 DEF Becomes, Loaded, Storages
  <2>9. l \in gone <=> dump.mark_free_after[l] = 0 /\ l \in dump.all_locks
    <3>1. dump.tracked \subseteq Clients /\ dump.locks_to_client[l] \in Clients \cup {NoClient}
      BY <2>4 DEF Storages
    <3>2. l \in dump.all_locks <=> \E c \in dump.tracked : l \in dump.client_to_locks[c]
      BY <1>1, <3>1, SentinelAssumption DEF Saved!IndexesAgree
    <3> QED
      BY <3>2 DEF Saved!ExpiredListed, Saved!Expired
  <2>10. CASE l \in all_locks /\ ~Expired(l)
    <3>1. l \in dump.all_locks /\ l \notin gone /\ dump.locks_to_client[l] = locks_to_client[l]
      BY <2>3, <2>9, <2>10 DEF FileTells, Saved!Lapsed, Saved!Expired, Expired
    <3>2. dump.locks_to_client[l] \in Clients /\ l \in dump.client_to_locks[dump.locks_to_client[l]]
      BY <1>1, <2>4, <3>1 DEF Saved!IndexesAgree, Storages
    <3>3. l \in Swept.client_to_locks[dump.locks_to_client[l]]
      BY <2>7, <3>1, <3>2 DEF Saved!Unlisted
    <3> HIDE DEF Swept, gone
    <3> QED
      BY <2>3, <2>7, <2>8, <2>10, <3>1, <3>2, <3>3 DEF FileTells
  <2>11. CASE ~(l \in all_locks /\ ~Expired(l))
    <3>1. \/ l \in gone
          \/ l \notin dump.all_locks
      BY <2>3, <2>9, <2>11 DEF FileTells, Saved!Lapsed, Saved!Expired, Expired
    <3>2. l \notin dump.all_locks => dump.locks_to_client[l] = NoClient
      BY <1>1 DEF Saved!IndexesAgree
    <3> HIDE DEF Swept, gone
    <3> QED
      BY <2>7, <2>8, <2>11, <3>1, <3>2
  <2> QED
    BY <2>10, <2>11
<1>2. ASSUME ShutdownInv, [ShutdownNext]_shutdownVars
      PROVE  status = "down" /\ status' = "running" /\ Saved!IndexesAgree =>
               \A l \in LockIds :
                 IF l \in all_locks /\ ~Expired(l)
                 THEN /\ locks_to_client'[l] = locks_to_client[l]
                      /\ l \in all_locks'
                      /\ mark_free_after'[l] = ReleaseAllTimeout + 1
                      /\ signals'[l] = signals[l]
                 ELSE locks_to_client'[l] = NoClient
  <2> SUFFICES ASSUME status = "down", status' = "running", Saved!IndexesAgree, NEW l \in LockIds
               PROVE  IF l \in all_locks /\ ~Expired(l)
                      THEN /\ locks_to_client'[l] = locks_to_client[l]
                           /\ l \in all_locks'
                           /\ mark_free_after'[l] = ReleaseAllTimeout + 1
                           /\ signals'[l] = signals[l]
                      ELSE locks_to_client'[l] = NoClient
    OBVIOUS
  <2>1. ~HandlerBegins
    BY BeginIsQuiet
  <2>2. ~HandlerStep
    <3>1. todo = <<>>
      BY <1>2 DEF ShutdownInv, Going
    <3> QED
      BY <3>1 DEF HandlerStep, Write, Check, Enter, Leave, End, Terminate, HeadDoes
  <2>3. Boot
    BY <1>2, <2>1, <2>2 DEF ShutdownNext, KillSignal, Exit, Crash, Tick, shutdownVars, processVars
  <2> QED
    BY <1>1, <1>2, <2>3
<1> QED
  BY <1>2, ShutdownInvariant, PTL DEF ShutdownSpec, RestartKeepsLocks

(* Whenever a server runs no handler its dictionaries agree: whatever the  *)
(* order of its commands, and whatever file it was started from, also one  *)
(* that a signal wrote in the middle of a deletion.                        *)
THEOREM MemoriesAreWhole == ShutdownSpec => []MemoryIsWhole
<1>1. ASSUME ShutdownInv, WholeInv, status = "running", todo = <<>>
      PROVE  IndexesAgree
  <2>1. Whole(Memory)
    BY <1>1, RestIsWholeMemory DEF ShutdownInv, WholeInv
  <2> QED
    BY <2>1 DEF Whole, Memory, IndexesAgree
<1>2. ShutdownInv /\ WholeInv => MemoryIsWhole
  BY <1>1 DEF MemoryIsWhole
<1> QED
  BY <1>2, WholeInvariant, PTL

(* A handler that no signal disturbs does write by write what the method   *)
(* of LockStorage does in one step, whichever command, lost connection or  *)
(* maintenance it is, and in whatever order its lists are gone through.    *)
THEOREM HandlersDoTheirMethods == ShutdownSpec => HandlersAreMethods
<1>1. ASSUME ShutdownInv, WholeInv, HandlerBegins
      PROVE  Whole(Memory) /\ ops = 0 /\ TypeInv
  <2>1. status = "running" /\ todo = <<>> /\ TypeInv
    BY <1>1, BeginIsQuiet DEF ShutdownInv
  <2> QED
    BY <1>1, <2>1, RestIsWholeMemory DEF WholeInv
<1>2. ASSUME ShutdownInv, WholeInv
      PROVE  MethodStep
  <2>1. HandlerStep /\ ~kill_active' => Settled' = Settled
    BY <1>2, TodoIsTasks, StepsSettle DEF ShutdownInv
  <2>2. CASE HandlerBegins
    <3>1. Whole(Memory) /\ ops = 0 /\ TypeInv
      BY <1>1, <1>2, <2>2
    <3> QED
      BY <2>1, <2>2, <3>1, BeginsAreMethods DEF MethodStep
  <2>3. CASE ~HandlerBegins
    BY <2>1, <2>3, HandlersBegin DEF MethodStep
  <2> QED
    BY <2>2, <2>3
<1>3. ShutdownInv /\ WholeInv => [MethodStep]_shutdownVars
  BY <1>2
<1> QED
  BY <1>3, WholeInvariant, PTL DEF ShutdownSpec, HandlersAreMethods
=============================================================================
