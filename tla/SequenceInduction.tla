--------------------------- MODULE SequenceInduction ---------------------------
(***************************************************************************)
(* Induction over the naturals for sets, and what it gives for sequences:  *)
(* a function defined by recursion on an interval exists, and FlattenSeq   *)
(* is what its recursive definition says.                                  *)
(***************************************************************************)
EXTENDS SequencesExt, SequenceTheorems, WellFoundedInduction, TLAPS

(* A set of naturals that is not empty has a least element.                *)
LEMMA LeastNumber ==
  ASSUME NEW T \in SUBSET Nat, T # {}
  PROVE  \E n \in T : \A m \in T : n <= m
<1>1. PICK n \in T : \A m \in T : ~(<<m, n>> \in OpToRel(<, Nat))
  BY NatLessThanWellFounded, WFMin
<1>2. \A m \in T : ~(m < n)
  BY <1>1 DEF OpToRel
<1> QED
  BY <1>2

(* Induction: a set that has 0 and the successor of each natural it has.   *)
LEMMA Induction ==
  ASSUME NEW S, 0 \in S, \A n \in Nat : n \in S => n + 1 \in S
  PROVE  \A n \in Nat : n \in S
<1> SUFFICES ASSUME Nat \ S # {} PROVE FALSE
  OBVIOUS
<1>1. PICK n \in Nat \ S : \A m \in Nat \ S : n <= m
  BY LeastNumber
<1>2. n # 0 /\ n - 1 \in Nat /\ n - 1 \in S
  BY <1>1
<1> QED
  BY <1>1, <1>2

(* The same up to a bound.                                                 *)
LEMMA InductionTo ==
  ASSUME NEW n \in Nat, NEW S, 0 \in S,
         \A i \in 0 .. n - 1 : i \in S => i + 1 \in S
  PROVE  \A i \in 0 .. n : i \in S
<1> DEFINE R == {i \in Nat : i <= n => i \in S}
<1>1. 0 \in R
  OBVIOUS
<1>2. \A i \in Nat : i \in R => i + 1 \in R
  OBVIOUS
<1>3. \A i \in Nat : i \in R
  <2> HIDE DEF R
  <2> QED
    BY <1>1, <1>2, Induction
<1> QED
  BY <1>3
(* A function that starts with b and computes each value from the one      *)
(* before exists, and there is only one.                                   *)
Recursion(f, V, n, b, F) ==
  /\ f \in [0 .. n -> V]
  /\ f[0] = b
  /\ \A i \in 1 .. n : f[i] = F[i][f[i - 1]]

(* There is a recursive sequence for every first value and step.           *)
LEMMA RecursionExists ==
  ASSUME NEW V, NEW n \in Nat, NEW b \in V, NEW F,
         \A i \in 1 .. n : \A x \in V : F[i][x] \in V
  PROVE  \E f : Recursion(f, V, n, b, F)
<1> DEFINE S == {k \in 0 .. n : \E g \in [0 .. k -> V] :
                   g[0] = b /\ \A i \in 1 .. k : g[i] = F[i][g[i - 1]]}
<1>1. 0 \in S
  <2>1. PICK g : g = [i \in 0 .. 0 |-> b]
    OBVIOUS
  <2>2. g \in [0 .. 0 -> V] /\ g[0] = b
    BY <2>1
  <2>3. \A i \in 1 .. 0 : g[i] = F[i][g[i - 1]]
    OBVIOUS
  <2> QED
    BY <2>2, <2>3
<1>2. ASSUME NEW k \in 0 .. n - 1, k \in S
      PROVE  k + 1 \in S
  <2>1. PICK g \in [0 .. k -> V] : g[0] = b /\ \A i \in 1 .. k : g[i] = F[i][g[i - 1]]
    BY <1>2
  <2>2. PICK h : h = [i \in 0 .. k + 1 |-> IF i = k + 1 THEN F[k + 1][g[k]] ELSE g[i]]
    OBVIOUS
  <2>3. h \in [0 .. k + 1 -> V] /\ h[0] = b
    <3>1. F[k + 1][g[k]] \in V
      OBVIOUS
    <3> QED
      BY <2>1, <2>2, <3>1
  <2>4. ASSUME NEW i \in 1 .. k + 1
        PROVE  h[i] = F[i][h[i - 1]]
    <3>1. CASE i = k + 1
      BY <2>2, <3>1
    <3>2. CASE i \in 1 .. k
      BY <2>1, <2>2, <3>2
    <3> QED
      BY <3>1, <3>2
  <2> QED
    BY <2>3, <2>4
<1>3. \A k \in 0 .. n : k \in S
  <2> HIDE DEF S
  <2>1. \A k \in 0 .. n - 1 : k \in S => k + 1 \in S
    BY <1>2
  <2> QED
    BY <1>1, <2>1, InductionTo
<1> QED
  BY <1>3 DEF Recursion

(* Two functions that start alike and go on alike.                         *)
Alike(f, g, n) ==
  /\ f[0] = g[0]
  /\ \A i \in 1 .. n : f[i - 1] = g[i - 1] => f[i] = g[i]

(* And there is only one.                                                  *)
LEMMA RecursionUnique ==
  ASSUME NEW n \in Nat, NEW f, NEW g, Alike(f, g, n)
  PROVE  \A i \in 0 .. n : f[i] = g[i]
<1> DEFINE S == {i \in 0 .. n : f[i] = g[i]}
<1>1. 0 \in S
  BY DEF Alike
<1>2. \A i \in 0 .. n - 1 : i \in S => i + 1 \in S
  BY DEF Alike
<1>3. \A i \in 0 .. n : i \in S
  <2> HIDE DEF S
  <2> QED
    BY <1>1, <1>2, InductionTo
<1> QED
  BY <1>3

(* FlattenSeq appends one sequence after the other.                        *)
Flattening(flat, S, seqs, n) ==
  /\ flat \in [0 .. n -> Seq(S)]
  /\ flat[0] = <<>>
  /\ \A i \in 1 .. n : flat[i] = flat[i - 1] \o seqs[i]

(* The library's FlattenSeq is the last of the prefixes flattened one by   *)
(* one.                                                                    *)
LEMMA FlattenSeqIs ==
  ASSUME NEW S, NEW seqs, NEW n \in Nat, Len(seqs) = n,
         \A i \in 1 .. n : seqs[i] \in Seq(S), n = 0 => seqs = <<>>
  PROVE  \E flat : Flattening(flat, S, seqs, n) /\ FlattenSeq(seqs) = flat[n]
<1>1. PICK F : F = [i \in 1 .. n |-> [x \in Seq(S) |-> x \o seqs[i]]]
  OBVIOUS
<1>2. \A i \in 1 .. n : \A x \in Seq(S) : F[i][x] = x \o seqs[i] /\ F[i][x] \in Seq(S)
  BY <1>1
<1>3. PICK flat \in [0 .. n -> Seq(S)] :
        flat[0] = <<>> /\ \A i \in 1 .. n : flat[i] = F[i][flat[i - 1]]
  <2>1. <<>> \in Seq(S)
    OBVIOUS
  <2>2. PICK flat : Recursion(flat, Seq(S), n, <<>>, F)
    BY <2>1, <1>2, RecursionExists
  <2> QED
    BY <2>2 DEF Recursion
<1>4. \A i \in 1 .. n : flat[i] = flat[i - 1] \o seqs[i]
  <2> SUFFICES ASSUME NEW i \in 1 .. n
               PROVE  flat[i] = flat[i - 1] \o seqs[i]
    OBVIOUS
  <2>1. i - 1 \in 0 .. n
    OBVIOUS
  <2>2. flat[i - 1] \in Seq(S) /\ flat[i] = F[i][flat[i - 1]]
    BY <2>1, <1>3
  <2>3. F[i] = [x \in Seq(S) |-> x \o seqs[i]]
    BY <1>1
  <2> QED
    BY <2>2, <2>3
<1>5. CASE n = 0
  BY <1>3, <1>4, <1>5 DEF FlattenSeq, Flattening
<1>6. CASE n # 0
  <2> DEFINE IsFlat(g) == g = [i \in 1 .. n |-> IF i = 1 THEN seqs[i] ELSE g[i - 1] \o seqs[i]]
             chosen == CHOOSE g : IsFlat(g)
  <2>0. n \in Nat \ {0} /\ 1 \in 1 .. n
    BY <1>6
  <2>1. PICK rest : rest = [i \in 1 .. n |-> flat[i]]
    OBVIOUS
  <2>2. IsFlat(rest)
    <3>1. ASSUME NEW i \in 1 .. n, i # 1
          PROVE  flat[i] = rest[i - 1] \o seqs[i]
      <4>1. i - 1 \in 1 .. n
        BY <3>1
      <4>2. rest[i - 1] = flat[i - 1]
        BY <2>1, <4>1
      <4> QED
        BY <1>4, <4>2
    <3>2. flat[1] = seqs[1]
      <4>1. flat[1] = flat[1 - 1] \o seqs[1]
        BY <1>4, <2>0
      <4>2. flat[1 - 1] = <<>>
        BY <1>3
      <4>3. <<>> \o seqs[1] = seqs[1]
        BY <2>0
      <4> QED
        BY <4>1, <4>2, <4>3
    <3> QED
      BY <2>1, <3>1, <3>2
  <2>3. IsFlat(chosen)
    <3> HIDE DEF IsFlat
    <3> QED
      BY <2>2
  <2>4. FlattenSeq(seqs) = chosen[n]
    BY <1>6 DEF FlattenSeq
  <2>5. \A i \in 1 .. n : chosen[i] = IF i = 1 THEN seqs[i] ELSE chosen[i - 1] \o seqs[i]
    <3> HIDE DEF chosen
    <3> QED
      BY <2>3
  <2>6. \A i \in 1 .. n : rest[i] = IF i = 1 THEN seqs[i] ELSE rest[i - 1] \o seqs[i]
    BY <2>2
  <2> HIDE DEF chosen, IsFlat
  <2> DEFINE T == {i \in 0 .. n - 1 : chosen[i + 1] = rest[i + 1]}
  <2>7. 0 \in T
    BY <2>0, <2>5, <2>6
  <2>8. ASSUME NEW i \in 0 .. (n - 1) - 1, i \in T
        PROVE  i + 1 \in T
    <3>1. (i + 1) + 1 \in 1 .. n /\ (i + 1) + 1 # 1 /\ ((i + 1) + 1) - 1 = i + 1
      BY <2>0
    <3>2. chosen[i + 1] = rest[i + 1]
      BY <2>8
    <3> QED
      BY <2>5, <2>6, <3>1, <3>2
  <2>9. \A i \in 0 .. n - 1 : i \in T
    <3> HIDE DEF T
    <3>1. n - 1 \in Nat
      BY <2>0
    <3>2. \A i \in 0 .. (n - 1) - 1 : i \in T => i + 1 \in T
      BY <2>8
    <3> QED
      BY <2>7, <3>1, <3>2, InductionTo
  <2>10. chosen[n] = rest[n]
    <3>1. n - 1 \in 0 .. n - 1 /\ (n - 1) + 1 = n
      BY <2>0
    <3> QED
      BY <2>9, <3>1
  <2>11. FlattenSeq(seqs) = flat[n]
    BY <2>0, <2>1, <2>4, <2>10
  <2> QED
    BY <1>3, <1>4, <2>11 DEF Flattening
<1> QED
  BY <1>5, <1>6
=============================================================================
