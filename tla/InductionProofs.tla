--------------------------- MODULE InductionProofs ---------------------------
(***************************************************************************)
(* Induction over the natural numbers and definition by recursion, stated  *)
(* about sets and functions.  The proofs about the other modules use them  *)
(* for searches that stop at the first hit and for sums.                   *)
(***************************************************************************)
EXTENDS Integers, WellFoundedInduction, TLAPS

(* A set of natural numbers that is not empty has a least element.         *)
LEMMA LeastNumber ==
    ASSUME NEW T \in SUBSET Nat, T # {}
    PROVE  \E n \in T : \A m \in T : n <= m
<1> DEFINE R == {p \in Nat \X Nat : p[1] < p[2]}
<1>1. IsWellFoundedOn(R, Nat)
  BY NatLessThanWellFounded DEF OpToRel
<1>2. \E n \in T : \A m \in T : ~(<<m, n>> \in R)
  <2> HIDE DEF R
  <2> QED
    BY <1>1, WFMin
<1>3. PICK n \in T : \A m \in T : ~(<<m, n>> \in R)
  BY <1>2
<1>4. ASSUME NEW m \in T
      PROVE  n <= m
  <2>1. ~(<<m, n>> \in R)
    BY <1>3
  <2>2. n \in Nat /\ m \in Nat
    OBVIOUS
  <2>3. ~(m < n)
    BY <2>1, <2>2
  <2> QED
    BY <2>2, <2>3
<1> QED
  BY <1>4

(* Induction: a set that holds 0 and the successor of what it holds.       *)
LEMMA SetInduction ==
    ASSUME NEW S, 0 \in S, \A n \in Nat : n \in S => n + 1 \in S
    PROVE  Nat \subseteq S
<1> DEFINE T == Nat \ S
<1>1. SUFFICES ASSUME T # {} PROVE FALSE
  OBVIOUS
<1>2. PICK n \in T : \A m \in T : n <= m
  BY <1>1, LeastNumber
<1>3. n # 0 /\ n \in Nat /\ n \notin S
  OBVIOUS
<1>4. n - 1 \in Nat /\ n - 1 \notin T
  BY <1>2, <1>3
<1> QED
  BY <1>3, <1>4

(* A search through 0 .. last finds the first number that passes the test  *)
(* or ends at last.                                                        *)
LEMMA FirstNumber ==
    ASSUME NEW last \in Nat, NEW Hits
    PROVE  \E n \in 0 .. last : /\ \A m \in 0 .. n - 1 : m \notin Hits
                                /\ n < last => n \in Hits
<1> DEFINE T == {n \in Nat : n = last \/ n \in Hits}
<1>1. last \in T
  OBVIOUS
<1>2. PICK n \in T : \A m \in T : n <= m
  BY <1>1, LeastNumber
<1>3. n \in 0 .. last
  BY <1>1, <1>2
<1>4. \A m \in 0 .. n - 1 : m \notin Hits
  BY <1>2
<1> QED
  BY <1>3, <1>4

-----------------------------------------------------------------------------
(* The values of f on 0 .. n start with v0 and go on by step.              *)
IsRecursion(f, n, v0, step) ==
    \A i \in 0 .. n : f[i] = IF i = 0 THEN v0 ELSE step[<<i, f[i - 1]>>]

(* Recursion: a function can be defined at n from its value at n - 1.      *)
LEMMA PartialRecursion ==
    ASSUME NEW V, NEW v0 \in V, NEW step \in [Nat \X V -> V], NEW n \in Nat
    PROVE  \E f \in [0 .. n -> V] : IsRecursion(f, n, v0, step)
<1> DEFINE Recursive(f, m) == IsRecursion(f, m, v0, step)
           S == {m \in Nat : \E f \in [0 .. m -> V] : Recursive(f, m)}
<1> USE DEF IsRecursion
<1>1. 0 \in S
  <2> DEFINE f == [i \in 0 .. 0 |-> v0]
  <2>1. f \in [0 .. 0 -> V] /\ Recursive(f, 0)
    OBVIOUS
  <2> QED
    BY <2>1
<1>2. ASSUME NEW m \in Nat, m \in S
      PROVE  m + 1 \in S
  <2>1. PICK f \in [0 .. m -> V] : Recursive(f, m)
    BY <1>2
  <2> DEFINE g == [i \in 0 .. m + 1 |-> IF i = m + 1 THEN step[<<m + 1, f[m]>>] ELSE f[i]]
  <2>2. g \in [0 .. m + 1 -> V]
    <3>1. f[m] \in V
      BY <2>1
    <3>2. step[<<m + 1, f[m]>>] \in V
      BY <3>1
    <3> QED
      BY <2>1, <3>2
  <2>3. \A i \in 0 .. m : g[i] = f[i]
    OBVIOUS
  <2>4. g[m + 1] = step[<<m + 1, g[m]>>]
    <3>1. g[m] = f[m]
      BY <2>3
    <3>2. g[m + 1] = step[<<m + 1, f[m]>>]
      OBVIOUS
    <3> QED
      BY <3>1, <3>2
  <2> HIDE DEF g
  <2>5. ASSUME NEW i \in 0 .. m + 1
        PROVE  g[i] = IF i = 0 THEN v0 ELSE step[<<i, g[i - 1]>>]
    <3>1. CASE i = m + 1
      BY <2>4, <3>1
    <3>2. CASE i \in 0 .. m
      <4>1. g[i] = f[i] /\ (i # 0 => g[i - 1] = f[i - 1])
        BY <2>3, <3>2
      <4>2. f[i] = IF i = 0 THEN v0 ELSE step[<<i, f[i - 1]>>]
        BY <2>1, <3>2
      <4> QED
        BY <4>1, <4>2
    <3> QED
      BY <3>1, <3>2
  <2> QED
    BY <2>2, <2>5
<1>3. n \in S
  <2> HIDE DEF S
  <2> QED
    BY <1>1, <1>2, SetInduction
<1> QED
  BY <1>3

-----------------------------------------------------------------------------
(* Induction from the end: a set that holds i when it holds what is above. *)
LEMMA DownwardInduction ==
    ASSUME NEW N \in Nat, NEW S,
           \A i \in 1 .. N : (\A j \in i + 1 .. N : j \in S) => i \in S
    PROVE  1 .. N \subseteq S
<1> DEFINE T == {d \in Nat : d < N /\ N - d \notin S}
<1>1. SUFFICES ASSUME T # {} PROVE FALSE
  <2>1. SUFFICES ASSUME NEW i \in 1 .. N, i \notin S PROVE T # {}
    OBVIOUS
  <2>2. N - i \in T
    <3>1. N - i \in Nat /\ N - (N - i) = i /\ N - i < N
      BY <2>1
    <3> QED
      BY <2>1, <3>1
  <2> QED
    BY <2>2
<1>2. PICK d \in T : \A e \in T : d <= e
  BY <1>1, LeastNumber
<1>3. N - d \in 1 .. N /\ N - d \notin S
  OBVIOUS
<1>4. ASSUME NEW j \in N - d + 1 .. N
      PROVE  j \in S
  <2>1. N - j \in Nat /\ N - j < d /\ N - (N - j) = j
    BY <1>4
  <2> QED
    BY <1>2, <2>1
<1> QED
  BY <1>3, <1>4

(* The values of f on the indices above m come from the values above them. *)
IsDownwardRecursion(f, N, m, step) ==
    \A i \in 1 .. N : i > m => f[i] = step[<<i, f>>]

(* A step that looks only at the values above i.                           *)
LooksUp(step, N, V) ==
    \A i \in 1 .. N : \A f, g \in [1 .. N -> V] :
        (\A j \in i + 1 .. N : f[j] = g[j]) => step[<<i, f>>] = step[<<i, g>>]

(* Recursion from the end: a function on 1 .. N can be defined at i from   *)
(* its values above i.                                                     *)
LEMMA DownwardRecursion ==
    ASSUME NEW N \in Nat, NEW V, NEW v0 \in V,
           NEW step \in [(1 .. N) \X [1 .. N -> V] -> V], LooksUp(step, N, V)
    PROVE  \E f \in [1 .. N -> V] : IsDownwardRecursion(f, N, 0, step)
<1> DEFINE S == {k \in Nat : k <= N => \E f \in [1 .. N -> V] : IsDownwardRecursion(f, N, N - k, step)}
<1>1. 0 \in S
  <2> DEFINE f == [i \in 1 .. N |-> v0]
  <2>1. f \in [1 .. N -> V] /\ IsDownwardRecursion(f, N, N - 0, step)
    BY DEF IsDownwardRecursion
  <2> QED
    BY <2>1
<1>2. ASSUME NEW k \in Nat, k \in S
      PROVE  k + 1 \in S
  <2>1. SUFFICES ASSUME k + 1 <= N
                 PROVE  \E g \in [1 .. N -> V] : IsDownwardRecursion(g, N, N - (k + 1), step)
    OBVIOUS
  <2>2. PICK f \in [1 .. N -> V] : IsDownwardRecursion(f, N, N - k, step)
    BY <1>2, <2>1
  <2> DEFINE n == N - k
             g == [f EXCEPT ![n] = step[<<n, f>>]]
  <2>3. n \in 1 .. N /\ step[<<n, f>>] \in V
    BY <2>1
  <2>4. g \in [1 .. N -> V] /\ g[n] = step[<<n, f>>] /\ \A i \in 1 .. N : i # n => g[i] = f[i]
    BY <2>3
  <2> HIDE DEF g, n
  <2>5. ASSUME NEW i \in 1 .. N, i >= n
        PROVE  step[<<i, f>>] = step[<<i, g>>]
    <3>1. \A j \in i + 1 .. N : f[j] = g[j]
      BY <2>3, <2>4, <2>5
    <3> QED
      BY <2>4, <3>1 DEF LooksUp
  <2>6. ASSUME NEW i \in 1 .. N, i > n - 1
        PROVE  g[i] = step[<<i, g>>]
    <3>1. CASE i = n
      <4>1. n \in 1 .. N /\ n >= n
        BY <2>3
      <4>2. step[<<n, f>>] = step[<<n, g>>]
        BY <2>5, <4>1
      <4> QED
        BY <2>4, <3>1, <4>2
    <3>2. CASE i > n
      <4>1. f[i] = step[<<i, f>>]
        BY <2>2, <3>2 DEF IsDownwardRecursion, n
      <4>2. i >= n /\ i # n
        BY <2>3, <3>2
      <4>3. step[<<i, f>>] = step[<<i, g>>]
        BY <2>5, <4>2
      <4> QED
        BY <2>4, <4>1, <4>2, <4>3
    <3> QED
      BY <2>3, <2>6, <3>1, <3>2
  <2>7. N - (k + 1) = n - 1
    BY DEF n
  <2> QED
    BY <2>4, <2>6, <2>7 DEF IsDownwardRecursion
<1>3. N \in S
  <2> HIDE DEF S
  <2> QED
    BY <1>1, <1>2, SetInduction
<1>4. N - N = 0
  OBVIOUS
<1> QED
  BY <1>3, <1>4
=============================================================================
