---------------------------- MODULE FoldTheorems ----------------------------
(***************************************************************************)
(* Induction over the natural numbers, and what FoldLeft computes: the     *)
(* facts that the proofs about folded data (queues, paths, frames, chains) *)
(* rest on.  The induction theorems of the library take the predicate as a *)
(* parameter; here it is a set.                                            *)
(***************************************************************************)
EXTENDS Integers, Sequences, FiniteSets, FiniteSetTheorems, SequencesExt, TLAPS

(* A set that contains 0 and the successor of each of its members contains *)
(* every natural number.  (If not, the numbers up to some n that are not   *)
(* in it could all be moved down by one, into one place less.)             *)
LEMMA SetInduction ==
    ASSUME NEW S, 0 \in S, \A n \in Nat : n \in S => n + 1 \in S
    PROVE  Nat \subseteq S
<1> SUFFICES ASSUME NEW n \in Nat, n \notin S PROVE FALSE
  OBVIOUS
<1> DEFINE T == {k \in 0..n : k \notin S}
           U == T \ {n}
           f == [k \in T |-> k - 1]
<1>1. IsFiniteSet(T)
  <2>1. IsFiniteSet(0..n)
    BY FS_Interval
  <2> QED BY <2>1, FS_Subset
<1>2. n \in T
  OBVIOUS
<1>3. IsFiniteSet(U) /\ Cardinality(U) < Cardinality(T)
  <2>1. IsFiniteSet(U) /\ Cardinality(U) = Cardinality(T) - 1
     BY <1>1, <1>2, FS_RemoveElement
  <2>2. Cardinality(T) \in Nat
     BY <1>1, FS_CardinalityType
  <2> QED BY <2>1, <2>2
<1>4. f \in [T -> U]
  <2>1. \A k \in T : k - 1 \in U
    OBVIOUS
  <2> QED BY <2>1
<1>5. \E x, y \in T : x # y /\ f[x] = f[y]
  <2> HIDE DEF T, U, f
  <2> QED BY <1>1, <1>3, <1>4, FS_PigeonHole
<1> QED
  BY <1>5

(* The same up to a bound.                                                 *)
LEMMA BoundedInduction ==
    ASSUME NEW n \in Nat, NEW S, 0 \in S, \A k \in 0..(n - 1) : k \in S => k + 1 \in S
    PROVE  0..n \subseteq S
<1> DEFINE T == {k \in Nat : k <= n => k \in S}
<1>1. 0 \in T
  OBVIOUS
<1>2. \A k \in Nat : k \in T => k + 1 \in T
  <2> SUFFICES ASSUME NEW k \in Nat, k \in T, k + 1 <= n PROVE k + 1 \in S
    OBVIOUS
  <2>1. k \in 0..(n - 1) /\ k \in S
    OBVIOUS
  <2> QED BY <2>1
<1> HIDE DEF T
<1>3. Nat \subseteq T
  BY <1>1, <1>2, SetInduction
<1> QED
  BY <1>3 DEF T

(* The greatest of some numbers up to n.                                   *)
LEMMA MaxOfNumbers ==
    ASSUME NEW n \in Nat
    PROVE  \A s \in SUBSET (1..n) : s # {} => Max(s) \in s /\ \A y \in s : Max(s) >= y
<1> DEFINE HasMax(s) == \E x \in s : \A y \in s : x >= y
           S == {m \in Nat : \A s \in SUBSET (1..m) : s # {} => HasMax(s)}
<1>1. 0 \in S
  <2>1. \A s \in SUBSET (1..0) : s = {}
    OBVIOUS
  <2> QED BY <2>1
<1>2. ASSUME NEW m \in Nat, m \in S PROVE m + 1 \in S
  <2> SUFFICES ASSUME NEW s \in SUBSET (1..(m + 1)), s # {} PROVE HasMax(s)
    BY <1>2
  <2>1. CASE m + 1 \in s
    <3>1. \A y \in s : m + 1 >= y
      OBVIOUS
    <3> QED BY <2>1, <3>1
  <2>2. CASE m + 1 \notin s
    <3>1. s \in SUBSET (1..m)
      <4>1. \A y \in s : y \in 1..(m + 1) /\ y # m + 1
        BY <2>2
      <4>2. \A y \in s : y \in 1..m
        BY <4>1
      <4> QED BY <4>2
    <3> QED BY <1>2, <3>1
  <2> QED BY <2>1, <2>2
<1> HIDE DEF S
<1>3. n \in S
  BY <1>1, <1>2, SetInduction
<1> QED
  BY <1>3 DEF S, Max

LEMMA MaxOfFirst ==
    ASSUME NEW n \in Nat, NEW s \in SUBSET (1..(n + 1)), n + 1 \in s
    PROVE  Max(s) = n + 1
<1>1. n + 1 \in Nat
  OBVIOUS
<1>2. Max(s) \in s /\ \A y \in s : Max(s) >= y
  BY <1>1, MaxOfNumbers
<1>3. Max(s) \in 1..(n + 1) /\ Max(s) >= n + 1
  BY <1>2
<1> QED
  BY <1>3

LEMMA FirstNumbers ==
    /\ 1..0 = {}
    /\ \A k \in Nat : /\ Max(1..(k + 1)) = k + 1 /\ 1..(k + 1) # {}
                      /\ (1..(k + 1)) \ {k + 1} = 1..k
<1>1. 1..0 = {}
  OBVIOUS
<1>2. ASSUME NEW k \in Nat
      PROVE  Max(1..(k + 1)) = k + 1 /\ 1..(k + 1) # {} /\ (1..(k + 1)) \ {k + 1} = 1..k
  <2>1. k + 1 \in 1..(k + 1)
    OBVIOUS
  <2>2. Max(1..(k + 1)) = k + 1
    <3>1. 1..(k + 1) \in SUBSET (1..(k + 1))
      OBVIOUS
    <3> QED BY <2>1, <3>1, MaxOfFirst
  <2>3. (1..(k + 1)) \ {k + 1} = 1..k
    OBVIOUS
  <2> QED BY <2>1, <2>2, <2>3
<1> QED
  BY <1>1, <1>2

(* The recursion that a fold is defined by has a solution.                 *)
FoldsOver(it, n, base, step) ==
    it = [s \in SUBSET (1..n) |-> IF s = {} THEN base ELSE step[Max(s)][it[s \ {Max(s)}]]]

LEMMA FoldExists ==
    ASSUME NEW n \in Nat, NEW V, NEW base \in V, NEW step \in [1..n -> [V -> V]]
    PROVE  \E it \in [SUBSET (1..n) -> V] : FoldsOver(it, n, base, step)
<1> DEFINE Solved(m) == \E it \in [SUBSET (1..m) -> V] : FoldsOver(it, m, base, step)
           S == {m \in 0..n : Solved(m)}
<1>1. 0 \in S
  <2> DEFINE it == [s \in SUBSET (1..0) |-> base]
  <2>1. \A s \in SUBSET (1..0) : s = {}
    OBVIOUS
  <2>2. it \in [SUBSET (1..0) -> V]
    OBVIOUS
  <2>3. FoldsOver(it, 0, base, step)
    BY <2>1 DEF FoldsOver
  <2> HIDE DEF it
  <2>4. Solved(0)
    BY <2>2, <2>3
  <2>5. 0 \in 0..n
    OBVIOUS
  <2> HIDE DEF Solved
  <2> QED BY <2>4, <2>5
<1>2. ASSUME NEW m \in 0..(n - 1), m \in S PROVE m + 1 \in S
  <2>1. PICK old \in [SUBSET (1..m) -> V] : FoldsOver(old, m, base, step)
    BY <1>2
  <2> DEFINE k == m + 1
             it == [s \in SUBSET (1..k) |-> IF k \in s THEN step[k][old[s \ {k}]] ELSE old[s]]
  <2>2. k \in 1..n /\ m \in Nat /\ k = m + 1
    OBVIOUS
  <2>3. ASSUME NEW s \in SUBSET (1..k) PROVE s \ {k} \in SUBSET (1..m)
    <3>1. \A y \in s : y \in 1..k
      OBVIOUS
    <3>2. \A y \in s : y # k => y \in 1..m
      BY <2>2, <3>1
    <3> QED BY <3>2
  <2> HIDE DEF k
  <2>4. ASSUME NEW s \in SUBSET (1..k) PROVE it[s] \in V
    <3>1. CASE k \in s
      <4>1. old[s \ {k}] \in V /\ step[k] \in [V -> V]
        BY <2>1, <2>2, <2>3
      <4> QED BY <3>1, <4>1
    <3>2. CASE k \notin s
      <4>1. s \ {k} = s
        BY <3>2
      <4>2. old[s] \in V
        BY <2>1, <2>3, <4>1
      <4> QED BY <3>2, <4>2
    <3> QED BY <3>1, <3>2
  <2>5. it \in [SUBSET (1..k) -> V]
    BY <2>4
  <2>6. ASSUME NEW s \in SUBSET (1..k)
        PROVE  it[s] = IF s = {} THEN base ELSE step[Max(s)][it[s \ {Max(s)}]]
    <3>1. CASE k \in s
      <4>1. Max(s) = k
        BY <2>2, <3>1, MaxOfFirst
      <4>2. s \ {k} \in SUBSET (1..k) /\ k \notin s \ {k}
        OBVIOUS
      <4>3. it[s \ {k}] = old[s \ {k}]
        BY <4>2
      <4> QED BY <3>1, <4>1, <4>3
    <3>2. CASE k \notin s /\ s # {}
      <4>1. s \ {k} = s /\ s \in SUBSET (1..m)
        BY <2>3, <3>2
      <4>2. Max(s) \in s
        BY <2>2, <3>2, <4>1, MaxOfNumbers
      <4>3. old[s] = step[Max(s)][old[s \ {Max(s)}]]
        BY <2>1, <3>2, <4>1 DEF FoldsOver
      <4>4. s \ {Max(s)} \in SUBSET (1..k) /\ k \notin s \ {Max(s)}
        BY <3>2
      <4> QED BY <3>2, <4>3, <4>4
    <3>3. CASE s = {}
      <4>1. {} \in SUBSET (1..m) /\ old[{}] = base
        BY <2>1 DEF FoldsOver
      <4> QED BY <3>3, <4>1
    <3> QED BY <3>1, <3>2, <3>3
  <2> HIDE DEF it
  <2>7. it = [s \in SUBSET (1..k) |-> it[s]]
    BY <2>5
  <2>8. FoldsOver(it, k, base, step)
    BY <2>6, <2>7 DEF FoldsOver
  <2>9. Solved(k)
    BY <2>5, <2>8
  <2> QED
    BY <2>2, <2>9
<1> HIDE DEF S
<1>3. 0..n \subseteq S
  BY <1>1, <1>2, BoundedInduction
<1>4. n \in 0..n
  OBVIOUS
<1> QED
  BY <1>3, <1>4 DEF S

=============================================================================
