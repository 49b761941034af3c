---------------------------- MODULE Desync_proofs ----------------------------
(***************************************************************************)
(* What the engine makes of a payload, for every profile and every packet  *)
(* of its context: the data of a plan are the payload, each byte once.     *)
(*                                                                         *)
(* An operation takes apart what the one before it has made, so one case   *)
(* of each operation is not enough. What they all keep is that the data    *)
(* are a tiling (Tiling): in some order, the k-th part carries what lies   *)
(* between two bounds, above fillers that lie below those bounds. What is  *)
(* tiled need not be the payload itself, since a tamper and a record split *)
(* rewrite it; it is a form of it (Form): the same bytes of the request in *)
(* the same order, with others that the server takes for its own. A plan   *)
(* is lawful (Lawful) when its data are such a tiling. Every operation     *)
(* keeps a plan lawful, and so does a profile, by induction on the places  *)
(* of its operations (Induct).                                             *)
(*                                                                         *)
(* The first part is about the operators the model takes from elsewhere:   *)
(* sorting, joining and filtering of sequences.                            *)
(***************************************************************************)
EXTENDS Desync, TLAPS, SequenceTheorems, FiniteSetTheorems, FunctionTheorems, WellFoundedInduction

(***************************************************************************)
(* Numbers and recursion.                                                  *)
(***************************************************************************)
(* A set of numbers has a least one: the induction of what follows. *)
LEMMA Least == ASSUME NEW T \in SUBSET Nat, T # {} PROVE \E m \in T : \A k \in T : m <= k
  <1>1. PICK x \in T : \A y \in T : ~(<<y, x>> \in OpToRel(<, Nat))
    BY NatLessThanWellFounded, WFMin, Zenon
  <1>2. \A y \in T : ~(y < x)
    <2>1. \A y \in T : <<y, x>> \in OpToRel(<, Nat) <=> y < x
      BY DEF OpToRel
    <2>. QED BY <1>1, <2>1
  <1>. QED BY <1>2

(* What holds at 0 and passes from each number of an interval to the next holds all over it. *)
LEMMA Induct ==
    ASSUME NEW n \in Nat, NEW T, 0 \in T, \A k \in 0 .. n - 1 : k \in T => k + 1 \in T
    PROVE  \A k \in 0 .. n : k \in T
  <1>. SUFFICES ASSUME NEW j \in 0 .. n, j \notin T PROVE FALSE
    OBVIOUS
  <1>. DEFINE Bad == {k \in 0 .. n : k \notin T}
  <1>1. Bad \in SUBSET Nat /\ Bad # {}
    OBVIOUS
  <1>2. PICK m \in Bad : \A k \in Bad : m <= k
    BY <1>1, Least
  <1>3. m # 0 /\ m - 1 \in 0 .. n - 1
    BY <1>2
  <1>4. m - 1 \in T
    BY <1>2, <1>3
  <1>. QED BY <1>2, <1>3, <1>4

(* A function that starts with one value and takes a step from each to the next. *)
Unfolds(f, n, a, step) == f[0] = a /\ \A k \in 1 .. n : f[k] = step[k][f[k - 1]]
(* A function of 0 .. n is defined by its value at 0 and a step from each of its *)
(* values to the next. (Existence: the step is a function of place and value.)   *)
LEMMA Recursive ==
    ASSUME NEW n \in Nat, NEW V, NEW a \in V, NEW step \in [1 .. n -> [V -> V]]
    PROVE  \E f \in [0 .. n -> V] : Unfolds(f, n, a, step)
  <1>. DEFINE T == {m \in 0 .. n : \E f \in [0 .. m -> V] : f[0] = a /\ \A k \in 1 .. m : f[k] = step[k][f[k - 1]]}
  <1>1. 0 \in T
    <2>. DEFINE f == [k \in 0 .. 0 |-> a]
    <2>1. f \in [0 .. 0 -> V] /\ f[0] = a /\ \A k \in 1 .. 0 : f[k] = step[k][f[k - 1]]
      OBVIOUS
    <2>2. 0 \in 0 .. n
      OBVIOUS
    <2>. HIDE DEF f
    <2>. QED BY <2>1, <2>2
  <1>2. ASSUME NEW m \in 0 .. n - 1, m \in T PROVE m + 1 \in T
    <2>1. PICK f \in [0 .. m -> V] : f[0] = a /\ \A k \in 1 .. m : f[k] = step[k][f[k - 1]]
      BY <1>2
    <2>. DEFINE g == [k \in 0 .. m + 1 |-> IF k = m + 1 THEN step[m + 1][f[m]] ELSE f[k]]
    <2>2. step[m + 1][f[m]] \in V
      <3>1. f[m] \in V /\ m + 1 \in 1 .. n
        BY <2>1
      <3>. QED BY <3>1
    <2>3. g \in [0 .. m + 1 -> V]
      BY <2>1, <2>2
    <2>4. g[0] = a
      BY <2>1
    <2>5. ASSUME NEW k \in 1 .. m + 1 PROVE g[k] = step[k][g[k - 1]]
      <3>1. g[k - 1] = f[k - 1]
        OBVIOUS
      <3>2. CASE k = m + 1
        BY <3>1, <3>2
      <3>3. CASE k # m + 1
        <4>1. k \in 1 .. m
          BY <3>3
        <4>. QED BY <2>1, <3>1, <4>1
      <3>. QED BY <3>2, <3>3
    <2>6. m + 1 \in 0 .. n
      OBVIOUS
    <2>. HIDE DEF g
    <2>. QED BY <2>3, <2>4, <2>5, <2>6
  <1>3. n \in T
    <2>. HIDE DEF T
    <2>1. \A k \in 0 .. n - 1 : k \in T => k + 1 \in T
      BY <1>2
    <2>2. \A k \in 0 .. n : k \in T
      BY <1>1, <2>1, Induct
    <2>. QED BY <2>2
  <1>. QED BY <1>3 DEF Unfolds

(***************************************************************************)
(* Order.                                                                  *)
(***************************************************************************)
(* The members of a set before one of them, in the order of their keys. *)
Before(I, key, i) == {j \in I : key[j] < key[i] \/ (key[j] = key[i] /\ j < i)}

(* Sorted is any enumeration of the set that is in order. *)
LEMMA SortedIs ==
    ASSUME NEW I \in SUBSET Int, NEW key \in [I -> Int], NEW n \in Nat, NEW q \in [1 .. n -> I],
           \A i \in I : \E k \in 1 .. n : q[k] = i,
           \A a, b \in 1 .. n : a < b => key[q[a]] < key[q[b]] \/ (key[q[a]] = key[q[b]] /\ q[a] < q[b])
    PROVE  Sorted(I, key) = q /\ Cardinality(I) = n /\ IsFiniteSet(I)
  <1>1. ASSUME NEW a \in 1 .. n, NEW b \in 1 .. n, q[a] = q[b] PROVE a = b
    <2>1. key[q[a]] \in Int /\ q[a] \in Int /\ key[q[b]] = key[q[a]] /\ q[a] = q[b]
      BY <1>1
    <2>2. ~(a < b) /\ ~(b < a)
      BY <2>1
    <2>. QED BY <2>2
  <1>2. q \in Bijection(1 .. n, I)
    BY <1>1 DEF Bijection, Injection, Surjection, IsInjective
  <1>3. ExistsBijection(1 .. n, I)
    BY <1>2 DEF ExistsBijection
  <1>4. Cardinality(I) = n /\ IsFiniteSet(I)
    BY <1>3, FS_CountingElements, FS_NatBijection
  <1>5. ASSUME NEW k \in 1 .. n PROVE Cardinality(Before(I, key, q[k])) = k - 1
    <2>. DEFINE r == [a \in 1 .. k - 1 |-> q[a]]
                B == Before(I, key, q[k])
    <2>1. ASSUME NEW a \in 1 .. k - 1 PROVE q[a] \in B
      BY <2>1 DEF Before
    <2>2. ASSUME NEW i \in B PROVE \E a \in 1 .. k - 1 : q[a] = i
      <3>1. i \in I /\ (key[i] < key[q[k]] \/ (key[i] = key[q[k]] /\ i < q[k]))
        BY <2>2 DEF Before
      <3>2. PICK a \in 1 .. n : q[a] = i
        BY <3>1
      <3>3. a < k
        <4>. SUFFICES ASSUME ~(a < k) PROVE FALSE
          OBVIOUS
        <4>1. a = k \/ k < a
          OBVIOUS
        <4>2. key[q[k]] \in Int /\ key[i] \in Int /\ q[k] \in Int /\ i \in Int
          BY <3>1
        <4>3. a # k
          BY <3>1, <3>2, <4>2
        <4>4. key[q[k]] < key[i] \/ (key[q[k]] = key[i] /\ q[k] < i)
          BY <4>1, <4>3, <3>2
        <4>. QED BY <3>1, <4>2, <4>4
      <3>. QED BY <3>2, <3>3
    <2>. HIDE DEF B
    <2>3. r \in [1 .. k - 1 -> B] /\ \A a \in 1 .. k - 1 : r[a] = q[a]
      BY <2>1
    <2>4. \A a, b \in 1 .. k - 1 : r[a] = r[b] => a = b
      BY <2>3, <1>1
    <2>5. \A i \in B : \E a \in 1 .. k - 1 : r[a] = i
      BY <2>2, <2>3
    <2>. HIDE DEF r
    <2>6. r \in Bijection(1 .. k - 1, B)
      BY <2>3, <2>4, <2>5 DEF Bijection, Injection, Surjection, IsInjective
    <2>7. ExistsBijection(1 .. k - 1, B) /\ k - 1 \in Nat
      BY <2>6 DEF ExistsBijection
    <2>8. Cardinality(B) = k - 1
      BY <2>7, FS_CountingElements
    <2>. QED BY <2>8 DEF B
  <1>6. ASSUME NEW k \in 1 .. n PROVE (CHOOSE i \in I : Cardinality(Before(I, key, i)) = k - 1) = q[k]
    <2>1. q[k] \in I /\ Cardinality(Before(I, key, q[k])) = k - 1
      BY <1>5
    <2>2. ASSUME NEW i \in I, Cardinality(Before(I, key, i)) = k - 1 PROVE i = q[k]
      <3>1. PICK a \in 1 .. n : q[a] = i
        OBVIOUS
      <3>2. Cardinality(Before(I, key, i)) = a - 1
        BY <1>5, <3>1
      <3>. QED BY <2>2, <3>1, <3>2
    <2>. QED BY <2>1, <2>2
  <1>7. Sorted(I, key) = [k \in 1 .. n |-> CHOOSE i \in I : Cardinality(Before(I, key, i)) = k - 1]
    BY <1>4 DEF Sorted, Before
  <1>8. Sorted(I, key) = q
    BY <1>6, <1>7
  <1>. QED BY <1>4, <1>8

(* The same, with its hypotheses under a name. *)
Enumerates(I, key, n, q) ==
    /\ I \in SUBSET Int /\ key \in [I -> Int] /\ n \in Nat /\ q \in [1 .. n -> I]
    /\ \A i \in I : \E k \in 1 .. n : q[k] = i
    /\ \A a, b \in 1 .. n : a < b => key[q[a]] < key[q[b]] \/ (key[q[a]] = key[q[b]] /\ q[a] < q[b])
LEMMA SortedOf ==
    ASSUME NEW I, NEW key, NEW n, NEW q, Enumerates(I, key, n, q)
    PROVE  Sorted(I, key) = q /\ Cardinality(I) = n /\ IsFiniteSet(I)
  BY SortedIs DEF Enumerates

(* A finite set has such an enumeration. *)
LEMMA SortedFacts ==
    ASSUME NEW I \in SUBSET Int, IsFiniteSet(I), NEW key \in [I -> Int]
    PROVE  LET n == Cardinality(I)
               q == Sorted(I, key)
           IN  /\ n \in Nat /\ q \in [1 .. n -> I]
               /\ \A i \in I : \E k \in 1 .. n : q[k] = i
               /\ \A a, b \in 1 .. n : a < b => key[q[a]] < key[q[b]] \/ (key[q[a]] = key[q[b]] /\ q[a] < q[b])
  <1>. DEFINE n == Cardinality(I)
              R == [i \in I |-> Cardinality(Before(I, key, i))]
  <1>1. n \in Nat
    BY FS_CardinalityType
  <1>2. ASSUME NEW i \in I
        PROVE  /\ Before(I, key, i) \in SUBSET I /\ i \notin Before(I, key, i) /\ IsFiniteSet(Before(I, key, i))
               /\ R[i] \in 0 .. n - 1
    <2>1. Before(I, key, i) \in SUBSET I /\ i \notin Before(I, key, i)
      BY DEF Before
    <2>2. IsFiniteSet(Before(I, key, i)) /\ Cardinality(Before(I, key, i)) <= n
      BY <2>1, FS_Subset
    <2>3. Cardinality(Before(I, key, i)) # n
      BY <2>1, FS_Subset
    <2>4. Cardinality(Before(I, key, i)) \in Nat
      BY <2>2, FS_CardinalityType
    <2>. QED BY <1>1, <2>1, <2>2, <2>3, <2>4
  <1>3. ASSUME NEW i \in I, NEW j \in I, key[i] < key[j] \/ (key[i] = key[j] /\ i < j) PROVE R[i] < R[j]
    <2>1. key[i] \in Int /\ key[j] \in Int /\ \A k \in I : key[k] \in Int
      OBVIOUS
    <2>2. ASSUME NEW k \in Before(I, key, i) PROVE k \in Before(I, key, j)
      <3>1. k \in I /\ (key[k] < key[i] \/ (key[k] = key[i] /\ k < i))
        BY DEF Before
      <3>2. key[k] < key[j] \/ (key[k] = key[j] /\ k < j)
        BY <1>3, <2>1, <3>1
      <3>. QED BY <3>1, <3>2 DEF Before
    <2>3. i \in Before(I, key, j)
      BY <1>3 DEF Before
    <2>4. Cardinality(Before(I, key, i)) <= Cardinality(Before(I, key, j))
      BY <1>2, <2>2, FS_Subset
    <2>5. Cardinality(Before(I, key, i)) # Cardinality(Before(I, key, j))
      BY <1>2, <2>2, <2>3, FS_Subset
    <2>6. R[i] \in Int /\ R[j] \in Int
      BY <1>1, <1>2
    <2>. QED BY <2>4, <2>5, <2>6
  <1>. HIDE DEF n
  <1>4. ASSUME NEW i \in I, NEW j \in I, i # j
        PROVE  (key[i] < key[j] \/ (key[i] = key[j] /\ i < j)) \/ (key[j] < key[i] \/ (key[j] = key[i] /\ j < i))
    BY <1>4
  <1>5. R \in [I -> 0 .. n - 1]
    BY <1>2
  <1>6. \A i, j \in I : R[i] = R[j] => i = j
    BY <1>1, <1>3, <1>4, <1>5
  <1>. HIDE DEF R
  <1>7. R \in Injection(I, 0 .. n - 1)
    BY <1>5, <1>6 DEF Injection, IsInjective
  <1>8. IsFiniteSet(0 .. n - 1) /\ Cardinality(0 .. n - 1) = n
    BY <1>1, FS_Interval
  <1>9. R \in Surjection(I, 0 .. n - 1)
    BY <1>7, <1>8, FS_Injection DEF n
  <1>10. \A k \in 1 .. n : \E i \in I : R[i] = k - 1
    BY <1>9, <1>1 DEF Surjection
  <1>. DEFINE q == [k \in 1 .. n |-> CHOOSE i \in I : R[i] = k - 1]
  <1>11. \A k \in 1 .. n : q[k] \in I /\ R[q[k]] = k - 1
    BY <1>10
  <1>12. q \in [1 .. n -> I]
    BY <1>11
  <1>. HIDE DEF q
  <1>13. ASSUME NEW i \in I PROVE \E k \in 1 .. n : q[k] = i
    <2>1. R[i] \in 0 .. n - 1
      BY <1>5
    <2>2. R[i] + 1 \in 1 .. n /\ R[q[R[i] + 1]] = R[i]
      BY <2>1, <1>1, <1>11
    <2>. QED BY <2>2, <1>6, <1>11
  <1>14. ASSUME NEW a \in 1 .. n, NEW b \in 1 .. n, a < b
         PROVE  key[q[a]] < key[q[b]] \/ (key[q[a]] = key[q[b]] /\ q[a] < q[b])
    <2>1. R[q[a]] = a - 1 /\ R[q[b]] = b - 1 /\ q[a] \in I /\ q[b] \in I
      BY <1>11
    <2>2. R[q[a]] < R[q[b]] /\ ~(R[q[b]] < R[q[a]]) /\ q[a] # q[b]
      BY <1>1, <1>14, <2>1
    <2>. QED BY <2>1, <2>2, <1>3, <1>4
  <1>15. Sorted(I, key) = q
    BY <1>1, <1>12, <1>13, <1>14, SortedIs
  <1>. QED BY <1>1, <1>12, <1>13, <1>14, <1>15 DEF n

(* Of numbers: the sorted sequence is the one that increases. *)
LEMMA AscendingIs ==
    ASSUME NEW I \in SUBSET Int, NEW n \in Nat, NEW q \in [1 .. n -> I],
           \A i \in I : \E k \in 1 .. n : q[k] = i, \A a, b \in 1 .. n : a < b => q[a] < q[b]
    PROVE  Ascending(I) = q /\ Cardinality(I) = n /\ IsFiniteSet(I)
  <1>. DEFINE key == [i \in I |-> i]
  <1>1. key \in [I -> Int] /\ \A k \in 1 .. n : key[q[k]] = q[k]
    OBVIOUS
  <1>. HIDE DEF key
  <1>2. \A a, b \in 1 .. n : a < b => key[q[a]] < key[q[b]] \/ (key[q[a]] = key[q[b]] /\ q[a] < q[b])
    BY <1>1
  <1>3. Sorted(I, key) = q /\ Cardinality(I) = n /\ IsFiniteSet(I)
    BY <1>1, <1>2, SortedIs
  <1>. QED BY <1>3 DEF Ascending, key

LEMMA AscendingFacts ==
    ASSUME NEW I \in SUBSET Int, IsFiniteSet(I)
    PROVE  LET n == Cardinality(I)
               q == Ascending(I)
           IN  /\ n \in Nat /\ q \in [1 .. n -> I] /\ q \in Seq(I) /\ Len(q) = n
               /\ \A i \in I : \E k \in 1 .. n : q[k] = i
               /\ \A a, b \in 1 .. n : a < b => q[a] < q[b]
  <1>. DEFINE key == [i \in I |-> i]
              n == Cardinality(I)
              q == Ascending(I)
  <1>1. key \in [I -> Int]
    OBVIOUS
  <1>2. q = Sorted(I, key)
    BY DEF Ascending
  <1>. HIDE DEF key, q, n
  <1>3. /\ n \in Nat /\ q \in [1 .. n -> I] /\ \A i \in I : \E k \in 1 .. n : q[k] = i
        /\ \A a, b \in 1 .. n : a < b => key[q[a]] < key[q[b]] \/ (key[q[a]] = key[q[b]] /\ q[a] < q[b])
    BY <1>1, <1>2, SortedFacts DEF n
  <1>4. \A k \in 1 .. n : key[q[k]] = q[k]
    BY <1>3 DEF key
  <1>5. \A a, b \in 1 .. n : a < b => q[a] < q[b]
    BY <1>3, <1>4
  <1>6. q \in Seq(I) /\ Len(q) = n
    BY <1>3
  <1>. QED BY <1>3, <1>5, <1>6 DEF n, q

(* What a sequence is at some of its places. *)
LEMMA ChosenIs ==
    ASSUME NEW s, NEW I \in SUBSET Int, NEW n \in Nat, NEW q \in [1 .. n -> I],
           \A i \in I : \E k \in 1 .. n : q[k] = i, \A a, b \in 1 .. n : a < b => q[a] < q[b]
    PROVE  Chosen(s, I) = [k \in 1 .. n |-> s[q[k]]]
  BY AscendingIs DEF Chosen

LEMMA ChosenFacts ==
    ASSUME NEW S, NEW s \in Seq(S), NEW I \in SUBSET (1 .. Len(s))
    PROVE  LET n == Cardinality(I)
               q == Ascending(I)
           IN  /\ Chosen(s, I) \in Seq(S) /\ Len(Chosen(s, I)) = n /\ n \in Nat
               /\ q \in [1 .. n -> I] /\ \A k \in 1 .. n : Chosen(s, I)[k] = s[q[k]]
               /\ \A i \in I : \E k \in 1 .. n : q[k] = i
               /\ \A a, b \in 1 .. n : a < b => q[a] < q[b]
               /\ IsFiniteSet(I)
  <1>1. IsFiniteSet(1 .. Len(s)) /\ I \in SUBSET Int
    BY FS_Interval
  <1>2. IsFiniteSet(I)
    BY <1>1, FS_Subset
  <1>. DEFINE n == Cardinality(I)
              q == Ascending(I)
  <1>3. /\ n \in Nat /\ q \in [1 .. n -> I] /\ \A i \in I : \E k \in 1 .. n : q[k] = i
        /\ \A a, b \in 1 .. n : a < b => q[a] < q[b]
    BY <1>1, <1>2, AscendingFacts
  <1>4. Chosen(s, I) = [k \in 1 .. n |-> s[q[k]]]
    BY DEF Chosen
  <1>. HIDE DEF n, q
  <1>5. ASSUME NEW k \in 1 .. n PROVE s[q[k]] \in S
    <2>1. q[k] \in I
      BY <1>3
    <2>2. q[k] \in 1 .. Len(s)
      BY <2>1
    <2>. QED BY <2>2
  <1>6. Chosen(s, I) \in Seq(S) /\ Len(Chosen(s, I)) = n /\ \A k \in 1 .. n : Chosen(s, I)[k] = s[q[k]]
    <2>1. Chosen(s, I) \in [1 .. n -> S] /\ n \in Nat
      BY <1>3, <1>4, <1>5
    <2>. QED BY <1>4, <2>1
  <1>. QED BY <1>2, <1>3, <1>6 DEF n, q

(***************************************************************************)
(* Joined sequences.                                                       *)
(***************************************************************************)
(* The places where each of n sequences begins when they are joined. *)
Adds(B, n, len) == /\ B[0] = 0 /\ \A k \in 1 .. n : B[k] = B[k - 1] + len[k]
                   /\ \A a, b \in 0 .. n : a <= b => B[a] <= B[b]

LEMMA Sums ==
    ASSUME NEW n \in Nat, NEW len \in [1 .. n -> Nat]
    PROVE  \E B \in [0 .. n -> Nat] : Adds(B, n, len)
  <1>. DEFINE step == [k \in 1 .. n |-> [x \in Nat |-> x + len[k]]]
  <1>1. step \in [1 .. n -> [Nat -> Nat]] /\ 0 \in Nat
    OBVIOUS
  <1>2. PICK B \in [0 .. n -> Nat] : Unfolds(B, n, 0, step)
    <2>. HIDE DEF step
    <2>. QED BY <1>1, Recursive
  <1>3. B[0] = 0
    BY <1>2 DEF Unfolds
  <1>4. ASSUME NEW k \in 1 .. n PROVE B[k] = B[k - 1] + len[k]
    <2>1. B[k] = step[k][B[k - 1]]
      BY <1>2 DEF Unfolds
    <2>2. B[k - 1] \in Nat
      OBVIOUS
    <2>. QED BY <2>1, <2>2
  <1>5. \A a, b \in 0 .. n : a <= b => B[a] <= B[b]
    <2>. DEFINE T == {b \in 0 .. n : \A a \in 0 .. b : B[a] <= B[b]}
    <2>1. 0 \in T
      OBVIOUS
    <2>2. ASSUME NEW k \in 0 .. n - 1, k \in T PROVE k + 1 \in T
      <3>1. B[k + 1] = B[k] + len[k + 1] /\ len[k + 1] \in Nat
        BY <1>4
      <3>2. \A a \in 0 .. k : B[a] <= B[k + 1]
        BY <2>2, <3>1
      <3>3. \A a \in 0 .. k + 1 : a = k + 1 \/ a \in 0 .. k
        OBVIOUS
      <3>. QED BY <3>2, <3>3
    <2>. HIDE DEF T
    <2>3. \A k \in 0 .. n - 1 : k \in T => k + 1 \in T
      BY <2>2
    <2>4. \A k \in 0 .. n : k \in T
      BY <2>1, <2>3, Induct
    <2>. QED BY <2>4 DEF T
  <1>. QED BY <1>3, <1>4, <1>5 DEF Adds

(* B[k] bytes lie before the end of the k-th of the sequences ss. *)
Joins(B, n, ss) == /\ B[0] = 0 /\ \A k \in 1 .. n : B[k] = B[k - 1] + Len(ss[k])
                   /\ \A a, b \in 0 .. n : a <= b => B[a] <= B[b]

LEMMA JoinExists ==
    ASSUME NEW S, NEW n \in Nat, NEW ss \in [1 .. n -> Seq(S)]
    PROVE  \E B \in [0 .. n -> Nat] : Joins(B, n, ss)
  <1>. DEFINE len == [k \in 1 .. n |-> Len(ss[k])]
  <1>1. len \in [1 .. n -> Nat]
    OBVIOUS
  <1>2. \A k \in 1 .. n : len[k] = Len(ss[k])
    OBVIOUS
  <1>. HIDE DEF len
  <1>3. PICK B \in [0 .. n -> Nat] : Adds(B, n, len)
    BY <1>1, Sums
  <1>. QED BY <1>2, <1>3 DEF Adds, Joins

(* flat is the sequences ss one after the other. *)
Joined(flat, S, n, ss, B) ==
    /\ flat \in Seq(S) /\ Len(flat) = B[n]
    /\ \A k \in 1 .. n : \A j \in 1 .. Len(ss[k]) : flat[B[k - 1] + j] = ss[k][j]

LEMMA FlattenIs ==
    ASSUME NEW S, NEW n \in Nat, NEW ss \in [1 .. n -> Seq(S)],
           NEW B \in [0 .. n -> Nat],
           Joins(B, n, ss)
    PROVE  Joined(FlattenSeq(ss), S, n, ss, B)
  <1>1. ss \in Seq(Seq(S)) /\ Len(ss) = n
    OBVIOUS
  <1>4. ASSUME NEW k \in 1 .. n
        PROVE  /\ B[k - 1] \in Nat /\ B[k] \in Nat /\ Len(ss[k]) \in Nat /\ ss[k] \in Seq(S) /\ B[k] = B[k - 1] + Len(ss[k])
               /\ k \in 0 .. n
    BY DEF Joins
  <1>2. CASE n = 0
    <2>1. FlattenSeq(ss) = ss /\ ss = <<>>
      BY <1>1, <1>2 DEF FlattenSeq
    <2>2. B[0] = 0
      BY DEF Joins
    <2>3. ss \in Seq(S) /\ Len(ss) = 0
      BY <1>2
    <2>. QED BY <1>2, <2>1, <2>2, <2>3 DEF Joined
  <1>3. CASE n # 0
    <2>. DEFINE step == [k \in 1 .. n |-> [x \in Seq(S) |-> x \o ss[k]]]
    <2>1. step \in [1 .. n -> [Seq(S) -> Seq(S)]] /\ <<>> \in Seq(S)
      OBVIOUS
    <2>2. PICK g \in [0 .. n -> Seq(S)] : Unfolds(g, n, <<>>, step)
      <3>. HIDE DEF step
      <3>. QED BY <2>1, Recursive
    <2>3. g[0] = <<>>
      BY <2>2 DEF Unfolds
    <2>4. ASSUME NEW k \in 1 .. n PROVE g[k] = g[k - 1] \o ss[k]
      <3>1. g[k] = step[k][g[k - 1]]
        BY <2>2 DEF Unfolds
      <3>2. g[k - 1] \in Seq(S)
        OBVIOUS
      <3>. QED BY <3>1, <3>2
    <2>. HIDE DEF step
    <2>5. g[1] = ss[1]
      <3>1. 1 \in 1 .. n /\ 1 - 1 = 0
        BY <1>3
      <3>2. g[1] = g[0] \o ss[1] /\ ss[1] \in Seq(S)
        BY <2>4, <3>1
      <3>. QED BY <2>3, <3>2
    <2>. DEFINE h == [i \in 1 .. n |-> g[i]]
    <2>6. h = [i \in 1 .. Len(ss) |-> IF i = 1 THEN ss[i] ELSE h[i - 1] \o ss[i]]
      <3>1. ASSUME NEW i \in 1 .. n PROVE h[i] = IF i = 1 THEN ss[i] ELSE h[i - 1] \o ss[i]
        <4>1. CASE i = 1
          BY <2>5, <4>1
        <4>2. CASE i # 1
          <5>1. i - 1 \in 1 .. n /\ h[i] = g[i]
            BY <4>2
          <5>2. h[i - 1] = g[i - 1]
            BY <5>1
          <5>. QED BY <2>4, <4>2, <5>1, <5>2
        <4>. QED BY <4>1, <4>2
      <3>. HIDE DEF h
      <3>2. h \in [1 .. n -> Seq(S)]
        BY DEF h
      <3>. QED BY <1>1, <3>1, <3>2
    <2>. HIDE DEF h
    <2>7. PICK f : f = [i \in 1 .. Len(ss) |-> IF i = 1 THEN ss[i] ELSE f[i - 1] \o ss[i]] /\ FlattenSeq(ss) = f[Len(ss)]
      <3>. DEFINE f == CHOOSE f : f = [i \in 1 .. Len(ss) |-> IF i = 1 THEN ss[i] ELSE f[i - 1] \o ss[i]]
      <3>1. FlattenSeq(ss) = f[Len(ss)]
        BY <1>1, <1>3 DEF FlattenSeq
      <3>2. f = [i \in 1 .. Len(ss) |-> IF i = 1 THEN ss[i] ELSE f[i - 1] \o ss[i]]
        BY <2>6
      <3>. HIDE DEF f
      <3>. QED BY <3>1, <3>2
    <2>. DEFINE Ok(m) == /\ f[m] \in Seq(S) /\ Len(f[m]) = B[m]
                         /\ \A k \in 1 .. m : \A j \in 1 .. Len(ss[k]) : f[m][B[k - 1] + j] = ss[k][j]
                T == {m \in 0 .. n : m = 0 \/ Ok(m)}
    <2>8. 0 \in T
      OBVIOUS
    <2>9. ASSUME NEW m \in 0 .. n - 1, m \in T, NEW e, e = m + 1 PROVE e \in T
      <3>1. /\ e \in 1 .. n /\ m \in 0 .. n /\ m = e - 1 /\ B[m] \in Nat
        BY <2>9
      <3>2. CASE m = 0
        <4>1. f[e] = ss[1] /\ e = 1
          BY <1>1, <2>7, <2>9, <3>1, <3>2
        <4>2. B[1] = Len(ss[1]) /\ ss[1] \in Seq(S) /\ B[0] = 0
          BY <1>4, <3>1, <4>1 DEF Joins
        <4>3. \A k \in 1 .. 1 : \A j \in 1 .. Len(ss[k]) : f[1][B[k - 1] + j] = ss[k][j]
          BY <4>1, <4>2
        <4>. QED BY <1>4, <3>1, <4>1, <4>2, <4>3
      <3>3. CASE m # 0
        <4>1. f[e] = f[m] \o ss[e]
          <5>1. e \in 1 .. Len(ss) /\ e # 1 /\ e - 1 = m
            BY <1>1, <3>1, <3>3
          <5>. QED BY <2>7, <5>1
        <4>2. f[m] \in Seq(S) /\ Len(f[m]) = B[m]
          BY <2>9, <3>3
        <4>3. \A k \in 1 .. m : \A j \in 1 .. Len(ss[k]) : f[m][B[k - 1] + j] = ss[k][j]
          BY <2>9, <3>3
        <4>. HIDE DEF T
        <4>4. ss[e] \in Seq(S) /\ B[e] = B[m] + Len(ss[e]) /\ Len(ss[e]) \in Nat /\ B[e] \in Nat
          BY <1>4, <3>1
        <4>10. /\ f[m] \o ss[e] \in Seq(S) /\ Len(f[m] \o ss[e]) = Len(f[m]) + Len(ss[e])
               /\ \A i \in 1 .. Len(f[m]) + Len(ss[e]) :
                      (f[m] \o ss[e])[i] = IF i <= Len(f[m]) THEN f[m][i] ELSE ss[e][i - Len(f[m])]
          BY <4>2, <4>4, ConcatProperties, Zenon
        <4>11. Len(f[m]) = B[m] /\ Len(f[m]) + Len(ss[e]) = B[e]
          BY <4>2, <4>4, Zenon
        <4>5. f[e] \in Seq(S) /\ Len(f[e]) = B[e]
          BY <4>1, <4>10, <4>11, Zenon
        <4>6. \A i \in 1 .. B[e] : f[e][i] = IF i <= B[m] THEN f[m][i] ELSE ss[e][i - B[m]]
          BY <4>1, <4>10, <4>11, Zenon
        <4>7. ASSUME NEW k \in 1 .. e, NEW j \in 1 .. Len(ss[k]) PROVE f[e][B[k - 1] + j] = ss[k][j]
          <5>1. CASE k = e
            <6>1. k - 1 = m /\ j \in 1 .. Len(ss[e])
              BY <3>1, <5>1
            <6>2. B[m] + j \in 1 .. B[e] /\ ~(B[m] + j <= B[m]) /\ (B[m] + j) - B[m] = j
              BY <3>1, <4>4, <6>1, SMTT(30)
            <6>. QED BY <4>6, <5>1, <6>1, <6>2
          <5>2. CASE k # e
            <6>1. k \in 1 .. m /\ k \in 1 .. n
              BY <3>1, <5>2
            <6>2. B[k] = B[k - 1] + Len(ss[k]) /\ B[k - 1] \in Nat /\ B[k] \in Nat /\ Len(ss[k]) \in Nat /\ k \in 0 .. n
              BY <1>4, <6>1
            <6>3. B[k] <= B[m]
              BY <6>1, <6>2, <3>1 DEF Joins
            <6>6. \A a, b, c, d, l1, l2 \in Nat : b = a + l1 /\ b <= c /\ d = c + l2 =>
                      \A i \in 1 .. l1 : a + i \in 1 .. d /\ a + i <= c
              OBVIOUS
            <6>4. B[k - 1] + j \in 1 .. B[e] /\ B[k - 1] + j <= B[m]
              BY <6>2, <6>3, <6>6, <3>1, <4>4, Zenon
            <6>5. f[m][B[k - 1] + j] = ss[k][j]
              BY <4>3, <6>1
            <6>. QED BY <4>6, <6>4, <6>5
          <5>. QED BY <5>1, <5>2
        <4>8. Ok(e)
          BY <4>5, <4>7
        <4>. QED BY <3>1, <4>8, <1>4 DEF T
      <3>. QED BY <3>2, <3>3
    <2>. HIDE DEF T
    <2>10. \A m \in 0 .. n - 1 : m \in T => m + 1 \in T
      BY <2>9
    <2>11. n \in T
      <3>1. \A m \in 0 .. n : m \in T
        BY <2>8, <2>10, Induct
      <3>. QED BY <3>1
    <2>12. Ok(n)
      BY <1>3, <2>11 DEF T
    <2>13. FlattenSeq(ss) = f[n]
      BY <1>1, <2>7
    <2>. QED BY <2>12, <2>13 DEF Joined
  <1>. QED BY <1>2, <1>3

(* Where the elements of joined sequences come from, in order. *)
Origins(flat, n, ss, a, b) ==
    /\ \A i \in 1 .. Len(flat) : a[i] \in 1 .. n /\ b[i] \in 1 .. Len(ss[a[i]]) /\ flat[i] = ss[a[i]][b[i]]
    /\ \A i, j \in 1 .. Len(flat) : i < j => a[i] < a[j] \/ (a[i] = a[j] /\ b[i] < b[j])
    /\ \A k \in 1 .. n : \A j \in 1 .. Len(ss[k]) : \E i \in 1 .. Len(flat) : a[i] = k /\ b[i] = j

LEMMA FlattenSplit ==
    ASSUME NEW S, NEW n \in Nat, NEW ss \in [1 .. n -> Seq(S)]
    PROVE  /\ FlattenSeq(ss) \in Seq(S)
           /\ \E a, b \in [1 .. Len(FlattenSeq(ss)) -> Nat] : Origins(FlattenSeq(ss), n, ss, a, b)
  <1>1. PICK B \in [0 .. n -> Nat] : Joins(B, n, ss)
    BY JoinExists
  <1>. DEFINE flat == FlattenSeq(ss)
  <1>2. /\ flat \in Seq(S) /\ Len(flat) = B[n]
        /\ \A k \in 1 .. n : \A j \in 1 .. Len(ss[k]) : flat[B[k - 1] + j] = ss[k][j]
    <2>1. Joined(FlattenSeq(ss), S, n, ss, B)
      BY <1>1, FlattenIs
    <2>. QED BY <2>1 DEF Joined
  <1>. HIDE DEF flat
  <1>3. ASSUME NEW k \in 1 .. n
        PROVE  /\ B[k - 1] \in Nat /\ B[k] \in Nat /\ Len(ss[k]) \in Nat /\ B[k] = B[k - 1] + Len(ss[k])
               /\ k \in 0 .. n /\ k - 1 \in 0 .. n
    <2>1. k \in 0 .. n /\ k - 1 \in 0 .. n /\ ss[k] \in Seq(S)
      OBVIOUS
    <2>2. B[k] = B[k - 1] + Len(ss[k])
      BY <1>1 DEF Joins
    <2>. QED BY <2>1, <2>2
  <1>4. B[0] = 0 /\ \A x, y \in 0 .. n : x <= y => B[x] <= B[y]
    BY <1>1 DEF Joins
  <1>5. ASSUME NEW i \in 1 .. B[n] PROVE \E k \in 1 .. n : B[k - 1] < i /\ i <= B[k]
    <2>. DEFINE T == {k \in 0 .. n : i <= B[k]}
    <2>1. n \in T /\ T \in SUBSET Nat /\ B[n] \in Nat
      OBVIOUS
    <2>2. PICK k \in T : \A x \in T : k <= x
      BY <2>1, Least
    <2>3. k # 0
      BY <1>4, <2>2
    <2>4. k \in 1 .. n /\ k - 1 \notin T /\ k - 1 \in 0 .. n
      BY <2>2, <2>3
    <2>5. B[k - 1] \in Nat /\ ~(i <= B[k - 1])
      BY <2>4
    <2>. QED BY <2>2, <2>4, <2>5
  <1>. DEFINE a == [i \in 1 .. B[n] |-> CHOOSE k \in 1 .. n : B[k - 1] < i /\ i <= B[k]]
              b == [i \in 1 .. B[n] |-> i - B[a[i] - 1]]
  <1>6. ASSUME NEW i \in 1 .. B[n] PROVE a[i] \in 1 .. n /\ B[a[i] - 1] < i /\ i <= B[a[i]]
    BY <1>5
  <1>. HIDE DEF a
  <1>7. ASSUME NEW i \in 1 .. B[n]
        PROVE  b[i] \in 1 .. Len(ss[a[i]]) /\ i = B[a[i] - 1] + b[i] /\ flat[i] = ss[a[i]][b[i]] /\ b[i] \in Nat /\ a[i] \in Nat
    <2>1. a[i] \in 1 .. n
      BY <1>6
    <2>2. PICK k \in 1 .. n : k = a[i]
      BY <2>1
    <2>7. B[a[i] - 1] < i /\ i <= B[a[i]] /\ b[i] = i - B[a[i] - 1] /\ i \in Nat
      BY <1>6
    <2>3. /\ B[k - 1] \in Nat /\ B[k] \in Nat /\ Len(ss[k]) \in Nat /\ B[k] = B[k - 1] + Len(ss[k])
          /\ B[k - 1] < i /\ i <= B[k] /\ b[i] = i - B[k - 1] /\ i \in Nat
      BY <1>3, <2>2, <2>7, Zenon
    <2>. HIDE DEF b
    <2>4. \A x, y, l, z, v \in Int : y = x + l /\ x < z /\ z <= y /\ v = z - x => v \in 1 .. l /\ z = x + v /\ v \in Nat
      OBVIOUS
    <2>5. b[i] \in 1 .. Len(ss[k]) /\ i = B[k - 1] + b[i] /\ b[i] \in Nat
      <3>1. B[k] \in Int /\ B[k - 1] \in Int /\ Len(ss[k]) \in Int /\ i \in Int /\ b[i] \in Int
        BY <2>3
      <3>. QED BY <2>3, <2>4, <3>1, Zenon
    <2>6. flat[B[k - 1] + b[i]] = ss[k][b[i]]
      BY <1>2, <2>5
    <2>. QED BY <2>2, <2>5, <2>6
  <1>. HIDE DEF b
  <1>8. ASSUME NEW i \in 1 .. B[n], NEW k \in 1 .. n, B[k - 1] < i, i <= B[k] PROVE a[i] = k
    <2>. DEFINE m == a[i]
    <2>1. m \in 1 .. n /\ B[m - 1] < i /\ i <= B[m]
      BY <1>6
    <2>. HIDE DEF m
    <2>2. B[m] \in Nat /\ B[m - 1] \in Nat /\ B[k] \in Nat /\ B[k - 1] \in Nat /\ i \in Nat
      BY <1>3, <2>1, SMTT(30)
    <2>3. ASSUME m < k PROVE FALSE
      <3>1. m <= k - 1 /\ m \in 0 .. n /\ k - 1 \in 0 .. n
        BY <2>1, <2>3
      <3>2. B[m] <= B[k - 1]
        BY <1>4, <3>1
      <3>. QED BY <1>8, <2>1, <2>2, <3>2
    <2>4. ASSUME k < m PROVE FALSE
      <3>1. k <= m - 1 /\ k \in 0 .. n /\ m - 1 \in 0 .. n
        BY <2>1, <2>4
      <3>2. B[k] <= B[m - 1]
        BY <1>4, <3>1
      <3>. QED BY <1>8, <2>1, <2>2, <3>2
    <2>5. m = k
      BY <2>1, <2>3, <2>4
    <2>. QED BY <2>5 DEF m
  <1>9. ASSUME NEW i \in 1 .. B[n], NEW j \in 1 .. B[n], i < j PROVE a[i] < a[j] \/ (a[i] = a[j] /\ b[i] < b[j])
    <2>1. PICK k \in 1 .. n, l \in 1 .. n : k = a[i] /\ l = a[j]
      BY <1>6
    <2>2. B[k - 1] < i /\ j <= B[l] /\ i = B[k - 1] + b[i] /\ j = B[l - 1] + b[j] /\ b[i] \in Nat /\ b[j] \in Nat
      BY <1>6, <1>7, <2>1, Zenon
    <2>3. /\ B[k - 1] \in Nat /\ B[l] \in Nat /\ B[l - 1] \in Nat /\ i \in Nat /\ j \in Nat
          /\ k \in 0 .. n /\ l \in 0 .. n /\ k - 1 \in 0 .. n
      BY <1>3
    <2>4. CASE k = l
      <3>1. B[k - 1] = B[l - 1]
        BY <2>4
      <3>2. \A x, v, w \in Nat : x + v < x + w => v < w
        OBVIOUS
      <3>3. B[k - 1] + b[i] < B[k - 1] + b[j]
        BY <2>2, <3>1, <1>9, Zenon
      <3>4. b[i] < b[j]
        BY <2>2, <2>3, <3>2, <3>3, Zenon
      <3>. QED BY <2>1, <2>4, <3>4
    <2>5. ASSUME l < k PROVE FALSE
      <3>1. B[l] <= B[k - 1]
        BY <1>4, <2>3, <2>5
      <3>2. \A x, y, v, w \in Nat : x < v /\ w <= y /\ y <= x /\ v < w => FALSE
        OBVIOUS
      <3>. QED BY <1>9, <2>2, <2>3, <3>1, <3>2, Zenon
    <2>6. k < l \/ k = l \/ l < k
      OBVIOUS
    <2>. QED BY <2>1, <2>4, <2>5, <2>6
  <1>10. ASSUME NEW k \in 1 .. n, NEW j \in 1 .. Len(ss[k]) PROVE \E i \in 1 .. B[n] : a[i] = k /\ b[i] = j
    <2>. DEFINE i == B[k - 1] + j
    <2>1. B[k - 1] \in Nat /\ B[k] \in Nat /\ Len(ss[k]) \in Nat /\ B[k] = B[k - 1] + Len(ss[k]) /\ k \in 0 .. n /\ k - 1 \in 0 .. n
      BY <1>3
    <2>2. B[k] <= B[n] /\ B[n] \in Nat
      <3>1. n \in 0 .. n /\ k <= n
        OBVIOUS
      <3>. QED BY <1>4, <2>1, <3>1
    <2>3. i \in 1 .. B[n] /\ B[k - 1] < i /\ i <= B[k]
      BY <2>1, <2>2
    <2>. HIDE DEF i
    <2>4. a[i] = k
      BY <1>8, <2>3
    <2>5. i = B[k - 1] + b[i] /\ b[i] \in Nat
      BY <1>7, <2>3, <2>4
    <2>6. b[i] = j
      BY <2>1, <2>5, SMTT(30) DEF i
    <2>. QED BY <2>3, <2>4, <2>6
  <1>11. a \in [1 .. B[n] -> Nat] /\ b \in [1 .. B[n] -> Nat]
    BY <1>7 DEF a, b
  <1>12. Origins(flat, n, ss, a, b)
    BY <1>2, <1>6, <1>7, <1>9, <1>10 DEF Origins
  <1>. QED BY <1>2, <1>11, <1>12 DEF flat

(***************************************************************************)
(* The elements of a sequence that lie in a set.                           *)
(***************************************************************************)
Where(s, K) == {i \in DOMAIN s : s[i] \in K}
Those(s, K) == Chosen(s, Where(s, K))
(* ds is the elements of units that lie in K, a their places. *)
Picked(units, K, ds, a) ==
    /\ a \in [1 .. Len(ds) -> 1 .. Len(units)]
    /\ \A k \in 1 .. Len(ds) : units[a[k]] \in K /\ ds[k] = units[a[k]]
    /\ \A i \in 1 .. Len(units) : units[i] \in K => \E k \in 1 .. Len(ds) : a[k] = i
    /\ \A k, l \in 1 .. Len(ds) : k < l => a[k] < a[l]

LEMMA ThoseFacts ==
    ASSUME NEW S, NEW K, NEW units \in Seq(S)
    PROVE  Those(units, K) \in Seq(S) /\ Picked(units, K, Those(units, K), Ascending(Where(units, K)))
  <1>. DEFINE I == Where(units, K)
              ds == Those(units, K)
              a == Ascending(I)
  <1>1. I \in SUBSET (1 .. Len(units)) /\ \A i \in 1 .. Len(units) : i \in I <=> units[i] \in K
    BY DEF Where
  <1>2. ds = Chosen(units, I)
    BY DEF Those
  <1>. HIDE DEF I, ds, a
  <1>3. /\ Chosen(units, I) \in Seq(S) /\ Len(Chosen(units, I)) = Cardinality(I) /\ Cardinality(I) \in Nat
        /\ a \in [1 .. Cardinality(I) -> I] /\ \A k \in 1 .. Cardinality(I) : Chosen(units, I)[k] = units[a[k]]
        /\ \A i \in I : \E k \in 1 .. Cardinality(I) : a[k] = i
        /\ \A k, l \in 1 .. Cardinality(I) : k < l => a[k] < a[l]
    BY <1>1, ChosenFacts DEF a
  <1>4. Len(ds) = Cardinality(I) /\ ds \in Seq(S)
    BY <1>2, <1>3
  <1>5. a \in [1 .. Len(ds) -> I] /\ \A k \in 1 .. Len(ds) : ds[k] = units[a[k]]
    BY <1>2, <1>3, <1>4
  <1>6. /\ \A i \in I : \E k \in 1 .. Len(ds) : a[k] = i
        /\ \A k, l \in 1 .. Len(ds) : k < l => a[k] < a[l]
    BY <1>3, <1>4
  <1>7. a \in [1 .. Len(ds) -> 1 .. Len(units)]
    BY <1>1, <1>5
  <1>8. ASSUME NEW k \in 1 .. Len(ds) PROVE units[a[k]] \in K /\ ds[k] = units[a[k]]
    <2>1. a[k] \in I
      BY <1>5
    <2>. QED BY <1>1, <1>5, <2>1
  <1>9. \A i \in 1 .. Len(units) : units[i] \in K => \E k \in 1 .. Len(ds) : a[k] = i
    BY <1>1, <1>6
  <1>10. Picked(units, K, ds, a)
    BY <1>6, <1>7, <1>8, <1>9 DEF Picked
  <1>. QED BY <1>4, <1>10 DEF ds, a, I

LEMMA ThoseIs ==
    ASSUME NEW S, NEW K, NEW units \in Seq(S), NEW ds \in Seq(S), NEW a, Picked(units, K, ds, a)
    PROVE  Those(units, K) = ds /\ Ascending(Where(units, K)) = a
  <1>. DEFINE I == Where(units, K)
              n == Len(ds)
  <1>1. I \in SUBSET (1 .. Len(units)) /\ \A i \in 1 .. Len(units) : i \in I <=> units[i] \in K
    BY DEF Where
  <1>2. I \in SUBSET Int /\ n \in Nat
    BY <1>1
  <1>. HIDE DEF I, n
  <1>3. a \in [1 .. n -> I]
    <2>1. a \in [1 .. n -> 1 .. Len(units)] /\ \A k \in 1 .. n : units[a[k]] \in K
      BY DEF Picked, n
    <2>2. \A k \in 1 .. n : a[k] \in I
      BY <1>1, <2>1
    <2>. QED BY <2>1, <2>2
  <1>4. \A i \in I : \E k \in 1 .. n : a[k] = i
    BY <1>1 DEF Picked, n
  <1>5. \A k, l \in 1 .. n : k < l => a[k] < a[l]
    BY DEF Picked, n
  <1>6. Ascending(I) = a
    BY <1>2, <1>3, <1>4, <1>5, AscendingIs
  <1>7. Chosen(units, I) = [k \in 1 .. n |-> units[a[k]]]
    <2>1. Cardinality(I) = n
      BY <1>2, <1>3, <1>4, <1>5, AscendingIs
    <2>. QED BY <1>6, <2>1, Zenon DEF Chosen
  <1>8. \A k \in 1 .. n : ds[k] = units[a[k]]
    BY DEF Picked, n
  <1>9. [k \in 1 .. n |-> units[a[k]]] = ds
    BY <1>2, <1>8 DEF n
  <1>. QED BY <1>6, <1>7, <1>9 DEF Those, I

LEMMA ThoseConcat ==
    ASSUME NEW S, NEW K, NEW x \in Seq(S), NEW y \in Seq(S)
    PROVE  Those(x \o y, K) = Those(x, K) \o Those(y, K)
  <1>. DEFINE z == x \o y
              dx == Those(x, K)
              dy == Those(y, K)
              dz == dx \o dy
              m == Len(x)
              n == Len(dx)
              ax == Ascending(Where(x, K))
              ay == Ascending(Where(y, K))
  <1>1. dx \in Seq(S) /\ dy \in Seq(S) /\ Picked(x, K, dx, ax) /\ Picked(y, K, dy, ay)
    BY ThoseFacts
  <1>2. z \in Seq(S) /\ Len(z) = m + Len(y) /\ \A i \in 1 .. Len(z) : z[i] = IF i <= m THEN x[i] ELSE y[i - m]
    OBVIOUS
  <1>. HIDE DEF ax, ay, dx, dy
  <1>3. dz \in Seq(S) /\ Len(dz) = n + Len(dy) /\ \A i \in 1 .. Len(dz) : dz[i] = IF i <= n THEN dx[i] ELSE dy[i - n]
    BY <1>1
  <1>4. m \in Nat /\ n \in Nat /\ Len(y) \in Nat /\ Len(dy) \in Nat
    BY <1>1
  <1>. HIDE DEF z, dz, m, n
  <1>5. /\ ax \in [1 .. n -> 1 .. m] /\ \A k \in 1 .. n : x[ax[k]] \in K /\ dx[k] = x[ax[k]]
        /\ \A i \in 1 .. m : x[i] \in K => \E k \in 1 .. n : ax[k] = i
        /\ \A k, l \in 1 .. n : k < l => ax[k] < ax[l]
    BY <1>1 DEF Picked, m, n
  <1>6. /\ ay \in [1 .. Len(dy) -> 1 .. Len(y)] /\ \A k \in 1 .. Len(dy) : y[ay[k]] \in K /\ dy[k] = y[ay[k]]
        /\ \A i \in 1 .. Len(y) : y[i] \in K => \E k \in 1 .. Len(dy) : ay[k] = i
        /\ \A k, l \in 1 .. Len(dy) : k < l => ay[k] < ay[l]
    BY <1>1 DEF Picked
  <1>. DEFINE a == [k \in 1 .. Len(dz) |-> IF k <= n THEN ax[k] ELSE m + ay[k - n]]
  <1>7. ASSUME NEW k \in 1 .. Len(dz)
        PROVE  /\ a[k] \in 1 .. Len(z) /\ z[a[k]] \in K /\ dz[k] = z[a[k]]
               /\ k <= n => a[k] \in 1 .. m /\ k \in 1 .. n /\ a[k] = ax[k]
               /\ ~(k <= n) => k - n \in 1 .. Len(dy) /\ ay[k - n] \in 1 .. Len(y) /\ a[k] = m + ay[k - n]
    <2>1. CASE k <= n
      <3>1. k \in 1 .. n /\ a[k] = ax[k] /\ dz[k] = dx[k]
        BY <1>3, <1>4, <2>1
      <3>2. ax[k] \in 1 .. m /\ x[ax[k]] \in K /\ dx[k] = x[ax[k]]
        BY <1>5, <3>1
      <3>3. ax[k] \in 1 .. Len(z) /\ ax[k] <= m
        BY <1>2, <1>4, <3>2
      <3>4. z[ax[k]] = x[ax[k]]
        BY <1>2, <3>3
      <3>. QED BY <2>1, <3>1, <3>2, <3>3, <3>4
    <2>2. CASE ~(k <= n)
      <3>1. k - n \in 1 .. Len(dy) /\ a[k] = m + ay[k - n] /\ dz[k] = dy[k - n]
        BY <1>3, <1>4, <2>2
      <3>2. PICK j \in 1 .. Len(dy) : j = k - n
        BY <3>1
      <3>3. ay[j] \in 1 .. Len(y) /\ y[ay[j]] \in K /\ dy[j] = y[ay[j]]
        BY <1>6
      <3>4. \A i \in 1 .. Len(y) : m + i \in 1 .. Len(z) /\ ~(m + i <= m) /\ (m + i) - m = i
        BY <1>2, <1>4
      <3>5. z[m + ay[j]] = y[ay[j]] /\ m + ay[j] \in 1 .. Len(z)
        BY <1>2, <3>3, <3>4
      <3>. QED BY <2>2, <3>1, <3>2, <3>3, <3>5
    <2>. QED BY <2>1, <2>2
  <1>. HIDE DEF a
  <1>8. ASSUME NEW i \in 1 .. Len(z), z[i] \in K PROVE \E k \in 1 .. Len(dz) : a[k] = i
    <2>1. CASE i <= m
      <3>1. i \in 1 .. m /\ z[i] = x[i]
        BY <1>2, <1>4, <2>1
      <3>2. PICK k \in 1 .. n : ax[k] = i
        BY <1>5, <1>8, <3>1
      <3>3. k \in 1 .. Len(dz) /\ k <= n
        BY <1>3, <1>4
      <3>. QED BY <1>7, <3>2, <3>3
    <2>2. CASE ~(i <= m)
      <3>1. i - m \in 1 .. Len(y) /\ z[i] = y[i - m]
        BY <1>2, <1>4, <2>2
      <3>2. PICK j \in 1 .. Len(dy) : ay[j] = i - m
        BY <1>6, <1>8, <3>1
      <3>3. n + j \in 1 .. Len(dz) /\ ~(n + j <= n) /\ (n + j) - n = j
        BY <1>3, <1>4
      <3>4. a[n + j] = m + ay[j]
        BY <1>7, <3>3
      <3>5. m + (i - m) = i
        BY <1>4
      <3>. QED BY <3>2, <3>3, <3>4, <3>5
    <2>. QED BY <2>1, <2>2
  <1>9. ASSUME NEW k \in 1 .. Len(dz), NEW l \in 1 .. Len(dz), k < l PROVE a[k] < a[l]
    <2>1. CASE l <= n
      <3>1. k <= n
        BY <1>4, <1>9, <2>1
      <3>. QED BY <1>5, <1>7, <1>9, <2>1, <3>1
    <2>2. CASE k <= n /\ ~(l <= n)
      <3>1. a[k] \in 1 .. m /\ ay[l - n] \in 1 .. Len(y) /\ a[l] = m + ay[l - n]
        BY <1>7, <2>2
      <3>2. \A u \in 1 .. m : \A v \in 1 .. Len(y) : u < m + v
        BY <1>4
      <3>. QED BY <3>1, <3>2
    <2>3. CASE ~(k <= n)
      <3>1. ~(l <= n)
        BY <1>4, <1>9, <2>3
      <3>2. /\ k - n \in 1 .. Len(dy) /\ ay[k - n] \in 1 .. Len(y) /\ a[k] = m + ay[k - n]
            /\ l - n \in 1 .. Len(dy) /\ ay[l - n] \in 1 .. Len(y) /\ a[l] = m + ay[l - n]
        BY <1>7, <2>3, <3>1
      <3>3. k - n < l - n
        BY <1>4, <1>9
      <3>4. ay[k - n] < ay[l - n]
        BY <1>6, <3>2, <3>3
      <3>5. \A u, v \in 1 .. Len(y) : u < v => m + u < m + v
        BY <1>4
      <3>. QED BY <3>2, <3>4, <3>5
    <2>. QED BY <2>1, <2>2, <2>3
  <1>10. a \in [1 .. Len(dz) -> 1 .. Len(z)]
    BY <1>7 DEF a
  <1>11. Picked(z, K, dz, a)
    BY <1>7, <1>8, <1>9, <1>10 DEF Picked
  <1>12. Those(z, K) = dz
    BY <1>2, <1>3, <1>11, ThoseIs
  <1>. QED BY <1>12 DEF z, dz, dx, dy

LEMMA ThoseAll ==
    ASSUME NEW S, NEW K, NEW units \in Seq(S), \A i \in 1 .. Len(units) : units[i] \in K
    PROVE  Those(units, K) = units
  <1>. DEFINE a == [k \in 1 .. Len(units) |-> k]
  <1>1. Picked(units, K, units, a)
    BY DEF Picked
  <1>. QED BY <1>1, ThoseIs

LEMMA ThoseNone ==
    ASSUME NEW S, NEW K, NEW units \in Seq(S)
    PROVE  Those(units, K) = <<>> <=> \A i \in 1 .. Len(units) : units[i] \notin K
  <1>. DEFINE ds == Those(units, K)
              a == Ascending(Where(units, K))
  <1>1. ds \in Seq(S) /\ Picked(units, K, ds, a)
    BY ThoseFacts
  <1>. HIDE DEF ds, a
  <1>2. ASSUME ds = <<>>, NEW i \in 1 .. Len(units), units[i] \in K PROVE FALSE
    BY <1>1, <1>2 DEF Picked
  <1>3. ASSUME ds # <<>>, \A i \in 1 .. Len(units) : units[i] \notin K PROVE FALSE
    <2>1. 1 \in 1 .. Len(ds)
      BY <1>1, <1>3
    <2>2. a[1] \in 1 .. Len(units) /\ units[a[1]] \in K
      BY <1>1, <2>1 DEF Picked
    <2>. QED BY <1>3, <2>2
  <1>. QED BY <1>2, <1>3 DEF ds

(***************************************************************************)
(* Packets, units and tilings.                                             *)
(***************************************************************************)
Marks == Foolings \cup {"ipfrag1"}
Kinds == {"data", "fake", "rst", "syn"}
(* A unit of a plan: what is data is sent once, all else is made of decoy  *)
(* bytes, and a decoy has a TTL of T.                                      *)
Unit(T) == {s \in [kind: Kinds, data: Seq(Int), off: Int, reps: Nat \ {0}, ttl: Nat, fool: SUBSET Marks,
                   ipid: IpIds, frag: Int, win: Int] :
              /\ IsData(s) => s.reps = 1
              /\ ~IsData(s) => \A i \in 1 .. Len(s.data) : s.data[i] = Decoy
              /\ IsDecoy(s) => s.ttl \in T}
DataUnits(T) == {s \in Unit(T) : IsData(s)}
(* (A name of its own keeps the provers from what sequences are.) *)
Bytes == Seq(Int)
UnitSeq(T) == Seq(Unit(T))
DataSeq(T) == Seq(DataUnits(T))
DataOf(units) == Chosen(units, DataAt(units))

LEMMA DataThose ==
    ASSUME NEW T, NEW units \in UnitSeq(T)
    PROVE  DataOf(units) = Those(units, DataUnits(T)) /\ DataAt(units) = Where(units, DataUnits(T))
  <1>1. DataAt(units) = Where(units, DataUnits(T))
    BY DEF DataAt, Where, DataUnits, UnitSeq
  <1>. QED BY <1>1 DEF DataOf, Those

(* s carries the bytes from .. to of F, and fillers below them. *)
Tile(s, F, from, to) ==
    /\ s.off <= from /\ from <= to /\ EndOf(s) = to
    /\ \A j \in 1 .. Len(s.data) : s.data[j] = IF s.off + j > from THEN F[s.off + j] ELSE Fill

LEMMA Cat ==
    ASSUME NEW S, NEW x \in Seq(S), NEW y \in Seq(S)
    PROVE  /\ x \o y \in Seq(S) /\ Len(x \o y) = Len(x) + Len(y) /\ Len(x) \in Nat /\ Len(y) \in Nat
           /\ \A i \in 1 .. Len(x) + Len(y) : (x \o y)[i] = IF i <= Len(x) THEN x[i] ELSE y[i - Len(x)]
  OBVIOUS

LEMMA ContextFacts ==
    ASSUME NEW c \in Context
    PROVE  /\ c.len \in Nat /\ c.host \in Nat /\ c.hostLen \in Nat /\ c.sld \in Nat /\ c.sldLen \in Nat /\ c.sni \in Nat
           /\ c.len < Touched - 2 /\ c.sld + c.sldLen <= c.len /\ c.seen \in 0 .. 255
           /\ {c.udp, c.v6, c.syn, c.fin, c.http, c.tls, c.known} \subseteq BOOLEAN
           /\ Payload(c) \in Seq(Int) /\ Len(Payload(c)) = c.len /\ \A i \in 1 .. c.len : Payload(c)[i] = i
           /\ Touched \in Nat /\ MaxFake \in Nat /\ MaxSeg \in Nat /\ FakeLen \in Nat /\ MaxRepeats \in Nat \ {0}
           /\ MaxPayload \in Nat
  BY DesyncAssumption, SMTT(30) DEF Context, Payload

LEMMA DataSegIs ==
    ASSUME NEW T, NEW c \in Context, NEW o, o.ipid \in IpIds, NEW data \in Bytes, NEW off \in Int
    PROVE  LET s == SegDataSeg(data, off, o)
           IN  s \in Unit(T) /\ IsData(s) /\ s.off = off /\ s.data = data /\ s \in DataUnits(T)
  BY DEF SegDataSeg, Segment, Unit, IsData, IsDecoy, Kinds, DataUnits, Bytes

LEMMA DecoysAre ==
    ASSUME NEW n \in Nat
    PROVE  Decoys(n) \in Seq(Int) /\ Len(Decoys(n)) = n /\ \A i \in 1 .. n : Decoys(n)[i] = Decoy
  BY DEF Decoys, Decoy

LEMMA FakeSeg ==
    ASSUME NEW T, NEW o \in Operation, o.ttl \in T, NEW n \in Nat, NEW off \in Int
    PROVE  SegFakeSeg(Decoys(n), off, o) \in Unit(T) /\ ~IsData(SegFakeSeg(Decoys(n), off, o))
  <1>1. Repeats(o) \in Nat \ {0} /\ o.ipid \in IpIds /\ o.ttl \in Nat /\ o.fool \in SUBSET Marks
    BY DEF Repeats, Operation, Marks
  <1>. DEFINE z == Segment("fake", Decoys(n), off, o)
              s == [z EXCEPT !.reps = Repeats(o), !.ttl = o.ttl, !.fool = o.fool]
  <1>2. /\ z \in [kind: Kinds, data: Seq(Int), off: Int, reps: Nat \ {0}, ttl: Nat, fool: SUBSET Marks,
                   ipid: IpIds, frag: Int, win: Int]
        /\ z.kind = "fake" /\ z.data = Decoys(n)
    BY <1>1, DecoysAre DEF Segment, Kinds
  <1>. HIDE DEF z
  <1>3. s \in Unit(T) /\ ~IsData(s)
    BY <1>1, <1>2, DecoysAre DEF Unit, IsData, IsDecoy
  <1>. QED BY <1>3 DEF SegFakeSeg, z

LEMMA InjectedSeg ==
    ASSUME NEW T, NEW o \in Operation, o.ttl \in T, NEW n \in Nat, NEW kind \in {"fake", "rst", "syn"}
    PROVE  LET s == Injected(kind, Decoys(n), o) IN s \in Unit(T) /\ ~IsData(s) /\ s.kind = kind
  <1>1. Clamped(o) \in Nat \ {0} /\ o.ipid \in IpIds /\ o.ttl \in Nat /\ o.fool \in SUBSET Marks
    BY DesyncAssumption, SMTT(30) DEF Repeats, Operation, Clamped, Marks
  <1>. DEFINE z == Segment(kind, Decoys(n), 0, o)
              s == [z EXCEPT !.reps = Clamped(o), !.ttl = o.ttl, !.fool = o.fool]
  <1>2. /\ z \in [kind: Kinds, data: Seq(Int), off: Int, reps: Nat \ {0}, ttl: Nat, fool: SUBSET Marks,
                   ipid: IpIds, frag: Int, win: Int]
        /\ z.kind = kind /\ z.data = Decoys(n)
    BY <1>1, DecoysAre DEF Segment, Kinds
  <1>. HIDE DEF z
  <1>3. s \in Unit(T) /\ ~IsData(s) /\ s.kind = kind
    BY <1>1, <1>2, DecoysAre DEF Unit, IsData, IsDecoy
  <1>. QED BY <1>3 DEF Injected, z

(* A part of the payload, above fillers. *)
Piece(T, c, from, to, ovl, s) ==
    s \in DataUnits(T) /\ Tile(s, Payload(c), from, to) /\ s.off = from - ovl /\ Len(s.data) = (to - from) + ovl
Filled(c, from, to, ovl, data) ==
    data = Filler(ovl) \o Cut(Payload(c), from, to) \/ (data = Cut(Payload(c), from, to) /\ ovl = 0)
LEMMA PieceTile ==
    ASSUME NEW T, NEW c \in Context, NEW o, o.ipid \in IpIds,
           NEW from \in 0 .. c.len, NEW to \in from .. c.len, NEW ovl \in Nat, NEW data, NEW off,
           Filled(c, from, to, ovl, data), off = from - ovl
    PROVE  Piece(T, c, from, to, ovl, SegDataSeg(data, off, o))
  <1>. DEFINE P == Payload(c)
              part == Cut(P, from, to)
  <1>1. P \in Seq(Int) /\ Len(P) = c.len /\ c.len \in Nat /\ from \in Nat /\ to \in Nat /\ from <= to
    BY ContextFacts
  <1>2. part \in Seq(Int) /\ Len(part) = to - from /\ \A i \in 1 .. to - from : part[i] = P[from + i]
    <2>1. part = [i \in 1 .. to - from |-> P[from + i]]
      BY <1>1 DEF Cut
    <2>2. \A i \in 1 .. to - from : P[from + i] \in Int
      BY <1>1
    <2>. QED BY <1>1, <2>1, <2>2
  <1>3. Filler(ovl) \in Seq(Int) /\ Len(Filler(ovl)) = ovl /\ \A i \in 1 .. ovl : Filler(ovl)[i] = Fill
    BY DEF Filler, Fill
  <1>. HIDE DEF part, P
  <1>4. /\ data \in Seq(Int) /\ Len(data) = ovl + (to - from)
        /\ \A j \in 1 .. Len(data) : data[j] = IF j > ovl THEN P[off + j] ELSE Fill
    <2>1. CASE data = Filler(ovl) \o part
      <3>1. data \in Seq(Int) /\ Len(data) = ovl + (to - from)
        <4>1. data \in Seq(Int) /\ Len(data) = Len(Filler(ovl)) + Len(part)
          BY <1>2, <1>3, <2>1, Cat, Zenon
        <4>. QED BY <1>2, <1>3, <4>1, Zenon
      <3>2. ASSUME NEW j \in 1 .. Len(data) PROVE data[j] = IF j > ovl THEN P[off + j] ELSE Fill
        <4>1. CASE j > ovl
          <5>1. data[j] = part[j - ovl] /\ j - ovl \in 1 .. to - from
            <6>0. \A i \in 1 .. Len(Filler(ovl)) + Len(part) :
                      data[i] = IF i <= Len(Filler(ovl)) THEN Filler(ovl)[i] ELSE part[i - Len(Filler(ovl))]
              BY <1>2, <1>3, <2>1, Cat, Zenon
            <6>1. \A i \in 1 .. Len(data) : data[i] = IF i <= ovl THEN Filler(ovl)[i] ELSE part[i - ovl]
              BY <1>1, <1>2, <1>3, <3>1, <6>0
            <6>. QED BY <1>1, <3>1, <4>1, <6>1
          <5>2. from + (j - ovl) = off + j
            BY <1>1
          <5>. QED BY <1>2, <4>1, <5>1, <5>2
        <4>2. CASE ~(j > ovl)
          BY <1>1, <1>2, <1>3, <2>1, <3>1, <4>2
        <4>. QED BY <4>1, <4>2
      <3>. QED BY <3>1, <3>2
    <2>2. CASE data = part /\ ovl = 0
      <3>1. off = from
        BY <1>1, <2>2
      <3>. QED BY <1>1, <1>2, <2>2, <3>1, SMTT(30)
    <2>. QED BY <2>1, <2>2 DEF part, P, Filled
  <1>5. off \in Int
    BY <1>1
  <1>6. \A j \in 1 .. Len(data) : j > ovl <=> off + j > from
    BY <1>1, <1>4
  <1>. DEFINE s == SegDataSeg(data, off, o)
  <1>7. s \in DataUnits(T) /\ s.off = off /\ s.data = data
    BY <1>4, <1>5, DataSegIs, SMTT(30) DEF Bytes
  <1>. HIDE DEF s
  <1>8. EndOf(s) = to /\ off <= from
    BY <1>1, <1>4, <1>7 DEF EndOf
  <1>9. Tile(s, P, from, to)
    BY <1>1, <1>4, <1>6, <1>7, <1>8 DEF Tile
  <1>10. Len(data) = (to - from) + ovl
    BY <1>1, <1>4
  <1>. QED BY <1>7, <1>9, <1>10 DEF s, P, Piece

(* The numbers b divide m bytes into n parts. *)
Bounds(b, n, m) ==
    /\ b \in [0 .. n -> 0 .. m] /\ b[0] = 0 /\ b[n] = m
    /\ \A j, k \in 0 .. n : j < k => b[j] < b[k] \/ m = 0
    /\ m = 0 => n = 1
(* The n units of ds, taken in the order p, tile F: no unit reaches below the *)
(* part before its own.                                                       *)
Tiling(ds, n, F, p, b) ==
    /\ n \in Nat \ {0} /\ Len(ds) = n
    /\ p \in [1 .. n -> 1 .. n] /\ \A i \in 1 .. n : \E k \in 1 .. n : p[k] = i
    /\ Bounds(b, n, Len(F))
    /\ \A k \in 1 .. n : Tile(ds[p[k]], F, b[k - 1], b[k])
    /\ \A k \in 1 .. n : k > 1 => b[k - 2] < ds[p[k]].off

(* The k-th unit of a tiling. *)
TileAt(T, ds, n, F, p, b, k) ==
    LET s == ds[p[k]]
    IN  /\ n \in Nat /\ p[k] \in 1 .. n /\ Len(ds) = n /\ s \in Unit(T) /\ IsData(s) /\ s.off \in Int
        /\ s.data \in Seq(Int) /\ Len(s.data) \in Nat /\ s.reps = 1
        /\ k \in 0 .. n /\ k - 1 \in 0 .. n
        /\ b[k - 1] \in Nat /\ b[k] \in Nat /\ b[k] <= Len(F) /\ Len(F) \in Nat
        /\ b[k - 1] < b[k] \/ (b[k - 1] = 0 /\ b[k] = 0 /\ n = 1 /\ Len(F) = 0)
        /\ s.off <= b[k - 1] /\ EndOf(s) = b[k] /\ s.off + Len(s.data) = b[k]
        /\ \A j \in 1 .. Len(s.data) : s.data[j] = IF s.off + j > b[k - 1] THEN F[s.off + j] ELSE Fill
        /\ k = 1 => b[k - 1] = 0
        /\ k > 1 => b[k - 2] < s.off /\ b[k - 2] \in Nat /\ b[k - 2] < b[k - 1] /\ k - 1 \in 1 .. n

LEMMA TileFacts ==
    ASSUME NEW T, NEW ds \in DataSeq(T), NEW n, NEW F \in Bytes, NEW p, NEW b, Tiling(ds, n, F, p, b),
           NEW k \in 1 .. n
    PROVE  TileAt(T, ds, n, F, p, b, k)
  <1>1. /\ n \in Nat \ {0} /\ Len(ds) = n /\ p[k] \in 1 .. n /\ Bounds(b, n, Len(F))
        /\ Tile(ds[p[k]], F, b[k - 1], b[k]) /\ (k > 1 => b[k - 2] < ds[p[k]].off)
    BY DEF Tiling
  <1>2. ds[p[k]] \in DataUnits(T)
    BY <1>1 DEF DataSeq
  <1>. DEFINE s == ds[p[k]]
  <1>. HIDE DEF s
  <1>3. s \in DataUnits(T) /\ Tile(s, F, b[k - 1], b[k]) /\ (k > 1 => b[k - 2] < s.off)
    BY <1>1, <1>2 DEF s
  <1>4. /\ s \in Unit(T) /\ IsData(s) /\ s.off \in Int /\ s.data \in Seq(Int) /\ s.reps = 1 /\ Len(s.data) \in Nat
    BY <1>3 DEF DataUnits, Unit
  <1>5. Len(F) \in Nat
    OBVIOUS
  <1>. DEFINE m == Len(F)
  <1>. HIDE DEF m
  <1>6. k \in 0 .. n /\ k - 1 \in 0 .. n /\ (k > 1 => k - 2 \in 0 .. n /\ k - 1 \in 1 .. n) /\ k - 1 < k /\ k - 2 < k - 1
    BY <1>1
  <1>7. \A j, l \in 0 .. n : b[j] \in 0 .. m /\ (j < l => b[j] < b[l] \/ m = 0) /\ b[0] = 0 /\ (m = 0 => n = 1)
    BY <1>1 DEF Bounds, m
  <1>8. b[k - 1] \in 0 .. m /\ b[k] \in 0 .. m /\ (b[k - 1] < b[k] \/ m = 0) /\ (m = 0 => n = 1)
    BY <1>6, <1>7
  <1>9. k > 1 => b[k - 2] \in 0 .. m /\ (b[k - 2] < b[k - 1] \/ m = 0)
    BY <1>6, <1>7
  <1>10. m \in Nat /\ (k > 1 => m # 0)
    BY <1>5, <1>6, <1>8 DEF m
  <1>11. k = 1 => b[k - 1] = 0
    BY <1>6, <1>7
  <1>12. /\ b[k - 1] \in Nat /\ b[k] \in Nat /\ b[k] <= m
         /\ b[k - 1] < b[k] \/ (b[k - 1] = 0 /\ b[k] = 0 /\ n = 1 /\ m = 0)
         /\ k > 1 => b[k - 2] \in Nat /\ b[k - 2] < b[k - 1]
    BY <1>8, <1>9, <1>10
  <1>13. /\ s.off <= b[k - 1] /\ EndOf(s) = b[k] /\ s.off + Len(s.data) = b[k]
         /\ \A j \in 1 .. Len(s.data) : s.data[j] = IF s.off + j > b[k - 1] THEN F[s.off + j] ELSE Fill
    BY <1>3 DEF Tile, EndOf
  <1>. QED BY <1>1, <1>3, <1>4, <1>5, <1>6, <1>11, <1>12, <1>13 DEF s, m, TileAt

(* The order of a tiling is the order of the offsets. *)
LEMMA TileOrder ==
    ASSUME NEW T, NEW ds \in DataSeq(T), NEW n, NEW F \in Bytes, NEW p, NEW b, Tiling(ds, n, F, p, b),
           NEW j \in 1 .. n, NEW k \in 1 .. n, j < k
    PROVE  ds[p[j]].off < ds[p[k]].off /\ p[j] # p[k] /\ b[j] <= b[k - 1]
  <1>0. TileAt(T, ds, n, F, p, b, j) /\ TileAt(T, ds, n, F, p, b, k)
    BY TileFacts
  <1>1. /\ ds[p[j]].off \in Int /\ b[j - 1] \in Nat /\ ds[p[j]].off <= b[j - 1] /\ b[j] \in Nat /\ Len(F) \in Nat /\ n \in Nat
    BY <1>0 DEF TileAt
  <1>2. /\ ds[p[k]].off \in Int /\ (k > 1 => b[k - 2] \in Nat /\ b[k - 2] < ds[p[k]].off /\ b[k - 1] \in Nat)
    BY <1>0 DEF TileAt
  <1>3. j - 1 \in 0 .. n /\ k - 2 \in 0 .. n /\ j - 1 <= k - 2 /\ k > 1 /\ j \in 0 .. n /\ k - 1 \in 0 .. n /\ j <= k - 1
    BY <1>1
  <1>4. \A x, y \in 0 .. n : x < y => b[x] < b[y] \/ Len(F) = 0
    BY DEF Tiling, Bounds
  <1>5. Len(F) = 0 => n = 1
    BY DEF Tiling, Bounds
  <1>5a. Len(F) # 0
    BY <1>1, <1>3, <1>5
  <1>5b. (j - 1 < k - 2 => b[j - 1] < b[k - 2]) /\ (j < k - 1 => b[j] < b[k - 1])
    BY <1>3, <1>4, <1>5a
  <1>5c. (j - 1 = k - 2 \/ j - 1 < k - 2) /\ (j = k - 1 \/ j < k - 1)
    BY <1>1
  <1>6. b[j - 1] <= b[k - 2] /\ b[j] <= b[k - 1]
    BY <1>1, <1>2, <1>3, <1>5b, <1>5c
  <1>7. ds[p[j]].off < ds[p[k]].off
    <2>1. ds[p[j]].off \in Int /\ ds[p[k]].off \in Int /\ b[j - 1] \in Nat /\ b[k - 2] \in Nat
      BY <1>1, <1>2, <1>3
    <2>2. ds[p[j]].off <= b[j - 1] /\ b[j - 1] <= b[k - 2] /\ b[k - 2] < ds[p[k]].off
      BY <1>1, <1>2, <1>3, <1>6
    <2>. QED BY <2>1, <2>2
  <1>8. p[j] # p[k]
    BY <1>1, <1>7
  <1>. QED BY <1>6, <1>7, <1>8

(* q is the places of the data units ds of segs in the order p. *)
Indexed(segs, T, n, p, q, ds) ==
    /\ ds \in DataSeq(T) /\ n \in Nat \ {0}
    /\ \A k \in 1 .. n : q[k] \in 1 .. Len(segs) /\ IsData(segs[q[k]]) /\ segs[q[k]] = ds[p[k]]
    /\ \A i \in 1 .. Len(segs) : IsData(segs[i]) => \E k \in 1 .. n : q[k] = i
    /\ \A j, k \in 1 .. n : j # k => q[j] # q[k]
    /\ q \in Seq(1 .. Len(segs)) /\ Len(q) = n /\ DOMAIN q = 1 .. n

LEMMA IdxIs ==
    ASSUME NEW T, NEW segs \in UnitSeq(T), NEW n, NEW F \in Bytes, NEW p, NEW b,
           Tiling(DataOf(segs), n, F, p, b)
    PROVE  Indexed(segs, T, n, p, SegDataIdx(segs), DataOf(segs)) /\ SegDataIdx(segs) = [k \in 1 .. n |-> Ascending(DataAt(segs))[p[k]]]
  <1>. DEFINE ds == DataOf(segs)
              a == Ascending(DataAt(segs))
              q == [k \in 1 .. n |-> a[p[k]]]
              I == DataAt(segs)
              key == [i \in I |-> segs[i].off]
  <1>1. ds \in Seq(Unit(T)) /\ Picked(segs, DataUnits(T), ds, a)
    BY DataThose, ThoseFacts DEF UnitSeq
  <1>2. I \in SUBSET (1 .. Len(segs)) /\ \A i \in 1 .. Len(segs) : (i \in I <=> IsData(segs[i])) /\ segs[i] \in Unit(T)
    BY DEF DataAt, UnitSeq
  <1>3. Tiling(ds, n, F, p, b)
    OBVIOUS
  <1>. HIDE DEF ds, a, I
  <1>4. /\ n \in Nat \ {0} /\ Len(ds) = n
        /\ p \in [1 .. n -> 1 .. n] /\ \A i \in 1 .. n : \E k \in 1 .. n : p[k] = i
    BY <1>3 DEF Tiling
  <1>5. /\ a \in [1 .. n -> 1 .. Len(segs)] /\ \A k \in 1 .. n : segs[a[k]] \in DataUnits(T) /\ ds[k] = segs[a[k]]
        /\ \A i \in 1 .. Len(segs) : segs[i] \in DataUnits(T) => \E k \in 1 .. n : a[k] = i
        /\ \A k, l \in 1 .. n : k < l => a[k] < a[l]
    BY <1>1, <1>4 DEF Picked
  <1>6. ds \in DataSeq(T)
    <2>1. \A k \in 1 .. Len(ds) : ds[k] \in DataUnits(T)
      BY <1>4, <1>5
    <2>. QED BY <1>1, <2>1 DEF DataSeq
  <1>7. ASSUME NEW k \in 1 .. n
        PROVE  /\ q[k] \in I /\ q[k] \in 1 .. Len(segs) /\ IsData(segs[q[k]]) /\ segs[q[k]] = ds[p[k]] /\ q[k] = a[p[k]]
               /\ p[k] \in 1 .. n
    <2>1. p[k] \in 1 .. n /\ q[k] = a[p[k]]
      BY <1>4
    <2>2. a[p[k]] \in 1 .. Len(segs) /\ segs[a[p[k]]] \in DataUnits(T) /\ ds[p[k]] = segs[a[p[k]]]
      BY <1>5, <2>1
    <2>. QED BY <1>2, <2>1, <2>2 DEF DataUnits
  <1>8. \A i \in 1 .. Len(segs) : IsData(segs[i]) => \E k \in 1 .. n : q[k] = i
    <2>. SUFFICES ASSUME NEW i \in 1 .. Len(segs), IsData(segs[i]) PROVE \E k \in 1 .. n : q[k] = i
      OBVIOUS
    <2>1. segs[i] \in DataUnits(T)
      BY <1>2 DEF DataUnits
    <2>2. PICK l \in 1 .. n : a[l] = i
      BY <1>5, <2>1
    <2>3. PICK k \in 1 .. n : p[k] = l
      BY <1>4
    <2>. QED BY <1>7, <2>2, <2>3
  <1>9. \A j, k \in 1 .. n : j < k => segs[q[j]].off < segs[q[k]].off
    BY <1>3, <1>6, <1>7, TileOrder, SMTT(30)
  <1>10. q \in [1 .. n -> I]
    BY <1>7
  <1>. HIDE DEF q
  <1>11. \A j, k \in 1 .. n : j # k => q[j] # q[k]
    <2>. SUFFICES ASSUME NEW j \in 1 .. n, NEW k \in 1 .. n, q[j] = q[k], j # k PROVE FALSE
      OBVIOUS
    <2>1. segs[q[j]].off \in Int
      BY <1>2, <1>7 DEF Unit
    <2>2. j < k \/ k < j
      BY <1>4
    <2>. QED BY <1>9, <2>1, <2>2
  <1>12. I \in SUBSET Int /\ key \in [I -> Int]
    <2>1. \A i \in I : segs[i].off \in Int /\ i \in Int
      BY <1>2 DEF Unit
    <2>. QED BY <2>1
  <1>13. \A i \in I : \E k \in 1 .. n : q[k] = i
    BY <1>2, <1>8
  <1>14. \A j, k \in 1 .. n : j < k => key[q[j]] < key[q[k]] \/ (key[q[j]] = key[q[k]] /\ q[j] < q[k])
    BY <1>7, <1>9
  <1>. HIDE DEF key
  <1>15. Sorted(I, key) = q
    <2>1. n \in Nat
      BY <1>4
    <2>2. Enumerates(I, key, n, q)
      BY <1>10, <1>12, <1>13, <1>14, <2>1 DEF Enumerates
    <2>. QED BY <2>2, SortedOf
  <1>16. SegDataIdx(segs) = q
    BY <1>15 DEF SegDataIdx, I, key
  <1>17. q \in Seq(1 .. Len(segs)) /\ Len(q) = n /\ DOMAIN q = 1 .. n
    <2>1. q \in [1 .. n -> 1 .. Len(segs)] /\ n \in Nat
      BY <1>2, <1>4, <1>10
    <2>. QED BY <2>1
  <1>18. Indexed(segs, T, n, p, q, ds)
    BY <1>4, <1>6, <1>7, <1>8, <1>11, <1>17 DEF Indexed
  <1>. QED BY <1>16, <1>18 DEF ds, a, q

(* What the rewrites read of a tiling. *)
Spanned(segs, idx, n, F, b) ==
    /\ \A k \in 1 .. n : /\ From(segs, idx, k) = b[k - 1]
                         /\ Prefix(segs, idx, k) = b[k - 1] - segs[idx[k]].off
                         /\ EndOf(segs[idx[k]]) = b[k]
    /\ \A want \in Int : SegSpans(segs, want) <=> want = Len(F)
    /\ DOMAIN idx = 1 .. n /\ idx # <<>> /\ idx \in Seq(1 .. Len(segs)) /\ Len(idx) = n
LEMMA SpansIs ==
    ASSUME NEW T, NEW segs \in UnitSeq(T), NEW n, NEW F \in Bytes, NEW p, NEW b,
           Tiling(DataOf(segs), n, F, p, b)
    PROVE  Spanned(segs, SegDataIdx(segs), n, F, b)
  <1>. DEFINE ds == DataOf(segs)
              idx == SegDataIdx(segs)
  <1>0. Indexed(segs, T, n, p, idx, ds)
    BY IdxIs
  <1>2. Tiling(ds, n, F, p, b)
    OBVIOUS
  <1>. HIDE DEF ds, idx
  <1>1. /\ ds \in DataSeq(T) /\ n \in Nat \ {0}
        /\ \A k \in 1 .. n : idx[k] \in 1 .. Len(segs) /\ segs[idx[k]] = ds[p[k]]
    BY <1>0 DEF Indexed
  <1>3. idx \in Seq(1 .. Len(segs)) /\ Len(idx) = n /\ DOMAIN idx = 1 .. n /\ idx # <<>>
    BY <1>0 DEF Indexed
  <1>4. ASSUME NEW k \in 1 .. n
        PROVE  /\ From(segs, idx, k) = b[k - 1] /\ EndOf(segs[idx[k]]) = b[k]
               /\ Prefix(segs, idx, k) = b[k - 1] - segs[idx[k]].off
               /\ Prefix(segs, idx, k) \in 0 .. Len(segs[idx[k]].data) /\ b[k] <= Len(F)
    <2>1. /\ EndOf(ds[p[k]]) = b[k] /\ ds[p[k]].off \in Int /\ b[k - 1] \in Nat /\ b[k] \in Nat /\ b[k] <= Len(F)
          /\ ds[p[k]].off <= b[k - 1] /\ b[k - 1] <= b[k] /\ ds[p[k]].off + Len(ds[p[k]].data) = b[k]
          /\ Len(ds[p[k]].data) \in Nat /\ (k = 1 => b[k - 1] = 0) /\ (k > 1 => k - 1 \in 1 .. n)
      <3>1. TileAt(T, ds, n, F, p, b, k)
        BY <1>1, <1>2, TileFacts
      <3>. QED BY <3>1 DEF TileAt
    <2>2. segs[idx[k]] = ds[p[k]]
      BY <1>1
    <2>3. From(segs, idx, k) = b[k - 1]
      <3>1. CASE k = 1
        BY <2>1, <3>1 DEF From
      <3>2. CASE k # 1
        <4>1. PICK j \in 1 .. n : j = k - 1
          BY <2>1, <3>2
        <4>2. EndOf(ds[p[j]]) = b[j] /\ segs[idx[j]] = ds[p[j]]
          <5>1. TileAt(T, ds, n, F, p, b, j)
            BY <1>1, <1>2, TileFacts
          <5>. QED BY <1>1, <5>1 DEF TileAt
        <4>. QED BY <3>2, <4>1, <4>2 DEF From
      <3>. QED BY <3>1, <3>2
    <2>. HIDE DEF From
    <2>4. Prefix(segs, idx, k) = b[k - 1] - segs[idx[k]].off
      BY <2>3 DEF Prefix
    <2>. QED BY <2>1, <2>2, <2>3, <2>4
  <1>5. Last(idx) = idx[n] /\ n \in 1 .. n
    BY <1>1, <1>3 DEF Last
  <1>6. b[n] = Len(F)
    BY <1>2 DEF Tiling, Bounds
  <1>7. EndOf(segs[Last(idx)]) = Len(F)
    BY <1>4, <1>5, <1>6
  <1>8. ASSUME NEW want \in Int PROVE SegSpans(segs, want) <=> want = Len(F)
    <2>1. SegSpans(segs, want) <=> /\ \A k \in DOMAIN idx : /\ Prefix(segs, idx, k) \in 0 .. Len(segs[idx[k]].data)
                                                             /\ EndOf(segs[idx[k]]) <= want
                                   /\ (IF idx = <<>> THEN 0 ELSE EndOf(segs[Last(idx)])) = want
      BY DEF SegSpans, idx
    <2>2. (IF idx = <<>> THEN 0 ELSE EndOf(segs[Last(idx)])) = Len(F)
      BY <1>3, <1>7
    <2>. QED BY <1>3, <1>4, <2>1, <2>2
  <1>9. Spanned(segs, idx, n, F, b)
    BY <1>3, <1>4, <1>8 DEF Spanned
  <1>. QED BY <1>9 DEF idx

IsCut(S, s, from, to) ==
    /\ Cut(s, from, to) \in Seq(S) /\ Len(Cut(s, from, to)) = to - from /\ to - from \in Nat
    /\ DOMAIN Cut(s, from, to) = 1 .. to - from
    /\ \A i \in 1 .. to - from : Cut(s, from, to)[i] = s[from + i]
LEMMA CutFacts ==
    ASSUME NEW S, NEW s \in Seq(S), NEW from, NEW to, from \in 0 .. Len(s), to \in from .. Len(s)
    PROVE  IsCut(S, s, from, to)
  <1>1. Len(s) \in Nat /\ from \in Nat /\ to \in Nat /\ from <= to /\ to <= Len(s)
    OBVIOUS
  <1>2. Cut(s, from, to) = [i \in 1 .. to - from |-> s[from + i]]
    BY <1>1 DEF Cut
  <1>3. \A i \in 1 .. to - from : s[from + i] \in S
    BY <1>1
  <1>. QED BY <1>1, <1>2, <1>3 DEF IsCut

LEMMA SameSeq ==
    ASSUME NEW S, NEW x \in Seq(S), NEW y \in Seq(S), Len(x) = Len(y), \A i \in 1 .. Len(x) : x[i] = y[i]
    PROVE  x = y
  OBVIOUS

(* What a unit adds to what comes before it. *)
LEMMA TilePart ==
    ASSUME NEW T, NEW ds \in DataSeq(T), NEW n, NEW F \in Bytes, NEW p, NEW b, Tiling(ds, n, F, p, b),
           NEW k \in 1 .. n
    PROVE  LET s == ds[p[k]]
           IN  Cut(s.data, b[k - 1] - s.off, Len(s.data)) = Cut(F, b[k - 1], b[k])
  <1>. DEFINE s == ds[p[k]]
              pre == b[k - 1] - s.off
  <1>1. TileAt(T, ds, n, F, p, b, k)
    BY TileFacts
  <1>2. /\ s.off \in Int /\ s.data \in Seq(Int) /\ Len(s.data) \in Nat
        /\ b[k - 1] \in Nat /\ b[k] \in Nat /\ b[k] <= Len(F) /\ Len(F) \in Nat /\ b[k - 1] <= b[k]
        /\ s.off <= b[k - 1] /\ s.off + Len(s.data) = b[k]
        /\ \A j \in 1 .. Len(s.data) : s.data[j] = IF s.off + j > b[k - 1] THEN F[s.off + j] ELSE Fill
    BY <1>1 DEF TileAt
  <1>. HIDE DEF s
  <1>3. pre \in 0 .. Len(s.data) /\ Len(s.data) \in pre .. Len(s.data) /\ b[k - 1] \in 0 .. Len(F) /\ b[k] \in b[k - 1] .. Len(F)
        /\ Len(s.data) - pre = b[k] - b[k - 1]
    BY <1>2, SMTT(30)
  <1>. DEFINE x == Cut(s.data, pre, Len(s.data))
              y == Cut(F, b[k - 1], b[k])
  <1>4. x \in Seq(Int) /\ Len(x) = b[k] - b[k - 1] /\ \A i \in 1 .. b[k] - b[k - 1] : x[i] = s.data[pre + i]
    <2>1. IsCut(Int, s.data, pre, Len(s.data))
      BY <1>2, <1>3, CutFacts
    <2>. QED BY <1>3, <2>1 DEF IsCut
  <1>5. y \in Seq(Int) /\ Len(y) = b[k] - b[k - 1] /\ \A i \in 1 .. b[k] - b[k - 1] : y[i] = F[b[k - 1] + i]
    <2>1. IsCut(Int, F, b[k - 1], b[k])
      BY <1>2, <1>3, CutFacts DEF Bytes
    <2>. QED BY <2>1 DEF IsCut
  <1>. HIDE DEF x, y
  <1>6. ASSUME NEW i \in 1 .. b[k] - b[k - 1] PROVE x[i] = y[i]
    <2>a. /\ s.off \in Int /\ Len(s.data) \in Nat /\ b[k - 1] \in Nat /\ b[k] \in Nat
          /\ s.off <= b[k - 1] /\ s.off + Len(s.data) = b[k]
      BY <1>2
    <2>0. pre \in Int /\ pre = b[k - 1] - s.off
      BY <2>a
    <2>. HIDE DEF pre
    <2>1. pre + i \in 1 .. Len(s.data) /\ s.off + (pre + i) = b[k - 1] + i /\ b[k - 1] + i > b[k - 1]
      <3>1. \A o \in Int, l, u, v, q \in Nat : o <= u /\ o + l = v /\ q \in 1 .. v - u =>
                (u - o) + q \in 1 .. l /\ o + ((u - o) + q) = u + q /\ u + q > u
        OBVIOUS
      <3>2. i \in Nat
        OBVIOUS
      <3>3. (b[k - 1] - s.off) + i \in 1 .. Len(s.data) /\ s.off + ((b[k - 1] - s.off) + i) = b[k - 1] + i /\ b[k - 1] + i > b[k - 1]
        BY <2>a, <3>1, <3>2, Zenon
      <3>. QED BY <2>0, <3>3, Zenon
    <2>2. s.data[pre + i] = F[b[k - 1] + i]
      BY <1>2, <2>1
    <2>. QED BY <1>4, <1>5, <2>2
  <1>7. x = y
    BY <1>4, <1>5, <1>6, SameSeq
  <1>. QED BY <1>7 DEF x, y, s

(* Each place lies in one part. *)
LEMMA BoundsCover ==
    ASSUME NEW n \in Nat, NEW m \in Nat, NEW b, Bounds(b, n, m), NEW i \in 1 .. m
    PROVE  \E k \in 1 .. n : b[k - 1] < i /\ i <= b[k]
  <1>. DEFINE R == {k \in 0 .. n : i <= b[k]}
  <1>1. b[0] = 0 /\ b[n] = m /\ \A k \in 0 .. n : b[k] \in Nat
    BY DEF Bounds
  <1>2. R \in SUBSET Nat /\ n \in R
    BY <1>1
  <1>3. PICK k \in R : \A l \in R : k <= l
    BY <1>2, Least
  <1>4. k # 0 /\ k \in 1 .. n
    BY <1>1
  <1>5. k - 1 \in 0 .. n /\ k - 1 \notin R
    BY <1>2, <1>3, <1>4
  <1>6. b[k - 1] < i
    BY <1>1, <1>5
  <1>. QED BY <1>3, <1>4, <1>6

LEMMA FlattenCuts ==
    ASSUME NEW S, NEW F \in Seq(S), NEW n \in Nat, NEW b, Bounds(b, n, Len(F))
    PROVE  FlattenSeq([k \in 1 .. n |-> Cut(F, b[k - 1], b[k])]) = F
  <1>. DEFINE ss == [k \in 1 .. n |-> Cut(F, b[k - 1], b[k])]
              flat == FlattenSeq(ss)
              m == Len(F)
  <1>1. m \in Nat
    OBVIOUS
  <1>2. b \in [0 .. n -> 0 .. m] /\ b[0] = 0 /\ b[n] = m
        /\ \A j, k \in 0 .. n : j < k => b[j] < b[k] \/ m = 0
    BY DEF Bounds
  <1>3. \A j, k \in 0 .. n : j <= k => b[j] <= b[k] /\ b[j] \in Nat /\ b[k] \in Nat
    <2>. SUFFICES ASSUME NEW j \in 0 .. n, NEW k \in 0 .. n, j <= k PROVE b[j] <= b[k] /\ b[j] \in Nat /\ b[k] \in Nat
      OBVIOUS
    <2>1. b[j] \in 0 .. m /\ b[k] \in 0 .. m
      BY <1>2
    <2>2. j = k \/ j < k
      OBVIOUS
    <2>. QED BY <1>1, <1>2, <2>1, <2>2
  <1>. HIDE DEF m
  <1>4. ASSUME NEW k \in 1 .. n
        PROVE  /\ k \in 0 .. n /\ k - 1 \in 0 .. n /\ b[k - 1] \in 0 .. Len(F) /\ b[k] \in b[k - 1] .. Len(F)
               /\ b[k - 1] \in Nat /\ b[k] \in Nat /\ ss[k] = Cut(F, b[k - 1], b[k])
               /\ ss[k] \in Seq(S) /\ Len(ss[k]) = b[k] - b[k - 1] /\ \A i \in 1 .. b[k] - b[k - 1] : ss[k][i] = F[b[k - 1] + i]
    <2>1. k \in 0 .. n /\ k - 1 \in 0 .. n /\ k - 1 <= k
      OBVIOUS
    <2>2. b[k - 1] \in 0 .. m /\ b[k] \in 0 .. m /\ b[k - 1] <= b[k]
      BY <1>2, <1>3, <2>1
    <2>3. b[k - 1] \in 0 .. Len(F) /\ b[k] \in b[k - 1] .. Len(F)
      BY <1>1, <2>2 DEF m
    <2>4. ss[k] = Cut(F, b[k - 1], b[k])
      OBVIOUS
    <2>. HIDE DEF ss
    <2>5. IsCut(S, F, b[k - 1], b[k])
      BY <2>3, CutFacts
    <2>. QED BY <1>1, <2>1, <2>2, <2>3, <2>4, <2>5 DEF IsCut
  <1>. HIDE DEF flat
  <1>5. ss \in [1 .. n -> Seq(S)]
    BY <1>4
  <1>. HIDE DEF ss
  <1>6. b \in [0 .. n -> Nat]
    BY <1>2
  <1>7. Joins(b, n, ss)
    BY <1>2, <1>3, <1>4, SMTT(30) DEF Joins
  <1>8. flat \in Seq(S) /\ Len(flat) = m /\ \A k \in 1 .. n : \A j \in 1 .. Len(ss[k]) : flat[b[k - 1] + j] = ss[k][j]
    <2>1. Joined(flat, S, n, ss, b)
      BY <1>5, <1>6, <1>7, FlattenIs DEF flat
    <2>. QED BY <1>2, <2>1 DEF Joined
  <1>9. ASSUME NEW i \in 1 .. m PROVE flat[i] = F[i]
    <2>1. PICK k \in 1 .. n : b[k - 1] < i /\ i <= b[k]
      BY <1>1, BoundsCover DEF m
    <2>2. PICK j \in 1 .. b[k] - b[k - 1] : b[k - 1] + j = i
      <3>1. i - b[k - 1] \in 1 .. b[k] - b[k - 1] /\ b[k - 1] + (i - b[k - 1]) = i
        BY <1>1, <1>4, <2>1
      <3>. QED BY <3>1
    <2>3. flat[b[k - 1] + j] = ss[k][j] /\ ss[k][j] = F[b[k - 1] + j]
      BY <1>4, <1>8
    <2>. QED BY <2>2, <2>3
  <1>10. flat = F
    BY <1>8, <1>9, SameSeq DEF m
  <1>. QED BY <1>10 DEF flat, ss

LEMMA JoinIs ==
    ASSUME NEW T, NEW segs \in UnitSeq(T), NEW n, NEW F \in Bytes, NEW p, NEW b,
           Tiling(DataOf(segs), n, F, p, b)
    PROVE  SegJoinData(segs) = F
  <1>. DEFINE ds == DataOf(segs)
              idx == SegDataIdx(segs)
  <1>0. Spanned(segs, idx, n, F, b)
    BY SpansIs
  <1>2. Indexed(segs, T, n, p, idx, ds) /\ Tiling(ds, n, F, p, b)
    BY IdxIs
  <1>. HIDE DEF ds, idx
  <1>1. (\A k \in 1 .. n : Prefix(segs, idx, k) = b[k - 1] - segs[idx[k]].off) /\ DOMAIN idx = 1 .. n
    BY <1>0 DEF Spanned
  <1>3. ds \in DataSeq(T) /\ n \in Nat /\ \A k \in 1 .. n : segs[idx[k]] = ds[p[k]]
    BY <1>2 DEF Indexed
  <1>4. ASSUME NEW k \in 1 .. n
        PROVE  Cut(segs[idx[k]].data, Prefix(segs, idx, k), Len(segs[idx[k]].data)) = Cut(F, b[k - 1], b[k])
    <2>1. Cut(ds[p[k]].data, b[k - 1] - ds[p[k]].off, Len(ds[p[k]].data)) = Cut(F, b[k - 1], b[k])
      BY <1>2, <1>3, TilePart
    <2>. QED BY <1>1, <1>3, <2>1
  <1>5. SegJoinData(segs) = FlattenSeq([k \in DOMAIN idx |-> Cut(segs[idx[k]].data, Prefix(segs, idx, k), Len(segs[idx[k]].data))])
    BY DEF SegJoinData, idx
  <1>6. SegJoinData(segs) = FlattenSeq([k \in 1 .. n |-> Cut(F, b[k - 1], b[k])])
    <2>1. [k \in DOMAIN idx |-> Cut(segs[idx[k]].data, Prefix(segs, idx, k), Len(segs[idx[k]].data))]
            = [k \in 1 .. n |-> Cut(F, b[k - 1], b[k])]
      BY <1>1, <1>4, Zenon
    <2>. QED BY <1>5, <2>1
  <1>7. Bounds(b, n, Len(F))
    BY <1>2 DEF Tiling
  <1>. QED BY <1>3, <1>6, <1>7, FlattenCuts DEF Bytes

(* Units whose data lie at the same places. *)
LEMMA SamePlaces ==
    ASSUME NEW T, NEW u \in UnitSeq(T), NEW v \in UnitSeq(T), Len(u) = Len(v),
           \A i \in 1 .. Len(u) : IsData(u[i]) <=> IsData(v[i])
    PROVE  /\ DataAt(u) = DataAt(v) /\ DataOf(u) \in DataSeq(T) /\ DataOf(v) \in DataSeq(T)
           /\ Len(DataOf(u)) = Len(DataOf(v))
           /\ LET a == Ascending(DataAt(v))
              IN  \A k \in 1 .. Len(DataOf(u)) : /\ a[k] \in 1 .. Len(u) /\ IsData(u[a[k]]) /\ IsData(v[a[k]])
                                                 /\ DataOf(u)[k] = u[a[k]] /\ DataOf(v)[k] = v[a[k]]
  <1>1. DataAt(u) = DataAt(v)
    BY DEF DataAt
  <1>. DEFINE a == Ascending(DataAt(v))
              I == DataAt(v)
  <1>2. I \in SUBSET (1 .. Len(u)) /\ I \in SUBSET (1 .. Len(v)) /\ \A i \in I : IsData(u[i]) /\ IsData(v[i])
    BY DEF DataAt
  <1>3. DataOf(u) = Chosen(u, I) /\ DataOf(v) = Chosen(v, I)
    BY <1>1 DEF DataOf
  <1>. DEFINE n == Cardinality(I)
  <1>. HIDE DEF I, a, n
  <1>4. /\ Chosen(u, I) \in Seq(Unit(T)) /\ Len(Chosen(u, I)) = n /\ n \in Nat /\ a \in [1 .. n -> I]
        /\ \A k \in 1 .. n : Chosen(u, I)[k] = u[a[k]]
    BY <1>2, ChosenFacts DEF UnitSeq, a, I, n
  <1>5. /\ Chosen(v, I) \in Seq(Unit(T)) /\ Len(Chosen(v, I)) = n
        /\ \A k \in 1 .. n : Chosen(v, I)[k] = v[a[k]]
    BY <1>2, ChosenFacts DEF UnitSeq, a, I, n
  <1>6. ASSUME NEW k \in 1 .. n
        PROVE  /\ a[k] \in 1 .. Len(u) /\ IsData(u[a[k]]) /\ IsData(v[a[k]])
               /\ DataOf(u)[k] = u[a[k]] /\ DataOf(v)[k] = v[a[k]]
               /\ DataOf(u)[k] \in DataUnits(T) /\ DataOf(v)[k] \in DataUnits(T)
    <2>1. a[k] \in I
      BY <1>4
    <2>2. a[k] \in 1 .. Len(u) /\ a[k] \in 1 .. Len(v) /\ IsData(u[a[k]]) /\ IsData(v[a[k]])
      BY <1>2, <2>1
    <2>3. u[a[k]] \in Unit(T) /\ v[a[k]] \in Unit(T)
      BY <2>2 DEF UnitSeq
    <2>. QED BY <1>3, <1>4, <1>5, <2>2, <2>3 DEF DataUnits
  <1>7. DataOf(u) \in DataSeq(T) /\ Len(DataOf(u)) = n
    BY <1>3, <1>4, <1>6 DEF DataSeq
  <1>8. DataOf(v) \in DataSeq(T) /\ Len(DataOf(v)) = n
    BY <1>3, <1>5, <1>6 DEF DataSeq
  <1>. QED BY <1>1, <1>6, <1>7, <1>8 DEF a, I

(* A move of the boundaries: it never brings two places closer together. *)
Moves(moved, from, to) ==
    /\ from \in Nat /\ to \in Nat /\ moved \in [0 .. from -> 0 .. to] /\ moved[0] = 0 /\ moved[from] = to
    /\ \A x, y \in 0 .. from : x < y => y - x <= moved[y] - moved[x]

LEMMA MovedBounds ==
    ASSUME NEW n, NEW m, NEW b, n \in Nat, Bounds(b, n, m), NEW moved, NEW to, Moves(moved, m, to)
    PROVE  Bounds([k \in 0 .. n |-> moved[b[k]]], n, to)
  <1>. DEFINE d == [k \in 0 .. n |-> moved[b[k]]]
  <1>1. /\ b \in [0 .. n -> 0 .. m] /\ b[0] = 0 /\ b[n] = m /\ (m = 0 => n = 1)
        /\ \A j, k \in 0 .. n : j < k => b[j] < b[k] \/ m = 0
    BY DEF Bounds
  <1>2. /\ m \in Nat /\ to \in Nat /\ moved \in [0 .. m -> 0 .. to] /\ moved[0] = 0 /\ moved[m] = to
        /\ \A x, y \in 0 .. m : x < y => y - x <= moved[y] - moved[x]
    BY DEF Moves
  <1>3. ASSUME NEW k \in 0 .. n PROVE d[k] = moved[b[k]] /\ b[k] \in 0 .. m /\ d[k] \in 0 .. to
    BY <1>1, <1>2
  <1>4. d \in [0 .. n -> 0 .. to] /\ d[0] = 0 /\ d[n] = to
    BY <1>1, <1>2, <1>3
  <1>. HIDE DEF d
  <1>5. ASSUME NEW j \in 0 .. n, NEW k \in 0 .. n, j < k PROVE d[j] < d[k] \/ to = 0
    <2>1. CASE m = 0
      <3>1. to = 0
        BY <1>2, <2>1
      <3>. QED BY <3>1
    <2>2. CASE m # 0
      <3>1. b[j] < b[k] /\ b[j] \in 0 .. m /\ b[k] \in 0 .. m
        BY <1>1, <1>3, <1>5, <2>2
      <3>2. b[k] - b[j] <= moved[b[k]] - moved[b[j]]
        BY <1>2, <3>1
      <3>3. moved[b[k]] \in Nat /\ moved[b[j]] \in Nat /\ b[j] \in Nat /\ b[k] \in Nat
        BY <1>2, <3>1
      <3>4. moved[b[j]] < moved[b[k]]
        BY <3>1, <3>2, <3>3
      <3>. QED BY <1>3, <3>4
    <2>. QED BY <2>1, <2>2
  <1>6. to = 0 => n = 1
    <2>. SUFFICES ASSUME to = 0, m # 0 PROVE FALSE
      BY <1>1
    <2>1. m - 0 <= moved[m] - moved[0]
      BY <1>2
    <2>. QED BY <1>2, <2>1
  <1>7. Bounds(d, n, to)
    BY <1>4, <1>5, <1>6 DEF Bounds
  <1>. QED BY <1>7 DEF d

(* Fillers and then a part of what is sent. *)
LEMMA FilledTile ==
    ASSUME NEW t, NEW new \in Bytes, NEW x \in Bytes, NEW u \in Nat, NEW v \in Nat, u <= v, v <= Len(new),
           t.data = x \o Cut(new, u, v), t.off = u - Len(x), \A j \in 1 .. Len(x) : x[j] = Fill
    PROVE  Tile(t, new, u, v) /\ t.data \in Bytes /\ t.off \in Int
  <1>. DEFINE y == Cut(new, u, v)
              n == Len(x)
              m == v - u
  <1>1. u \in 0 .. Len(new) /\ v \in u .. Len(new) /\ n \in Nat /\ m \in Nat
    BY DEF Bytes
  <1>2. y \in Bytes /\ Len(y) = m /\ \A j \in 1 .. m : y[j] = new[u + j]
    <2>1. IsCut(Int, new, u, v)
      BY <1>1, CutFacts DEF Bytes
    <2>. QED BY <2>1 DEF IsCut, Bytes
  <1>. HIDE DEF y
  <1>3. /\ t.data \in Bytes /\ Len(t.data) = n + m /\ \A j \in 1 .. n + m : t.data[j] = IF j <= n THEN x[j] ELSE y[j - n]
    <2>1. /\ x \o y \in Bytes /\ Len(x \o y) = Len(x) + Len(y)
          /\ \A j \in 1 .. Len(x) + Len(y) : (x \o y)[j] = IF j <= Len(x) THEN x[j] ELSE y[j - Len(x)]
      BY <1>2, Cat, ZenonT(40) DEF Bytes
    <2>. QED BY <1>2, <2>1 DEF y
  <1>4. t.off = u - n
    OBVIOUS
  <1>5. n = Len(x) /\ m = v - u
    OBVIOUS
  <1>. HIDE DEF n, m
  <1>6. t.off <= u /\ EndOf(t) = v
    BY <1>1, <1>3, <1>4, <1>5 DEF EndOf
  <1>7. ASSUME NEW j \in 1 .. Len(t.data) PROVE t.data[j] = IF t.off + j > u THEN new[t.off + j] ELSE Fill
    <2>0. j \in 1 .. n + m /\ (j <= n \/ ~(j <= n)) /\ j \in Nat
      BY <1>1, <1>3
    <2>1. CASE j <= n
      <3>1. j \in 1 .. n /\ ~(t.off + j > u)
        BY <1>1, <1>4, <2>0, <2>1
      <3>. QED BY <1>3, <1>5, <2>0, <2>1, <3>1
    <2>2. CASE ~(j <= n)
      <3>1. j - n \in 1 .. m /\ t.off + j > u /\ u + (j - n) = t.off + j
        <4>1. j - n \in 1 .. m
          BY <1>1, <2>0, <2>2
        <4>2. u + (j - n) = (u - n) + j /\ (u - n) + j > u
          BY <1>1, <2>0, <2>2
        <4>. QED BY <1>4, <4>1, <4>2
      <3>. QED BY <1>2, <1>3, <2>0, <2>2, <3>1
    <2>. QED BY <2>1, <2>2
  <1>8. t.off \in Int
    BY <1>1, <1>4
  <1>. QED BY <1>3, <1>6, <1>7, <1>8 DEF Tile

(* A unit after the move. *)
LEMMA MovedTile ==
    ASSUME NEW T, NEW s \in DataUnits(T), NEW F \in Bytes, NEW new \in Bytes, NEW moved,
           Moves(moved, Len(F), Len(new)),
           NEW from \in Nat, NEW to \in Nat, from <= to, to <= Len(F), Tile(s, F, from, to)
    PROVE  LET t == Recut(s, from - s.off, new, moved[from], moved[to])
           IN  /\ t \in DataUnits(T) /\ Tile(t, new, moved[from], moved[to]) /\ t.off = moved[from] - (from - s.off)
               /\ s.off \in Int
  <1>. DEFINE pre == from - s.off
              u == moved[from]
              v == moved[to]
              x == Cut(s.data, 0, pre)
              y == Cut(new, u, v)
              data == x \o y
              t == [s EXCEPT !.data = data, !.off = u - pre]
  <1>1. /\ s \in Unit(T) /\ IsData(s) /\ s.off \in Int /\ s.data \in Seq(Int) /\ Len(s.data) \in Nat
    BY DEF DataUnits, Unit
  <1>2. /\ Len(F) \in Nat /\ Len(new) \in Nat /\ moved \in [0 .. Len(F) -> 0 .. Len(new)]
        /\ \A a, b \in 0 .. Len(F) : a < b => b - a <= moved[b] - moved[a]
    BY DEF Moves
  <1>3. /\ s.off <= from /\ s.off + Len(s.data) = to
        /\ \A j \in 1 .. Len(s.data) : s.data[j] = IF s.off + j > from THEN F[s.off + j] ELSE Fill
    BY DEF Tile, EndOf
  <1>4. from \in Nat /\ to \in Nat /\ from <= to /\ from \in 0 .. Len(F) /\ to \in 0 .. Len(F)
    BY <1>2
  <1>5. u \in 0 .. Len(new) /\ v \in 0 .. Len(new)
    BY <1>2, <1>4
  <1>6. u <= v
    <2>1. CASE from = to
      BY <1>2, <1>5, <2>1
    <2>2. CASE from # to
      <3>1. from < to
        BY <1>4, <2>2
      <3>2. to - from <= v - u
        BY <1>2, <1>4, <3>1
      <3>. HIDE DEF u, v
      <3>. QED BY <1>2, <1>4, <1>5, <3>1, <3>2
    <2>. QED BY <2>1, <2>2
  <1>. HIDE DEF u, v
  <1>7. pre \in 0 .. Len(s.data) /\ pre \in Nat /\ u \in Nat /\ v \in Nat /\ v \in u .. Len(new) /\ 0 \in 0 .. Len(s.data)
        /\ pre = from - s.off
    BY <1>1, <1>2, <1>3, <1>4, <1>5, <1>6
  <1>. HIDE DEF pre
  <1>8. IsCut(Int, s.data, 0, pre)
    <2>1. pre \in 0 .. Len(s.data) /\ 0 \in 0 .. Len(s.data) /\ s.data \in Seq(Int)
      BY <1>1, <1>7
    <2>. QED BY <2>1, CutFacts, Zenon
  <1>9. /\ x \in Seq(Int) /\ Len(x) = pre /\ \A j \in 1 .. pre : x[j] = s.data[j]
    <2>1. /\ x \in Seq(Int) /\ Len(x) = pre - 0 /\ \A j \in 1 .. pre - 0 : x[j] = s.data[0 + j]
      BY <1>8 DEF IsCut
    <2>2. pre - 0 = pre /\ \A j \in 1 .. pre : 0 + j = j
      BY <1>7
    <2>. QED BY <2>1, <2>2
  <1>. HIDE DEF x
  <1>10. ASSUME NEW j \in 1 .. Len(x) PROVE x[j] = Fill
    <2>1. j \in 1 .. pre /\ s.off \in Int /\ from \in Int
      BY <1>1, <1>4, <1>9, <1>10
    <2>2. j \in 1 .. Len(s.data)
      <3>1. Len(s.data) \in Nat /\ pre <= Len(s.data) /\ pre \in Nat
        BY <1>1, <1>7
      <3>. QED BY <2>1, <3>1
    <2>3. ~(s.off + j > from)
      <3>1. pre = from - s.off /\ j <= pre /\ j \in Int
        BY <1>7, <2>1
      <3>. QED BY <2>1, <3>1
    <2>. QED BY <1>3, <1>9, <2>1, <2>2, <2>3
  <1>11. u - pre \in Int /\ x \in Bytes /\ u <= v /\ v <= Len(new) /\ Len(x) = pre
    BY <1>6, <1>7, <1>9 DEF Bytes
  <1>12. s \in [kind: Kinds, data: Seq(Int), off: Int, reps: Nat \ {0}, ttl: Nat, fool: SUBSET Marks,
                ipid: IpIds, frag: Int, win: Int] /\ s.kind = "data" /\ s.reps = 1
    BY <1>1 DEF Unit, IsData
  <1>13. t.data = data /\ t.off = u - pre /\ DOMAIN t = DOMAIN s
    BY <1>12
  <1>14. Tile(t, new, u, v) /\ t.data \in Bytes
    BY <1>7, <1>10, <1>11, <1>13, FilledTile
  <1>15. t \in DataUnits(T)
    <2>1. data \in Seq(Int)
      BY <1>13, <1>14 DEF Bytes
    <2>. HIDE DEF data
    <2>2. t \in [kind: Kinds, data: Seq(Int), off: Int, reps: Nat \ {0}, ttl: Nat, fool: SUBSET Marks,
                ipid: IpIds, frag: Int, win: Int] /\ t.kind = "data" /\ t.reps = 1
      BY <1>11, <1>12, <2>1
    <2>. QED BY <2>2 DEF DataUnits, Unit, IsData, IsDecoy
  <1>17. t.off = u - (from - s.off)
    BY <1>7, <1>13
  <1>18. s.off \in Int
    BY <1>1
  <1>. QED BY <1>14, <1>15, <1>17, <1>18 DEF Recut, t, data, x, y, u, v, pre

(* A rewrite gives the data new contents at moved boundaries, and leaves the rest. *)
Rewritten(T, segs, r, n, new, p, d) ==
    /\ r \in UnitSeq(T) /\ Len(r) = Len(segs)
    /\ \A i \in 1 .. Len(segs) : /\ IsData(r[i]) <=> IsData(segs[i])
                                 /\ ~IsData(segs[i]) => r[i] = segs[i]
    /\ Tiling(DataOf(r), n, new, p, d)

LEMMA RewriteIs ==
    ASSUME NEW T, NEW segs \in UnitSeq(T), NEW n, NEW F \in Bytes, NEW p, NEW b, Tiling(DataOf(segs), n, F, p, b),
           NEW new \in Bytes, NEW moved, Moves(moved, Len(F), Len(new))
    PROVE  Rewritten(T, segs, SegRewriteData(segs, new, moved), n, new, p, [k \in 0 .. n |-> moved[b[k]]])
  <1>. DEFINE ds == DataOf(segs)
              idx == SegDataIdx(segs)
              d == [k \in 0 .. n |-> moved[b[k]]]
              New(s, from, to) == Recut(s, from - s.off, new, moved[from], moved[to])
              r == SegRewriteData(segs, new, moved)
  <1>1. Indexed(segs, T, n, p, idx, ds) /\ Spanned(segs, idx, n, F, b) /\ Tiling(ds, n, F, p, b)
    BY IdxIs, SpansIs
  <1>. HIDE DEF ds, idx
  <1>2. /\ ds \in DataSeq(T) /\ n \in Nat \ {0} /\ idx \in Seq(1 .. Len(segs)) /\ Len(idx) = n
        /\ \A k \in 1 .. n : idx[k] \in 1 .. Len(segs) /\ IsData(segs[idx[k]]) /\ segs[idx[k]] = ds[p[k]]
        /\ \A i \in 1 .. Len(segs) : IsData(segs[i]) => \E k \in 1 .. n : idx[k] = i
        /\ \A j, k \in 1 .. n : j # k => idx[j] # idx[k]
    BY <1>1 DEF Indexed
  <1>3. \A k \in 1 .. n : /\ From(segs, idx, k) = b[k - 1] /\ EndOf(segs[idx[k]]) = b[k]
                          /\ Prefix(segs, idx, k) = b[k - 1] - segs[idx[k]].off
    BY <1>1 DEF Spanned
  <1>4. r = [i \in DOMAIN segs |->
              IF IsData(segs[i])
              THEN LET k == CHOOSE x \in DOMAIN idx : idx[x] = i
                       s == segs[idx[k]]
                   IN  Recut(s, Prefix(segs, idx, k), new, moved[From(segs, idx, k)], moved[EndOf(s)])
              ELSE segs[i]]
    BY DEF SegRewriteData, idx
  <1>5. DOMAIN segs = 1 .. Len(segs) /\ Len(segs) \in Nat
    BY DEF UnitSeq
  <1>. HIDE DEF r
  <1>6. ASSUME NEW k \in 1 .. n PROVE idx[k] \in 1 .. Len(segs) /\ r[idx[k]] = New(segs[idx[k]], b[k - 1], b[k])
    <2>1. PICK i \in 1 .. Len(segs) : i = idx[k]
      BY <1>2
    <2>2. (CHOOSE x \in DOMAIN idx : idx[x] = i) = k
      <3>1. \A j \in 1 .. n : idx[j] = i <=> j = k
        BY <1>2, <2>1
      <3>2. DOMAIN idx = 1 .. n
        BY <1>2
      <3>. QED BY <3>1, <3>2
    <2>3. IsData(segs[i]) /\ i \in DOMAIN segs
      BY <1>2, <1>5, <2>1
    <2>4. r[i] = LET kk == CHOOSE x \in DOMAIN idx : idx[x] = i
                     s == segs[idx[kk]]
                 IN  Recut(s, Prefix(segs, idx, kk), new, moved[From(segs, idx, kk)], moved[EndOf(s)])
      BY <1>4, <2>3
    <2>5. r[i] = Recut(segs[idx[k]], Prefix(segs, idx, k), new, moved[From(segs, idx, k)], moved[EndOf(segs[idx[k]])])
      BY <2>2, <2>4
    <2>. QED BY <1>3, <2>1, <2>5
  <1>7. ASSUME NEW k \in 1 .. n
        PROVE  /\ r[idx[k]] \in DataUnits(T) /\ Tile(r[idx[k]], new, d[k - 1], d[k])
               /\ k > 1 => d[k - 2] < r[idx[k]].off
    <2>1. TileAt(T, ds, n, F, p, b, k)
      BY <1>1, <1>2, TileFacts
    <2>2. PICK s \in DataUnits(T) : s = ds[p[k]]
      BY <2>1 DEF TileAt, DataUnits
    <2>3. /\ b[k - 1] \in Nat /\ b[k] \in Nat /\ b[k] <= Len(F) /\ b[k - 1] <= b[k] /\ Len(F) \in Nat
          /\ k \in 0 .. n /\ k - 1 \in 0 .. n /\ (k > 1 => b[k - 2] < s.off /\ b[k - 2] \in Nat /\ b[k - 2] < b[k - 1])
          /\ s.off \in Int /\ s.off <= b[k - 1]
      BY <2>1, <2>2 DEF TileAt
    <2>4. Tile(s, F, b[k - 1], b[k])
      BY <1>1, <2>2 DEF Tiling
    <2>5. /\ New(s, b[k - 1], b[k]) \in DataUnits(T) /\ Tile(New(s, b[k - 1], b[k]), new, moved[b[k - 1]], moved[b[k]])
          /\ New(s, b[k - 1], b[k]).off = moved[b[k - 1]] - (b[k - 1] - s.off)
      <3>1. PICK from \in Nat, to \in Nat : from = b[k - 1] /\ to = b[k]
        BY <2>3
      <3>2. from <= to /\ to <= Len(F) /\ Tile(s, F, from, to)
        BY <2>3, <2>4, <3>1
      <3>3. /\ New(s, from, to) \in DataUnits(T) /\ Tile(New(s, from, to), new, moved[from], moved[to])
            /\ New(s, from, to).off = moved[from] - (from - s.off)
        BY <3>2, MovedTile
      <3>. QED BY <3>1, <3>3
    <2>. HIDE DEF New
    <2>6. r[idx[k]] = New(s, b[k - 1], b[k])
      BY <1>2, <1>6, <2>2
    <2>7. d[k - 1] = moved[b[k - 1]] /\ d[k] = moved[b[k]]
      BY <2>3
    <2>8. k > 1 => d[k - 2] < moved[b[k - 1]] - (b[k - 1] - s.off)
      <3>. SUFFICES ASSUME k > 1 PROVE d[k - 2] < moved[b[k - 1]] - (b[k - 1] - s.off)
        OBVIOUS
      <3>1. d[k - 2] = moved[b[k - 2]]
        <4>1. k - 2 \in 0 .. n
          BY <1>2
        <4>. QED BY <4>1
      <3>2. b[k - 2] \in 0 .. Len(F) /\ b[k - 1] \in 0 .. Len(F) /\ b[k - 2] < b[k - 1]
        BY <2>3
      <3>3. /\ b[k - 1] - b[k - 2] <= moved[b[k - 1]] - moved[b[k - 2]]
            /\ moved[b[k - 1]] \in Nat /\ moved[b[k - 2]] \in Nat
        BY <3>2 DEF Moves
      <3>4. \A x1, x2, m1, m2 \in Nat, o \in Int : x1 - x2 <= m1 - m2 /\ x2 < o => m2 < m1 - (x1 - o)
        OBVIOUS
      <3>5. moved[b[k - 2]] < moved[b[k - 1]] - (b[k - 1] - s.off)
        BY <2>3, <3>3, <3>4, Zenon
      <3>. QED BY <3>1, <3>5
    <2>. QED BY <2>5, <2>6, <2>7, <2>8
  <1>. HIDE DEF d, New
  <1>8. ASSUME NEW i \in 1 .. Len(segs)
        PROVE  r[i] \in Unit(T) /\ (IsData(r[i]) <=> IsData(segs[i])) /\ (~IsData(segs[i]) => r[i] = segs[i])
    <2>1. CASE IsData(segs[i])
      <3>1. PICK k \in 1 .. n : idx[k] = i
        BY <1>2, <2>1
      <3>2. r[i] \in DataUnits(T)
        BY <1>7, <3>1
      <3>. QED BY <2>1, <3>2 DEF DataUnits
    <2>2. CASE ~IsData(segs[i])
      <3>1. r[i] = segs[i]
        BY <1>4, <1>5, <2>2
      <3>2. segs[i] \in Unit(T)
        BY DEF UnitSeq
      <3>. QED BY <2>2, <3>1, <3>2
    <2>. QED BY <2>1, <2>2
  <1>9. DOMAIN r = 1 .. Len(segs)
    BY <1>4, <1>5
  <1>10. r \in UnitSeq(T) /\ Len(r) = Len(segs)
    <2>. DEFINE G(i) == IF IsData(segs[i])
                        THEN LET k == CHOOSE x \in DOMAIN idx : idx[x] = i
                                 s == segs[idx[k]]
                             IN  Recut(s, Prefix(segs, idx, k), new, moved[From(segs, idx, k)], moved[EndOf(s)])
                        ELSE segs[i]
    <2>0. r = [i \in 1 .. Len(segs) |-> G(i)]
      BY <1>4, <1>5
    <2>. HIDE DEF G
    <2>1. r = [i \in 1 .. Len(segs) |-> r[i]]
      BY <2>0
    <2>. QED BY <1>5, <1>8, <2>1 DEF UnitSeq
  <1>11. /\ DataOf(r) \in DataSeq(T) /\ Len(DataOf(r)) = Len(ds)
         /\ \A l \in 1 .. Len(DataOf(r)) : \A i \in 1 .. Len(r) : TRUE
    BY <1>8, <1>10, SamePlaces DEF ds
  <1>12. ASSUME NEW k \in 1 .. n PROVE DataOf(r)[p[k]] = r[idx[k]]
    <2>1. p[k] \in 1 .. n /\ n = Len(ds)
      BY <1>1 DEF Tiling
    <2>2. idx[k] = Ascending(DataAt(segs))[p[k]]
      <3>1. idx = [j \in 1 .. n |-> Ascending(DataAt(segs))[p[j]]]
        BY IdxIs DEF idx
      <3>. QED BY <3>1
    <2>3. DataOf(r)[p[k]] = r[Ascending(DataAt(segs))[p[k]]]
      BY <1>8, <1>10, <1>11, <2>1, SamePlaces DEF ds
    <2>. QED BY <2>2, <2>3
  <1>13. Bounds(d, n, Len(new))
    <2>1. Bounds(b, n, Len(F)) /\ n \in Nat /\ Moves(moved, Len(F), Len(new))
      BY <1>1, <1>2 DEF Tiling
    <2>. QED BY <2>1, MovedBounds, Zenon DEF d
  <1>14. Tiling(DataOf(r), n, new, p, d)
    <2>1. /\ n \in Nat \ {0} /\ Len(ds) = n /\ p \in [1 .. n -> 1 .. n] /\ \A i \in 1 .. n : \E k \in 1 .. n : p[k] = i
      BY <1>1 DEF Tiling
    <2>2. ASSUME NEW k \in 1 .. n
          PROVE Tile(DataOf(r)[p[k]], new, d[k - 1], d[k]) /\ (k > 1 => d[k - 2] < DataOf(r)[p[k]].off)
      BY <1>7, <1>12
    <2>. QED BY <1>11, <1>13, <2>1, <2>2 DEF Tiling
  <1>15. Rewritten(T, segs, r, n, new, p, d)
    BY <1>8, <1>10, <1>14 DEF Rewritten
  <1>. QED BY <1>15 DEF r, d

(***************************************************************************)
(* The units of a plan and the data among them.                            *)
(***************************************************************************)
(* x is units of a plan, and ds is the data among them. *)
Holds(T, x, ds) == x \in UnitSeq(T) /\ ds \in DataSeq(T) /\ DataOf(x) = ds

LEMMA DataIn ==
    ASSUME NEW T PROVE DataSeq(T) \subseteq UnitSeq(T) /\ DataUnits(T) \subseteq Unit(T)
  BY DEF DataSeq, UnitSeq, DataUnits

LEMMA HoldsUnits ==
    ASSUME NEW T, NEW x \in UnitSeq(T)
    PROVE  Holds(T, x, DataOf(x)) /\ Len(x) \in Nat /\ Len(DataOf(x)) \in Nat
  <1>1. DataOf(x) \in DataSeq(T)
    BY SamePlaces
  <1>. QED BY <1>1 DEF Holds, UnitSeq, DataSeq

LEMMA HoldsEmpty == ASSUME NEW T PROVE Holds(T, <<>>, <<>>)
  <1>1. <<>> \in UnitSeq(T) /\ <<>> \in DataSeq(T) /\ <<>> \in Seq(Unit(T))
    BY DEF UnitSeq, DataSeq
  <1>2. Those(<<>>, DataUnits(T)) = <<>>
    <2>1. \A i \in 1 .. Len(<<>>) : <<>>[i] \notin DataUnits(T)
      OBVIOUS
    <2>. QED BY <1>1, <2>1, ThoseNone
  <1>. QED BY <1>1, <1>2, DataThose DEF Holds

LEMMA HoldsData == ASSUME NEW T, NEW q \in DataSeq(T) PROVE Holds(T, q, q)
  <1>1. q \in Seq(Unit(T)) /\ q \in UnitSeq(T) /\ \A i \in 1 .. Len(q) : q[i] \in DataUnits(T)
    BY DataIn DEF DataSeq, UnitSeq
  <1>2. Those(q, DataUnits(T)) = q
    BY <1>1, ThoseAll
  <1>. QED BY <1>1, <1>2, DataThose DEF Holds

LEMMA HoldsNone ==
    ASSUME NEW T, NEW x \in UnitSeq(T), \A i \in 1 .. Len(x) : ~IsData(x[i])
    PROVE  Holds(T, x, <<>>)
  <1>1. x \in Seq(Unit(T)) /\ <<>> \in DataSeq(T)
    BY DEF UnitSeq, DataSeq
  <1>2. \A i \in 1 .. Len(x) : x[i] \notin DataUnits(T)
    BY DEF DataUnits
  <1>3. Those(x, DataUnits(T)) = <<>>
    BY <1>1, <1>2, ThoseNone
  <1>. QED BY <1>1, <1>3, DataThose DEF Holds

LEMMA HoldsFake ==
    ASSUME NEW T, NEW f \in Unit(T), ~IsData(f)
    PROVE  Holds(T, <<f>>, <<>>)
  <1>1. <<f>> \in UnitSeq(T) /\ \A i \in 1 .. Len(<<f>>) : ~IsData(<<f>>[i])
    BY DEF UnitSeq
  <1>. QED BY <1>1, HoldsNone

LEMMA HoldsOne ==
    ASSUME NEW T, NEW r \in DataUnits(T)
    PROVE  Holds(T, <<r>>, <<r>>) /\ <<r>> # <<>>
  <1>1. <<r>> \in DataSeq(T)
    BY DEF DataSeq
  <1>. QED BY <1>1, HoldsData

LEMMA HoldsWhen ==
    ASSUME NEW T, NEW x, NEW B \in BOOLEAN, Holds(T, x, <<>>)
    PROVE  Holds(T, When(B, x), <<>>)
  BY HoldsEmpty DEF When

LEMMA HoldsJoin ==
    ASSUME NEW T, NEW x, NEW y, NEW ds, NEW es, Holds(T, x, ds), Holds(T, y, es)
    PROVE  Holds(T, x \o y, ds \o es)
  <1>1. /\ x \in Seq(Unit(T)) /\ y \in Seq(Unit(T)) /\ x \in UnitSeq(T) /\ y \in UnitSeq(T)
        /\ x \o y \in Seq(Unit(T)) /\ x \o y \in UnitSeq(T) /\ ds \o es \in DataSeq(T)
    BY DEF Holds, UnitSeq, DataSeq
  <1>2. Those(x \o y, DataUnits(T)) = Those(x, DataUnits(T)) \o Those(y, DataUnits(T))
    BY <1>1, ThoseConcat
  <1>3. DataOf(x \o y) = DataOf(x) \o DataOf(y)
    BY <1>1, <1>2, DataThose
  <1>. QED BY <1>1, <1>3 DEF Holds

LEMMA NoData ==
    ASSUME NEW T, NEW x \in UnitSeq(T)
    PROVE  /\ DataOf(x) = <<>> <=> \A i \in 1 .. Len(x) : ~IsData(x[i])
           /\ DataOf(x) = <<>> <=> DataAt(x) = {}
           /\ DataAt(x) = {i \in 1 .. Len(x) : IsData(x[i])}
  <1>1. x \in Seq(Unit(T)) /\ DOMAIN x = 1 .. Len(x) /\ \A i \in 1 .. Len(x) : x[i] \in Unit(T)
    BY DEF UnitSeq
  <1>2. Those(x, DataUnits(T)) = <<>> <=> \A i \in 1 .. Len(x) : x[i] \notin DataUnits(T)
    BY <1>1, ThoseNone
  <1>3. DataOf(x) = <<>> <=> \A i \in 1 .. Len(x) : ~IsData(x[i])
    BY <1>1, <1>2, DataThose DEF DataUnits
  <1>. QED BY <1>1, <1>3 DEF DataAt

(* What is left when the data are taken out. *)
LEMMA HoldsKept ==
    ASSUME NEW T, NEW x \in UnitSeq(T)
    PROVE  Holds(T, Chosen(x, DOMAIN x \ DataAt(x)), <<>>)
  <1>. DEFINE I == DOMAIN x \ DataAt(x)
              y == Chosen(x, I)
  <1>1. x \in Seq(Unit(T)) /\ I \in SUBSET (1 .. Len(x)) /\ \A i \in I : ~IsData(x[i])
    BY DEF UnitSeq, DataAt
  <1>. HIDE DEF I
  <1>2. /\ y \in Seq(Unit(T)) /\ Len(y) = Cardinality(I) /\ Ascending(I) \in [1 .. Cardinality(I) -> I]
        /\ \A k \in 1 .. Cardinality(I) : y[k] = x[Ascending(I)[k]]
    BY <1>1, ChosenFacts
  <1>3. \A k \in 1 .. Len(y) : ~IsData(y[k])
    BY <1>1, <1>2
  <1>. HIDE DEF y
  <1>4. y \in UnitSeq(T)
    BY <1>2 DEF UnitSeq
  <1>5. Holds(T, y, <<>>)
    BY <1>3, <1>4, HoldsNone
  <1>. QED BY <1>5 DEF y, I

LEMMA FirstDataIs ==
    ASSUME NEW T, NEW x \in UnitSeq(T)
    PROVE  \/ FirstData(x) = 0 /\ DataOf(x) = <<>>
           \/ /\ FirstData(x) \in 1 .. Len(x) /\ IsData(x[FirstData(x)])
              /\ \A i \in 1 .. FirstData(x) - 1 : ~IsData(x[i])
  <1>. DEFINE I == {i \in 1 .. Len(x) : IsData(x[i])}
  <1>1. FirstData(x) = IF I # {} THEN Min(I) ELSE 0
    BY DEF FirstData, SelectInSeq
  <1>2. Len(x) \in Nat /\ I \in SUBSET Nat
    BY DEF UnitSeq
  <1>3. CASE I = {}
    BY <1>1, <1>3, NoData
  <1>4. CASE I # {}
    <2>1. PICK m \in I : \A k \in I : m <= k
      BY <1>2, <1>4, Least
    <2>2. Min(I) \in I /\ \A k \in I : Min(I) <= k
      BY <2>1 DEF Min
    <2>. HIDE DEF I
    <2>3. FirstData(x) \in I /\ \A k \in I : FirstData(x) <= k
      BY <1>1, <1>4, <2>2
    <2>. QED BY <1>2, <2>3 DEF I
  <1>. QED BY <1>3, <1>4

(* Units that go before the first data unit change no data. *)
LEMMA HoldsInserted ==
    ASSUME NEW T, NEW x \in UnitSeq(T), NEW y, Holds(T, y, <<>>)
    PROVE  Holds(T, Inserted(x, y), DataOf(x)) /\ (y # <<>> => Inserted(x, y) # <<>>)
  <1>. DEFINE at == FirstData(x)
              u == SubSeq(x, 1, at - 1)
              v == SubSeq(x, at, Len(x))
  <1>1. Holds(T, x, DataOf(x)) /\ x \in Seq(Unit(T)) /\ Len(x) \in Nat /\ y \in Seq(Unit(T))
    BY HoldsUnits DEF UnitSeq, Holds
  <1>2. CASE at = 0
    <2>1. Holds(T, x \o y, DataOf(x) \o <<>>)
      BY <1>1, HoldsJoin
    <2>2. DataOf(x) \o <<>> = DataOf(x)
      BY <1>1 DEF Holds, DataSeq
    <2>3. y # <<>> => x \o y # <<>>
      BY <1>1
    <2>. QED BY <1>2, <2>1, <2>2, <2>3 DEF Inserted
  <1>3. CASE at # 0
    <2>1. at \in 1 .. Len(x)
      BY <1>3, FirstDataIs
    <2>. HIDE DEF at
    <2>2. /\ u \in Seq(Unit(T)) /\ v \in Seq(Unit(T)) /\ Len(u) = at - 1 /\ Len(v) = Len(x) - at + 1
          /\ (\A i \in 1 .. Len(u) : u[i] = x[i]) /\ \A i \in 1 .. Len(v) : v[i] = x[at + i - 1]
      BY <1>1, <2>1, SubSeqProperties
    <2>. HIDE DEF u, v
    <2>3. u \in UnitSeq(T) /\ v \in UnitSeq(T) /\ u \o v \in Seq(Unit(T))
      BY <2>2 DEF UnitSeq
    <2>4. u \o v = x
      <3>1. Len(u \o v) = Len(x)
        BY <1>1, <2>1, <2>2
      <3>2. ASSUME NEW i \in 1 .. Len(x) PROVE (u \o v)[i] = x[i]
        <4>1. i \in Nat /\ at \in Nat /\ 1 <= i /\ i <= Len(x) /\ 1 <= at /\ at <= Len(x)
          BY <1>1, <2>1
        <4>2. CASE i < at
          <5>1. i \in 1 .. Len(u)
            BY <2>2, <4>1, <4>2
          <5>. QED BY <2>2, <5>1
        <4>3. CASE i >= at
          <5>1. i - Len(u) \in 1 .. Len(v) /\ i \notin 1 .. Len(u) /\ at + (i - Len(u)) - 1 = i /\ i \in 1 .. Len(u) + Len(v)
            BY <1>1, <2>2, <4>1, <4>3
          <5>2. (u \o v)[i] = v[i - Len(u)]
            BY <2>2, <5>1
          <5>. QED BY <2>2, <5>1, <5>2
        <4>4. i < at \/ i >= at
          BY <4>1
        <4>. QED BY <4>2, <4>3, <4>4, Zenon
      <3>. QED BY <1>1, <2>3, <3>1, <3>2, SameSeq
    <2>5. Holds(T, u, DataOf(u)) /\ Holds(T, v, DataOf(v))
      BY <2>3, HoldsUnits
    <2>6. Holds(T, u \o v, DataOf(u) \o DataOf(v))
      BY <2>5, HoldsJoin
    <2>7. DataOf(x) = DataOf(u) \o DataOf(v)
      BY <2>4, <2>6 DEF Holds
    <2>8. Holds(T, u \o y, DataOf(u) \o <<>>)
      BY <2>5, HoldsJoin
    <2>9. Holds(T, (u \o y) \o v, (DataOf(u) \o <<>>) \o DataOf(v))
      BY <2>5, <2>8, HoldsJoin
    <2>10. DataOf(u) \o <<>> = DataOf(u)
      BY <2>5 DEF Holds, DataSeq
    <2>11. y # <<>> => (u \o y) \o v # <<>>
      BY <1>1, <2>2
    <2>. QED BY <1>3, <2>7, <2>9, <2>10, <2>11 DEF Inserted, at, u, v
  <1>. QED BY <1>2, <1>3

LEMMA ModFacts ==
    ASSUME NEW T \in Nat, T > 2
    PROVE  /\ \A x \in Nat : x < T => x % T = x
           /\ \A x \in Int : x % T \in 0 .. T - 1
           /\ -2 % T = T - 2
           /\ T % T = 0
  <1>1. \A x \in Nat : x < T => x % T = x
    OBVIOUS
  <1>2. \A x \in Int : x % T \in 0 .. T - 1
    OBVIOUS
  <1>3. -2 % T = T - 2
    <2>1. (0 - 2) % T = T - 2 /\ 0 - 2 = -2
      OBVIOUS
    <2>. QED BY <2>1
  <1>4. T % T = 0
    OBVIOUS
  <1>. QED BY <1>1, <1>2, <1>3, <1>4
LEMMA ModAdd ==
    ASSUME NEW T \in Nat, T > 2, NEW x \in Int
    PROVE  (x + T) % T = x % T
  <1>1. x = T * (x \div T) + (x % T) /\ x % T \in 0 .. T - 1 /\ x \div T \in Int
    OBVIOUS
  <1>2. x + T = T * ((x \div T) + 1) + (x % T)
    BY <1>1
  <1>. DEFINE y == x + T
              d == (y \div T) - ((x \div T) + 1)
  <1>3. y = T * (y \div T) + (y % T) /\ y % T \in 0 .. T - 1 /\ y \div T \in Int /\ d \in Int
    BY <1>1
  <1>4. T * d = (x % T) - (y % T)
    BY <1>1, <1>2, <1>3
  <1>. HIDE DEF d
  <1>5. d >= 1 => T * d >= T
    BY <1>3
  <1>6. d <= -1 => T * d <= -T
    BY <1>3
  <1>7. d = 0
    BY <1>1, <1>3, <1>4, <1>5, <1>6
  <1>. QED BY <1>1, <1>3, <1>4, <1>7

(***************************************************************************)
(* What the data of a plan carry.                                          *)
(***************************************************************************)
(* z is x and then y. *)
Catted(z, x, y) ==
    /\ z \in Bytes /\ Len(z) = Len(x) + Len(y) /\ Len(x) \in Nat /\ Len(y) \in Nat
    /\ \A i \in 1 .. Len(x) + Len(y) : z[i] = IF i <= Len(x) THEN x[i] ELSE y[i - Len(x)]
LEMMA CatBytes == ASSUME NEW x \in Bytes, NEW y \in Bytes PROVE Catted(x \o y, x, y)
  BY Cat DEF Bytes, Catted

Mod(s) == [i \in DOMAIN s |-> s[i] % Touched]
Own == {x \in Int : x # 0 /\ x # Header % Touched}
Owned(s) == Those(Mod(s), Own)
(* Clear(F): no filler and no decoy is in F. *)
Clear(F) == \A i \in 1 .. Len(F) : F[i] >= 1 \/ F[i] = Header
Form(c, F) ==
    /\ F \in Bytes /\ Clear(F)
    /\ Owned(F) = Payload(c)
    /\ "inject" \in c.caps => Len(F) = c.len /\ \A i \in 1 .. c.len : F[i] % Touched = i

LEMMA TouchedFacts == ASSUME NEW c \in Context PROVE Touched \in Nat /\ Touched > 2 /\ Header % Touched = Touched - 2
  <1>1. Touched \in Nat /\ Touched > 2
    <2>1. Touched \in Nat /\ c.len \in Nat /\ c.len < Touched - 2
      BY ContextFacts
    <2>. QED BY <2>1
  <1>. QED BY <1>1, ModFacts DEF Header
LEMMA ModSeq ==
    ASSUME NEW c \in Context, NEW s \in Bytes
    PROVE  /\ Mod(s) \in Bytes /\ Mod(s) \in Seq(Int) /\ Len(Mod(s)) = Len(s) /\ Len(s) \in Nat
           /\ \A i \in 1 .. Len(s) : Mod(s)[i] = s[i] % Touched /\ s[i] \in Int /\ s[i] % Touched \in 0 .. Touched - 1
  <1>1. Touched \in Nat /\ Touched > 2 /\ \A x \in Int : x % Touched \in 0 .. Touched - 1
    BY TouchedFacts, ModFacts
  <1>2. DOMAIN s = 1 .. Len(s) /\ Len(s) \in Nat /\ \A i \in 1 .. Len(s) : s[i] \in Int
    BY DEF Bytes
  <1>3. \A i \in 1 .. Len(s) : s[i] % Touched \in Int /\ s[i] % Touched \in 0 .. Touched - 1
    <2>1. \A x \in Int : x % Touched \in Int /\ x % Touched \in 0 .. Touched - 1
      BY <1>1
    <2>. QED BY <1>2, <2>1, Zenon
  <1>4. Mod(s) \in [1 .. Len(s) -> Int]
    BY <1>2, <1>3 DEF Mod
  <1>. QED BY <1>2, <1>3, <1>4 DEF Mod, Bytes
LEMMA ModConcat ==
    ASSUME NEW c \in Context, NEW x \in Bytes, NEW y \in Bytes
    PROVE  x \o y \in Bytes /\ Mod(x \o y) = Mod(x) \o Mod(y) /\ Owned(x \o y) = Owned(x) \o Owned(y)
  <1>1. /\ Mod(x) \in Seq(Int) /\ Mod(y) \in Seq(Int) /\ Len(Mod(x)) = Len(x) /\ Len(Mod(y)) = Len(y)
        /\ Len(x) \in Nat /\ Len(y) \in Nat
        /\ \A i \in 1 .. Len(x) : Mod(x)[i] = x[i] % Touched
        /\ \A i \in 1 .. Len(y) : Mod(y)[i] = y[i] % Touched
    BY ModSeq
  <1>2. x \o y \in Bytes /\ Len(x \o y) = Len(x) + Len(y)
        /\ \A i \in 1 .. Len(x) + Len(y) : (x \o y)[i] = IF i <= Len(x) THEN x[i] ELSE y[i - Len(x)]
    BY Cat DEF Bytes
  <1>3. /\ Mod(x) \o Mod(y) \in Seq(Int) /\ Len(Mod(x) \o Mod(y)) = Len(x) + Len(y)
        /\ \A i \in 1 .. Len(x) + Len(y) : (Mod(x) \o Mod(y))[i] = IF i <= Len(x) THEN Mod(x)[i] ELSE Mod(y)[i - Len(x)]
    <2>1. \A u, v : u \in Seq(Int) /\ v \in Seq(Int) =>
             /\ u \o v \in Seq(Int) /\ Len(u \o v) = Len(u) + Len(v)
             /\ \A i \in 1 .. Len(u) + Len(v) : (u \o v)[i] = IF i <= Len(u) THEN u[i] ELSE v[i - Len(u)]
      BY Cat
    <2>2. /\ Mod(x) \o Mod(y) \in Seq(Int) /\ Len(Mod(x) \o Mod(y)) = Len(Mod(x)) + Len(Mod(y))
          /\ \A i \in 1 .. Len(Mod(x)) + Len(Mod(y)) : (Mod(x) \o Mod(y))[i] = IF i <= Len(Mod(x)) THEN Mod(x)[i] ELSE Mod(y)[i - Len(Mod(x))]
      BY <1>1, <2>1, Zenon
    <2>. QED BY <1>1, <2>2, Zenon
  <1>4. /\ Mod(x \o y) \in Seq(Int) /\ Len(Mod(x \o y)) = Len(x) + Len(y)
        /\ \A i \in 1 .. Len(x) + Len(y) : Mod(x \o y)[i] = (x \o y)[i] % Touched
    BY <1>2, ModSeq
  <1>5. ASSUME NEW i \in 1 .. Len(x) + Len(y) PROVE Mod(x \o y)[i] = (Mod(x) \o Mod(y))[i]
    <2>1. CASE i <= Len(x)
      <3>1. i \in 1 .. Len(x)
        BY <1>1, <2>1
      <3>. QED BY <1>1, <1>2, <1>3, <1>4, <2>1, <3>1
    <2>2. CASE ~(i <= Len(x))
      <3>1. i - Len(x) \in 1 .. Len(y)
        BY <1>1, <2>2
      <3>. QED BY <1>1, <1>2, <1>3, <1>4, <2>2, <3>1
    <2>. QED BY <2>1, <2>2
  <1>6. Mod(x \o y) = Mod(x) \o Mod(y)
    BY <1>3, <1>4, <1>5, SameSeq
  <1>7. Those(Mod(x) \o Mod(y), Own) = Those(Mod(x), Own) \o Those(Mod(y), Own)
    BY <1>1, ThoseConcat
  <1>. QED BY <1>2, <1>6, <1>7 DEF Owned
(* Places of the payload are themselves, and the request's. *)
LEMMA OwnPlaces ==
    ASSUME NEW c \in Context, NEW i \in Nat, 1 <= i, i <= c.len
    PROVE  i % Touched = i /\ i \in Own
  <1>1. Touched \in Nat /\ c.len \in Nat /\ c.len < Touched - 2 /\ Touched > 2 /\ Header % Touched = Touched - 2
    BY ContextFacts, TouchedFacts
  <1>2. i % Touched = i
    <2>1. i < Touched
      BY <1>1
    <2>2. \A x \in Nat : x < Touched => x % Touched = x
      BY <1>1, ModFacts
    <2>. QED BY <2>1, <2>2
  <1>. QED BY <1>1, <1>2 DEF Own
LEMMA PlainOwned ==
    ASSUME NEW c \in Context, NEW s \in Bytes, \A i \in 1 .. Len(s) : s[i] \in Nat /\ 1 <= s[i] /\ s[i] <= c.len
    PROVE  Mod(s) = s /\ Owned(s) = s
  <1>1. /\ Mod(s) \in Seq(Int) /\ Len(Mod(s)) = Len(s) /\ Len(s) \in Nat /\ s \in Seq(Int)
        /\ \A i \in 1 .. Len(s) : Mod(s)[i] = s[i] % Touched
    BY ModSeq DEF Bytes
  <1>2. \A i \in 1 .. Len(s) : s[i] % Touched = s[i] /\ s[i] \in Own
    BY OwnPlaces
  <1>3. Mod(s) = s
    BY <1>1, <1>2, SameSeq
  <1>. QED BY <1>1, <1>2, <1>3, ThoseAll DEF Owned
LEMMA PayloadForm == ASSUME NEW c \in Context PROVE Form(c, Payload(c))
  <1>1. /\ Payload(c) \in Bytes /\ Len(Payload(c)) = c.len /\ c.len \in Nat
        /\ \A i \in 1 .. c.len : Payload(c)[i] = i
    BY ContextFacts DEF Bytes
  <1>2. \A i \in 1 .. Len(Payload(c)) : Payload(c)[i] \in Nat /\ 1 <= Payload(c)[i] /\ Payload(c)[i] <= c.len
    BY <1>1
  <1>3. Owned(Payload(c)) = Payload(c)
    BY <1>1, <1>2, PlainOwned
  <1>4. \A i \in 1 .. c.len : Payload(c)[i] % Touched = i
    BY <1>1, OwnPlaces
  <1>. QED BY <1>1, <1>2, <1>3, <1>4 DEF Form, Clear
LEMMA OwnedNone ==
    ASSUME NEW c \in Context, NEW s \in Bytes, \A i \in 1 .. Len(s) : s[i] % Touched \notin Own
    PROVE  Owned(s) = <<>>
  <1>1. Mod(s) \in Seq(Int) /\ Len(Mod(s)) = Len(s) /\ \A i \in 1 .. Len(s) : Mod(s)[i] = s[i] % Touched
    BY ModSeq
  <1>2. \A i \in 1 .. Len(Mod(s)) : Mod(s)[i] \notin Own
    BY <1>1
  <1>. QED BY <1>1, <1>2, ThoseNone DEF Owned

(* A cut at x divides the name. *)
NameAt(c, F, x) ==
    /\ c.sldLen >= 2 /\ x \in 0 .. Len(F)
    /\ \A i \in 1 .. Len(F) : IF i <= x THEN F[i] % Touched # c.sld + c.sldLen ELSE F[i] % Touched # c.sld + 1

(* A tamper keeps what the payload is. *)
LEMMA TamperForm ==
    ASSUME NEW c \in Context, NEW o \in Operation, NEW F, Form(c, F)
    PROVE  LET new == TamperHost(o, c, F)
           IN  /\ new \in Bytes /\ Len(new) \in Nat /\ Len(F) \in Nat /\ Len(F) <= Len(new)
               /\ "inject" \notin c.caps \/ Len(new) = Len(F) => Form(c, new)
               /\ \A i \in 1 .. Len(F) : new[i] % Touched = F[i] % Touched
  <1>. DEFINE new == TamperHost(o, c, F)
              x == [i \in DOMAIN F |-> F[i] + Touched]
              y == [i \in 1 .. o.grow |-> Touched]
  <1>1. F \in Bytes /\ Len(F) \in Nat /\ Clear(F) /\ Touched \in Nat /\ Touched > 2
    BY TouchedFacts DEF Form, Bytes
  <1>2. CASE ~c.http
    BY <1>1, <1>2 DEF TamperHost
  <1>3. CASE c.http
    <2>1. DOMAIN F = 1 .. Len(F) /\ \A i \in 1 .. Len(F) : F[i] \in Int
      BY <1>1 DEF Bytes
    <2>2. x \in Bytes /\ Len(x) = Len(F) /\ \A i \in 1 .. Len(F) : x[i] = F[i] + Touched
      <3>1. \A i \in 1 .. Len(F) : F[i] + Touched \in Int
        BY <1>1, <2>1
      <3>. QED BY <1>1, <2>1, <3>1 DEF Bytes
    <2>3. \A i \in 1 .. Len(F) : x[i] % Touched = F[i] % Touched
      <3>1. \A z \in Int : (z + Touched) % Touched = z % Touched
        BY <1>1, ModAdd
      <3>. QED BY <2>1, <2>2, <3>1, Zenon
    <2>4. y \in Bytes /\ Len(y) \in Nat /\ \A i \in 1 .. Len(y) : y[i] = Touched
      <3>1. o.grow \in Int
        BY DEF Operation
      <3>2. CASE o.grow >= 0
        BY <1>1, <3>1, <3>2 DEF Bytes
      <3>3. CASE o.grow < 0
        <4>1. 1 .. o.grow = {}
          BY <3>1, <3>3
        <4>2. y = <<>>
          BY <4>1
        <4>. HIDE DEF y
        <4>. QED BY <4>2 DEF Bytes
      <3>. HIDE DEF y
      <3>4. o.grow >= 0 \/ o.grow < 0
        BY <3>1
      <3>. QED BY <3>2, <3>3, <3>4, Zenon
    <2>. HIDE DEF x, y
    <2>5. new = x \o y
      BY <1>3 DEF TamperHost, x, y
    <2>6. /\ new \in Bytes /\ Len(new) = Len(x) + Len(y)
          /\ \A i \in 1 .. Len(x) + Len(y) : new[i] = IF i <= Len(x) THEN x[i] ELSE y[i - Len(x)]
      <3>1. x \in Bytes /\ y \in Bytes
        BY <2>2, <2>4
      <3>2. Catted(new, x, y)
        BY <2>5, <3>1, CatBytes
      <3>. QED BY <3>2 DEF Catted
    <2>. HIDE DEF new
    <2>7. Mod(x) = Mod(F)
      <3>1. /\ Mod(x) \in Seq(Int) /\ Len(Mod(x)) = Len(x)
            /\ \A i \in 1 .. Len(x) : Mod(x)[i] = x[i] % Touched
        BY <1>1, <2>2, ModSeq, Zenon
      <3>2. /\ Mod(F) \in Seq(Int) /\ Len(Mod(F)) = Len(F)
            /\ \A i \in 1 .. Len(F) : Mod(F)[i] = F[i] % Touched
        BY <1>1, ModSeq, Zenon
      <3>3. Len(x) = Len(F)
        BY <2>2
      <3>4. \A i \in 1 .. Len(Mod(x)) : Mod(x)[i] = Mod(F)[i]
        BY <2>3, <3>1, <3>2, <3>3, Zenon
      <3>. QED BY <3>1, <3>2, <3>3, <3>4, SameSeq, Zenon
    <2>8. Owned(y) = <<>>
      <3>1. Touched % Touched = 0
        BY <1>1, ModFacts
      <3>2. \A i \in 1 .. Len(y) : y[i] % Touched \notin Own
        BY <2>4, <3>1 DEF Own
      <3>. QED BY <2>4, <3>2, OwnedNone
    <2>9. Owned(new) = Payload(c)
      <3>1. Owned(new) = Owned(x) \o Owned(y)
        BY <2>2, <2>4, <2>5, ModConcat
      <3>2. Owned(x) = Payload(c)
        BY <2>7 DEF Owned, Form
      <3>3. Payload(c) \o <<>> = Payload(c)
        BY ContextFacts
      <3>. QED BY <2>8, <3>1, <3>2, <3>3
    <2>10. \A i \in 1 .. Len(F) : new[i] = x[i]
      BY <1>1, <2>2, <2>4, <2>6
    <2>11. \A i \in 1 .. Len(F) : new[i] % Touched = F[i] % Touched
      BY <2>3, <2>10
    <2>12. Clear(new)
      <3>1. ASSUME NEW i \in 1 .. Len(new) PROVE new[i] >= 1
        <4>1. CASE i <= Len(x)
          <5>1. i \in 1 .. Len(F)
            BY <2>2, <4>1, <1>1
          <5>2. F[i] \in Int /\ (F[i] >= 1 \/ F[i] = Header)
            BY <1>1, <2>1, <5>1 DEF Clear
          <5>. QED BY <1>1, <2>2, <2>10, <5>1, <5>2 DEF Header
        <4>2. CASE ~(i <= Len(x))
          <5>1. i - Len(x) \in 1 .. Len(y) /\ i \in 1 .. Len(x) + Len(y)
            BY <1>1, <2>2, <2>4, <2>6, <4>2
          <5>. QED BY <1>1, <2>4, <2>6, <4>2, <5>1
        <4>. QED BY <4>1, <4>2
      <3>. QED BY <3>1 DEF Clear
    <2>13. Len(F) <= Len(new) /\ Len(new) \in Nat
      BY <1>1, <2>2, <2>4, <2>6
    <2>14. ASSUME "inject" \notin c.caps \/ Len(new) = Len(F) PROVE Form(c, new)
      <3>1. ASSUME "inject" \in c.caps PROVE Len(new) = c.len /\ \A i \in 1 .. c.len : new[i] % Touched = i
        BY <2>11, <2>14, <3>1 DEF Form
      <3>. QED BY <2>6, <2>9, <2>12, <3>1 DEF Form
    <2>15. new \in Bytes
      BY <2>6
    <2>. QED BY <1>1, <2>11, <2>13, <2>14, <2>15 DEF new
  <1>. QED BY <1>2, <1>3, ContextFacts

(* The payload with a record header at pos. *)
Recorded(c, pos) == Cut(Payload(c), 0, pos) \o <<Header>> \o Cut(Payload(c), pos, c.len)
LEMMA RecordForm ==
    ASSUME NEW c \in Context, NEW pos \in Nat, 0 < pos, pos < c.len
    PROVE  /\ Recorded(c, pos) \in Bytes /\ Len(Recorded(c, pos)) = c.len + 1
           /\ \A i \in 1 .. c.len + 1 :
                 Recorded(c, pos)[i] = IF i <= pos THEN i ELSE IF i = pos + 1 THEN Header ELSE i - 1
           /\ "inject" \notin c.caps => Form(c, Recorded(c, pos))
  <1>. DEFINE x == Cut(Payload(c), 0, pos)
              y == Cut(Payload(c), pos, c.len)
              h == <<Header>>
              new == Recorded(c, pos)
  <1>1. /\ Payload(c) \in Bytes /\ Payload(c) \in Seq(Int) /\ Len(Payload(c)) = c.len /\ c.len \in Nat
        /\ \A i \in 1 .. c.len : Payload(c)[i] = i
    BY ContextFacts DEF Bytes
  <1>2. IsCut(Int, Payload(c), 0, pos)
    <2>1. 0 \in 0 .. Len(Payload(c)) /\ pos \in 0 .. Len(Payload(c))
      BY <1>1
    <2>. QED BY <1>1, <2>1, CutFacts
  <1>3. IsCut(Int, Payload(c), pos, c.len)
    <2>1. pos \in 0 .. Len(Payload(c)) /\ c.len \in pos .. Len(Payload(c))
      BY <1>1
    <2>. QED BY <1>1, <2>1, CutFacts
  <1>4. x \in Bytes /\ Len(x) = pos /\ \A i \in 1 .. pos : x[i] = i
    <2>1. /\ x \in Seq(Int) /\ Len(x) = pos - 0 /\ \A i \in 1 .. pos - 0 : x[i] = Payload(c)[0 + i]
      BY <1>2 DEF IsCut
    <2>2. pos - 0 = pos /\ \A i \in 1 .. pos : 0 + i = i /\ i \in 1 .. c.len
      BY <1>1
    <2>. QED BY <1>1, <2>1, <2>2 DEF Bytes
  <1>5. y \in Bytes /\ Len(y) = c.len - pos /\ \A i \in 1 .. c.len - pos : y[i] = pos + i
    <2>1. /\ y \in Seq(Int) /\ Len(y) = c.len - pos /\ \A i \in 1 .. c.len - pos : y[i] = Payload(c)[pos + i]
      BY <1>3 DEF IsCut
    <2>2. \A i \in 1 .. c.len - pos : pos + i \in 1 .. c.len
      BY <1>1
    <2>. QED BY <1>1, <2>1, <2>2 DEF Bytes
  <1>6. h \in Bytes /\ Len(h) = 1 /\ h[1] = Header
    BY DEF Bytes, Header
  <1>. HIDE DEF x, y, h
  <1>7. /\ x \o h \in Bytes /\ Len(x \o h) = pos + 1 /\ \A i \in 1 .. pos + 1 : (x \o h)[i] = IF i <= pos THEN x[i] ELSE h[i - pos]
    BY <1>4, <1>6, Cat, ZenonT(40) DEF Bytes
  <1>8. /\ new = (x \o h) \o y /\ (x \o h) \o y \in Bytes /\ Len((x \o h) \o y) = pos + 1 + (c.len - pos)
        /\ \A i \in 1 .. pos + 1 + (c.len - pos) :
              ((x \o h) \o y)[i] = IF i <= pos + 1 THEN (x \o h)[i] ELSE y[i - (pos + 1)]
    <2>1. \A u, v : u \in Seq(Int) /\ v \in Seq(Int) =>
             /\ u \o v \in Seq(Int) /\ Len(u \o v) = Len(u) + Len(v)
             /\ \A i \in 1 .. Len(u) + Len(v) : (u \o v)[i] = IF i <= Len(u) THEN u[i] ELSE v[i - Len(u)]
      BY Cat
    <2>2. new = (x \o h) \o y
      BY DEF Recorded, x, y, h
    <2>3. PICK u : u = x \o h
      OBVIOUS
    <2>4. u \o y \in Seq(Int) /\ Len(u \o y) = Len(u) + Len(y)
          /\ \A i \in 1 .. Len(u) + Len(y) : (u \o y)[i] = IF i <= Len(u) THEN u[i] ELSE y[i - Len(u)]
      BY <1>5, <1>7, <2>1, <2>3, Zenon DEF Bytes
    <2>5. Len(u) = pos + 1 /\ Len(y) = c.len - pos
      BY <1>5, <1>7, <2>3
    <2>6. u \o y \in Bytes
      BY <2>4 DEF Bytes
    <2>. QED BY <2>2, <2>3, <2>4, <2>5, <2>6, Zenon
  <1>9. pos + 1 + (c.len - pos) = c.len + 1
    <2>1. c.len \in Nat
      BY <1>1
    <2>. QED BY <2>1
  <1>10. new \in Bytes /\ Len(new) = c.len + 1
    BY <1>8, <1>9
  <1>11. ASSUME NEW i \in 1 .. c.len + 1
         PROVE  new[i] = IF i <= pos THEN i ELSE IF i = pos + 1 THEN Header ELSE i - 1
    <2>0. i \in Nat /\ i \in 1 .. pos + 1 + (c.len - pos) /\ 1 <= i /\ i <= c.len + 1
      BY <1>1, <1>9
    <2>1. CASE i <= pos
      <3>1. i \in 1 .. pos /\ i \in 1 .. pos + 1 /\ i <= pos + 1
        BY <2>0, <2>1
      <3>. QED BY <1>4, <1>7, <1>8, <2>0, <2>1, <3>1
    <2>2. CASE i = pos + 1
      <3>1. ~(i <= pos) /\ i \in 1 .. pos + 1 /\ i <= pos + 1 /\ i - pos = 1
        BY <2>0, <2>2
      <3>. QED BY <1>6, <1>7, <1>8, <2>0, <2>2, <3>1
    <2>3. CASE i > pos + 1
      <3>1. ~(i <= pos) /\ i # pos + 1 /\ ~(i <= pos + 1) /\ i - (pos + 1) \in 1 .. c.len - pos /\ pos + (i - (pos + 1)) = i - 1
        BY <1>1, <2>0, <2>3
      <3>. QED BY <1>5, <1>8, <2>0, <3>1
    <2>. QED BY <2>0, <2>1, <2>2, <2>3
  <1>12. Owned(new) = Payload(c)
    <2>1. Owned(x) = x /\ Owned(y) = y
      <3>1. \A i \in 1 .. Len(x) : x[i] \in Nat /\ 1 <= x[i] /\ x[i] <= c.len
        BY <1>1, <1>4
      <3>2. \A i \in 1 .. Len(y) : y[i] \in Nat /\ 1 <= y[i] /\ y[i] <= c.len
        BY <1>1, <1>5, SMTT(30)
      <3>. QED BY <1>4, <1>5, <3>1, <3>2, PlainOwned
    <2>2. Owned(h) = <<>>
      <3>1. \A i \in 1 .. Len(h) : h[i] % Touched \notin Own
        BY <1>6 DEF Own
      <3>. QED BY <1>6, <3>1, OwnedNone
    <2>3. Owned(new) = (x \o <<>>) \o y
      <3>1. x \in Bytes /\ y \in Bytes /\ h \in Bytes /\ x \o h \in Bytes /\ new = (x \o h) \o y
        BY <1>4, <1>5, <1>6, <1>7, <1>8
      <3>2. Owned(new) = Owned(x \o h) \o Owned(y) /\ Owned(x \o h) = Owned(x) \o Owned(h)
        <4>1. \A u, v \in Bytes : Owned(u \o v) = Owned(u) \o Owned(v)
          BY ModConcat
        <4>. QED BY <3>1, <4>1, Zenon
      <3>. QED BY <2>1, <2>2, <3>2
    <2>4. x \o <<>> = x
      BY <1>4 DEF Bytes
    <2>5. x \o y = Payload(c)
      <3>1. /\ x \o y \in Seq(Int) /\ Len(x \o y) = pos + (c.len - pos)
            /\ \A i \in 1 .. pos + (c.len - pos) : (x \o y)[i] = IF i <= pos THEN x[i] ELSE y[i - pos]
        <4>1. x \in Bytes /\ y \in Bytes /\ Len(x) = pos /\ Len(y) = c.len - pos
          BY <1>4, <1>5
        <4>2. Catted(x \o y, x, y)
          BY <4>1, CatBytes
        <4>. QED BY <4>1, <4>2 DEF Catted, Bytes
      <3>2. pos + (c.len - pos) = c.len
        BY <1>1
      <3>3. ASSUME NEW i \in 1 .. c.len PROVE (x \o y)[i] = Payload(c)[i]
        <4>0. i \in Nat /\ 1 <= i /\ i <= c.len /\ (x \o y)[i] = IF i <= pos THEN x[i] ELSE y[i - pos]
          BY <1>1, <3>1, <3>2
        <4>1. CASE i <= pos
          <5>1. i \in 1 .. pos
            BY <4>0, <4>1
          <5>. QED BY <1>1, <1>4, <4>0, <4>1, <5>1
        <4>2. CASE ~(i <= pos)
          <5>1. i - pos \in 1 .. c.len - pos /\ pos + (i - pos) = i
            BY <1>1, <4>0, <4>2
          <5>. QED BY <1>1, <1>5, <4>0, <4>2, <5>1
        <4>. QED BY <4>1, <4>2
      <3>. QED BY <1>1, <3>1, <3>2, <3>3, SameSeq
    <2>. QED BY <2>3, <2>4, <2>5
  <1>13. Clear(new)
    <2>1. ASSUME NEW i \in 1 .. c.len + 1 PROVE new[i] >= 1 \/ new[i] = Header
      <3>1. i \in Nat /\ 1 <= i
        BY <1>1
      <3>. QED BY <1>11, <3>1
    <2>. QED BY <1>10, <2>1 DEF Clear
  <1>. QED BY <1>10, <1>11, <1>12, <1>13 DEF Form

(***************************************************************************)
(* Plans that are lawful: their data are the payload, each byte once.      *)
(***************************************************************************)
(* The data ds of a plan for c: none, or a tiling of what the payload is; one *)
(* of its bounds divides the name if cut says so.                             *)
Divided(c, F, n, b, cut) == cut => \E k \in 0 .. n : NameAt(c, F, b[k])
Good(c, ds, cut) ==
    \/ ds = <<>> /\ ~cut
    \/ \E F, n, p, b : Form(c, F) /\ Tiling(ds, n, F, p, b) /\ Divided(c, F, n, b, cut)
SegsLawful(c, T, cut, segs) ==
    /\ segs \in UnitSeq(T) /\ Good(c, DataOf(segs), cut)
    /\ segs # <<>> /\ ~c.syn /\ c.len > 0 => DataOf(segs) # <<>>
(* A datagram: the payload, padded or cut. *)
Packed(c, ds) == Len(ds) = 1 /\ \A i \in 1 .. Len(ds[1].data) : ds[1].data[i] = IF i <= c.len THEN i ELSE Fill
DgramsLawful(c, T, d) ==
    /\ d \in UnitSeq(T) /\ (~c.udp => d = <<>>) /\ (d # <<>> => Packed(c, DataOf(d)))
(* blk: some operation blocks; without one a plan that drops has segments. *)
PlanOf(T) == [segs: UnitSeq(T), dgrams: UnitSeq(T), drop: BOOLEAN]
Lawful(c, T, cut, blk, p) ==
    /\ p \in PlanOf(T)
    /\ SegsLawful(c, T, cut, p.segs) /\ DgramsLawful(c, T, p.dgrams)
    /\ p.drop /\ ~blk => p.segs # <<>>

LEMMA WithSegs ==
    ASSUME NEW c, NEW T, NEW cut, NEW blk, NEW p, NEW cut2, NEW s,
           Lawful(c, T, cut, blk, p), SegsLawful(c, T, cut2, s)
    PROVE  /\ s # <<>> \/ p.segs = <<>> => Lawful(c, T, cut2, blk, [p EXCEPT !.segs = s])
           /\ s # <<>> => Lawful(c, T, cut2, blk, [p EXCEPT !.segs = s, !.drop = TRUE])
  <1>1. p \in [segs: UnitSeq(T), dgrams: UnitSeq(T), drop: BOOLEAN] /\ s \in UnitSeq(T)
    BY DEF Lawful, PlanOf, SegsLawful
  <1>2. /\ [p EXCEPT !.segs = s] \in PlanOf(T) /\ [p EXCEPT !.segs = s].segs = s
        /\ [p EXCEPT !.segs = s].dgrams = p.dgrams /\ [p EXCEPT !.segs = s].drop = p.drop
    BY <1>1 DEF PlanOf
  <1>. DEFINE q == [p EXCEPT !.segs = s, !.drop = TRUE]
  <1>3. q \in [segs: UnitSeq(T), dgrams: UnitSeq(T), drop: BOOLEAN]
    BY <1>1
  <1>4. q \in PlanOf(T) /\ q.segs = s /\ q.dgrams = p.dgrams
    BY <1>1, <1>3 DEF PlanOf
  <1>. QED BY <1>2, <1>4 DEF Lawful

LEMMA WithDgrams ==
    ASSUME NEW c, NEW T, NEW cut, NEW blk, NEW p, NEW d, Lawful(c, T, cut, blk, p), DgramsLawful(c, T, d)
    PROVE  Lawful(c, T, cut, blk, [p EXCEPT !.dgrams = d])
  <1>1. p \in [segs: UnitSeq(T), dgrams: UnitSeq(T), drop: BOOLEAN] /\ d \in UnitSeq(T)
    BY DEF Lawful, PlanOf, DgramsLawful
  <1>2. /\ [p EXCEPT !.dgrams = d] \in PlanOf(T) /\ [p EXCEPT !.dgrams = d].dgrams = d
        /\ [p EXCEPT !.dgrams = d].segs = p.segs /\ [p EXCEPT !.dgrams = d].drop = p.drop
    BY <1>1 DEF PlanOf
  <1>. QED BY <1>2 DEF Lawful

(* Units whose data carry the same. *)
Alike(T, ds, es) ==
    /\ ds \in DataSeq(T) /\ es \in DataSeq(T) /\ Len(es) = Len(ds)
    /\ \A k \in 1 .. Len(ds) : es[k].data = ds[k].data /\ es[k].off = ds[k].off
Dressed(T, u, v) ==
    /\ u \in UnitSeq(T) /\ v \in UnitSeq(T) /\ Len(v) = Len(u)
    /\ \A i \in 1 .. Len(u) : /\ IsData(u[i]) <=> IsData(v[i])
                              /\ IsData(u[i]) => v[i].data = u[i].data /\ v[i].off = u[i].off

LEMMA AlikeUnits ==
    ASSUME NEW T, NEW u, NEW v, Dressed(T, u, v)
    PROVE  Alike(T, DataOf(u), DataOf(v)) /\ (u = <<>> <=> v = <<>>)
  <1>1. /\ u \in UnitSeq(T) /\ v \in UnitSeq(T) /\ Len(u) = Len(v) /\ \A i \in 1 .. Len(v) : IsData(v[i]) <=> IsData(u[i])
    BY DEF Dressed
  <1>2. /\ DataOf(u) \in DataSeq(T) /\ DataOf(v) \in DataSeq(T) /\ Len(DataOf(u)) = Len(DataOf(v))
        /\ LET a == Ascending(DataAt(u))
           IN  \A k \in 1 .. Len(DataOf(v)) : /\ a[k] \in 1 .. Len(v) /\ IsData(v[a[k]]) /\ IsData(u[a[k]])
                                              /\ DataOf(v)[k] = v[a[k]] /\ DataOf(u)[k] = u[a[k]]
    BY <1>1, SamePlaces
  <1>3. u = <<>> <=> v = <<>>
    BY <1>1 DEF UnitSeq
  <1>. QED BY <1>1, <1>2, <1>3 DEF Dressed, Alike

LEMMA AlikeGood ==
    ASSUME NEW c, NEW T, NEW ds, NEW es, NEW cut, Alike(T, ds, es), Good(c, ds, cut)
    PROVE  Good(c, es, cut) /\ (ds = <<>> <=> es = <<>>)
  <1>1. ds = <<>> <=> es = <<>>
    BY DEF Alike, DataSeq
  <1>2. CASE ds = <<>> /\ ~cut
    BY <1>1, <1>2 DEF Good
  <1>3. CASE \E F, n, p, b : Form(c, F) /\ Tiling(ds, n, F, p, b) /\ Divided(c, F, n, b, cut)
    <2>1. PICK F, n, p, b : Form(c, F) /\ Tiling(ds, n, F, p, b) /\ Divided(c, F, n, b, cut)
      BY <1>3
    <2>2. /\ Len(ds) = n /\ p \in [1 .. n -> 1 .. n]
          /\ \A k \in 1 .. n : Tile(ds[p[k]], F, b[k - 1], b[k]) /\ (k > 1 => b[k - 2] < ds[p[k]].off)
      BY <2>1 DEF Tiling
    <2>3. ASSUME NEW k \in 1 .. n PROVE Tile(es[p[k]], F, b[k - 1], b[k]) /\ (k > 1 => b[k - 2] < es[p[k]].off)
      <3>1. p[k] \in 1 .. Len(ds)
        BY <2>2
      <3>2. es[p[k]].data = ds[p[k]].data /\ es[p[k]].off = ds[p[k]].off
        BY <3>1 DEF Alike
      <3>. QED BY <2>2, <3>2 DEF Tile, EndOf
    <2>4. Tiling(es, n, F, p, b)
      <3>1. Len(es) = n
        BY <2>2 DEF Alike
      <3>2. \A k \in 1 .. n : Tile(es[p[k]], F, b[k - 1], b[k])
        BY <2>3
      <3>3. \A k \in 1 .. n : k > 1 => b[k - 2] < es[p[k]].off
        BY <2>3
      <3>. QED BY <2>1, <3>1, <3>2, <3>3, Zenon DEF Tiling
    <2>. QED BY <1>1, <2>1, <2>4 DEF Good
  <1>. QED BY <1>2, <1>3 DEF Good

LEMMA DressedSegs ==
    ASSUME NEW c, NEW T, NEW u, NEW v, NEW cut, Dressed(T, u, v), SegsLawful(c, T, cut, u)
    PROVE  SegsLawful(c, T, cut, v) /\ (u = <<>> <=> v = <<>>)
  <1>1. Alike(T, DataOf(u), DataOf(v)) /\ (u = <<>> <=> v = <<>>) /\ v \in UnitSeq(T)
    BY AlikeUnits DEF Dressed
  <1>. QED BY <1>1, AlikeGood DEF SegsLawful

LEMMA DressedDgrams ==
    ASSUME NEW c, NEW T, NEW u, NEW v, Dressed(T, u, v), DgramsLawful(c, T, u)
    PROVE  DgramsLawful(c, T, v)
  <1>1. Alike(T, DataOf(u), DataOf(v)) /\ (u = <<>> <=> v = <<>>) /\ v \in UnitSeq(T)
    BY AlikeUnits DEF Dressed
  <1>2. Packed(c, DataOf(u)) => Packed(c, DataOf(v))
    BY <1>1 DEF Alike, Packed
  <1>. QED BY <1>1, <1>2 DEF DgramsLawful

(* One unit that carries all of it. *)
LEMMA WholeGood ==
    ASSUME NEW c, NEW T, NEW o, o.ipid \in IpIds, NEW F, Form(c, F)
    PROVE  LET s == SegDataSeg(F, 0, o) IN s \in DataUnits(T) /\ Good(c, <<s>>, FALSE) /\ s.data = F
  <1>. DEFINE s == SegDataSeg(F, 0, o)
              b == [k \in 0 .. 1 |-> IF k = 0 THEN 0 ELSE Len(F)]
              p == [k \in 1 .. 1 |-> 1]
  <1>1. F \in Bytes /\ Len(F) \in Nat
    BY DEF Form, Bytes
  <1>2. s \in DataUnits(T) /\ s.off = 0 /\ s.data = F /\ IsData(s)
    BY <1>1 DEF SegDataSeg, Segment, DataUnits, Unit, IsData, IsDecoy, Kinds, Bytes
  <1>. HIDE DEF s
  <1>3. Bounds(b, 1, Len(F))
    <2>1. b \in [0 .. 1 -> 0 .. Len(F)] /\ b[0] = 0 /\ b[1] = Len(F)
      BY <1>1
    <2>2. \A j, k \in 0 .. 1 : j < k => b[j] < b[k] \/ Len(F) = 0
      BY <1>1
    <2>. QED BY <2>1, <2>2 DEF Bounds
  <1>4. Tile(s, F, 0, Len(F))
    <2>1. \A j \in 1 .. Len(F) : F[j] = IF 0 + j > 0 THEN F[0 + j] ELSE Fill
      BY <1>1
    <2>2. 0 + Len(F) = Len(F) /\ 0 <= Len(F)
      BY <1>1
    <2>. QED BY <1>2, <2>1, <2>2 DEF Tile, EndOf
  <1>5. Tiling(<<s>>, 1, F, p, b)
    <2>1. \A k \in 1 .. 1 : Tile(<<s>>[p[k]], F, b[k - 1], b[k])
      BY <1>4
    <2>2. \A k \in 1 .. 1 : ~(k > 1)
      OBVIOUS
    <2>3. 1 \in Nat \ {0} /\ Len(<<s>>) = 1 /\ p \in [1 .. 1 -> 1 .. 1] /\ \A i \in 1 .. 1 : \E k \in 1 .. 1 : p[k] = i
      OBVIOUS
    <2>. HIDE DEF b, p
    <2>. QED BY <1>3, <2>1, <2>2, <2>3, Zenon DEF Tiling
  <1>6. Good(c, <<s>>, FALSE)
    BY <1>5 DEF Good, Divided
  <1>. QED BY <1>2, <1>6 DEF s

LEMMA TilingSome ==
    ASSUME NEW T, NEW segs \in UnitSeq(T), NEW n, NEW F, NEW p, NEW b, Tiling(DataOf(segs), n, F, p, b)
    PROVE  DataOf(segs) # <<>> /\ segs # <<>>
  <1>1. Len(DataOf(segs)) \in Nat \ {0}
    BY DEF Tiling
  <1>2. DataOf(segs) # <<>>
    BY <1>1
  <1>3. segs = <<>> => DataOf(segs) = <<>>
    BY HoldsEmpty DEF Holds
  <1>. QED BY <1>2, <1>3

(* The data with new contents are the payload still. *)
LEMMA RewriteGood ==
    ASSUME NEW c \in Context, NEW T, NEW cut, NEW segs \in UnitSeq(T), NEW n, NEW F, NEW p, NEW b, Form(c, F),
           Tiling(DataOf(segs), n, F, p, b), Divided(c, F, n, b, cut), NEW new, Form(c, new), NEW moved,
           Moves(moved, Len(F), Len(new)), \A x \in 0 .. Len(F) : NameAt(c, F, x) => NameAt(c, new, moved[x])
    PROVE  SegsLawful(c, T, cut, SegRewriteData(segs, new, moved)) /\ SegRewriteData(segs, new, moved) # <<>>
  <1>. DEFINE r == SegRewriteData(segs, new, moved)
              d == [k \in 0 .. n |-> moved[b[k]]]
  <1>1. F \in Bytes /\ new \in Bytes
    BY DEF Form
  <1>2. Rewritten(T, segs, r, n, new, p, d)
    BY <1>1, RewriteIs
  <1>. HIDE DEF r
  <1>3. r \in UnitSeq(T) /\ Tiling(DataOf(r), n, new, p, d)
    BY <1>2 DEF Rewritten
  <1>4. Divided(c, new, n, d, cut)
    <2>1. ASSUME NEW k \in 0 .. n, NameAt(c, F, b[k]) PROVE NameAt(c, new, d[k])
      <3>1. b[k] \in 0 .. Len(F)
        BY <2>1 DEF NameAt
      <3>. QED BY <2>1, <3>1
    <2>. HIDE DEF d
    <2>. QED BY <2>1 DEF Divided
  <1>. HIDE DEF d
  <1>5. Good(c, DataOf(r), cut)
    BY <1>3, <1>4 DEF Good
  <1>6. DataOf(r) # <<>> /\ r # <<>>
    BY <1>3, TilingSome
  <1>. QED BY <1>3, <1>5, <1>6 DEF SegsLawful, r

(* Data that are planned behind what is not data. *)
LEMMA PlannedSegs ==
    ASSUME NEW c, NEW T, NEW cut, NEW kept, NEW s, NEW ds, Holds(T, kept, <<>>), Holds(T, s, ds), ds # <<>>, Good(c, ds, cut)
    PROVE  SegsLawful(c, T, cut, kept \o s) /\ kept \o s # <<>>
  <1>1. Holds(T, kept \o s, <<>> \o ds) /\ <<>> \o ds = ds
    <2>1. Holds(T, kept \o s, <<>> \o ds)
      BY HoldsJoin
    <2>2. ds \in Seq(DataUnits(T))
      BY DEF Holds, DataSeq
    <2>. QED BY <2>1, <2>2
  <1>2. kept \o s \in UnitSeq(T) /\ DataOf(kept \o s) = ds
    BY <1>1 DEF Holds
  <1>3. kept \o s # <<>>
    <2>1. DataOf(<<>>) = <<>>
      BY HoldsEmpty DEF Holds
    <2>. QED BY <1>2, <2>1
  <1>. QED BY <1>2, <1>3 DEF SegsLawful

(* What an operation plans, in the place of the data or of all that was there. *)
Ready(c, T, q) == q \in PlanOf(T) /\ DgramsLawful(c, T, q.dgrams) /\ Holds(T, q.segs, <<>>)
LEMMA TakenOver ==
    ASSUME NEW c, NEW T, NEW cut, NEW blk, NEW p, Lawful(c, T, cut, blk, p)
    PROVE  /\ Ready(c, T, SegTakeOverData(p)) /\ Ready(c, T, SegTakeOverAll(p))
           /\ DataOf(p.segs) = <<>> => Ready(c, T, p)
  <1>. DEFINE kept == Chosen(p.segs, DOMAIN p.segs \ DataAt(p.segs))
  <1>0. p \in [segs: UnitSeq(T), dgrams: UnitSeq(T), drop: BOOLEAN] /\ p.segs \in UnitSeq(T) /\ DgramsLawful(c, T, p.dgrams)
    BY DEF Lawful, PlanOf
  <1>1. Holds(T, kept, <<>>) /\ Holds(T, <<>>, <<>>) /\ (DataOf(p.segs) = <<>> => Holds(T, p.segs, <<>>))
    BY <1>0, HoldsKept, HoldsEmpty, HoldsUnits
  <1>2. SegTakeOverData(p) = [p EXCEPT !.segs = kept] /\ SegTakeOverAll(p) = [p EXCEPT !.segs = <<>>]
    BY DEF SegTakeOverData, SegTakeOverAll
  <1>. HIDE DEF kept
  <1>3. ASSUME NEW k, Holds(T, k, <<>>) PROVE Ready(c, T, [p EXCEPT !.segs = k])
    <2>1. k \in UnitSeq(T)
      BY <1>3 DEF Holds
    <2>2. /\ [p EXCEPT !.segs = k] \in PlanOf(T) /\ [p EXCEPT !.segs = k].segs = k
          /\ [p EXCEPT !.segs = k].dgrams = p.dgrams
      BY <1>0, <2>1 DEF PlanOf
    <2>. QED BY <1>0, <1>3, <2>2 DEF Ready
  <1>4. DataOf(p.segs) = <<>> => Ready(c, T, p)
    BY <1>0, <1>1 DEF Ready, PlanOf
  <1>. QED BY <1>1, <1>2, <1>3, <1>4
LEMMA PlannedIs ==
    ASSUME NEW c, NEW T, NEW q, NEW cut, NEW blk, NEW s, NEW ds, Ready(c, T, q),
           Holds(T, s, ds), ds # <<>>, Good(c, ds, cut)
    PROVE  Lawful(c, T, cut, blk, Planned(q, s))
  <1>1. SegsLawful(c, T, cut, q.segs \o s) /\ q.segs \o s # <<>>
    BY PlannedSegs DEF Ready
  <1>2. q \in [segs: UnitSeq(T), dgrams: UnitSeq(T), drop: BOOLEAN] /\ DgramsLawful(c, T, q.dgrams)
    BY DEF Ready, PlanOf
  <1>. DEFINE segs == q.segs \o s
              r == [q EXCEPT !.segs = segs, !.drop = TRUE]
  <1>3. Planned(q, s) = r
    BY DEF Planned
  <1>4. segs \in UnitSeq(T)
    BY <1>1 DEF SegsLawful
  <1>5. SegsLawful(c, T, cut, segs) /\ segs # <<>>
    BY <1>1
  <1>. HIDE DEF segs
  <1>6. r \in [segs: UnitSeq(T), dgrams: UnitSeq(T), drop: BOOLEAN]
    BY <1>2, <1>4
  <1>7. r \in PlanOf(T) /\ r.segs = segs /\ r.dgrams = q.dgrams
    BY <1>2, <1>4, <1>6 DEF PlanOf
  <1>. HIDE DEF r
  <1>. QED BY <1>2, <1>3, <1>5, <1>7 DEF Lawful

(* Units with a data unit for sure. *)
EnsuredAs(c, T, units, e, s) ==
    /\ c.len \in Nat /\ e \in UnitSeq(T) /\ (units # <<>> \/ c.len > 0 => e # <<>>)
    /\ c.len = 0 \/ DataOf(units) # <<>> => e = units
    /\ c.len > 0 /\ DataOf(units) = <<>> => DataOf(e) = <<s>>
    /\ Good(c, <<s>>, FALSE) /\ s.data = Payload(c) /\ Packed(c, <<s>>)
LEMMA EnsuredIs ==
    ASSUME NEW c \in Context, NEW T, NEW units \in UnitSeq(T)
    PROVE  EnsuredAs(c, T, units, EnsureData(units, c), SegDataSeg(Payload(c), 0, Plain))
  <1>. DEFINE s == SegDataSeg(Payload(c), 0, Plain)
              e == EnsureData(units, c)
  <1>1. s \in DataUnits(T) /\ Good(c, <<s>>, FALSE) /\ s.data = Payload(c)
    <2>1. Plain.ipid \in IpIds
      BY DEF Plain, IpIds
    <2>. QED BY <2>1, PayloadForm, WholeGood
  <1>2. c.len \in Nat /\ Len(Payload(c)) = c.len /\ \A i \in 1 .. c.len : Payload(c)[i] = i
    BY ContextFacts
  <1>3. Packed(c, <<s>>)
    BY <1>1, <1>2 DEF Packed
  <1>. HIDE DEF s
  <1>4. e = IF c.len = 0 \/ DataOf(units) # <<>> THEN units ELSE units \o <<s>>
    <2>1. DataOf(units) = <<>> <=> DataAt(units) = {}
      BY NoData
    <2>2. e = IF c.len = 0 \/ DataOf(units) # <<>> THEN units ELSE Append(units, s)
      BY <2>1 DEF EnsureData, s
    <2>3. Append(units, s) = units \o <<s>>
      <3>1. units \in Seq(Unit(T)) /\ s \in Unit(T)
        BY <1>1 DEF UnitSeq, DataUnits
      <3>. QED BY <3>1
    <2>. QED BY <2>2, <2>3
  <1>. HIDE DEF e
  <1>5. CASE c.len = 0 \/ DataOf(units) # <<>>
    <2>1. e = units
      BY <1>4, <1>5
    <2>2. DataOf(units) # <<>> => units # <<>>
      BY HoldsEmpty DEF Holds
    <2>3. units # <<>> \/ c.len > 0 => e # <<>>
      BY <1>2, <1>5, <2>1, <2>2
    <2>4. c.len > 0 /\ DataOf(units) = <<>> => DataOf(e) = <<s>>
      BY <1>2, <1>5
    <2>5. EnsuredAs(c, T, units, e, s)
      BY <1>1, <1>2, <1>3, <2>1, <2>3, <2>4 DEF EnsuredAs
    <2>. QED BY <2>5 DEF e, s
  <1>6. CASE ~(c.len = 0 \/ DataOf(units) # <<>>)
    <2>1. e = units \o <<s>> /\ DataOf(units) = <<>>
      BY <1>4, <1>6
    <2>2. Holds(T, units, <<>>) /\ Holds(T, <<s>>, <<s>>)
      BY <1>1, <2>1, HoldsUnits, HoldsOne
    <2>3. Holds(T, e, <<>> \o <<s>>)
      BY <2>1, <2>2, HoldsJoin
    <2>4. <<>> \o <<s>> = <<s>>
      OBVIOUS
    <2>5. e \in UnitSeq(T) /\ DataOf(e) = <<s>>
      BY <2>3, <2>4 DEF Holds
    <2>6. e # <<>>
      <3>1. DataOf(<<>>) = <<>>
        BY HoldsEmpty DEF Holds
      <3>. QED BY <2>5, <3>1
    <2>. QED BY <1>1, <1>3, <1>2, <1>6, <2>5, <2>6 DEF e, s, EnsuredAs
  <1>. QED BY <1>5, <1>6
LEMMA EnsuredSegs ==
    ASSUME NEW c \in Context, NEW T, NEW cut, NEW units \in UnitSeq(T), Good(c, DataOf(units), cut)
    PROVE  SegsLawful(c, T, cut, EnsureData(units, c)) /\ (units # <<>> \/ c.len > 0 => EnsureData(units, c) # <<>>)
  <1>1. c.len \in Nat
    BY ContextFacts
  <1>2. CASE c.len = 0 \/ DataOf(units) # <<>>
    <2>1. EnsureData(units, c) = units
      BY <1>2, EnsuredIs DEF EnsuredAs
    <2>2. units = <<>> => ~(c.len > 0)
      BY <1>2, HoldsEmpty DEF Holds
    <2>3. c.len > 0 => DataOf(units) # <<>>
      BY <1>2
    <2>. QED BY <2>1, <2>2, <2>3 DEF SegsLawful
  <1>3. CASE c.len > 0 /\ DataOf(units) = <<>>
    <2>1. ~cut
      <3>1. ASSUME cut PROVE FALSE
        <4>1. PICK F, n, p, b : Tiling(DataOf(units), n, F, p, b)
          BY <3>1 DEF Good
        <4>. QED BY <1>3, <4>1, TilingSome
      <3>. QED BY <3>1
    <2>. DEFINE s == SegDataSeg(Payload(c), 0, Plain)
    <2>2. /\ DataOf(EnsureData(units, c)) = <<s>> /\ Good(c, <<s>>, FALSE) /\ EnsureData(units, c) \in UnitSeq(T)
          /\ EnsureData(units, c) # <<>>
      BY <1>3, EnsuredIs DEF EnsuredAs
    <2>. HIDE DEF s
    <2>3. Good(c, <<s>>, cut)
      BY <2>1, <2>2 DEF Good, Divided
    <2>. QED BY <2>2, <2>3 DEF SegsLawful
  <1>. QED BY <1>1, <1>2, <1>3
LEMMA EnsuredDgrams ==
    ASSUME NEW c \in Context, c.udp, c.len > 0, NEW T, NEW units \in UnitSeq(T),
           DataOf(units) # <<>> => Packed(c, DataOf(units))
    PROVE  DgramsLawful(c, T, EnsureData(units, c))
  <1>1. CASE DataOf(units) # <<>>
    <2>1. EnsureData(units, c) = units
      BY <1>1, EnsuredIs DEF EnsuredAs
    <2>. QED BY <1>1, <2>1 DEF DgramsLawful
  <1>2. CASE DataOf(units) = <<>>
    BY <1>2, EnsuredIs DEF EnsuredAs, DgramsLawful
  <1>. QED BY <1>1, <1>2

(***************************************************************************)
(* The parts a payload is cut into.                                        *)
(***************************************************************************)
Positions(c, pos) ==
    /\ pos \in Seq(Nat)
    /\ \A k \in 1 .. Len(pos) : 1 <= pos[k] /\ pos[k] < c.len
    /\ \A j, k \in 1 .. Len(pos) : j < k => pos[j] < pos[k]

LEMMA MultiPos ==
    ASSUME NEW c \in Context, NEW specs
    PROVE  LET pos == SegResolveMultiPos(c, specs)
           IN  /\ Positions(c, pos)
               /\ \A i \in DOMAIN specs : FindSplitPos(c, specs[i]) \in 1 .. c.len - 1 =>
                     \E k \in 1 .. Len(pos) : pos[k] = FindSplitPos(c, specs[i])
  <1>. DEFINE I == {FindSplitPos(c, specs[i]) : i \in DOMAIN specs} \cap 1 .. c.len - 1
              pos == SegResolveMultiPos(c, specs)
  <1>1. c.len \in Nat
    BY ContextFacts
  <1>2. I \in SUBSET Int /\ IsFiniteSet(I) /\ I \in SUBSET (1 .. c.len - 1)
    <2>1. IsFiniteSet(1 .. c.len - 1)
      BY <1>1, FS_Interval
    <2>2. I \subseteq 1 .. c.len - 1 /\ I \subseteq Int
      OBVIOUS
    <2>. HIDE DEF I
    <2>. QED BY <2>1, <2>2, FS_Subset
  <1>3. pos = Ascending(I)
    BY DEF SegResolveMultiPos
  <1>4. \A i \in DOMAIN specs : FindSplitPos(c, specs[i]) \in 1 .. c.len - 1 => FindSplitPos(c, specs[i]) \in I
    OBVIOUS
  <1>. HIDE DEF I, pos
  <1>5. /\ pos \in Seq(I) /\ Len(pos) = Cardinality(I) /\ Cardinality(I) \in Nat /\ pos \in [1 .. Cardinality(I) -> I]
        /\ \A i \in I : \E k \in 1 .. Cardinality(I) : pos[k] = i
        /\ \A a, b \in 1 .. Cardinality(I) : a < b => pos[a] < pos[b]
    BY <1>2, <1>3, AscendingFacts
  <1>6. pos \in Seq(Nat) /\ \A k \in 1 .. Len(pos) : pos[k] \in 1 .. c.len - 1
    <2>1. I \subseteq Nat
      BY <1>2
    <2>2. \A k \in 1 .. Len(pos) : pos[k] \in 1 .. c.len - 1
      BY <1>2, <1>5
    <2>. QED BY <1>5, <2>1, <2>2
  <1>7. Positions(c, pos)
    <2>1. \A k \in 1 .. Len(pos) : 1 <= pos[k] /\ pos[k] < c.len
      BY <1>1, <1>6
    <2>. QED BY <1>5, <1>6, <2>1 DEF Positions
  <1>. QED BY <1>4, <1>5, <1>7 DEF pos

Id(n) == [k \in 1 .. n |-> k]
EndsOf(c, pos) == <<0>> \o pos \o <<c.len>>
BoundsOf(c, pos) == [k \in 0 .. Len(pos) + 1 |-> IF k = 0 THEN 0 ELSE IF k <= Len(pos) THEN pos[k] ELSE c.len]
LEMMA EndsIs ==
    ASSUME NEW c \in Context, NEW pos, Positions(c, pos)
    PROVE  /\ \A k \in 0 .. Len(pos) + 1 : EndsOf(c, pos)[k + 1] = BoundsOf(c, pos)[k]
           /\ Len(pos) \in Nat /\ c.len \in Nat
           /\ pos # <<>> => Bounds(BoundsOf(c, pos), Len(pos) + 1, c.len) /\ c.len > 0 /\ Len(pos) >= 1
  <1>1. c.len \in Nat /\ pos \in Seq(Nat) /\ Len(pos) \in Nat /\ \A k \in 1 .. Len(pos) : pos[k] \in Nat
    BY ContextFacts, SMTT(30) DEF Positions
  <1>2. ASSUME NEW k \in 0 .. Len(pos) + 1 PROVE EndsOf(c, pos)[k + 1] = BoundsOf(c, pos)[k]
    <2>1. CASE k = 0
      BY <1>1, <2>1 DEF EndsOf, BoundsOf
    <2>2. CASE k \in 1 .. Len(pos)
      BY <1>1, <2>2 DEF EndsOf, BoundsOf
    <2>3. CASE k = Len(pos) + 1
      BY <1>1, <2>3 DEF EndsOf, BoundsOf
    <2>4. k = 0 \/ k \in 1 .. Len(pos) \/ k = Len(pos) + 1
      BY <1>1
    <2>. QED BY <2>1, <2>2, <2>3, <2>4, Zenon
  <1>3. ASSUME pos # <<>> PROVE Bounds(BoundsOf(c, pos), Len(pos) + 1, c.len) /\ c.len > 0 /\ Len(pos) >= 1
    <2>. DEFINE n == Len(pos) + 1
                b == BoundsOf(c, pos)
    <2>1. Len(pos) >= 1 /\ n \in Nat
      BY <1>1, <1>3
    <2>2. \A k \in 1 .. Len(pos) : 1 <= pos[k] /\ pos[k] < c.len /\ pos[k] \in Nat
      BY <1>1 DEF Positions
    <2>3. \A j, k \in 1 .. Len(pos) : j < k => pos[j] < pos[k]
      BY DEF Positions
    <2>4. c.len > 0
      BY <1>1, <2>1, <2>2
    <2>5. \A k \in 0 .. n : b[k] = IF k = 0 THEN 0 ELSE IF k <= Len(pos) THEN pos[k] ELSE c.len
      BY DEF BoundsOf
    <2>6. b = [k \in 0 .. n |-> b[k]]
      BY DEF BoundsOf
    <2>. HIDE DEF b
    <2>7. ASSUME NEW k \in 0 .. n PROVE b[k] \in 0 .. c.len
      BY <1>1, <2>1, <2>2, <2>5
    <2>8. b[0] = 0 /\ b[n] = c.len
      BY <1>1, <2>1, <2>5
    <2>9. ASSUME NEW j \in 0 .. n, NEW k \in 0 .. n, j < k PROVE b[j] < b[k]
      <3>1. b[j] = (IF j = 0 THEN 0 ELSE pos[j]) /\ j <= Len(pos) /\ k # 0
        BY <1>1, <2>1, <2>5, <2>9
      <3>2. b[k] = IF k <= Len(pos) THEN pos[k] ELSE c.len
        BY <2>5, <3>1
      <3>3. CASE k <= Len(pos)
        <4>1. k \in 1 .. Len(pos) /\ (j # 0 => j \in 1 .. Len(pos))
          BY <1>1, <2>9, <3>1, <3>3
        <4>. QED BY <2>2, <2>3, <2>9, <3>1, <3>2, <3>3, <4>1
      <3>4. CASE ~(k <= Len(pos))
        <4>1. j # 0 => j \in 1 .. Len(pos)
          BY <1>1, <2>9, <3>1
        <4>. QED BY <2>2, <2>4, <3>1, <3>2, <3>4, <4>1
      <3>. QED BY <3>3, <3>4
    <2>10. b \in [0 .. n -> 0 .. c.len]
      BY <2>6, <2>7
    <2>. HIDE DEF n
    <2>11. Bounds(b, n, c.len)
      BY <2>4, <2>8, <2>9, <2>10 DEF Bounds
    <2>. QED BY <2>1, <2>4, <2>11 DEF n, b
  <1>. QED BY <1>1, <1>2, <1>3

LEMMA PieceFilled ==
    ASSUME NEW T, NEW c \in Context, NEW o, o.ipid \in IpIds, NEW from \in 0 .. c.len, NEW to \in from .. c.len, NEW ovl \in Nat
    PROVE  Piece(T, c, from, to, ovl, SegDataSeg(Filler(ovl) \o Cut(Payload(c), from, to), from - ovl, o))
  <1>1. PICK data, off : data = Filler(ovl) \o Cut(Payload(c), from, to) /\ off = from - ovl
    OBVIOUS
  <1>2. Filled(c, from, to, ovl, data)
    BY <1>1 DEF Filled
  <1>. QED BY <1>1, <1>2, PieceTile
LEMMA PieceWhole ==
    ASSUME NEW T, NEW c \in Context, NEW o, o.ipid \in IpIds, NEW from \in 0 .. c.len, NEW to \in from .. c.len
    PROVE  Piece(T, c, from, to, 0, SegDataSeg(Cut(Payload(c), from, to), from, o))
  <1>0. c.len \in Nat
    BY ContextFacts
  <1>1. PICK data, off : data = Cut(Payload(c), from, to) /\ off = from
    OBVIOUS
  <1>2. Filled(c, from, to, 0, data) /\ off = from - 0 /\ 0 \in Nat
    BY <1>0, <1>1 DEF Filled
  <1>3. Piece(T, c, from, to, 0, SegDataSeg(data, off, o))
    BY <1>2, PieceTile
  <1>. QED BY <1>1, <1>3

(* The parts, the one of them that target names above ovl fillers. *)
Parted(c, T, q, pos) ==
    /\ q \in DataSeq(T) /\ Len(q) = Len(pos) + 1 /\ q # <<>>
    /\ Tiling(q, Len(pos) + 1, Payload(c), Id(Len(pos) + 1), BoundsOf(c, pos))
LEMMA PartsIs ==
    ASSUME NEW c \in Context, NEW T, NEW o, o.ipid \in IpIds, NEW pos, Positions(c, pos), pos # <<>>,
           NEW ovl \in Nat, NEW target \in {1, 2}, target = 2 /\ ovl > 0 => ovl < pos[1]
    PROVE  Parted(c, T, Parts(c, o, pos, ovl, target), pos)
  <1>. DEFINE q == Parts(c, o, pos, ovl, target)
              n == Len(pos) + 1
              b == BoundsOf(c, pos)
              Ovl(k) == IF ovl > 0 /\ k = target THEN ovl ELSE 0
  <1>1. /\ Len(pos) \in Nat /\ Len(pos) >= 1 /\ c.len \in Nat /\ Bounds(b, n, c.len) /\ n \in Nat \ {0}
        /\ \A k \in 0 .. n : EndsOf(c, pos)[k + 1] = b[k]
    BY EndsIs
  <1>2. b \in [0 .. n -> 0 .. c.len] /\ \A j, k \in 0 .. n : j < k => b[j] < b[k] \/ c.len = 0
    BY <1>1 DEF Bounds
  <1>. HIDE DEF b
  <1>3. ASSUME NEW i \in 1 .. n
        PROVE  LET s == q[i] IN /\ s \in DataUnits(T) /\ Tile(s, Payload(c), b[i - 1], b[i])
                                /\ s.off = b[i - 1] - Ovl(i)
    <2>1. i - 1 \in 0 .. n /\ i \in 0 .. n /\ (i - 1) + 1 = i
      BY <1>1
    <2>2. EndsOf(c, pos)[i] = b[i - 1] /\ EndsOf(c, pos)[i + 1] = b[i]
      BY <1>1, <2>1
    <2>3. q[i] = IF ovl > 0 /\ i = target
                 THEN SegDataSeg(Filler(ovl) \o Cut(Payload(c), b[i - 1], b[i]), b[i - 1] - ovl, o)
                 ELSE SegDataSeg(Cut(Payload(c), b[i - 1], b[i]), b[i - 1], o)
      BY <2>2 DEF Parts, EndsOf
    <2>. HIDE DEF q
    <2>40. b[i - 1] \in 0 .. c.len /\ b[i] \in 0 .. c.len /\ b[i] \in b[i - 1] .. c.len
      <3>1. b[i - 1] \in 0 .. c.len /\ b[i] \in 0 .. c.len
        BY <1>2, <2>1
      <3>2. b[i - 1] < b[i] \/ c.len = 0
        BY <1>1, <1>2, <2>1
      <3>3. b[i] \in b[i - 1] .. c.len
        BY <1>1, <3>1, <3>2
      <3>. QED BY <3>1, <3>3
    <2>41. PICK from \in 0 .. c.len : from = b[i - 1]
      BY <2>40
    <2>42. PICK to \in from .. c.len : to = b[i]
      BY <2>40, <2>41
    <2>4. from = b[i - 1] /\ to = b[i]
      BY <2>41, <2>42
    <2>5. CASE ovl > 0 /\ i = target
      <3>1. Piece(T, c, from, to, ovl, q[i])
        BY <2>3, <2>4, <2>5, PieceFilled
      <3>. QED BY <2>4, <2>5, <3>1 DEF Piece
    <2>6. CASE ~(ovl > 0 /\ i = target)
      <3>1. Piece(T, c, from, to, 0, q[i])
        BY <2>3, <2>4, <2>6, PieceWhole
      <3>. QED BY <2>4, <2>6, <3>1 DEF Piece
    <2>. QED BY <2>5, <2>6
  <1>4. q \in DataSeq(T) /\ Len(q) = n /\ q # <<>>
    <2>1. q = [i \in 1 .. n |-> q[i]]
      BY DEF Parts
    <2>. HIDE DEF q
    <2>2. q \in [1 .. n -> DataUnits(T)]
      BY <1>3, <2>1
    <2>. QED BY <1>1, <2>1, <2>2 DEF DataSeq
  <1>. HIDE DEF q
  <1>5. ASSUME NEW k \in 1 .. n, k > 1 PROVE b[k - 2] < q[k].off
    <2>1. k - 2 \in 0 .. n /\ k - 1 \in 0 .. n /\ k - 2 < k - 1
      BY <1>1, <1>5
    <2>2. b[k - 2] \in Nat /\ b[k - 1] \in Nat /\ b[k - 2] < b[k - 1]
      <3>1. c.len > 0
        BY EndsIs
      <3>. QED BY <1>2, <2>1, <3>1
    <2>3. CASE Ovl(k) = 0
      BY <1>3, <2>2, <2>3
    <2>4. CASE Ovl(k) # 0
      <3>1. k = 2 /\ ovl < pos[1] /\ Ovl(k) = ovl
        BY <1>1, <1>5, <2>4
      <3>2. b[1] = pos[1] /\ b[0] = 0 /\ 2 - 2 = 0 /\ 2 - 1 = 1
        BY <1>1 DEF b, BoundsOf
      <3>3. q[k].off = b[1] - ovl
        BY <1>3, <3>1, <3>2
      <3>. QED BY <2>2, <3>1, <3>2, <3>3
    <2>. QED BY <2>3, <2>4
  <1>6. Tiling(q, n, Payload(c), Id(n), b)
    <2>1. Len(Payload(c)) = c.len
      BY ContextFacts
    <2>2. \A k \in 1 .. n : Id(n)[k] = k
      BY DEF Id
    <2>3. Id(n) \in [1 .. n -> 1 .. n] /\ \A i \in 1 .. n : \E k \in 1 .. n : Id(n)[k] = i
      BY DEF Id
    <2>4. \A k \in 1 .. n : Tile(q[Id(n)[k]], Payload(c), b[k - 1], b[k]) /\ (k > 1 => b[k - 2] < q[Id(n)[k]].off)
      BY <1>3, <1>5, <2>2
    <2>. HIDE DEF n
    <2>. QED BY <1>1, <1>4, <2>1, <2>3, <2>4 DEF Tiling
  <1>7. Parted(c, T, q, pos)
    BY <1>4, <1>6 DEF Parted, b
  <1>. QED BY <1>7 DEF q

(***************************************************************************)
(* What each operation does to a lawful plan.                              *)
(***************************************************************************)
LEMMA PlanFields ==
    ASSUME NEW T, NEW p \in PlanOf(T), NEW x
    PROVE  /\ [p EXCEPT !.segs = x].segs = x /\ [p EXCEPT !.segs = x].dgrams = p.dgrams /\ [p EXCEPT !.segs = x].drop = p.drop
           /\ [p EXCEPT !.dgrams = x].dgrams = x /\ [p EXCEPT !.dgrams = x].segs = p.segs /\ [p EXCEPT !.dgrams = x].drop = p.drop
           /\ [p EXCEPT !.segs = p.segs] = p /\ [p EXCEPT !.dgrams = p.dgrams] = p
           /\ p.segs \in UnitSeq(T) /\ p.dgrams \in UnitSeq(T) /\ p.drop \in BOOLEAN
  BY DEF PlanOf

LEMMA LawfulFields ==
    ASSUME NEW c, NEW T, NEW cut, NEW blk, NEW p, Lawful(c, T, cut, blk, p)
    PROVE  /\ p \in PlanOf(T) /\ p.segs \in UnitSeq(T) /\ p.dgrams \in UnitSeq(T)
           /\ Good(c, DataOf(p.segs), cut) /\ SegsLawful(c, T, cut, p.segs) /\ DgramsLawful(c, T, p.dgrams)
           /\ p.dgrams # <<>> => Packed(c, DataOf(p.dgrams)) /\ c.udp
  <1>1. p \in PlanOf(T) /\ SegsLawful(c, T, cut, p.segs) /\ DgramsLawful(c, T, p.dgrams)
    BY DEF Lawful
  <1>. QED BY <1>1, PlanFields DEF SegsLawful, DgramsLawful

SetSegs(p, x) == [p EXCEPT !.segs = x]
SetDgrams(p, x) == [p EXCEPT !.dgrams = x]
LEMMA EnsureTwice ==
    ASSUME NEW c, NEW T, NEW p \in PlanOf(T), NEW x \in UnitSeq(T)
    PROVE  /\ InjEnsureDataSeg(c, SetSegs(p, x)) = SetSegs(p, EnsureData(x, c))
           /\ InjEnsureDataDgram(c, SetDgrams(p, x)) = SetDgrams(p, EnsureData(x, c))
  <1>. DEFINE q == SetSegs(p, x)
              r == SetDgrams(p, x)
  <1>1. q \in PlanOf(T) /\ q.segs = x /\ q.dgrams = p.dgrams /\ q.drop = p.drop
        /\ r \in PlanOf(T) /\ r.dgrams = x /\ r.segs = p.segs /\ r.drop = p.drop
    BY DEF PlanOf, SetSegs, SetDgrams
  <1>. HIDE DEF q, r
  <1>2. [q EXCEPT !.segs = EnsureData(x, c)] = SetSegs(p, EnsureData(x, c))
    BY <1>1 DEF PlanOf, SetSegs, SetDgrams
  <1>3. [r EXCEPT !.dgrams = EnsureData(x, c)] = SetDgrams(p, EnsureData(x, c))
    BY <1>1 DEF PlanOf, SetSegs, SetDgrams
  <1>4. InjEnsureDataSeg(c, q) = [q EXCEPT !.segs = EnsureData(x, c)] /\ InjEnsureDataDgram(c, r) = [r EXCEPT !.dgrams = EnsureData(x, c)]
    BY <1>1 DEF InjEnsureDataSeg, InjEnsureDataDgram
  <1>. QED BY <1>2, <1>3, <1>4 DEF q, r

(* Decoys before the data of a plan, and the data if there were none. *)
LEMMA InsertLawful ==
    ASSUME NEW c \in Context, c.len > 0, NEW T, NEW cut, NEW blk, NEW p, Lawful(c, T, cut, blk, p),
           NEW f \in Unit(T), ~IsData(f)
    PROVE  /\ Lawful(c, T, cut, blk, InjEnsureDataSeg(c, SetSegs(p, Inserted(p.segs, <<f>>))))
           /\ c.udp => Lawful(c, T, cut, blk, InjEnsureDataDgram(c, SetDgrams(p, Inserted(p.dgrams, <<f>>))))
  <1>1. p \in PlanOf(T) /\ p.segs \in UnitSeq(T) /\ p.dgrams \in UnitSeq(T) /\ Good(c, DataOf(p.segs), cut)
        /\ (p.dgrams # <<>> => Packed(c, DataOf(p.dgrams)))
    BY LawfulFields
  <1>2. Holds(T, <<f>>, <<>>)
    BY HoldsFake
  <1>. DEFINE x == Inserted(p.segs, <<f>>)
              y == Inserted(p.dgrams, <<f>>)
  <1>3. x \in UnitSeq(T) /\ DataOf(x) = DataOf(p.segs) /\ y \in UnitSeq(T) /\ DataOf(y) = DataOf(p.dgrams)
    BY <1>1, <1>2, HoldsInserted DEF Holds
  <1>. HIDE DEF x, y
  <1>4. SegsLawful(c, T, cut, EnsureData(x, c)) /\ EnsureData(x, c) # <<>>
    BY <1>1, <1>3, EnsuredSegs
  <1>5. Lawful(c, T, cut, blk, SetSegs(p, EnsureData(x, c)))
    BY <1>4, WithSegs DEF SetSegs
  <1>6. InjEnsureDataSeg(c, SetSegs(p, x)) = SetSegs(p, EnsureData(x, c))
    BY <1>1, <1>3, EnsureTwice
  <1>7. ASSUME c.udp PROVE Lawful(c, T, cut, blk, InjEnsureDataDgram(c, SetDgrams(p, y)))
    <2>0. DataOf(p.dgrams) # <<>> => p.dgrams # <<>>
      BY HoldsEmpty DEF Holds
    <2>1. DgramsLawful(c, T, EnsureData(y, c))
      BY <1>1, <1>3, <1>7, <2>0, EnsuredDgrams
    <2>2. Lawful(c, T, cut, blk, SetDgrams(p, EnsureData(y, c)))
      BY <2>1, WithDgrams DEF SetDgrams
    <2>3. InjEnsureDataDgram(c, SetDgrams(p, y)) = SetDgrams(p, EnsureData(y, c))
      BY <1>1, <1>3, EnsureTwice
    <2>. QED BY <2>2, <2>3
  <1>. QED BY <1>5, <1>6, <1>7 DEF x, y

LEMMA FakeLawful ==
    ASSUME NEW c \in Context, NEW T, NEW cut, NEW blk, NEW p, Lawful(c, T, cut, blk, p), NEW o \in Operation, o.ttl \in T
    PROVE  Lawful(c, T, cut, blk, Fake(o, c, p))
  <1>. DEFINE f == Injected("fake", Decoys(FakeLen), o)
  <1>1. f \in Unit(T) /\ ~IsData(f)
    <2>1. FakeLen \in Nat
      BY ContextFacts
    <2>. QED BY <2>1, InjectedSeg
  <1>. HIDE DEF f
  <1>2. Carries(c) => c.len > 0
    BY DEF Carries, Context
  <1>3. Fake(o, c, p) = p \/ (Carries(c) /\ c.udp /\ Fake(o, c, p) = InjEnsureDataDgram(c, SetDgrams(p, Inserted(p.dgrams, <<f>>))))
        \/ (Carries(c) /\ Fake(o, c, p) = InjEnsureDataSeg(c, SetSegs(p, Inserted(p.segs, <<f>>))))
    BY DEF Fake, f, SetSegs, SetDgrams
  <1>4. CASE Carries(c) /\ c.udp /\ Fake(o, c, p) = InjEnsureDataDgram(c, SetDgrams(p, Inserted(p.dgrams, <<f>>)))
    BY <1>1, <1>2, <1>4, InsertLawful, Zenon
  <1>5. CASE Carries(c) /\ Fake(o, c, p) = InjEnsureDataSeg(c, SetSegs(p, Inserted(p.segs, <<f>>)))
    BY <1>1, <1>2, <1>5, InsertLawful, Zenon
  <1>. QED BY <1>3, <1>4, <1>5

LEMMA RstLawful ==
    ASSUME NEW c \in Context, NEW T, NEW cut, NEW blk, NEW p, Lawful(c, T, cut, blk, p), NEW o \in Operation, o.ttl \in T
    PROVE  Lawful(c, T, cut, blk, Rst(o, c, p))
  <1>. DEFINE f == Injected("rst", <<>>, o)
  <1>1. f \in Unit(T) /\ ~IsData(f)
    <2>1. Decoys(0) = <<>>
      BY DEF Decoys
    <2>. QED BY <2>1, InjectedSeg
  <1>. HIDE DEF f
  <1>2. Carries(c) => c.len > 0
    BY DEF Carries, Context
  <1>3. Rst(o, c, p) = p \/ (Carries(c) /\ Rst(o, c, p) = InjEnsureDataSeg(c, SetSegs(p, Inserted(p.segs, <<f>>))))
    BY DEF Rst, f, SetSegs
  <1>4. CASE Carries(c) /\ Rst(o, c, p) = InjEnsureDataSeg(c, SetSegs(p, Inserted(p.segs, <<f>>)))
    BY <1>1, <1>2, <1>4, InsertLawful, Zenon
  <1>. QED BY <1>3, <1>4

LEMMA SyndataLawful ==
    ASSUME NEW c \in Context, NEW T, NEW cut, NEW blk, NEW p, Lawful(c, T, cut, blk, p), NEW o \in Operation, o.ttl \in T
    PROVE  Lawful(c, T, cut, blk, Syndata(o, c, p))
  <1>. DEFINE f == [Injected("syn", Decoys(FakeLen), o) EXCEPT !.ttl = 0, !.fool = {}]
  <1>1. f \in Unit(T) /\ ~IsData(f)
    <2>. DEFINE g == Injected("syn", Decoys(FakeLen), o)
    <2>1. g \in Unit(T) /\ ~IsData(g) /\ g.kind = "syn"
      BY ContextFacts, InjectedSeg
    <2>. HIDE DEF g
    <2>2. f = [g EXCEPT !.ttl = 0, !.fool = {}]
      BY DEF g
    <2>. QED BY <2>1, <2>2 DEF Unit, IsData, IsDecoy, Kinds
  <1>. HIDE DEF f
  <1>2. CASE c.syn /\ ~c.udp /\ c.len = 0
    <2>1. Syndata(o, c, p) = [p EXCEPT !.segs = Append(p.segs, f)]
      BY <1>2 DEF Syndata, f
    <2>2. p.segs \in UnitSeq(T) /\ SegsLawful(c, T, cut, p.segs)
      BY LawfulFields
    <2>3. Append(p.segs, f) = p.segs \o <<f>> /\ Append(p.segs, f) # <<>> /\ Append(p.segs, f) \in UnitSeq(T)
      BY <1>1, <2>2 DEF UnitSeq
    <2>4. Holds(T, p.segs \o <<f>>, DataOf(p.segs) \o <<>>)
      BY <1>1, <2>2, HoldsFake, HoldsUnits, HoldsJoin
    <2>5. DataOf(Append(p.segs, f)) = DataOf(p.segs)
      <3>1. DataOf(p.segs) \in DataSeq(T)
        BY <2>2, HoldsUnits DEF Holds
      <3>2. DataOf(p.segs) \o <<>> = DataOf(p.segs)
        BY <3>1 DEF DataSeq
      <3>. QED BY <2>3, <2>4, <3>2 DEF Holds
    <2>6. SegsLawful(c, T, cut, Append(p.segs, f))
      BY <1>2, <2>2, <2>3, <2>5 DEF SegsLawful
    <2>7. Lawful(c, T, cut, blk, [p EXCEPT !.segs = Append(p.segs, f)])
      BY <2>3, <2>6, WithSegs, Zenon
    <2>. QED BY <2>1, <2>7
  <1>. QED BY <1>2 DEF Syndata

LEMMA EmptyLawful ==
    ASSUME NEW c, NEW T, NEW blk PROVE Lawful(c, T, FALSE, blk, EmptyPlan) /\ (blk => \A o, p : Lawful(c, T, FALSE, blk, Block(o, c, p)))
  <1>1. <<>> \in UnitSeq(T) /\ DataOf(<<>>) = <<>>
    BY HoldsEmpty DEF Holds
  <1>2. SegsLawful(c, T, FALSE, <<>>) /\ DgramsLawful(c, T, <<>>)
    BY <1>1 DEF SegsLawful, DgramsLawful, Good
  <1>3. \A d \in BOOLEAN : LET e == [segs |-> <<>>, dgrams |-> <<>>, drop |-> d]
                           IN  e \in PlanOf(T) /\ e.segs = <<>> /\ e.dgrams = <<>> /\ e.drop = d
    BY <1>1 DEF PlanOf
  <1>4. EmptyPlan = [segs |-> <<>>, dgrams |-> <<>>, drop |-> FALSE]
    BY DEF EmptyPlan
  <1>5. ASSUME NEW o, NEW p PROVE Block(o, c, p) = [segs |-> <<>>, dgrams |-> <<>>, drop |-> TRUE]
    BY <1>3, <1>4 DEF Block, PlanOf
  <1>. QED BY <1>2, <1>3, <1>4, <1>5 DEF Lawful

LEMMA EnsuredLawful ==
    ASSUME NEW c \in Context, c.len > 0, NEW T, NEW cut, NEW blk, NEW p, Lawful(c, T, cut, blk, p)
    PROVE  /\ Lawful(c, T, cut, blk, InjEnsureDataSeg(c, p)) /\ Lawful(c, T, cut, blk, Ensured(c, p))
           /\ InjEnsureDataSeg(c, p).segs # <<>>
  <1>1. p \in PlanOf(T) /\ p.segs \in UnitSeq(T) /\ p.dgrams \in UnitSeq(T) /\ Good(c, DataOf(p.segs), cut)
        /\ (p.dgrams # <<>> => Packed(c, DataOf(p.dgrams)))
    BY LawfulFields
  <1>2. SegsLawful(c, T, cut, EnsureData(p.segs, c)) /\ EnsureData(p.segs, c) # <<>>
    BY <1>1, EnsuredSegs
  <1>3. Lawful(c, T, cut, blk, [p EXCEPT !.segs = EnsureData(p.segs, c)])
    BY <1>2, WithSegs, Zenon
  <1>4. InjEnsureDataSeg(c, p) = [p EXCEPT !.segs = EnsureData(p.segs, c)]
    BY DEF InjEnsureDataSeg
  <1>5. ASSUME c.udp PROVE Lawful(c, T, cut, blk, InjEnsureDataDgram(c, p))
    <2>0. DataOf(p.dgrams) # <<>> => p.dgrams # <<>>
      BY HoldsEmpty DEF Holds
    <2>1. DgramsLawful(c, T, EnsureData(p.dgrams, c))
      BY <1>1, <1>5, <2>0, EnsuredDgrams
    <2>2. Lawful(c, T, cut, blk, [p EXCEPT !.dgrams = EnsureData(p.dgrams, c)])
      BY <2>1, WithDgrams, Zenon
    <2>. QED BY <2>2 DEF InjEnsureDataDgram
  <1>6. InjEnsureDataSeg(c, p).segs = EnsureData(p.segs, c)
    BY <1>1, <1>4, PlanFields
  <1>. QED BY <1>2, <1>3, <1>4, <1>5, <1>6 DEF Ensured

(***************************************************************************)
(* Operations that change what is not data.                                *)
(***************************************************************************)
Dress(T, s, t) == t \in Unit(T) /\ (IsData(s) <=> IsData(t)) /\ t.data = s.data /\ t.off = s.off
LEMMA DressUnit ==
    ASSUME NEW T, NEW s \in Unit(T)
    PROVE  /\ Dress(T, s, s)
           /\ \A m \in Marks : Dress(T, s, [s EXCEPT !.fool = @ \cup {m}])
           /\ \A x \in Int : Dress(T, s, [s EXCEPT !.frag = x]) /\ Dress(T, s, [s EXCEPT !.win = x])
           /\ \A x \in IpIds : Dress(T, s, [s EXCEPT !.ipid = x])
  <1>. USE DEF Unit, Dress, IsData, IsDecoy
  <1>1. Dress(T, s, s)
    OBVIOUS
  <1>2. ASSUME NEW m \in Marks PROVE Dress(T, s, [s EXCEPT !.fool = @ \cup {m}])
    OBVIOUS
  <1>3. ASSUME NEW x \in Int PROVE Dress(T, s, [s EXCEPT !.frag = x]) /\ Dress(T, s, [s EXCEPT !.win = x])
    OBVIOUS
  <1>4. ASSUME NEW x \in IpIds PROVE Dress(T, s, [s EXCEPT !.ipid = x])
    OBVIOUS
  <1>. QED BY <1>1, <1>2, <1>3, <1>4

LEMMA DressedIs ==
    ASSUME NEW T, NEW u \in UnitSeq(T), NEW v, v = [i \in DOMAIN u |-> v[i]], \A i \in DOMAIN u : Dress(T, u[i], v[i])
    PROVE  Dressed(T, u, v)
  <1>1. Len(u) \in Nat /\ DOMAIN u = 1 .. Len(u)
    BY DEF UnitSeq
  <1>2. DOMAIN v = 1 .. Len(u) /\ \A i \in 1 .. Len(u) : v[i] \in Unit(T)
    BY <1>1 DEF Dress
  <1>3. v \in Seq(Unit(T)) /\ Len(v) = Len(u)
    BY <1>1, <1>2
  <1>. QED BY <1>1, <1>3 DEF Dressed, Dress, UnitSeq

LEMMA DressLawful ==
    ASSUME NEW c, NEW T, NEW cut, NEW blk, NEW p, Lawful(c, T, cut, blk, p), NEW v
    PROVE  /\ Dressed(T, p.segs, v) => Lawful(c, T, cut, blk, [p EXCEPT !.segs = v])
           /\ Dressed(T, p.dgrams, v) => Lawful(c, T, cut, blk, [p EXCEPT !.dgrams = v])
  <1>1. ASSUME Dressed(T, p.segs, v) PROVE Lawful(c, T, cut, blk, [p EXCEPT !.segs = v])
    <2>1. SegsLawful(c, T, cut, v) /\ (v # <<>> \/ p.segs = <<>>)
      BY <1>1, LawfulFields, DressedSegs
    <2>. QED BY <2>1, WithSegs, Zenon
  <1>2. ASSUME Dressed(T, p.dgrams, v) PROVE Lawful(c, T, cut, blk, [p EXCEPT !.dgrams = v])
    <2>1. DgramsLawful(c, T, v)
      BY <1>2, LawfulFields, DressedDgrams
    <2>. QED BY <2>1, WithDgrams, Zenon
  <1>. QED BY <1>1, <1>2

LEMMA UnitLen == ASSUME NEW T, NEW s \in Unit(T) PROVE Len(s.data) \in Int
  BY DEF Unit
LEMMA FragPosInt == ASSUME NEW c \in Context, NEW o \in Operation, NEW n \in Int PROVE FragPos(o, c, n) \in Int
  BY SMTT(30) DEF Operation, FragPos

(* Both of a plan's sequences, with the units of one protocol replaced. *)
LEMMA UnitsLawful ==
    ASSUME NEW c \in Context, NEW T, NEW cut, NEW blk, NEW q, Lawful(c, T, cut, blk, q), NEW v, NEW u,
           u = q[Units(c)], v = [i \in DOMAIN u |-> v[i]], \A i \in DOMAIN u : Dress(T, u[i], v[i])
    PROVE  Lawful(c, T, cut, blk, [q EXCEPT ![Units(c)] = v])
  <1>1. q.segs \in UnitSeq(T) /\ q.dgrams \in UnitSeq(T)
    BY LawfulFields
  <1>2. CASE c.udp
    <2>1. Units(c) = "dgrams"
      BY <1>2 DEF Units
    <2>2. Dressed(T, q.dgrams, v)
      BY <1>1, <2>1, DressedIs
    <2>3. [q EXCEPT ![Units(c)] = v] = [q EXCEPT !.dgrams = v]
      BY <2>1
    <2>4. Lawful(c, T, cut, blk, [q EXCEPT !.dgrams = v])
      BY <2>2, DressLawful, Zenon
    <2>. QED BY <2>3, <2>4
  <1>3. CASE ~c.udp
    <2>1. Units(c) = "segs"
      BY <1>3 DEF Units
    <2>2. Dressed(T, q.segs, v)
      BY <1>1, <2>1, DressedIs
    <2>3. [q EXCEPT ![Units(c)] = v] = [q EXCEPT !.segs = v]
      BY <2>1
    <2>4. Lawful(c, T, cut, blk, [q EXCEPT !.segs = v])
      BY <2>2, DressLawful, Zenon
    <2>. QED BY <2>3, <2>4
  <1>. QED BY <1>2, <1>3

LEMMA MarkedLawful ==
    ASSUME NEW c \in Context, c.len > 0, NEW T, NEW cut, NEW blk, NEW p, Lawful(c, T, cut, blk, p), NEW m \in Marks
    PROVE  Lawful(c, T, cut, blk, Marked(c, p, m))
  <1>. DEFINE q == Ensured(c, p)
              u == q[Units(c)]
              w(s) == [s EXCEPT !.fool = @ \cup {m}]
              v == [i \in DOMAIN u |-> IF IsData(u[i]) THEN w(u[i]) ELSE u[i]]
  <1>1. Lawful(c, T, cut, blk, q)
    BY EnsuredLawful
  <1>2. Marked(c, p, m) = [q EXCEPT ![Units(c)] = v]
    BY DEF Marked
  <1>. HIDE DEF q
  <1>3. u \in UnitSeq(T)
    BY <1>1, LawfulFields DEF Units
  <1>. HIDE DEF u
  <1>4. \A i \in DOMAIN u : u[i] \in Unit(T)
    BY <1>3 DEF UnitSeq
  <1>5. \A i \in DOMAIN u : Dress(T, u[i], w(u[i])) /\ Dress(T, u[i], u[i])
    BY <1>4, DressUnit, Zenon
  <1>. HIDE DEF w
  <1>6. \A i \in DOMAIN u : Dress(T, u[i], v[i])
    BY <1>5
  <1>7. v = [i \in DOMAIN u |-> v[i]]
    OBVIOUS
  <1>. HIDE DEF v
  <1>8. Lawful(c, T, cut, blk, [q EXCEPT ![Units(c)] = v])
    BY <1>1, <1>6, <1>7, UnitsLawful DEF u
  <1>. QED BY <1>2, <1>8, Zenon

LEMMA Ipfrag2Lawful ==
    ASSUME NEW c \in Context, NEW T, NEW cut, NEW blk, NEW p, Lawful(c, T, cut, blk, p), NEW o \in Operation
    PROVE  Lawful(c, T, cut, blk, Ipfrag2(o, c, p))
  <1>. DEFINE q == Ensured(c, p)
              u == q[Units(c)]
              w(s) == [s EXCEPT !.frag = FragPos(o, c, IF c.udp THEN Len(s.data) ELSE c.len)]
              v == [i \in DOMAIN u |-> IF IsData(u[i]) THEN w(u[i]) ELSE u[i]]
  <1>1. CASE Carries(c)
    <2>0. c.len > 0
      BY <1>1 DEF Carries, Context
    <2>1. Lawful(c, T, cut, blk, q)
      BY <2>0, EnsuredLawful
    <2>2. Ipfrag2(o, c, p) = p \/ Ipfrag2(o, c, p) = [q EXCEPT ![Units(c)] = v]
      BY DEF Ipfrag2
    <2>. HIDE DEF q
    <2>3. u \in UnitSeq(T)
      BY <2>1, LawfulFields DEF Units
    <2>. HIDE DEF u
    <2>4. \A i \in DOMAIN u : u[i] \in Unit(T) /\ Len(u[i].data) \in Int /\ c.len \in Int
      BY <2>3, UnitLen, ContextFacts DEF UnitSeq
    <2>5. \A i \in DOMAIN u : FragPos(o, c, IF c.udp THEN Len(u[i].data) ELSE c.len) \in Int
      BY <2>4, FragPosInt
    <2>6. \A i \in DOMAIN u : Dress(T, u[i], w(u[i])) /\ Dress(T, u[i], u[i])
      BY <2>4, <2>5, DressUnit, Zenon
    <2>. HIDE DEF w
    <2>7. \A i \in DOMAIN u : Dress(T, u[i], v[i])
      BY <2>6
    <2>8. v = [i \in DOMAIN u |-> v[i]]
      OBVIOUS
    <2>. HIDE DEF v
    <2>9. Lawful(c, T, cut, blk, [q EXCEPT ![Units(c)] = v])
      BY <2>1, <2>7, <2>8, UnitsLawful DEF u
    <2>. QED BY <2>2, <2>9, Zenon
  <1>. QED BY <1>1 DEF Ipfrag2

LEMMA Ipfrag1Lawful ==
    ASSUME NEW c \in Context, NEW T, NEW cut, NEW blk, NEW p, Lawful(c, T, cut, blk, p), NEW o \in Operation
    PROVE  Lawful(c, T, cut, blk, Ipfrag1(o, c, p))
  <1>. DEFINE u == p.dgrams
              w(s) == [s EXCEPT !.frag = FragPos(o, c, Len(s.data))]
              v == [i \in DOMAIN u |-> IF u[i].kind = "fake" THEN w(u[i]) ELSE u[i]]
  <1>1. Carries(c) => c.len > 0
    BY DEF Carries, Context
  <1>2. \/ Ipfrag1(o, c, p) = p \/ Ipfrag1(o, c, p) = [p EXCEPT !.dgrams = v]
        \/ c.len > 0 /\ Ipfrag1(o, c, p) = Marked(c, p, "ipfrag1")
    BY <1>1 DEF Ipfrag1
  <1>3. u \in UnitSeq(T)
    BY LawfulFields
  <1>4. Lawful(c, T, cut, blk, [p EXCEPT !.dgrams = v])
    <2>. HIDE DEF u
    <2>4. \A i \in DOMAIN u : u[i] \in Unit(T) /\ Len(u[i].data) \in Int
      BY <1>3, UnitLen DEF UnitSeq
    <2>5. \A i \in DOMAIN u : FragPos(o, c, Len(u[i].data)) \in Int
      BY <2>4, FragPosInt
    <2>6. \A i \in DOMAIN u : Dress(T, u[i], w(u[i])) /\ Dress(T, u[i], u[i])
      BY <2>4, <2>5, DressUnit, Zenon
    <2>. HIDE DEF w
    <2>7. \A i \in DOMAIN u : Dress(T, u[i], v[i])
      BY <2>6
    <2>8. v = [i \in DOMAIN u |-> v[i]]
      OBVIOUS
    <2>. HIDE DEF v
    <2>9. Dressed(T, u, v)
      BY <1>3, <2>7, <2>8, DressedIs
    <2>. QED BY <2>9, DressLawful, Zenon DEF u
  <1>5. c.len > 0 => Lawful(c, T, cut, blk, Marked(c, p, "ipfrag1"))
    BY MarkedLawful DEF Marks
  <1>. QED BY <1>2, <1>4, <1>5, Zenon

LEMMA Ipv6ExtLawful ==
    ASSUME NEW c \in Context, NEW T, NEW cut, NEW blk, NEW p, Lawful(c, T, cut, blk, p), NEW o
    PROVE  Lawful(c, T, cut, blk, Ipv6Ext(o, c, p))
  <1>1. Carries(c) => c.len > 0
    BY DEF Carries, Context
  <1>. QED BY <1>1, MarkedLawful DEF Ipv6Ext, Marks, Foolings

LEMMA IpIdLawful ==
    ASSUME NEW c \in Context, NEW T, NEW cut, NEW blk, NEW p, Lawful(c, T, cut, blk, p), NEW o \in Operation
    PROVE  Lawful(c, T, cut, blk, IpId(o, c, p))
  <1>. DEFINE u == p.segs
              w(s) == [s EXCEPT !.ipid = o.ipid]
              v == [i \in DOMAIN u |-> w(u[i])]
  <1>2. IpId(o, c, p) = p \/ IpId(o, c, p) = [p EXCEPT !.segs = v]
    BY DEF IpId
  <1>3. u \in UnitSeq(T) /\ o.ipid \in IpIds
    BY LawfulFields DEF Operation
  <1>. HIDE DEF u
  <1>4. \A i \in DOMAIN u : u[i] \in Unit(T)
    BY <1>3 DEF UnitSeq
  <1>6. \A i \in DOMAIN u : Dress(T, u[i], w(u[i]))
    BY <1>3, <1>4, DressUnit, Zenon
  <1>. HIDE DEF w
  <1>7. \A i \in DOMAIN u : Dress(T, u[i], v[i])
    BY <1>6
  <1>8. v = [i \in DOMAIN u |-> v[i]]
    OBVIOUS
  <1>. HIDE DEF v
  <1>9. Dressed(T, u, v)
    BY <1>3, <1>7, <1>8, DressedIs
  <1>10. Lawful(c, T, cut, blk, [p EXCEPT !.segs = v])
    BY <1>9, DressLawful, Zenon DEF u
  <1>. QED BY <1>2, <1>10, Zenon

LEMMA WssizeLawful ==
    ASSUME NEW c \in Context, NEW T, NEW cut, NEW blk, NEW p, Lawful(c, T, cut, blk, p), NEW o \in Operation
    PROVE  Lawful(c, T, cut, blk, Wssize(o, c, p))
  <1>1. ASSUME NEW q, Lawful(c, T, cut, blk, q)
        PROVE  Lawful(c, T, cut, blk, [q EXCEPT !.segs = [i \in DOMAIN @ |->
                    IF CarriesWindow(c, @[i]) THEN [@[i] EXCEPT !.win = o.win] ELSE @[i]]])
    <2>. DEFINE u == q.segs
                w(s) == [s EXCEPT !.win = o.win]
                v == [i \in DOMAIN u |-> IF CarriesWindow(c, u[i]) THEN w(u[i]) ELSE u[i]]
    <2>3. u \in UnitSeq(T) /\ o.win \in Int
      BY <1>1, LawfulFields DEF Operation
    <2>. HIDE DEF u
    <2>4. \A i \in DOMAIN u : u[i] \in Unit(T)
      BY <2>3 DEF UnitSeq
    <2>6. \A i \in DOMAIN u : Dress(T, u[i], w(u[i])) /\ Dress(T, u[i], u[i])
      BY <2>3, <2>4, DressUnit, Zenon
    <2>. HIDE DEF w
    <2>7. \A i \in DOMAIN u : Dress(T, u[i], v[i])
      BY <2>6
    <2>8. v = [i \in DOMAIN u |-> v[i]]
      OBVIOUS
    <2>. HIDE DEF v
    <2>9. Dressed(T, u, v)
      BY <2>3, <2>7, <2>8, DressedIs
    <2>10. Lawful(c, T, cut, blk, [q EXCEPT !.segs = v])
      BY <1>1, <2>9, DressLawful, Zenon DEF u
    <2>. QED BY <2>10 DEF v, w, u
  <1>2. c.len > 0 => Lawful(c, T, cut, blk, InjEnsureDataSeg(c, p))
    BY EnsuredLawful
  <1>. QED BY <1>1, <1>2 DEF Wssize

(***************************************************************************)
(* Operations that rewrite the payload.                                    *)
(***************************************************************************)
LEMMA ResizeIs ==
    ASSUME NEW c \in Context, NEW inc \in Int
    PROVE  LET data == UDPLenResize(c.len, inc)
           IN  data \in Bytes /\ Len(data) \in Nat /\ \A i \in 1 .. Len(data) : data[i] = IF i <= c.len THEN i ELSE Fill
  <1>. DEFINE n == c.len
              pad == IF n + inc <= 0 THEN 1 - n ELSE IF n + inc > MaxPayload THEN MaxPayload - n ELSE inc
  <1>1. n \in Nat /\ MaxPayload \in Nat
    BY ContextFacts
  <1>2. pad \in Int /\ n + pad >= 0
    BY <1>1
  <1>. DEFINE data == UDPLenResize(n, inc)
              front == [i \in 1 .. n |-> i]
  <1>3. data = IF pad < 0 THEN [i \in 1 .. n + pad |-> i] ELSE front \o Filler(pad)
    BY DEF UDPLenResize
  <1>. HIDE DEF pad, n, data
  <1>4. CASE pad < 0
    <2>1. data = [i \in 1 .. n + pad |-> i]
      BY <1>3, <1>4
    <2>2. n + pad \in Nat /\ n + pad <= n
      BY <1>1, <1>2, <1>4
    <2>3. DOMAIN data = 1 .. n + pad /\ data \in Seq(Int) /\ Len(data) = n + pad
      BY <2>1, <2>2
    <2>. QED BY <1>1, <2>1, <2>2, <2>3 DEF Bytes, n, data
  <1>5. CASE ~(pad < 0)
    <2>1. data = front \o Filler(pad)
      BY <1>3, <1>5
    <2>2. front \in Seq(Int) /\ Len(front) = n /\ \A i \in 1 .. n : front[i] = i
      BY <1>1
    <2>3. pad \in Nat
      BY <1>2, <1>5
    <2>4. Filler(pad) \in Seq(Int) /\ Len(Filler(pad)) = pad /\ \A i \in 1 .. pad : Filler(pad)[i] = Fill
      BY <2>3 DEF Filler, Fill
    <2>. HIDE DEF front
    <2>5. Catted(data, front, Filler(pad))
      BY <2>1, <2>2, <2>4, CatBytes DEF Bytes
    <2>6. data \in Bytes /\ Len(data) = n + pad /\ \A i \in 1 .. n + pad : data[i] = IF i <= n THEN front[i] ELSE Filler(pad)[i - n]
      BY <2>2, <2>4, <2>5 DEF Catted
    <2>. HIDE DEF Bytes
    <2>7. ASSUME NEW i \in 1 .. n + pad PROVE data[i] = IF i <= n THEN i ELSE Fill
      <3>1. CASE i <= n
        BY <1>1, <2>2, <2>3, <2>6, <3>1
      <3>2. CASE ~(i <= n)
        <4>1. i - n \in 1 .. pad
          BY <1>1, <2>3, <3>2
        <4>. QED BY <2>4, <2>6, <3>2, <4>1
      <3>. QED BY <3>1, <3>2
    <2>. QED BY <1>1, <2>3, <2>6, <2>7 DEF n, data
  <1>. QED BY <1>4, <1>5

LEMMA UdplenLawful ==
    ASSUME NEW c \in Context, NEW T, NEW cut, NEW blk, NEW p, Lawful(c, T, cut, blk, p), NEW o \in Operation
    PROVE  Lawful(c, T, cut, blk, Udplen(o, c, p))
  <1>. DEFINE inc == IF o.inc = 0 THEN 2 ELSE o.inc
              data == UDPLenResize(c.len, inc)
              u == p.dgrams
              at == FirstData(u)
              t == [u[at] EXCEPT !.data = data, !.frag = IF @ > 0 THEN FragPos(o, c, Len(data)) ELSE @]
              v == [u EXCEPT ![at] = t]
              s == SegDataSeg(data, 0, Plain)
  <1>1. data \in Bytes /\ Len(data) \in Nat /\ \A i \in 1 .. Len(data) : data[i] = IF i <= c.len THEN i ELSE Fill
    <2>1. inc \in Int
      BY DEF Operation
    <2>. HIDE DEF inc
    <2>. QED BY <2>1, ResizeIs
  <1>2. FragPos(o, c, Len(data)) \in Int
    BY <1>1, FragPosInt
  <1>3. u \in UnitSeq(T) /\ (u # <<>> => Packed(c, DataOf(u))) /\ p \in PlanOf(T)
    BY LawfulFields
  <1>. HIDE DEF data
  <1>4. ASSUME c.udp, at = 0 PROVE Lawful(c, T, cut, blk, [p EXCEPT !.dgrams = Append(u, s)])
    <2>1. DataOf(u) = <<>>
      BY <1>3, <1>4, FirstDataIs, NoData DEF UnitSeq
    <2>2. u = <<>>
      BY <1>3, <2>1 DEF Packed
    <2>3. s \in DataUnits(T) /\ s.data = data
      <3>1. Plain.ipid \in IpIds /\ 0 \in Int
        BY DEF Plain, IpIds
      <3>. QED BY <1>1, <3>1, DataSegIs, Zenon
    <2>4. Holds(T, <<s>>, <<s>>) /\ Append(<<>>, s) = <<s>>
      BY <2>3, HoldsOne
    <2>5. DgramsLawful(c, T, Append(u, s))
      BY <1>1, <1>4, <2>2, <2>3, <2>4 DEF DgramsLawful, Packed, Holds
    <2>. QED BY <2>5, WithDgrams, Zenon
  <1>5. ASSUME c.udp, at # 0 PROVE Lawful(c, T, cut, blk, [p EXCEPT !.dgrams = v])
    <2>1. at \in 1 .. Len(u) /\ IsData(u[at]) /\ u[at] \in Unit(T)
      BY <1>3, <1>5, FirstDataIs DEF UnitSeq
    <2>. HIDE DEF at, u
    <2>2. t \in Unit(T) /\ IsData(t) /\ t.data = data
      BY <1>1, <1>2, <2>1 DEF Unit, IsData, IsDecoy, Bytes
    <2>. HIDE DEF t
    <2>3. v \in UnitSeq(T) /\ Len(v) = Len(u) /\ v[at] = t /\ \A i \in 1 .. Len(u) : IsData(u[i]) <=> IsData(v[i])
      BY <1>3, <2>1, <2>2 DEF UnitSeq
    <2>. HIDE DEF v
    <2>. DEFINE a == Ascending(DataAt(v))
    <2>4. /\ Len(DataOf(u)) = Len(DataOf(v)) /\ DataAt(u) = DataAt(v)
          /\ \A k \in 1 .. Len(DataOf(u)) : DataOf(v)[k] = v[a[k]]
      BY <1>3, <2>3, SamePlaces, Zenon
    <2>5. u # <<>> /\ v # <<>>
      BY <2>1, <2>3
    <2>6. Len(DataOf(u)) = 1
      BY <1>3, <2>5 DEF Packed
    <2>7. a[1] = at
      <3>1. Picked(u, DataUnits(T), DataOf(u), a)
        BY <1>3, <2>4, DataThose, ThoseFacts DEF UnitSeq
      <3>2. u[at] \in DataUnits(T)
        BY <2>1 DEF DataUnits
      <3>3. \E k \in 1 .. 1 : a[k] = at
        BY <2>1, <2>6, <3>1, <3>2 DEF Picked
      <3>. QED BY <3>3
    <2>8. Packed(c, DataOf(v))
      BY <1>1, <2>2, <2>3, <2>4, <2>6, <2>7 DEF Packed
    <2>9. DgramsLawful(c, T, v)
      BY <1>5, <2>3, <2>8 DEF DgramsLawful
    <2>. QED BY <2>9, WithDgrams, Zenon
  <1>. HIDE DEF t
  <1>6. \/ Udplen(o, c, p) = p
        \/ c.udp /\ at = 0 /\ Udplen(o, c, p) = [p EXCEPT !.dgrams = Append(u, s)]
        \/ c.udp /\ at # 0 /\ Udplen(o, c, p) = [p EXCEPT !.dgrams = v]
    BY <1>3 DEF Udplen, data, t
  <1>. QED BY <1>4, <1>5, <1>6, Zenon

LEMMA Firsts == ASSUME NEW S, NEW s \in Seq(S), s # <<>> PROVE s[1] \in S /\ Len(s) \in Nat /\ Len(s) >= 1 /\ 1 \in DOMAIN s
  OBVIOUS
LEMMA IdxEmpty ==
    ASSUME NEW c \in Context, NEW T, NEW cut \in BOOLEAN, NEW segs \in UnitSeq(T), Good(c, DataOf(segs), cut)
    PROVE  \/ SegDataIdx(segs) = <<>> /\ DataOf(segs) = <<>> /\ cut = FALSE
           \/ /\ SegDataIdx(segs) # <<>> /\ DataOf(segs) # <<>>
              /\ \E F, n, p, b : Form(c, F) /\ Tiling(DataOf(segs), n, F, p, b) /\ Divided(c, F, n, b, cut)
  <1>1. CASE DataOf(segs) = <<>> /\ ~cut
    <2>1. DataAt(segs) = {}
      BY <1>1, NoData
    <2>2. SegDataIdx(segs) = <<>>
      <3>. DEFINE key == [i \in {} |-> segs[i].off]
      <3>1. Enumerates({}, key, 0, <<>>)
        BY DEF Enumerates
      <3>2. Sorted({}, key) = <<>>
        BY <3>1, SortedOf, Zenon
      <3>. QED BY <2>1, <3>2 DEF SegDataIdx
    <2>. QED BY <1>1, <2>2
  <1>2. ASSUME NEW F, NEW n, NEW p, NEW b, Form(c, F), Tiling(DataOf(segs), n, F, p, b), Divided(c, F, n, b, cut)
        PROVE  SegDataIdx(segs) # <<>> /\ DataOf(segs) # <<>>
    <2>0. F \in Bytes
      BY <1>2 DEF Form
    <2>1. Spanned(segs, SegDataIdx(segs), n, F, b)
      BY <1>2, <2>0, SpansIs, Zenon
    <2>. QED BY <1>2, <2>1, TilingSome DEF Spanned
  <1>. QED BY <1>1, <1>2 DEF Good

LEMMA TamperLawful ==
    ASSUME NEW c \in Context, NEW T, NEW cut \in BOOLEAN, NEW blk, NEW p, Lawful(c, T, cut, blk, p), NEW o \in Operation
    PROVE  Lawful(c, T, cut, blk, Tamper(o, c, p))
  <1>. DEFINE segs == p.segs
              whole == TamperHost(o, c, Payload(c))
              new == TamperHost(o, c, SegJoinData(segs))
              same == [off \in 0 .. c.len |-> off]
              s == SegDataSeg(whole, 0, o)
              r == SegRewriteData(segs, new, same)
  <1>1. segs \in UnitSeq(T) /\ Good(c, DataOf(segs), cut) /\ c.len \in Nat /\ o.ipid \in IpIds
    BY LawfulFields, ContextFacts DEF Operation
  <1>. HIDE DEF segs
  <1>2. CASE SegDataIdx(segs) = <<>>
    <2>1. DataOf(segs) = <<>> /\ cut = FALSE
      BY <1>1, <1>2, IdxEmpty
    <2>2. ASSUME LengthAllowed(c, c.len, Len(whole))
          PROVE  Lawful(c, T, FALSE, blk, Planned(p, <<s>>))
      <3>1. Form(c, Payload(c)) /\ Len(Payload(c)) = c.len
        BY PayloadForm, ContextFacts
      <3>2. Form(c, whole)
        BY <2>2, <3>1, TamperForm DEF LengthAllowed
      <3>. HIDE DEF whole
      <3>3. s \in DataUnits(T) /\ Good(c, <<s>>, FALSE)
        BY <1>1, <3>2, WholeGood
      <3>. HIDE DEF s
      <3>4. Holds(T, <<s>>, <<s>>) /\ <<s>> # <<>>
        BY <3>3, HoldsOne
      <3>5. Ready(c, T, p)
        BY <2>1, TakenOver DEF segs
      <3>. QED BY <3>3, <3>4, <3>5, PlannedIs, Zenon
    <2>3. Tamper(o, c, p) = p \/ (LengthAllowed(c, c.len, Len(whole)) /\ Tamper(o, c, p) = Planned(p, <<s>>))
      BY <1>2 DEF Tamper, segs
    <2>. QED BY <2>1, <2>2, <2>3
  <1>3. CASE SegDataIdx(segs) # <<>>
    <2>1. PICK F, n, q, b : Form(c, F) /\ Tiling(DataOf(segs), n, F, q, b) /\ Divided(c, F, n, b, cut)
      BY <1>1, <1>3, IdxEmpty
    <2>2. F \in Bytes /\ Len(F) \in Nat
      BY <2>1 DEF Form, Bytes
    <2>3. SegJoinData(segs) = F /\ (SegSpans(segs, c.len) <=> c.len = Len(F))
      <3>1. SegJoinData(segs) = F
        BY <1>1, <2>1, <2>2, JoinIs, Zenon
      <3>2. Spanned(segs, SegDataIdx(segs), n, F, b)
        BY <1>1, <2>1, <2>2, SpansIs, Zenon
      <3>. QED BY <1>1, <3>1, <3>2 DEF Spanned
    <2>4. ASSUME SegSpans(segs, c.len), Len(new) = c.len
          PROVE  Lawful(c, T, cut, blk, [p EXCEPT !.segs = r])
      <3>1. Len(F) = c.len /\ new = TamperHost(o, c, F)
        BY <2>3, <2>4
      <3>2. Form(c, new) /\ \A i \in 1 .. Len(F) : new[i] % Touched = F[i] % Touched
        BY <2>1, <2>4, <3>1, TamperForm
      <3>. HIDE DEF new
      <3>3. Moves(same, Len(F), Len(new))
        BY <1>1, <2>4, <3>1 DEF Moves
      <3>4. \A x \in 0 .. Len(F) : NameAt(c, F, x) => NameAt(c, new, same[x])
        BY <2>4, <3>1, <3>2 DEF NameAt
      <3>. HIDE DEF same
      <3>5. SegsLawful(c, T, cut, r) /\ r # <<>>
        BY <1>1, <2>1, <3>2, <3>3, <3>4, RewriteGood, Zenon
      <3>. HIDE DEF r
      <3>. QED BY <3>5, WithSegs, Zenon
    <2>5. Tamper(o, c, p) = p \/ (SegSpans(segs, c.len) /\ Len(new) = c.len /\ Tamper(o, c, p) = [p EXCEPT !.segs = r])
      BY <1>3 DEF Tamper, segs
    <2>. QED BY <2>4, <2>5, Zenon
  <1>. QED BY <1>2, <1>3

LEMMA FindSplitInt ==
    ASSUME NEW c \in Context, NEW s \in [m: Markers, off: Int] PROVE FindSplitPos(c, s) \in 0 .. c.len
  <1>1. c.len \in Nat /\ c.host \in Nat /\ c.hostLen \in Nat /\ c.sld \in Nat /\ c.sldLen \in Nat /\ c.sni \in Nat
    BY ContextFacts
  <1>2. \A x \in Int : Clamp(x, c.len) \in 0 .. c.len
    BY <1>1 DEF Clamp
  <1>3. s.m \in Markers /\ s.off \in Int
    OBVIOUS
  <1>4. s.m # "abs" => Anchor(c, s.m) \in Int
    BY <1>1, <1>3 DEF Anchor, Markers
  <1>. QED BY <1>1, <1>2, <1>3, <1>4 DEF FindSplitPos

LEMMA ShiftName ==
    ASSUME NEW c \in Context, NEW pos \in Nat, 0 < pos, pos < c.len, NEW x \in 0 .. c.len, NameAt(c, Payload(c), x)
    PROVE  NameAt(c, Recorded(c, pos), IF x < pos THEN x ELSE x + 1)
  <1>. DEFINE F == Payload(c)
              R == Recorded(c, pos)
              y == IF x < pos THEN x ELSE x + 1
              n == c.len
              lo == c.sld + 1
              hi == c.sld + c.sldLen
  <1>1. n \in Nat /\ Len(F) = n /\ (\A i \in 1 .. n : F[i] = i) /\ c.sld \in Nat /\ c.sldLen \in Nat /\ hi <= n
    BY ContextFacts
  <1>2. Len(R) = n + 1 /\ \A i \in 1 .. n + 1 : R[i] = IF i <= pos THEN i ELSE IF i = pos + 1 THEN Header ELSE i - 1
    BY RecordForm
  <1>3. /\ c.sldLen >= 2
        /\ \A i \in 1 .. n : IF i <= x THEN F[i] % Touched # hi ELSE F[i] % Touched # lo
    BY <1>1 DEF NameAt
  <1>4. Touched \in Nat /\ Touched > 2 /\ Header % Touched = Touched - 2 /\ n < Touched - 2
    BY TouchedFacts, ContextFacts
  <1>5. \A i \in 1 .. n : i % Touched = i
    BY <1>1, OwnPlaces
  <1>6. \A i \in 1 .. n : IF i <= x THEN i # hi ELSE i # lo
    BY <1>1, <1>3, <1>5
  <1>. HIDE DEF F, R
  <1>7. ASSUME NEW i \in 1 .. n + 1
        PROVE  IF i <= y THEN R[i] % Touched # hi ELSE R[i] % Touched # lo
    <2>1. CASE i <= pos
      <3>1. R[i] % Touched = i /\ i \in 1 .. n
        BY <1>1, <1>2, <1>5, <2>1
      <3>. QED BY <1>1, <1>6, <2>1, <3>1
    <2>2. CASE i = pos + 1
      <3>1. R[i] % Touched = Touched - 2
        BY <1>1, <1>2, <1>4, <2>2
      <3>. QED BY <1>1, <1>3, <1>4, <3>1
    <2>3. CASE i > pos + 1
      <3>1. R[i] % Touched = i - 1 /\ i - 1 \in 1 .. n
        BY <1>1, <1>2, <1>5, <2>3
      <3>. QED BY <1>1, <1>6, <2>3, <3>1
    <2>. QED BY <1>1, <2>1, <2>2, <2>3
  <1>8. y \in 0 .. n + 1
    BY <1>1
  <1>. HIDE DEF y
  <1>9. NameAt(c, R, y)
    BY <1>2, <1>3, <1>7, <1>8 DEF NameAt
  <1>. QED BY <1>9 DEF R, y

LEMMA TlsrecLawful ==
    ASSUME NEW c \in Context, NEW T, NEW cut \in BOOLEAN, NEW blk, NEW p, Lawful(c, T, cut, blk, p), NEW o \in Operation
    PROVE  Lawful(c, T, cut, blk, Tlsrec(o, c, p))
  <1>. DEFINE segs == p.segs
              pos == FindSplitPos(c, IF o.pos = <<>> THEN [m |-> "sniext", off |-> 1] ELSE o.pos[1])
              whole == Cut(Payload(c), 0, pos) \o <<Header>> \o Cut(Payload(c), pos, c.len)
              shifted == [off \in 0 .. c.len |-> IF off < pos THEN off ELSE off + 1]
              s == SegDataSeg(whole, 0, o)
              r == SegRewriteData(segs, whole, shifted)
              allowed == ~(pos <= 0 \/ pos >= c.len \/ ~c.tls \/ ~LengthAllowed(c, 0, 1))
  <1>1. segs \in UnitSeq(T) /\ Good(c, DataOf(segs), cut) /\ c.len \in Nat /\ o.ipid \in IpIds
    BY LawfulFields, ContextFacts DEF Operation
  <1>. HIDE DEF segs
  <1>2. pos \in Nat /\ pos <= c.len
    <2>. DEFINE mk == IF o.pos = <<>> THEN [m |-> "sniext", off |-> 1] ELSE o.pos[1]
    <2>1. mk \in [m: Markers, off: Int]
      <3>1. o.pos \in Seq([m: Markers, off: Int])
        BY DEF Operation
      <3>2. o.pos # <<>> => o.pos[1] \in [m: Markers, off: Int]
        BY <3>1, Firsts
      <3>3. [m |-> "sniext", off |-> 1] \in [m: Markers, off: Int]
        BY DEF Markers
      <3>. QED BY <3>2, <3>3
    <2>. HIDE DEF mk
    <2>2. FindSplitPos(c, mk) \in 0 .. c.len
      BY <2>1, FindSplitInt
    <2>. QED BY <1>1, <2>2 DEF mk
  <1>. HIDE DEF pos
  <1>3. allowed => 0 < pos /\ pos < c.len /\ "inject" \notin c.caps
    BY <1>1, <1>2 DEF LengthAllowed
  <1>4. allowed => Form(c, whole) /\ whole = Recorded(c, pos) /\ Len(whole) = c.len + 1
    BY <1>2, <1>3, RecordForm DEF Recorded
  <1>. HIDE DEF whole
  <1>5. CASE allowed /\ SegDataIdx(segs) = <<>>
    <2>1. DataOf(segs) = <<>> /\ cut = FALSE
      BY <1>1, <1>5, IdxEmpty
    <2>3. s \in DataUnits(T) /\ Good(c, <<s>>, FALSE)
      BY <1>1, <1>4, <1>5, WholeGood
    <2>. HIDE DEF s
    <2>4. Holds(T, <<s>>, <<s>>) /\ <<s>> # <<>>
      BY <2>3, HoldsOne
    <2>5. Ready(c, T, p)
      BY <2>1, TakenOver DEF segs
    <2>6. Lawful(c, T, FALSE, blk, Planned(p, <<s>>))
      BY <2>3, <2>4, <2>5, PlannedIs, Zenon
    <2>7. Tlsrec(o, c, p) = Planned(p, <<s>>)
      BY <1>5 DEF Tlsrec, segs, pos, whole, s
    <2>. QED BY <2>1, <2>6, <2>7
  <1>6. CASE allowed /\ SegDataIdx(segs) # <<>>
    <2>1. PICK F, n, q, b : Form(c, F) /\ Tiling(DataOf(segs), n, F, q, b) /\ Divided(c, F, n, b, cut)
      BY <1>1, <1>6, IdxEmpty
    <2>2. F \in Bytes /\ Len(F) \in Nat
      BY <2>1 DEF Form, Bytes
    <2>3. SegJoinData(segs) = F
      BY <1>1, <2>1, <2>2, JoinIs, Zenon
    <2>4. ASSUME SegJoinData(segs) = Payload(c)
          PROVE  Lawful(c, T, cut, blk, [p EXCEPT !.segs = r])
      <3>1. F = Payload(c) /\ Len(F) = c.len
        BY <2>3, <2>4, ContextFacts
      <3>3. Moves(shifted, Len(F), Len(whole))
        BY <1>1, <1>2, <1>3, <1>4, <1>6, <3>1 DEF Moves
      <3>4. ASSUME NEW x \in 0 .. Len(F), NameAt(c, F, x) PROVE NameAt(c, whole, shifted[x])
        <4>1. shifted[x] = IF x < pos THEN x ELSE x + 1
          BY <3>1
        <4>. QED BY <1>2, <1>3, <1>4, <1>6, <3>1, <3>4, <4>1, ShiftName
      <3>. HIDE DEF shifted
      <3>5. SegsLawful(c, T, cut, r) /\ r # <<>>
        BY <1>1, <1>4, <1>6, <2>1, <3>3, <3>4, RewriteGood, Zenon
      <3>. HIDE DEF r
      <3>. QED BY <3>5, WithSegs, Zenon
    <2>5. Tlsrec(o, c, p) = p \/ (SegJoinData(segs) = Payload(c) /\ Tlsrec(o, c, p) = [p EXCEPT !.segs = r])
      BY <1>6 DEF Tlsrec, segs, pos, whole, r, shifted
    <2>. QED BY <2>4, <2>5, Zenon
  <1>7. ~allowed => Tlsrec(o, c, p) = p
    BY DEF Tlsrec, pos
  <1>. QED BY <1>5, <1>6, <1>7

(***************************************************************************)
(* Operations that cut the payload.                                        *)
(***************************************************************************)
LEMMA Pairs ==
    ASSUME NEW S, NEW r \in S, NEW s \in S PROVE <<r>> \o <<s>> = <<r, s>> /\ <<r, s>> \in Seq(S) /\ <<r>> \in Seq(S)
  <1>1. <<r, s>> \in Seq(S) /\ <<r>> \in Seq(S) /\ <<s>> \in Seq(S)
    OBVIOUS
  <1>2. <<r>> \o <<s>> = <<r, s>>
    <2>. DEFINE x == <<r>> \o <<s>>
    <2>1. x \in Seq(S) /\ Len(x) = 2 /\ x[1] = r /\ x[2] = s
      OBVIOUS
    <2>2. <<r, s>> \in Seq(S) /\ Len(<<r, s>>) = 2 /\ <<r, s>>[1] = r /\ <<r, s>>[2] = s
      OBVIOUS
    <2>. HIDE DEF x
    <2>3. \A i \in 1 .. Len(x) : x[i] = <<r, s>>[i]
      BY <2>1, <2>2
    <2>4. x = <<r, s>>
      BY <2>1, <2>2, <2>3, SameSeq
    <2>. QED BY <2>4 DEF x
  <1>. QED BY <1>1, <1>2
LEMMA Elements ==
    ASSUME NEW S, NEW s \in Seq(S) PROVE DOMAIN s \subseteq Nat /\ \A i \in DOMAIN s : i >= 1 /\ i <= Len(s) /\ s[i] \in S
  OBVIOUS
LEMMA EmptyCat ==
    ASSUME NEW T
    PROVE  /\ \A x \in DataSeq(T) : <<>> \o x = x /\ x \o <<>> = x
           /\ \A r, s \in DataUnits(T) : <<r>> \o <<s>> = <<r, s>> /\ <<r, s>> \in DataSeq(T) /\ <<r>> \in DataSeq(T)
  <1>1. ASSUME NEW x \in DataSeq(T) PROVE <<>> \o x = x /\ x \o <<>> = x
    BY DEF DataSeq
  <1>2. ASSUME NEW r \in DataUnits(T), NEW s \in DataUnits(T)
        PROVE  <<r>> \o <<s>> = <<r, s>> /\ <<r, s>> \in DataSeq(T) /\ <<r>> \in DataSeq(T)
    BY Pairs DEF DataSeq
  <1>. QED BY <1>1, <1>2
LEMMA HoldsBefore ==
    ASSUME NEW T, NEW x, NEW y, NEW ds, Holds(T, x, <<>>), Holds(T, y, ds) PROVE Holds(T, x \o y, ds)
  <1>1. Holds(T, x \o y, <<>> \o ds) 
    BY HoldsJoin, Zenon
  <1>2. ds \in DataSeq(T)
    BY DEF Holds
  <1>. QED BY <1>1, <1>2, EmptyCat, Zenon
LEMMA HoldsAfter ==
    ASSUME NEW T, NEW x, NEW y, NEW ds, Holds(T, x, ds), Holds(T, y, <<>>) PROVE Holds(T, x \o y, ds)
  <1>1. Holds(T, x \o y, ds \o <<>>) 
    BY HoldsJoin, Zenon
  <1>2. ds \in DataSeq(T)
    BY DEF Holds
  <1>. QED BY <1>1, <1>2, EmptyCat, Zenon

(* A tiling in another order. *)
LEMMA Reordered ==
    ASSUME NEW T, NEW q \in DataSeq(T), NEW n, NEW F, NEW b, Tiling(q, n, F, Id(n), b), NEW e, Len(e) = n,
           NEW p \in [1 .. n -> 1 .. n], \A i \in 1 .. n : \E k \in 1 .. n : p[k] = i, \A k \in 1 .. n : e[p[k]] = q[k]
    PROVE  Tiling(e, n, F, p, b)
  <1>1. \A k \in 1 .. n : Id(n)[k] = k
    BY DEF Id
  <1>. QED BY <1>1 DEF Tiling

Name == [m |-> "midsld", off |-> 0]
(* An operation that is asked to cut the middle of the name. *)
Named(o, c) == Specs(o)[1] = Name /\ c.sld > 0 /\ c.sldLen >= 2
LEMMA MidName ==
    ASSUME NEW c \in Context, c.sld > 0, c.sldLen >= 2
    PROVE  FindSplitPos(c, Name) \in 1 .. c.len - 1 /\ NameAt(c, Payload(c), FindSplitPos(c, Name))
  <1>. DEFINE x == c.sld + c.sldLen \div 2
  <1>1. c.len \in Nat /\ c.sld \in Nat /\ c.sldLen \in Nat /\ c.sld + c.sldLen <= c.len
        /\ Len(Payload(c)) = c.len /\ \A i \in 1 .. c.len : Payload(c)[i] = i
    BY ContextFacts
  <1>2. \A k \in Nat : k >= 2 => k \div 2 >= 1 /\ k \div 2 < k /\ k \div 2 \in Nat
    OBVIOUS
  <1>3. c.sld + 1 <= x /\ x < c.sld + c.sldLen /\ x \in Nat
    BY <1>1, <1>2
  <1>4. FindSplitPos(c, Name) = Clamp(x + 0, c.len)
    BY DEF FindSplitPos, Name, Anchored, Anchor
  <1>. HIDE DEF x
  <1>5. FindSplitPos(c, Name) = x /\ x \in 1 .. c.len - 1
    BY <1>1, <1>3, <1>4 DEF Clamp
  <1>6. \A i \in 1 .. c.len : Payload(c)[i] % Touched = i
    BY <1>1, OwnPlaces
  <1>7. NameAt(c, Payload(c), x)
    BY <1>1, <1>3, <1>5, <1>6 DEF NameAt
  <1>. QED BY <1>5, <1>7

LEMMA SpecsSeq ==
    ASSUME NEW o \in Operation
    PROVE  Specs(o) \in Seq([m: Markers, off: Int]) /\ Specs(o) # <<>> /\ 1 \in DOMAIN Specs(o) /\ o.ipid \in IpIds
           /\ o.ovl \in Int /\ o.order \in Nat
  <1>1. o.pos \in Seq([m: Markers, off: Int]) /\ o.ipid \in IpIds /\ o.ovl \in Int /\ o.order \in Nat
    BY DEF Operation
  <1>2. Abs(2) \in [m: Markers, off: Int]
    BY DEF Abs, Markers
  <1>3. Specs(o) \in Seq([m: Markers, off: Int]) /\ Specs(o) # <<>>
    <2>. DEFINE R == [m: Markers, off: Int]
    <2>. HIDE DEF R
    <2>1. ASSUME NEW s \in R PROVE <<s>> \in Seq(R) /\ <<s>> # <<>>
      OBVIOUS
    <2>. QED BY <1>1, <1>2, <2>1 DEF Specs, R
  <1>. QED BY <1>1, <1>3, Firsts

(* Data that tile the payload are good; they divide the name where a bound does. *)
LEMMA TiledGood ==
    ASSUME NEW c \in Context, NEW ds, NEW n, NEW p, NEW b, Tiling(ds, n, Payload(c), p, b)
    PROVE  /\ Good(c, ds, FALSE)
           /\ c.sld > 0 /\ c.sldLen >= 2 /\ (\E k \in 0 .. n : b[k] = FindSplitPos(c, Name)) => Good(c, ds, TRUE)
  <1>1. Form(c, Payload(c))
    BY PayloadForm
  <1>2. Divided(c, Payload(c), n, b, FALSE)
    BY DEF Divided
  <1>3. ASSUME c.sld > 0, c.sldLen >= 2, NEW k \in 0 .. n, b[k] = FindSplitPos(c, Name)
        PROVE  Divided(c, Payload(c), n, b, TRUE)
    BY <1>3, MidName DEF Divided
  <1>. QED BY <1>1, <1>2, <1>3 DEF Good

(* Of the parts at the places of an operation, one bound is the middle of the name. *)
LEMMA MultiNamed ==
    ASSUME NEW c \in Context, NEW o \in Operation, Named(o, c)
    PROVE  LET pos == SegResolveMultiPos(c, Specs(o))
           IN  pos # <<>> /\ \E k \in 0 .. Len(pos) + 1 : BoundsOf(c, pos)[k] = FindSplitPos(c, Name)
  <1>. DEFINE pos == SegResolveMultiPos(c, Specs(o))
              x == FindSplitPos(c, Name)
  <1>1. x \in 1 .. c.len - 1 /\ Specs(o)[1] = Name /\ 1 \in DOMAIN Specs(o)
    BY MidName, SpecsSeq DEF Named
  <1>2. Positions(c, pos) /\ \E k \in 1 .. Len(pos) : pos[k] = x
    BY <1>1, MultiPos
  <1>. HIDE DEF pos, x
  <1>3. Len(pos) \in Nat /\ pos # <<>>
    BY <1>2 DEF Positions
  <1>4. PICK k \in 1 .. Len(pos) : pos[k] = x
    BY <1>2
  <1>5. k \in 0 .. Len(pos) + 1 /\ BoundsOf(c, pos)[k] = x
    BY <1>3, <1>4 DEF BoundsOf
  <1>. QED BY <1>3, <1>5 DEF pos, x

LEMMA SinglePos ==
    ASSUME NEW c \in Context, NEW o \in Operation
    PROVE  LET pos == SegResolveSinglePos(c, Specs(o))
           IN  /\ pos \in Nat /\ (pos # 0 => pos < c.len)
               /\ Named(o, c) => pos = FindSplitPos(c, Name) /\ pos # 0
  <1>. DEFINE specs == Specs(o)
              G(abs) == {i \in DOMAIN specs: (specs[i].m = "abs") = abs /\ FindSplitPos(c, specs[i]) # 0}
              Earliest(I) == FindSplitPos(c, specs[Min(I)])
              at == IF G(FALSE) # {} THEN Earliest(G(FALSE)) ELSE IF G(TRUE) # {} THEN Earliest(G(TRUE)) ELSE 1
  <1>1. specs \in Seq([m: Markers, off: Int]) /\ 1 \in DOMAIN specs /\ c.len \in Nat
    BY SpecsSeq, ContextFacts
  <1>2. DOMAIN specs \subseteq Nat /\ \A i \in DOMAIN specs : i >= 1 /\ FindSplitPos(c, specs[i]) \in 0 .. c.len
    <2>. DEFINE R == [m: Markers, off: Int]
    <2>. HIDE DEF R
    <2>1. DOMAIN specs \subseteq Nat /\ \A i \in DOMAIN specs : i >= 1 /\ specs[i] \in R
      BY <1>1, Elements DEF R
    <2>. QED BY <2>1, FindSplitInt DEF R
  <1>3. \A abs : G(abs) # {} => Min(G(abs)) \in G(abs) /\ \A k \in G(abs) : Min(G(abs)) <= k
    <2>1. ASSUME NEW I \in SUBSET Nat, I # {} PROVE Min(I) \in I /\ \A k \in I : Min(I) <= k
      <3>1. \E m \in I : \A k \in I : m <= k
        BY <2>1, Least
      <3>. QED BY <3>1 DEF Min
    <2>. QED BY <1>2, <2>1
  <1>4. at \in 0 .. c.len \/ at = 1
    BY <1>2, <1>3
  <1>5. SegResolveSinglePos(c, specs) = IF at >= c.len THEN 0 ELSE at
    BY DEF SegResolveSinglePos
  <1>6. ASSUME Named(o, c) PROVE at = FindSplitPos(c, Name) /\ at \in 1 .. c.len - 1
    <2>1. FindSplitPos(c, Name) \in 1 .. c.len - 1 /\ specs[1] = Name /\ Name.m # "abs"
      BY <1>6, MidName DEF Named, Name
    <2>2. 1 \in G(FALSE)
      BY <1>1, <2>1
    <2>3. Min(G(FALSE)) = 1
      <3>1. Min(G(FALSE)) \in DOMAIN specs /\ Min(G(FALSE)) <= 1
        BY <1>3, <2>2
      <3>. QED BY <1>2, <3>1
    <2>. QED BY <2>1, <2>2, <2>3
  <1>. HIDE DEF at
  <1>. QED BY <1>1, <1>4, <1>5, <1>6

LEMMA PlannedTiled ==
    ASSUME NEW c \in Context, NEW T, NEW blk, NEW p, Lawful(c, T, FALSE, blk, p),
           NEW q \in {SegTakeOverData(p), SegTakeOverAll(p)}, NEW s, NEW ds, Holds(T, s, ds),
           NEW n, NEW pm, NEW b, Tiling(ds, n, Payload(c), pm, b)
    PROVE  /\ Lawful(c, T, FALSE, blk, Planned(q, s))
           /\ c.sld > 0 /\ c.sldLen >= 2 /\ (\E k \in 0 .. n : b[k] = FindSplitPos(c, Name)) => Lawful(c, T, TRUE, blk, Planned(q, s))
  <1>1. Ready(c, T, q)
    BY TakenOver
  <1>2. ds # <<>>
    BY DEF Tiling
  <1>3. Good(c, ds, FALSE)
    BY TiledGood
  <1>4. Lawful(c, T, FALSE, blk, Planned(q, s))
    BY <1>1, <1>2, <1>3, PlannedIs, Zenon
  <1>5. ASSUME Good(c, ds, TRUE) PROVE Lawful(c, T, TRUE, blk, Planned(q, s))
    BY <1>1, <1>2, <1>5, PlannedIs, Zenon
  <1>. QED BY <1>4, <1>5, TiledGood

LEMMA MultiOverlapIs ==
    ASSUME NEW c, NEW o \in Operation, NEW pos \in Seq(Nat), NEW d \in BOOLEAN
    PROVE  LET ovl == MultiOverlap(c, o, pos, d)
           IN  ovl \in Nat /\ (d /\ ovl > 0 /\ pos # <<>> => ovl < pos[1]) /\ (o.ovl = 0 => ovl = 0)
  <1>1. o.ovl \in Int
    BY SpecsSeq
  <1>2. pos # <<>> => pos[1] \in Nat
    BY Firsts
  <1>3. pos # <<>> => (o.ovl >= pos[1] <=> ~(o.ovl < pos[1]))
    BY <1>1, <1>2
  <1>. QED BY <1>1, <1>3 DEF MultiOverlap

(* Parts without an overlap carry no filler. *)
LEMMA PartsFit ==
    ASSUME NEW c \in Context, NEW o \in Operation, NEW pos, Positions(c, pos), pos # <<>>, NEW target
    PROVE  ~TooLong(Parts(c, o, pos, 0, target))
  <1>. DEFINE n == Len(pos) + 1
              b == BoundsOf(c, pos)
              ends == EndsOf(c, pos)
              q == Parts(c, o, pos, 0, target)
  <1>1. n \in Nat /\ c.len \in Nat /\ Bounds(b, n, c.len) /\ \A k \in 0 .. n : ends[k + 1] = b[k]
    BY EndsIs
  <1>2. q = [i \in 1 .. n |-> SegDataSeg(Cut(Payload(c), ends[i], ends[i + 1]), ends[i], o)]
    BY DEF Parts, EndsOf
  <1>. HIDE DEF ends, b, n, q
  <1>3. ASSUME NEW i \in 1 .. n, q[i].data # <<>> PROVE q[i].data[1] # Fill
    <2>1. i \in 0 .. n /\ i - 1 \in 0 .. n /\ i - 1 < i
      BY <1>1
    <2>2. b[i - 1] \in 0 .. c.len /\ b[i] \in 0 .. c.len /\ (b[i - 1] < b[i] \/ c.len = 0)
      BY <1>1, <2>1 DEF Bounds
    <2>3. b[i] \in b[i - 1] .. c.len
      BY <1>1, <2>2
    <2>4. ends[i] = b[i - 1] /\ ends[i + 1] = b[i]
      <3>1. \A k \in 0 .. n : ends[k + 1] = b[k]
        BY <1>1
      <3>2. (i - 1) + 1 = i
        OBVIOUS
      <3>. QED BY <2>1, <3>1, <3>2
    <2>5. q[i] = SegDataSeg(Cut(Payload(c), b[i - 1], b[i]), b[i - 1], o)
      BY <1>2, <2>4
    <2>6. Piece({}, c, b[i - 1], b[i], 0, q[i])
      BY <2>2, <2>3, <2>5, SpecsSeq, PieceWhole
    <2>7. /\ q[i].off = b[i - 1] /\ Len(q[i].data) = b[i] - b[i - 1]
          /\ \A j \in 1 .. Len(q[i].data) : q[i].data[j] = IF q[i].off + j > b[i - 1] THEN Payload(c)[q[i].off + j] ELSE Fill
      BY <2>2, <2>6 DEF Piece, Tile
    <2>8. Len(q[i].data) >= 1
      <3>1. q[i].data \in Seq(Int)
        BY <2>6 DEF Piece, DataUnits, Unit
      <3>. QED BY <1>3, <3>1
    <2>9. q[i].data[1] = Payload(c)[b[i - 1] + 1]
      BY <2>2, <2>7, <2>8
    <2>10. b[i - 1] + 1 \in 1 .. c.len
      BY <2>2, <2>7, <2>8, <1>1, SMTT(30)
    <2>11. Payload(c)[b[i - 1] + 1] = b[i - 1] + 1
      BY <2>10, ContextFacts
    <2>. QED BY <2>2, <2>9, <2>11 DEF Fill
  <1>4. DOMAIN q = 1 .. n
    BY <1>2
  <1>. QED BY <1>3, <1>4 DEF TooLong, q

LEMMA MultisplitLawful ==
    ASSUME NEW c \in Context, NEW T, NEW blk, NEW p, Lawful(c, T, FALSE, blk, p), NEW o \in Operation
    PROVE  /\ Lawful(c, T, FALSE, blk, Multisplit(o, c, p))
           /\ Named(o, c) /\ o.ovl = 0 => Lawful(c, T, TRUE, blk, Multisplit(o, c, p))
  <1>. DEFINE pos == SegResolveMultiPos(c, Specs(o))
              ovl == MultiOverlap(c, o, pos, FALSE)
              segs == Parts(c, o, pos, ovl, 1)
              n == Len(pos) + 1
              b == BoundsOf(c, pos)
  <1>1. Positions(c, pos) /\ o.ipid \in IpIds
    BY MultiPos, SpecsSeq
  <1>2. Named(o, c) => pos # <<>> /\ c.sld > 0 /\ c.sldLen >= 2 /\ \E k \in 0 .. n : b[k] = FindSplitPos(c, Name)
    BY MultiNamed DEF Named
  <1>3. Multisplit(o, c, p) = IF pos = <<>> \/ TooLong(segs) THEN p ELSE Planned(SegTakeOverData(p), segs)
    BY DEF Multisplit
  <1>. HIDE DEF pos
  <1>4. ovl \in Nat /\ (o.ovl = 0 => ovl = 0)
    BY <1>1, MultiOverlapIs DEF Positions
  <1>5. o.ovl = 0 /\ pos # <<>> => ~TooLong(segs)
    BY <1>1, <1>4, PartsFit
  <1>. HIDE DEF ovl, b
  <1>6. ASSUME pos # <<>>
        PROVE  /\ Lawful(c, T, FALSE, blk, Planned(SegTakeOverData(p), segs))
               /\ Named(o, c) => Lawful(c, T, TRUE, blk, Planned(SegTakeOverData(p), segs))
    <2>1. Parted(c, T, segs, pos)
      BY <1>1, <1>4, <1>6, PartsIs
    <2>. HIDE DEF segs
    <2>2. Holds(T, segs, segs) /\ Tiling(segs, n, Payload(c), Id(n), b)
      BY <2>1, HoldsData DEF Parted, b
    <2>. HIDE DEF n
    <2>. QED BY <1>2, <2>2, PlannedTiled
  <1>. QED BY <1>2, <1>3, <1>5, <1>6

LEMMA Reversed ==
    ASSUME NEW T, NEW q \in DataSeq(T), NEW n, NEW F, NEW b, Tiling(q, n, F, Id(n), b)
    PROVE  Reverse(q) \in DataSeq(T) /\ Tiling(Reverse(q), n, F, [k \in 1 .. n |-> n + 1 - k], b)
  <1>. DEFINE e == Reverse(q)
              p == [k \in 1 .. n |-> n + 1 - k]
  <1>1. n \in Nat /\ Len(q) = n
    BY DEF Tiling
  <1>2. e \in DataSeq(T) /\ Len(e) = n /\ \A i \in 1 .. n : e[i] = q[n - i + 1]
    <2>1. q \in Seq(DataUnits(T))
      BY DEF DataSeq
    <2>2. e = [i \in 1 .. n |-> q[n - i + 1]]
      BY <1>1 DEF Reverse
    <2>3. \A i \in 1 .. n : q[n - i + 1] \in DataUnits(T)
      BY <1>1, <2>1
    <2>. QED BY <1>1, <2>2, <2>3 DEF DataSeq
  <1>. HIDE DEF e
  <1>3. p \in [1 .. n -> 1 .. n]
    BY <1>1
  <1>4. ASSUME NEW i \in 1 .. n PROVE \E k \in 1 .. n : p[k] = i
    <2>1. n + 1 - i \in 1 .. n /\ p[n + 1 - i] = i
      BY <1>1
    <2>. QED BY <2>1
  <1>5. ASSUME NEW k \in 1 .. n PROVE e[p[k]] = q[k]
    <2>1. p[k] = n + 1 - k /\ n + 1 - k \in 1 .. n /\ n - (n + 1 - k) + 1 = k
      BY <1>1
    <2>. QED BY <1>2, <2>1
  <1>. HIDE DEF p
  <1>6. Tiling(e, n, F, p, b)
    BY <1>2, <1>3, <1>4, <1>5, Reordered
  <1>. QED BY <1>2, <1>6 DEF e, p

LEMMA MultidisorderLawful ==
    ASSUME NEW c \in Context, NEW T, NEW blk, NEW p, Lawful(c, T, FALSE, blk, p), NEW o \in Operation
    PROVE  /\ Lawful(c, T, FALSE, blk, Multidisorder(o, c, p))
           /\ Named(o, c) /\ o.ovl = 0 => Lawful(c, T, TRUE, blk, Multidisorder(o, c, p))
  <1>. DEFINE pos == SegResolveMultiPos(c, Specs(o))
              ovl == MultiOverlap(c, o, pos, TRUE)
              segs == Parts(c, o, pos, ovl, 2)
              n == Len(pos) + 1
              b == BoundsOf(c, pos)
  <1>1. Positions(c, pos) /\ o.ipid \in IpIds
    BY MultiPos, SpecsSeq
  <1>2. Named(o, c) => pos # <<>> /\ c.sld > 0 /\ c.sldLen >= 2 /\ \E k \in 0 .. n : b[k] = FindSplitPos(c, Name)
    BY MultiNamed DEF Named
  <1>3. Multidisorder(o, c, p) = IF pos = <<>> \/ TooLong(segs) THEN p ELSE Planned(SegTakeOverData(p), Reverse(segs))
    BY DEF Multidisorder
  <1>. HIDE DEF pos
  <1>4. ovl \in Nat /\ (o.ovl = 0 => ovl = 0) /\ (ovl > 0 /\ pos # <<>> => ovl < pos[1])
    BY <1>1, MultiOverlapIs DEF Positions
  <1>5. o.ovl = 0 /\ pos # <<>> => ~TooLong(segs)
    BY <1>1, <1>4, PartsFit
  <1>. HIDE DEF ovl, b
  <1>6. ASSUME pos # <<>>
        PROVE  /\ Lawful(c, T, FALSE, blk, Planned(SegTakeOverData(p), Reverse(segs)))
               /\ Named(o, c) => Lawful(c, T, TRUE, blk, Planned(SegTakeOverData(p), Reverse(segs)))
    <2>1. Parted(c, T, segs, pos)
      BY <1>1, <1>4, <1>6, PartsIs
    <2>. HIDE DEF segs
    <2>2. segs \in DataSeq(T) /\ Tiling(segs, n, Payload(c), Id(n), b)
      BY <2>1 DEF Parted, b
    <2>. HIDE DEF n
    <2>3. Reverse(segs) \in DataSeq(T) /\ Tiling(Reverse(segs), n, Payload(c), [k \in 1 .. n |-> n + 1 - k], b)
      BY <2>2, Reversed
    <2>. DEFINE pm == [k \in 1 .. n |-> n + 1 - k]
    <2>. HIDE DEF pm
    <2>4. Holds(T, Reverse(segs), Reverse(segs)) /\ Tiling(Reverse(segs), n, Payload(c), pm, b)
      BY <2>3, HoldsData DEF pm
    <2>. QED BY <1>2, <2>4, PlannedTiled
  <1>. QED BY <1>2, <1>3, <1>5, <1>6

LEMMA MultidisorderDegradeLawful ==
    ASSUME NEW c \in Context, NEW T, NEW blk, NEW p, Lawful(c, T, FALSE, blk, p), NEW o \in Operation
    PROVE  Lawful(c, T, FALSE, blk, MultidisorderDegrade(o, c, p))
  <1>. DEFINE pos == SegResolveMultiPos(c, Specs(o))
              segs == Parts(c, o, pos, 0, 2)
              low == [segs EXCEPT ![1].ttl = 1]
  <1>1. Positions(c, pos) /\ o.ipid \in IpIds
    BY MultiPos, SpecsSeq
  <1>2. MultidisorderDegrade(o, c, p) = IF pos = <<>> THEN p ELSE Planned(SegTakeOverAll(p), low)
    BY DEF MultidisorderDegrade
  <1>. HIDE DEF pos
  <1>3. ASSUME pos # <<>> PROVE Lawful(c, T, FALSE, blk, Planned(SegTakeOverAll(p), low))
    <2>1. Parted(c, T, segs, pos)
      BY <1>1, <1>3, PartsIs
    <2>. HIDE DEF segs
    <2>2. segs \in DataSeq(T) /\ segs # <<>> /\ Good(c, segs, FALSE)
      BY <2>1, TiledGood DEF Parted
    <2>3. segs \in Seq(DataUnits(T))
      BY <2>2 DEF DataSeq
    <2>4. segs[1] \in DataUnits(T) /\ Len(segs) \in Nat /\ Len(segs) >= 1
      BY <2>2, <2>3, Firsts
    <2>. DEFINE t == [segs[1] EXCEPT !.ttl = 1]
    <2>5. t \in DataUnits(T) /\ t.data = segs[1].data /\ t.off = segs[1].off
      BY <2>4 DEF DataUnits, Unit, IsData, IsDecoy
    <2>6. low = [segs EXCEPT ![1] = t]
      OBVIOUS
    <2>. HIDE DEF t, low
    <2>7. /\ low \in DataSeq(T) /\ Len(low) = Len(segs) /\ low # <<>>
          /\ \A k \in 1 .. Len(segs) : low[k].data = segs[k].data /\ low[k].off = segs[k].off
      BY <2>3, <2>4, <2>5, <2>6 DEF DataSeq
    <2>8. Good(c, low, FALSE)
      BY <2>2, <2>7, AlikeGood, Zenon DEF Alike
    <2>9. Ready(c, T, SegTakeOverAll(p)) /\ Holds(T, low, low)
      BY <2>7, TakenOver, HoldsData
    <2>. QED BY <2>7, <2>8, <2>9, PlannedIs, Zenon
  <1>. QED BY <1>2, <1>3

(* One part, and two parts in either order. *)
LEMMA OneTile ==
    ASSUME NEW T, NEW c \in Context, NEW ovl, NEW r, Piece(T, c, 0, c.len, ovl, r)
    PROVE  Tiling(<<r>>, 1, Payload(c), Id(1), [k \in 0 .. 1 |-> IF k = 0 THEN 0 ELSE c.len])
  <1>. DEFINE b == [k \in 0 .. 1 |-> IF k = 0 THEN 0 ELSE c.len]
  <1>1. c.len \in Nat /\ Len(Payload(c)) = c.len
    BY ContextFacts
  <1>2. Bounds(b, 1, c.len) /\ b[0] = 0 /\ b[1] = c.len
    BY <1>1 DEF Bounds
  <1>. HIDE DEF b
  <1>3. Id(1) \in [1 .. 1 -> 1 .. 1] /\ Id(1)[1] = 1
    BY DEF Id
  <1>4. Tile(r, Payload(c), 0, c.len)
    BY DEF Piece
  <1>5. Len(<<r>>) = 1 /\ <<r>>[1] = r /\ \A k \in 1 .. 1 : k = 1
    OBVIOUS
  <1>6. \A k \in 1 .. 1 : Tile(<<r>>[Id(1)[k]], Payload(c), b[k - 1], b[k])
    BY <1>2, <1>3, <1>4, <1>5
  <1>7. Tiling(<<r>>, 1, Payload(c), Id(1), b)
    BY <1>1, <1>2, <1>3, <1>5, <1>6 DEF Tiling
  <1>. QED BY <1>7 DEF b

Swap == [k \in 1 .. 2 |-> 3 - k]
LEMMA TwoTiles ==
    ASSUME NEW T, NEW c \in Context, NEW pos \in Nat, 0 < pos, pos < c.len, NEW u \in Nat, NEW v \in Nat, v < pos,
           NEW r, NEW s, Piece(T, c, 0, pos, u, r), Piece(T, c, pos, c.len, v, s)
    PROVE  /\ Tiling(<<r, s>>, 2, Payload(c), Id(2), BoundsOf(c, <<pos>>))
           /\ Tiling(<<s, r>>, 2, Payload(c), Swap, BoundsOf(c, <<pos>>))
           /\ \E k \in 0 .. 2 : BoundsOf(c, <<pos>>)[k] = pos
  <1>. DEFINE b == BoundsOf(c, <<pos>>)
  <1>1. c.len \in Nat /\ Len(Payload(c)) = c.len
    BY ContextFacts
  <1>2. Positions(c, <<pos>>) /\ Len(<<pos>>) = 1 /\ <<pos>> # <<>> /\ <<pos>>[1] = pos
    BY DEF Positions
  <1>3. Bounds(b, 2, c.len)
    <2>1. Bounds(b, Len(<<pos>>) + 1, c.len)
      BY <1>2, EndsIs, Zenon
    <2>2. Len(<<pos>>) + 1 = 2
      BY <1>2
    <2>. QED BY <2>1, <2>2
  <1>4. b[0] = 0 /\ b[1] = pos /\ b[2] = c.len
    BY <1>2 DEF BoundsOf
  <1>. HIDE DEF b
  <1>5. Tile(r, Payload(c), 0, pos) /\ Tile(s, Payload(c), pos, c.len) /\ s.off = pos - v
    BY DEF Piece
  <1>6. Id(2) \in [1 .. 2 -> 1 .. 2] /\ Id(2)[1] = 1 /\ Id(2)[2] = 2
        /\ Swap \in [1 .. 2 -> 1 .. 2] /\ Swap[1] = 2 /\ Swap[2] = 1
    BY DEF Id, Swap
  <1>7. \A k \in 1 .. 2 : k = 1 \/ k = 2
    OBVIOUS
  <1>8. 0 < s.off
    BY <1>5
  <1>9. ASSUME NEW q, NEW p \in [1 .. 2 -> 1 .. 2], Len(q) = 2, q[p[1]] = r, q[p[2]] = s, \A i \in 1 .. 2 : \E k \in 1 .. 2 : p[k] = i
        PROVE  Tiling(q, 2, Payload(c), p, b)
    <2>1. \A k \in 1 .. 2 : Tile(q[p[k]], Payload(c), b[k - 1], b[k]) /\ (k > 1 => b[k - 2] < q[p[k]].off)
      BY <1>4, <1>5, <1>7, <1>8, <1>9
    <2>. QED BY <1>1, <1>3, <1>9, <2>1 DEF Tiling
  <1>10. Len(<<r, s>>) = 2 /\ <<r, s>>[1] = r /\ <<r, s>>[2] = s /\ Len(<<s, r>>) = 2 /\ <<s, r>>[1] = s /\ <<s, r>>[2] = r
    OBVIOUS
  <1>11. Tiling(<<r, s>>, 2, Payload(c), Id(2), b)
    BY <1>6, <1>7, <1>9, <1>10
  <1>12. Tiling(<<s, r>>, 2, Payload(c), Swap, b)
    BY <1>6, <1>7, <1>9, <1>10
  <1>. QED BY <1>4, <1>11, <1>12 DEF b

(* Decoys around two parts. *)
LEMMA HoldsFaked ==
    ASSUME NEW T, NEW f \in Unit(T), NEW g \in Unit(T), ~IsData(f), ~IsData(g), NEW r \in DataUnits(T), NEW s \in DataUnits(T),
           NEW A \in BOOLEAN, NEW B \in BOOLEAN, NEW D \in BOOLEAN, NEW E \in BOOLEAN
    PROVE  Holds(T, When(A, <<f>>) \o <<r>> \o When(B, <<f>>) \o When(D, <<g, s>> \o When(E, <<g>>)), IF D THEN <<r, s>> ELSE <<r>>)
  <1>1. Holds(T, <<f>>, <<>>) /\ Holds(T, <<g>>, <<>>) /\ Holds(T, <<r>>, <<r>>) /\ Holds(T, <<s>>, <<s>>)
    BY HoldsFake, HoldsOne
  <1>2. Holds(T, When(A, <<f>>) \o <<r>>, <<r>>)
    BY <1>1, HoldsWhen, HoldsBefore
  <1>3. Holds(T, When(A, <<f>>) \o <<r>> \o When(B, <<f>>), <<r>>)
    BY <1>1, <1>2, HoldsWhen, HoldsAfter
  <1>4. <<g, s>> = <<g>> \o <<s>>
    BY Pairs DEF DataUnits
  <1>5. Holds(T, <<g, s>> \o When(E, <<g>>), <<s>>)
    <2>1. Holds(T, <<g>> \o <<s>>, <<s>>)
      BY <1>1, HoldsBefore
    <2>. QED BY <1>1, <1>4, <2>1, HoldsWhen, HoldsAfter
  <1>. DEFINE x == When(A, <<f>>) \o <<r>> \o When(B, <<f>>)
              y == <<g, s>> \o When(E, <<g>>)
  <1>. HIDE DEF x, y
  <1>6. Holds(T, x, <<r>>) /\ Holds(T, y, <<s>>)
    BY <1>3, <1>5 DEF x, y
  <1>7. CASE D
    <2>1. Holds(T, x \o y, <<r>> \o <<s>>) /\ <<r>> \o <<s>> = <<r, s>>
      BY <1>6, HoldsJoin, EmptyCat
    <2>2. When(D, y) = y
      BY <1>7 DEF When
    <2>. QED BY <1>7, <2>1, <2>2 DEF x, y
  <1>8. CASE ~D
    <2>1. Holds(T, x \o <<>>, <<r>>)
      BY <1>6, HoldsEmpty, HoldsAfter
    <2>2. When(D, y) = <<>>
      BY <1>8 DEF When
    <2>. QED BY <1>8, <2>1, <2>2 DEF x, y
  <1>. QED BY <1>7, <1>8

(* The data taken out and the payload as it is put in. *)
LEMMA WholeAgain ==
    ASSUME NEW c \in Context, c.len > 0, NEW T, NEW blk, NEW p, Lawful(c, T, FALSE, blk, p)
    PROVE  Lawful(c, T, FALSE, blk, InjEnsureDataSeg(c, SegTakeOverData(p)))
  <1>. DEFINE k == SegTakeOverData(p)
              x == Chosen(p.segs, DOMAIN p.segs \ DataAt(p.segs))
  <1>1. p \in PlanOf(T) /\ p.segs \in UnitSeq(T)
    BY LawfulFields
  <1>2. k = SetSegs(p, x)
    BY DEF SegTakeOverData, SetSegs
  <1>3. x \in UnitSeq(T) /\ DataOf(x) = <<>>
    BY <1>1, HoldsKept DEF Holds
  <1>. HIDE DEF k, x
  <1>4. SegsLawful(c, T, FALSE, EnsureData(x, c)) /\ EnsureData(x, c) # <<>>
    BY <1>3, EnsuredSegs DEF Good
  <1>5. Lawful(c, T, FALSE, blk, SetSegs(p, EnsureData(x, c)))
    BY <1>4, WithSegs, Zenon DEF SetSegs
  <1>6. InjEnsureDataSeg(c, k) = SetSegs(p, EnsureData(x, c))
    BY <1>1, <1>2, <1>3, EnsureTwice
  <1>. QED BY <1>5, <1>6 DEF k

LEMMA FakedsplitLawful ==
    ASSUME NEW c \in Context, NEW T, NEW blk, NEW p, Lawful(c, T, FALSE, blk, p), NEW o \in Operation, o.ttl \in T
    PROVE  /\ Lawful(c, T, FALSE, blk, Fakedsplit(o, c, p))
           /\ Named(o, c) /\ o.ovl = 0 /\ c.len <= MaxFake => Lawful(c, T, TRUE, blk, Fakedsplit(o, c, p))
  <1>. DEFINE at == SegResolveSinglePos(c, Specs(o))
              order == SegSplitOrder(o, at # 0)
              pos == IF at = 0 THEN c.len ELSE at
              ovl == IF o.ovl < 0 \/ pos >= c.len \/ "seq" \notin c.caps THEN 0 ELSE o.ovl
              f1 == SegFakeSeg(Decoys(pos), 0, o)
              f2 == SegFakeSeg(Decoys(c.len - pos), pos, o)
              r1 == SegDataSeg(Filler(ovl) \o Cut(Payload(c), 0, pos), -ovl, o)
              r2 == SegDataSeg(Cut(Payload(c), pos, c.len), pos, o)
              kept == SegTakeOverData(p)
              s == When(order = 0, <<f1>>) \o <<r1>> \o When(order <= 1, <<f1>>)
                           \o When(pos < c.len, <<f2, r2>> \o When(order <= 2, <<f2>>))
              long == ovl > 0 /\ ovl + pos > MaxSeg
  <1>1. Fakedsplit(o, c, p) = IF c.len > MaxFake THEN p ELSE IF long THEN InjEnsureDataSeg(c, kept) ELSE Planned(kept, s)
    BY DEF Fakedsplit
  <1>2. c.len \in Nat /\ o.ovl \in Int /\ o.ipid \in IpIds /\ MaxFake \in Nat
    BY ContextFacts, SpecsSeq
  <1>3. at \in Nat /\ (at # 0 => at < c.len) /\ (Named(o, c) => at = FindSplitPos(c, Name) /\ at # 0)
    BY SinglePos
  <1>. HIDE DEF at, order
  <1>4. pos \in Nat /\ pos <= c.len /\ (pos < c.len => 0 < pos) /\ (Named(o, c) => pos = FindSplitPos(c, Name) /\ pos < c.len)
    BY <1>2, <1>3
  <1>. HIDE DEF pos
  <1>5. ovl \in Nat /\ (o.ovl = 0 => ovl = 0) /\ (ovl > 0 => c.len > 0)
    BY <1>2, <1>4
  <1>. HIDE DEF ovl
  <1>6. f1 \in Unit(T) /\ ~IsData(f1) /\ f2 \in Unit(T) /\ ~IsData(f2)
    <2>1. pos \in Nat /\ c.len - pos \in Nat /\ 0 \in Int /\ pos \in Int
      BY <1>2, <1>4
    <2>. QED BY <2>1, FakeSeg
  <1>7. Piece(T, c, 0, pos, ovl, r1)
    <2>1. 0 \in 0 .. c.len /\ pos \in 0 .. c.len /\ -ovl = 0 - ovl
      BY <1>2, <1>4, <1>5
    <2>. QED BY <1>2, <1>5, <2>1, PieceFilled
  <1>8. Piece(T, c, pos, c.len, 0, r2)
    <2>1. pos \in 0 .. c.len /\ c.len \in pos .. c.len
      BY <1>2, <1>4
    <2>. QED BY <1>2, <2>1, PieceWhole
  <1>. HIDE DEF f1, f2, r1, r2, kept
  <1>9. Holds(T, s, IF pos < c.len THEN <<r1, r2>> ELSE <<r1>>)
    <2>1. r1 \in DataUnits(T) /\ r2 \in DataUnits(T)
      BY <1>7, <1>8 DEF Piece
    <2>2. (order = 0) \in BOOLEAN /\ (order <= 1) \in BOOLEAN /\ (order <= 2) \in BOOLEAN /\ (pos < c.len) \in BOOLEAN
      OBVIOUS
    <2>. QED BY <1>6, <2>1, <2>2, HoldsFaked, ZenonT(40)
  <1>. HIDE DEF s
  <1>10. kept \in {SegTakeOverData(p), SegTakeOverAll(p)}
    BY DEF kept
  <1>11. CASE pos < c.len
    <2>1. Tiling(<<r1, r2>>, 2, Payload(c), Id(2), BoundsOf(c, <<pos>>)) /\ \E k \in 0 .. 2 : BoundsOf(c, <<pos>>)[k] = pos
      BY <1>4, <1>5, <1>7, <1>8, <1>11, TwoTiles, ZenonT(40)
    <2>2. Holds(T, s, <<r1, r2>>)
      BY <1>9, <1>11
    <2>3. /\ Lawful(c, T, FALSE, blk, Planned(kept, s))
          /\ Named(o, c) => Lawful(c, T, TRUE, blk, Planned(kept, s))
      BY <1>4, <1>10, <2>1, <2>2, PlannedTiled DEF Named
    <2>4. long => Lawful(c, T, FALSE, blk, InjEnsureDataSeg(c, kept))
      BY <1>5, WholeAgain DEF kept
    <2>5. o.ovl = 0 => ~long
      BY <1>5
    <2>6. c.len <= MaxFake <=> ~(c.len > MaxFake)
      BY <1>2
    <2>. HIDE DEF long
    <2>. QED BY <1>1, <2>3, <2>4, <2>5, <2>6
  <1>12. CASE ~(pos < c.len)
    <2>0. pos = c.len
      BY <1>2, <1>4, <1>12
    <2>1. Tiling(<<r1>>, 1, Payload(c), Id(1), [k \in 0 .. 1 |-> IF k = 0 THEN 0 ELSE c.len])
      BY <1>7, <2>0, OneTile
    <2>. DEFINE b == [k \in 0 .. 1 |-> IF k = 0 THEN 0 ELSE c.len]
    <2>. HIDE DEF b
    <2>2. Holds(T, s, <<r1>>) /\ Tiling(<<r1>>, 1, Payload(c), Id(1), b)
      BY <1>9, <1>12, <2>1 DEF b
    <2>3. Lawful(c, T, FALSE, blk, Planned(kept, s))
      BY <1>10, <2>2, PlannedTiled
    <2>4. long => Lawful(c, T, FALSE, blk, InjEnsureDataSeg(c, kept))
      BY <1>5, WholeAgain DEF kept
    <2>5. ~Named(o, c)
      BY <1>4, <1>12
    <2>. HIDE DEF long
    <2>. QED BY <1>1, <2>3, <2>4, <2>5
  <1>. QED BY <1>11, <1>12

LEMMA FakeddisorderLawful ==
    ASSUME NEW c \in Context, NEW T, NEW blk, NEW p, Lawful(c, T, FALSE, blk, p), NEW o \in Operation, o.ttl \in T
    PROVE  /\ Lawful(c, T, FALSE, blk, Fakeddisorder(o, c, p))
           /\ Named(o, c) /\ o.ovl = 0 /\ c.len <= MaxFake => Lawful(c, T, TRUE, blk, Fakeddisorder(o, c, p))
  <1>. DEFINE pos == SegResolveSinglePos(c, Specs(o))
              order == SegSplitOrder(o, pos # 0)
              ovl == IF o.ovl <= 0 \/ "seq" \notin c.caps \/ pos = 0 \/ o.ovl >= pos THEN 0 ELSE o.ovl
              f1 == SegFakeSeg(Decoys(pos), 0, o)
              f2 == SegFakeSeg(Decoys(c.len - pos), pos, o)
              r1 == SegDataSeg(Cut(Payload(c), 0, pos), 0, o)
              r2 == SegDataSeg(Filler(ovl) \o Cut(Payload(c), pos, c.len), pos - ovl, o)
              kept == SegTakeOverData(p)
              s == When(order = 0, <<f2>>) \o <<r2>> \o When(order <= 1, <<f2>>)
                           \o When(pos > 0, <<f1, r1>> \o When(order <= 2, <<f1>>))
              long == ovl > 0 /\ ovl + c.len - pos > MaxSeg
  <1>1. Fakeddisorder(o, c, p) = IF c.len > MaxFake THEN p ELSE IF long THEN InjEnsureDataSeg(c, kept) ELSE Planned(kept, s)
    BY DEF Fakeddisorder
  <1>2. c.len \in Nat /\ o.ovl \in Int /\ o.ipid \in IpIds /\ MaxFake \in Nat
    BY ContextFacts, SpecsSeq
  <1>3. pos \in Nat /\ (pos # 0 => pos < c.len) /\ (Named(o, c) => pos = FindSplitPos(c, Name) /\ pos # 0)
    BY SinglePos
  <1>. HIDE DEF pos, order
  <1>4. pos <= c.len /\ (pos > 0 <=> pos # 0)
    BY <1>2, <1>3
  <1>5. ovl \in Nat /\ (o.ovl = 0 => ovl = 0) /\ (pos > 0 => ovl < pos) /\ (pos = 0 => ovl = 0) /\ (ovl > 0 => c.len > 0)
    BY <1>2, <1>3
  <1>. HIDE DEF ovl
  <1>6. f1 \in Unit(T) /\ ~IsData(f1) /\ f2 \in Unit(T) /\ ~IsData(f2)
    <2>1. pos \in Nat /\ c.len - pos \in Nat /\ 0 \in Int /\ pos \in Int
      BY <1>2, <1>3, <1>4
    <2>. QED BY <2>1, FakeSeg
  <1>7. Piece(T, c, 0, pos, 0, r1)
    <2>1. 0 \in 0 .. c.len /\ pos \in 0 .. c.len
      BY <1>2, <1>3, <1>4
    <2>. QED BY <1>2, <2>1, PieceWhole
  <1>8. Piece(T, c, pos, c.len, ovl, r2)
    <2>1. pos \in 0 .. c.len /\ c.len \in pos .. c.len
      BY <1>2, <1>3, <1>4
    <2>. QED BY <1>2, <1>5, <2>1, PieceFilled
  <1>. HIDE DEF f1, f2, r1, r2, kept
  <1>9. Holds(T, s, IF pos > 0 THEN <<r2, r1>> ELSE <<r2>>)
    <2>1. r1 \in DataUnits(T) /\ r2 \in DataUnits(T)
      BY <1>7, <1>8 DEF Piece
    <2>2. (order = 0) \in BOOLEAN /\ (order <= 1) \in BOOLEAN /\ (order <= 2) \in BOOLEAN /\ (pos > 0) \in BOOLEAN
      OBVIOUS
    <2>. QED BY <1>6, <2>1, <2>2, HoldsFaked, ZenonT(40)
  <1>. HIDE DEF s
  <1>10. kept \in {SegTakeOverData(p), SegTakeOverAll(p)}
    BY DEF kept
  <1>11. CASE pos > 0
    <2>1. Tiling(<<r2, r1>>, 2, Payload(c), Swap, BoundsOf(c, <<pos>>)) /\ \E k \in 0 .. 2 : BoundsOf(c, <<pos>>)[k] = pos
      <3>1. 0 < pos /\ pos < c.len /\ 0 \in Nat /\ ovl < pos
        BY <1>3, <1>5, <1>11
      <3>. QED BY <1>3, <1>5, <1>7, <1>8, <3>1, TwoTiles, ZenonT(40)
    <2>2. Holds(T, s, <<r2, r1>>)
      BY <1>9, <1>11
    <2>3. /\ Lawful(c, T, FALSE, blk, Planned(kept, s))
          /\ Named(o, c) => Lawful(c, T, TRUE, blk, Planned(kept, s))
      BY <1>3, <1>10, <2>1, <2>2, PlannedTiled DEF Named
    <2>4. long => Lawful(c, T, FALSE, blk, InjEnsureDataSeg(c, kept))
      BY <1>5, WholeAgain DEF kept
    <2>5. o.ovl = 0 => ~long
      BY <1>5
    <2>6. c.len <= MaxFake <=> ~(c.len > MaxFake)
      BY <1>2
    <2>. HIDE DEF long
    <2>. QED BY <1>1, <2>3, <2>4, <2>5, <2>6
  <1>12. CASE ~(pos > 0)
    <2>0. pos = 0
      BY <1>4, <1>12
    <2>1. Tiling(<<r2>>, 1, Payload(c), Id(1), [k \in 0 .. 1 |-> IF k = 0 THEN 0 ELSE c.len])
      BY <1>8, <2>0, OneTile
    <2>. DEFINE b == [k \in 0 .. 1 |-> IF k = 0 THEN 0 ELSE c.len]
    <2>. HIDE DEF b
    <2>2. Holds(T, s, <<r2>>) /\ Tiling(<<r2>>, 1, Payload(c), Id(1), b)
      BY <1>9, <1>12, <2>1 DEF b
    <2>3. Lawful(c, T, FALSE, blk, Planned(kept, s))
      BY <1>10, <2>2, PlannedTiled
    <2>4. long => Lawful(c, T, FALSE, blk, InjEnsureDataSeg(c, kept))
      BY <1>5, WholeAgain DEF kept
    <2>5. ~Named(o, c)
      BY <1>3, <2>0
    <2>. HIDE DEF long
    <2>. QED BY <1>1, <2>3, <2>4, <2>5
  <1>. QED BY <1>11, <1>12

LEMMA SegDegradeSplitLawful ==
    ASSUME NEW c \in Context, NEW T, NEW blk, NEW p, Lawful(c, T, FALSE, blk, p), NEW o \in Operation
    PROVE  Lawful(c, T, FALSE, blk, SegDegradeSplit(o, c, p))
  <1>. DEFINE pos == SegResolveSinglePos(c, Specs(o))
              segs == Parts(c, o, <<pos>>, 0, 1)
  <1>1. pos \in Nat /\ (pos # 0 => pos < c.len) /\ o.ipid \in IpIds /\ c.len \in Nat
    BY SinglePos, SpecsSeq, ContextFacts
  <1>2. SegDegradeSplit(o, c, p) = IF pos = 0 THEN p ELSE Planned(SegTakeOverAll(p), segs)
    BY DEF SegDegradeSplit
  <1>. HIDE DEF pos
  <1>3. ASSUME pos # 0 PROVE Lawful(c, T, FALSE, blk, Planned(SegTakeOverAll(p), segs))
    <2>1. Positions(c, <<pos>>) /\ <<pos>> # <<>>
      BY <1>1, <1>3 DEF Positions
    <2>2. Parted(c, T, segs, <<pos>>)
      BY <1>1, <2>1, PartsIs, SMTT(30)
    <2>. HIDE DEF segs
    <2>3. Holds(T, segs, segs) /\ Tiling(segs, Len(<<pos>>) + 1, Payload(c), Id(Len(<<pos>>) + 1), BoundsOf(c, <<pos>>))
      BY <2>2, HoldsData DEF Parted
    <2>. QED BY <2>3, PlannedTiled, Zenon
  <1>. QED BY <1>2, <1>3

(* y behind x, with their lengths under names of their own. *)
Behind(S, x, y, i, j, z) ==
    /\ z \in Seq(S) /\ Len(z) = i + j
    /\ \A t \in 1 .. i : z[t] = x[t]
    /\ \A t \in 1 .. j : z[i + t] = y[t]
LEMMA Cat2 ==
    ASSUME NEW S, NEW x \in Seq(S), NEW y \in Seq(S), NEW i \in Nat, NEW j \in Nat, Len(x) = i, Len(y) = j
    PROVE  Behind(S, x, y, i, j, x \o y)
  <1>1. x \o y \in Seq(S) /\ Len(x \o y) = i + j
        /\ \A t \in 1 .. i + j : (x \o y)[t] = IF t <= i THEN x[t] ELSE y[t - i]
    BY Cat
  <1>2. \A t \in 1 .. i : t \in 1 .. i + j /\ t <= i
    OBVIOUS
  <1>3. \A t \in 1 .. j : i + t \in 1 .. i + j /\ ~(i + t <= i) /\ (i + t) - i = t
    OBVIOUS
  <1>. DEFINE z == x \o y
  <1>4. \A t \in 1 .. i : z[t] = x[t]
    BY <1>1, <1>2
  <1>5. \A t \in 1 .. j : z[i + t] = y[t]
    <2>. HIDE DEF z
    <2>1. \A t \in 1 .. i + j : z[t] = IF t <= i THEN x[t] ELSE y[t - i]
      BY <1>1 DEF z
    <2>. QED BY <1>3, <2>1
  <1>. QED BY <1>1, <1>4, <1>5 DEF Behind
LEMMA Elem ==
    ASSUME NEW S, NEW s \in Seq(S) PROVE \A i \in 1 .. Len(s) : s[i] \in S
  OBVIOUS
LEMMA SomeLen == ASSUME NEW S, NEW s \in Seq(S), Len(s) # 0 PROVE s # <<>>
  OBVIOUS
(* Three sequences in a row. *)
Row(S, x, y, z, e, i, j, k) ==
    /\ e \in Seq(S) /\ Len(e) = i + j + k
    /\ \A t \in 1 .. i : e[t] = x[t]
    /\ \A t \in 1 .. j : e[i + t] = y[t]
    /\ \A t \in 1 .. k : e[i + j + t] = z[t]
LEMMA Threes ==
    ASSUME NEW S, NEW x \in Seq(S), NEW y \in Seq(S), NEW z \in Seq(S), NEW i \in Nat, NEW j \in Nat, NEW k \in Nat,
           Len(x) = i, Len(y) = j, Len(z) = k
    PROVE  Row(S, x, y, z, x \o (y \o z), i, j, k) /\ x \o y \o z = x \o (y \o z)
  <1>. DEFINE w == y \o z
              e == x \o w
  <1>1. Behind(S, y, z, j, k, w)
    BY Cat2
  <1>2. w \in Seq(S) /\ Len(w) = j + k /\ j + k \in Nat
    BY <1>1 DEF Behind
  <1>. HIDE DEF w
  <1>3. Behind(S, x, w, i, j + k, e)
    BY <1>2, Cat2
  <1>4. x \o y \o z = x \o (y \o z)
    OBVIOUS
  <1>. HIDE DEF e
  <1>5. e \in Seq(S) /\ Len(e) = i + j + k /\ \A t \in 1 .. i : e[t] = x[t]
    BY <1>3 DEF Behind
  <1>6. ASSUME NEW t \in 1 .. j PROVE e[i + t] = y[t]
    <2>1. t \in 1 .. j + k
      OBVIOUS
    <2>. QED BY <1>1, <1>3, <2>1 DEF Behind
  <1>7. ASSUME NEW t \in 1 .. k PROVE e[i + j + t] = z[t]
    <2>1. j + t \in 1 .. j + k /\ i + j + t = i + (j + t)
      OBVIOUS
    <2>. QED BY <1>1, <1>3, <2>1 DEF Behind
  <1>. QED BY <1>4, <1>5, <1>6, <1>7 DEF e, w, Row

LEMMA Triple ==
    ASSUME NEW S, NEW x \in S, NEW y \in S, NEW z \in S
    PROVE  /\ <<x>> \o <<y>> \o <<z>> = <<x, y, z>> /\ <<x, y, z>> \in Seq(S)
           /\ <<x>> \o <<>> \o <<z>> = <<x, z>> /\ <<x, z>> \in Seq(S)
  <1>1. <<x>> \in Seq(S) /\ <<x, y>> \in Seq(S) /\ <<x, y, z>> \in Seq(S) /\ <<z>> \in Seq(S) /\ <<x, z>> \in Seq(S)
    OBVIOUS
  <1>2. <<x>> \o <<y>> = <<x, y>> /\ <<x>> \o <<z>> = <<x, z>>
    BY Pairs, Zenon
  <1>3. <<x>> \o <<>> = <<x>>
    BY <1>1
  <1>4. <<x, y>> \o <<z>> = <<x, y, z>>
    <2>. DEFINE u == <<x, y>> \o <<z>>
    <2>1. u \in Seq(S) /\ Len(u) = 3 /\ u[1] = x /\ u[2] = y /\ u[3] = z
      OBVIOUS
    <2>2. Len(<<x, y, z>>) = 3 /\ <<x, y, z>>[1] = x /\ <<x, y, z>>[2] = y /\ <<x, y, z>>[3] = z
      OBVIOUS
    <2>. HIDE DEF u
    <2>3. \A i \in 1 .. Len(u) : u[i] = <<x, y, z>>[i]
      <3>1. \A i \in 1 .. 3 : i = 1 \/ i = 2 \/ i = 3
        OBVIOUS
      <3>. QED BY <2>1, <2>2, <3>1
    <2>4. u = <<x, y, z>>
      BY <1>1, <2>1, <2>2, <2>3, SameSeq
    <2>. QED BY <2>4 DEF u
  <1>. QED BY <1>1, <1>2, <1>3, <1>4, Zenon

Hosts(o, c, pos) == <<pos[1]>> \o MidHost(o, c, pos) \o <<pos[2]>>
LEMMA HostCuts ==
    ASSUME NEW c \in Context, NEW o \in Operation, NEW pos, Positions(c, pos), Len(pos) = 2
    PROVE  LET cuts == Hosts(o, c, pos)
           IN  Positions(c, cuts) /\ cuts # <<>> /\ Len(cuts) \in 2 .. 3
  <1>. DEFINE cuts == Hosts(o, c, pos)
              m == IF o.mid = <<>> THEN 0 ELSE FindSplitPos(c, o.mid[1])
              x == pos[1]
              y == pos[2]
  <1>1. pos \in Seq(Nat) /\ c.len \in Nat
    BY ContextFacts DEF Positions
  <1>2. x \in Nat /\ y \in Nat /\ 1 <= x /\ x < y /\ y < c.len
    <2>1. 1 \in 1 .. Len(pos) /\ 2 \in 1 .. Len(pos)
      OBVIOUS
    <2>2. pos[1] \in Nat /\ pos[2] \in Nat
      BY <1>1, <2>1, Elem, Zenon
    <2>3. 1 <= pos[1] /\ pos[2] < c.len /\ pos[1] < pos[2]
      BY <2>1 DEF Positions
    <2>. QED BY <2>2, <2>3
  <1>3. m \in Nat
    <2>1. o.mid \in Seq([m: Markers, off: Int])
      BY DEF Operation
    <2>2. o.mid # <<>> => o.mid[1] \in [m: Markers, off: Int]
      BY <2>1, Firsts
    <2>. QED BY <1>1, <2>2, FindSplitInt
  <1>4. cuts = <<x>> \o (IF m > x /\ m < y THEN <<m>> ELSE <<>>) \o <<y>>
    BY DEF Hosts, MidHost
  <1>. HIDE DEF m, x, y, cuts
  <1>5. CASE m > x /\ m < y
    <2>1. cuts = <<x>> \o <<m>> \o <<y>>
      BY <1>4, <1>5
    <2>2. cuts = <<x, m, y>>
      BY <1>2, <1>3, <2>1, Triple, Zenon
    <2>4. cuts \in Seq(Nat) /\ Len(cuts) = 3 /\ cuts[1] = x /\ cuts[2] = m /\ cuts[3] = y /\ DOMAIN cuts = 1 .. 3
      BY <1>2, <1>3, <2>2
    <2>5. \A k \in 1 .. 3 : k = 1 \/ k = 2 \/ k = 3
      OBVIOUS
    <2>6. \A k \in 1 .. Len(cuts) : 1 <= cuts[k] /\ cuts[k] < c.len
      BY <1>1, <1>2, <1>3, <1>5, <2>4, <2>5
    <2>7. \A j, k \in 1 .. Len(cuts) : j < k => cuts[j] < cuts[k]
      BY <1>1, <1>2, <1>3, <1>5, <2>4, <2>5
    <2>8. Positions(c, cuts)
      BY <2>4, <2>6, <2>7 DEF Positions
    <2>9. cuts # <<>> /\ Len(cuts) \in 2 .. 3
      <3>1. 3 # 0 /\ 2 # 0 /\ 2 \in 2 .. 3 /\ 3 \in 2 .. 3
        OBVIOUS
      <3>. QED BY <2>4, <3>1, SomeLen, Zenon
    <2>. QED BY <2>8, <2>9 DEF cuts
  <1>6. CASE ~(m > x /\ m < y)
    <2>1. cuts = <<x>> \o <<>> \o <<y>>
      BY <1>4, <1>6
    <2>2. cuts = <<x, y>>
      BY <1>2, <2>1, Triple, Zenon
    <2>4. cuts \in Seq(Nat) /\ Len(cuts) = 2 /\ cuts[1] = x /\ cuts[2] = y
      BY <1>2, <2>2
    <2>5. \A k \in 1 .. 2 : k = 1 \/ k = 2
      OBVIOUS
    <2>6. \A k \in 1 .. Len(cuts) : 1 <= cuts[k] /\ cuts[k] < c.len
      BY <1>1, <1>2, <2>4, <2>5
    <2>7. \A j, k \in 1 .. Len(cuts) : j < k => cuts[j] < cuts[k]
      BY <1>1, <1>2, <2>4, <2>5
    <2>8. Positions(c, cuts)
      BY <2>4, <2>6, <2>7 DEF Positions
    <2>9. cuts # <<>> /\ Len(cuts) \in 2 .. 3
      <3>1. 3 # 0 /\ 2 # 0 /\ 2 \in 2 .. 3 /\ 3 \in 2 .. 3
        OBVIOUS
      <3>. QED BY <2>4, <3>1, SomeLen, Zenon
    <2>. QED BY <2>8, <2>9 DEF cuts
  <1>. QED BY <1>5, <1>6

LEMMA HostfakesplitDegradeLawful ==
    ASSUME NEW c \in Context, NEW T, NEW blk, NEW p, Lawful(c, T, FALSE, blk, p), NEW o \in Operation
    PROVE  Lawful(c, T, FALSE, blk, HostfakesplitDegrade(o, c, p))
  <1>. DEFINE pos == HostPos(c)
              segs == Parts(c, o, Hosts(o, c, pos), 0, 1)
  <1>1. Positions(c, pos) /\ o.ipid \in IpIds
    BY MultiPos, SpecsSeq DEF HostPos
  <1>2. HostfakesplitDegrade(o, c, p) = IF Len(pos) # 2 THEN p ELSE Planned(SegTakeOverAll(p), segs)
    BY DEF HostfakesplitDegrade, Hosts
  <1>. HIDE DEF pos
  <1>3. ASSUME Len(pos) = 2 PROVE Lawful(c, T, FALSE, blk, Planned(SegTakeOverAll(p), segs))
    <2>. DEFINE cuts == Hosts(o, c, pos)
    <2>1. Positions(c, cuts) /\ cuts # <<>>
      BY <1>1, <1>3, HostCuts
    <2>. HIDE DEF cuts
    <2>2. Parted(c, T, Parts(c, o, cuts, 0, 1), cuts)
      BY <1>1, <2>1, PartsIs
    <2>3. Parted(c, T, segs, cuts)
      BY <2>2 DEF cuts
    <2>. HIDE DEF segs
    <2>4. Holds(T, segs, segs) /\ Tiling(segs, Len(cuts) + 1, Payload(c), Id(Len(cuts) + 1), BoundsOf(c, cuts))
      BY <2>3, HoldsData DEF Parted
    <2>. QED BY <2>4, PlannedTiled, Zenon
  <1>. QED BY <1>2, <1>3

Divides(T, q, n, before, real, after) ==
    /\ before \in DataSeq(T) /\ real \in DataSeq(T) /\ after \in DataSeq(T)
    /\ Len(before) = 1 /\ before[1] = q[1] /\ Len(after) = 1 /\ after[1] = q[n]
    /\ Len(real) = n - 2 /\ \A i \in 1 .. n - 2 : real[i] = q[i + 1]
(* The first, the last and the middle of three or four parts. *)
LEMMA Middle ==
    ASSUME NEW T, NEW q \in DataSeq(T), NEW n \in 3 .. 4, Len(q) = n
    PROVE  Divides(T, q, n, <<Head(q)>>, SubSeq(q, 2, Len(q) - 1), <<Last(q)>>)
  <1>1. q \in Seq(DataUnits(T)) /\ n \in Nat /\ n >= 3
    BY DEF DataSeq
  <1>2. q[1] \in DataUnits(T) /\ q[n] \in DataUnits(T) /\ Head(q) = q[1] /\ Last(q) = q[n]
    BY <1>1 DEF Last
  <1>3. <<Head(q)>> \in DataSeq(T) /\ <<Last(q)>> \in DataSeq(T)
    BY <1>2, Pairs DEF DataSeq
  <1>4. IsCut(DataUnits(T), q, 1, n - 1)
    <2>1. 1 \in 0 .. Len(q) /\ n - 1 \in 1 .. Len(q)
      BY <1>1
    <2>. QED BY <1>1, <2>1, CutFacts
  <1>5. Cut(q, 1, n - 1) = SubSeq(q, 2, Len(q) - 1)
    BY DEF Cut
  <1>6. SubSeq(q, 2, Len(q) - 1) \in Seq(DataUnits(T)) /\ Len(SubSeq(q, 2, Len(q) - 1)) = (n - 1) - 1
        /\ \A i \in 1 .. (n - 1) - 1 : SubSeq(q, 2, Len(q) - 1)[i] = q[1 + i]
    BY <1>4, <1>5 DEF IsCut
  <1>7. (n - 1) - 1 = n - 2 /\ \A i \in 1 .. n - 2 : 1 + i = i + 1
    BY <1>1
  <1>. HIDE DEF DataSeq
  <1>8. SubSeq(q, 2, Len(q) - 1) \in DataSeq(T)
    BY <1>6 DEF DataSeq
  <1>. QED BY <1>2, <1>3, <1>6, <1>7, <1>8 DEF Divides

LEMMA JoinData ==
    ASSUME NEW T, NEW x \in DataSeq(T), NEW y \in DataSeq(T)
    PROVE  /\ x \o y \in DataSeq(T) /\ Len(x \o y) = Len(x) + Len(y) /\ Len(x) \in Nat /\ Len(y) \in Nat
           /\ \A i \in 1 .. Len(x) + Len(y) : (x \o y)[i] = IF i <= Len(x) THEN x[i] ELSE y[i - Len(x)]
  BY Cat DEF DataSeq

LEMMA HostfakesplitLawful ==
    ASSUME NEW c \in Context, NEW T, NEW blk, NEW p, Lawful(c, T, FALSE, blk, p), NEW o \in Operation, o.ttl \in T
    PROVE  Lawful(c, T, FALSE, blk, Hostfakesplit(o, c, p))
  <1>. DEFINE pos == HostPos(c)
              cuts == Hosts(o, c, pos)
              q == Parts(c, o, cuts, 0, 1)
              n == Len(cuts) + 1
              before == <<Head(q)>>
              real == SubSeq(q, 2, Len(q) - 1)
              after == <<Last(q)>>
              f == SegFakeSeg(Decoys(pos[2] - pos[1]), pos[1], o)
              s == before \o <<f>> \o (IF o.order = 1 THEN after \o real ELSE real \o <<f>> \o after)
              kept == SegTakeOverData(p)
  <1>1. Positions(c, pos) /\ o.ipid \in IpIds
    BY MultiPos, SpecsSeq DEF HostPos
  <1>2. Hostfakesplit(o, c, p) = IF Len(pos) # 2 THEN p ELSE Planned(kept, s)
    BY DEF Hostfakesplit, Hosts
  <1>. HIDE DEF pos
  <1>3. ASSUME Len(pos) = 2 PROVE Lawful(c, T, FALSE, blk, Planned(kept, s))
    <2>1. Positions(c, cuts) /\ cuts # <<>> /\ Len(cuts) \in 2 .. 3
      BY <1>1, <1>3, HostCuts
    <2>2. f \in Unit(T) /\ ~IsData(f)
      <3>1. 1 \in 1 .. Len(pos) /\ 2 \in 1 .. Len(pos) /\ pos \in Seq(Nat)
        BY <1>1, <1>3 DEF Positions
      <3>2. pos[1] \in Nat /\ pos[2] \in Nat /\ pos[1] < pos[2]
        BY <1>1, <3>1 DEF Positions
      <3>3. pos[2] - pos[1] \in Nat /\ pos[1] \in Int
        BY <3>2
      <3>. QED BY <3>3, FakeSeg
    <2>3. n \in 3 .. 4 /\ n \in Nat
      <3>1. \A x \in 2 .. 3 : x + 1 \in 3 .. 4 /\ x + 1 \in Nat
        OBVIOUS
      <3>. HIDE DEF cuts
      <3>. QED BY <2>1, <3>1, Zenon
    <2>. HIDE DEF cuts, f
    <2>4. Parted(c, T, q, cuts)
      BY <1>1, <2>1, PartsIs
    <2>. HIDE DEF q
    <2>5. q \in DataSeq(T) /\ Len(q) = n /\ Tiling(q, n, Payload(c), Id(n), BoundsOf(c, cuts))
      BY <2>4 DEF Parted
    <2>. HIDE DEF n
    <2>6. /\ before \in DataSeq(T) /\ real \in DataSeq(T) /\ after \in DataSeq(T)
          /\ Len(before) = 1 /\ before[1] = q[1] /\ Len(after) = 1 /\ after[1] = q[n]
          /\ Len(real) = n - 2 /\ \A i \in 1 .. n - 2 : real[i] = q[i + 1]
      <3>1. Divides(T, q, n, before, real, after)
        BY <2>3, <2>5, Middle
      <3>. HIDE DEF before, real, after
      <3>. QED BY <3>1 DEF Divides
    <2>60. n - 2 \in Nat /\ 1 \in Nat
      BY <2>3
    <2>. HIDE DEF before, real, after, kept
    <2>7. Holds(T, before, before) /\ Holds(T, real, real) /\ Holds(T, after, after) /\ Holds(T, <<f>>, <<>>)
      BY <2>2, <2>6, HoldsData, HoldsFake
    <2>8. Holds(T, before \o <<f>>, before)
      BY <2>7, HoldsAfter
    <2>9. kept \in {SegTakeOverData(p), SegTakeOverAll(p)}
      BY DEF kept
    <2>10. CASE o.order = 1
      <3>. DEFINE e == before \o (after \o real)
                  pm == [k \in 1 .. n |-> IF k = 1 THEN 1 ELSE IF k = n THEN 2 ELSE k + 1]
      <3>1. Holds(T, after \o real, after \o real)
        BY <2>7, HoldsJoin
      <3>2. Holds(T, s, e)
        BY <2>8, <2>10, <3>1, HoldsJoin
      <3>3. /\ Len(e) = 1 + 1 + (n - 2) /\ e[1] = before[1] /\ e[1 + 1] = after[1]
            /\ \A t \in 1 .. n - 2 : e[1 + 1 + t] = real[t]
        <4>1. /\ Len(e) = 1 + 1 + (n - 2)
              /\ \A t \in 1 .. 1 : e[t] = before[t]
              /\ \A t \in 1 .. 1 : e[1 + t] = after[t]
              /\ \A t \in 1 .. n - 2 : e[1 + 1 + t] = real[t]
          <5>1. Row(DataUnits(T), before, after, real, e, 1, 1, n - 2)
            BY <2>6, <2>60, Threes DEF DataSeq
          <5>. HIDE DEF e
          <5>. QED BY <5>1, Zenon DEF Row
        <4>2. 1 \in 1 .. 1
          OBVIOUS
        <4>. QED BY <4>1, <4>2, Zenon
      <3>. HIDE DEF e, s
      <3>5. Len(e) = n /\ e[1] = q[1] /\ e[2] = q[n] /\ \A k \in 2 .. n - 1 : e[k + 1] = q[k]
        <4>1. 1 + 1 + (n - 2) = n /\ 1 + 1 = 2 /\ \A k \in 2 .. n - 1 : k - 1 \in 1 .. n - 2 /\ 1 + 1 + (k - 1) = k + 1 /\ (k - 1) + 1 = k
          BY <2>3
        <4>2. \A k \in 2 .. n - 1 : e[k + 1] = real[k - 1] /\ real[k - 1] = q[k]
          BY <2>6, <3>3, <4>1
        <4>. QED BY <2>6, <3>3, <4>1, <4>2
      <3>6. pm \in [1 .. n -> 1 .. n] /\ \A i \in 1 .. n : \E k \in 1 .. n : pm[k] = i
        <4>1. pm \in [1 .. n -> 1 .. n] /\ pm[1] = 1 /\ pm[n] = 2 /\ \A k \in 2 .. n - 1 : pm[k] = k + 1
          BY <2>3
        <4>2. ASSUME NEW i \in 1 .. n PROVE \E k \in 1 .. n : pm[k] = i
          <5>1. CASE i = 1
            BY <2>3, <4>1, <5>1
          <5>2. CASE i = 2
            BY <2>3, <4>1, <5>2
          <5>3. CASE i > 2
            <6>1. i - 1 \in 2 .. n - 1 /\ i - 1 \in 1 .. n /\ (i - 1) + 1 = i
              BY <2>3, <5>3
            <6>. QED BY <4>1, <6>1
          <5>. QED BY <5>1, <5>2, <5>3
        <4>. QED BY <4>1, <4>2
      <3>7. \A k \in 1 .. n : e[pm[k]] = q[k]
        <4>1. \A k \in 1 .. n : k = 1 \/ k = n \/ k \in 2 .. n - 1
          BY <2>3
        <4>2. pm[1] = 1 /\ pm[n] = 2 /\ \A k \in 2 .. n - 1 : pm[k] = k + 1
          BY <2>3
        <4>. HIDE DEF pm
        <4>. QED BY <3>5, <4>1, <4>2
      <3>. HIDE DEF pm
      <3>8. Tiling(e, n, Payload(c), pm, BoundsOf(c, cuts))
        BY <2>5, <3>5, <3>6, <3>7, Reordered
      <3>. QED BY <2>9, <3>2, <3>8, PlannedTiled, Zenon
    <2>11. CASE o.order # 1
      <3>. DEFINE e == before \o (real \o after)
      <3>1. Holds(T, real \o <<f>>, real)
        BY <2>7, HoldsAfter
      <3>2. Holds(T, real \o <<f>> \o after, real \o after)
        BY <2>7, <3>1, HoldsJoin
      <3>3. Holds(T, s, e)
        BY <2>8, <2>11, <3>2, HoldsJoin
      <3>4. e \in DataSeq(T)
        BY <2>6, JoinData
      <3>5. /\ Len(e) = 1 + (n - 2) + 1
            /\ \A t \in 1 .. 1 : e[t] = before[t]
            /\ \A t \in 1 .. n - 2 : e[1 + t] = real[t]
            /\ \A t \in 1 .. 1 : e[1 + (n - 2) + t] = after[t]
        <4>1. Row(DataUnits(T), before, real, after, e, 1, n - 2, 1)
          BY <2>6, <2>60, Threes DEF DataSeq
        <4>. HIDE DEF e
        <4>. QED BY <4>1, Zenon DEF Row
      <3>. HIDE DEF e, s
      <3>6. Len(e) = n /\ \A i \in 1 .. n : e[i] = q[i]
        <4>1. 1 \in 1 .. 1 /\ 1 + (n - 2) + 1 = n /\ \A i \in 1 .. n : i = 1 \/ i = n \/ (i - 1 \in 1 .. n - 2 /\ 1 + (i - 1) = i /\ (i - 1) + 1 = i)
          BY <2>3
        <4>2. e[1] = q[1] /\ e[n] = q[n]
          BY <2>6, <3>5, <4>1
        <4>3. ASSUME NEW i \in 1 .. n, i - 1 \in 1 .. n - 2, 1 + (i - 1) = i, (i - 1) + 1 = i PROVE e[i] = q[i]
          BY <2>6, <3>5, <4>3
        <4>. QED BY <3>5, <4>1, <4>2, <4>3
      <3>7. e = q
        BY <2>5, <3>4, <3>6, SameSeq DEF DataSeq
      <3>. QED BY <2>5, <2>9, <3>3, <3>7, PlannedTiled, Zenon
    <2>. QED BY <2>10, <2>11
  <1>. QED BY <1>2, <1>3

(***************************************************************************)
(* One turn of the engine, and a profile.                                  *)
(***************************************************************************)
SameButTTL(o, r) == r \in Operation /\ r.op = o.op /\ r.ovl = o.ovl /\ r.pos = o.pos
LEMMA OperationTTL ==
    ASSUME NEW o \in Operation, NEW x \in Nat
    PROVE  SameButTTL(o, [o EXCEPT !.ttl = x])
  BY DEF Operation, SameButTTL
LEMMA ClampNat ==
    ASSUME NEW v \in Nat, NEW lo \in Nat, NEW hi \in Nat PROVE ClampTTL(v, lo, hi) \in Nat
  BY DEF ClampTTL
LEMMA ModNat == ASSUME NEW v \in Int PROVE v % 256 \in Nat
  OBVIOUS
Autos == {a \in [delta: -127 .. 127, min: 0 .. 255, max: 0 .. 255]: a.min <= a.max}
LEMMA HopsInt == ASSUME NEW n \in 0 .. 255 PROVE HopsFromTTL(n) \in Int
  BY DEF HopsFromTTL
(* What an operation is after its TTL is made. *)
LEMMA TTLApplied ==
    ASSUME NEW c \in Context, NEW o \in Operation
    PROVE  SameButTTL(o, ApplyTTL(o, c))
  <1>. DEFINE a == o.auto[1]
              hops == HopsFromTTL(c.seen)
              guess == a.min + ((a.max - a.min) % 256) \div 2
              v == hops + a.delta
              x == (IF hops = 0 THEN guess ELSE IF v < 1 THEN 1 ELSE v) % 256
  <1>1. o.auto \in Seq(Autos)
    BY DEF Operation, Autos
  <1>2. CASE o.auto # <<>>
    <2>1. a \in Autos
      BY <1>1, <1>2, Firsts
    <2>2. a.min \in Nat /\ a.max \in Nat /\ a.delta \in Int
      BY <2>1, SMTT(30) DEF Autos
    <2>3. hops \in Int
      BY ContextFacts, HopsInt
    <2>. HIDE DEF a, hops
    <2>4. guess \in Int /\ v \in Int
      BY <2>2, <2>3
    <2>. HIDE DEF guess, v
    <2>5. x \in Nat
      BY <2>4, ModNat
    <2>. HIDE DEF x
    <2>6. ClampTTL(x, a.min, a.max) \in Nat
      BY <2>2, <2>5, ClampNat
    <2>7. ApplyTTL(o, c) = [o EXCEPT !.ttl = ClampTTL(x, a.min, a.max)]
      BY <1>2 DEF ApplyTTL, x, v, guess, hops, a
    <2>. QED BY <2>6, <2>7, OperationTTL, Zenon
  <1>3. CASE o.auto = <<>>
    BY <1>3 DEF ApplyTTL, SameButTTL
  <1>. QED BY <1>2, <1>3

Lasting(c, T, cut, blk, o) == o \in Operation /\ o.ttl \in T /\ (cut => Phase(o) = 3) /\ (o.op = "block" => blk)
LEMMA PhaseIs ==
    ASSUME NEW o
    PROVE  /\ o.op \in {"multisplit", "multidisorder", "fakedsplit", "fakeddisorder", "hostfakesplit"} => Phase(o) = 2
           /\ o.op = "block" => Phase(o) = 1
  BY DEF Phase
LEMMA ApplyLawful ==
    ASSUME NEW c \in Context, NEW T, NEW cut \in BOOLEAN, NEW blk, NEW p, Lawful(c, T, cut, blk, p),
           NEW o, Lasting(c, T, cut, blk, o)
    PROVE  Lawful(c, T, cut, blk, Apply(o, c, p))
  <1>1. o \in Operation /\ o.ttl \in T /\ (o.op = "block" => blk) /\ o.op \in Names
    BY DEF Lasting, Operation
  <1>2. Phase(o) # 3 => cut = FALSE
    BY DEF Lasting
  <1>3. CASE o.op \in {"multisplit", "multidisorder", "fakedsplit", "fakeddisorder", "hostfakesplit"}
    <2>1. cut = FALSE
      BY <1>2, <1>3, PhaseIs
    <2>2. Lawful(c, T, FALSE, blk, p)
      BY <2>1
    <2>3. Lawful(c, T, FALSE, blk, Apply(o, c, p))
      <3>1. CASE o.op = "multisplit"
        BY <1>1, <2>2, <3>1, MultisplitLawful DEF Apply
      <3>2. CASE o.op = "multidisorder"
        BY <1>1, <2>2, <3>2, MultidisorderLawful DEF Apply
      <3>3. CASE o.op = "fakedsplit"
        BY <1>1, <2>2, <3>3, FakedsplitLawful DEF Apply
      <3>4. CASE o.op = "fakeddisorder"
        BY <1>1, <2>2, <3>4, FakeddisorderLawful DEF Apply
      <3>5. CASE o.op = "hostfakesplit"
        BY <1>1, <2>2, <3>5, HostfakesplitLawful DEF Apply
      <3>. QED BY <1>3, <3>1, <3>2, <3>3, <3>4, <3>5
    <2>. QED BY <2>1, <2>3
  <1>4. CASE o.op \in {"fake", "fakeknown"}
    BY <1>1, <1>4, FakeLawful DEF Apply
  <1>5. CASE o.op = "rst"
    BY <1>1, <1>5, RstLawful DEF Apply
  <1>6. CASE o.op = "syndata"
    BY <1>1, <1>6, SyndataLawful DEF Apply
  <1>7. CASE o.op = "block"
    <2>1. cut = FALSE
      BY <1>2, <1>7, PhaseIs
    <2>2. Apply(o, c, p) = Block(o, c, p)
      BY <1>7 DEF Apply
    <2>. QED BY <1>1, <1>7, <2>1, <2>2, EmptyLawful, Zenon
  <1>8. CASE o.op = "ipfrag1"
    BY <1>1, <1>8, Ipfrag1Lawful DEF Apply
  <1>9. CASE o.op = "ipfrag2"
    BY <1>1, <1>9, Ipfrag2Lawful DEF Apply
  <1>10. CASE o.op = "hopbyhop"
    BY <1>1, <1>10, Ipv6ExtLawful DEF Apply
  <1>11. CASE o.op = "udplen"
    BY <1>1, <1>11, UdplenLawful DEF Apply
  <1>12. CASE o.op = "wssize"
    BY <1>1, <1>12, WssizeLawful DEF Apply
  <1>13. CASE o.op = "ip_id"
    BY <1>1, <1>13, IpIdLawful DEF Apply
  <1>14. CASE o.op = "tamper"
    BY <1>1, <1>14, TamperLawful DEF Apply
  <1>15. CASE o.op = "tlsrec"
    BY <1>1, <1>15, TlsrecLawful DEF Apply
  <1>16. \/ o.op \in {"multisplit", "multidisorder", "fakedsplit", "fakeddisorder", "hostfakesplit"}
         \/ o.op \in {"fake", "fakeknown"} \/ o.op = "rst" \/ o.op = "syndata" \/ o.op = "block" \/ o.op = "ipfrag1" \/ o.op = "ipfrag2"
         \/ o.op = "hopbyhop" \/ o.op = "udplen" \/ o.op = "wssize" \/ o.op = "ip_id" \/ o.op = "tamper" \/ o.op = "tlsrec"
    BY <1>1 DEF Names
  <1>. QED BY <1>3, <1>4, <1>5, <1>6, <1>7, <1>8, <1>9, <1>10, <1>11, <1>12, <1>13, <1>14, <1>15, <1>16, Zenon

LEMMA DegradeLawful ==
    ASSUME NEW c \in Context, NEW T, NEW cut \in BOOLEAN, NEW blk, NEW p, Lawful(c, T, cut, blk, p),
           NEW o, Lasting(c, T, cut, blk, o)
    PROVE  Lawful(c, T, cut, blk, Degrade(o, c, p))
  <1>1. o \in Operation
    BY DEF Lasting
  <1>2. Phase(o) # 3 => cut = FALSE
    BY DEF Lasting
  <1>3. CASE o.op \in {"multidisorder", "fakedsplit", "fakeddisorder", "hostfakesplit"}
    <2>1. cut = FALSE
      BY <1>2, <1>3, PhaseIs
    <2>2. Lawful(c, T, FALSE, blk, p)
      BY <2>1
    <2>3. Lawful(c, T, FALSE, blk, Degrade(o, c, p))
      <3>1. CASE o.op = "multidisorder"
        BY <1>1, <2>2, <3>1, MultidisorderDegradeLawful DEF Degrade
      <3>2. CASE o.op \in {"fakedsplit", "fakeddisorder"}
        BY <1>1, <2>2, <3>2, SegDegradeSplitLawful DEF Degrade
      <3>3. CASE o.op = "hostfakesplit"
        BY <1>1, <2>2, <3>3, HostfakesplitDegradeLawful DEF Degrade
      <3>. QED BY <1>3, <3>1, <3>2, <3>3
    <2>. QED BY <2>1, <2>3
  <1>4. CASE ~(o.op \in {"multidisorder", "fakedsplit", "fakeddisorder", "hostfakesplit"})
    BY <1>4 DEF Degrade
  <1>. QED BY <1>3, <1>4

(* The profile asks for a cut of the name with o, which makes it. *)
Cutter(c, o) ==
    /\ Supported(o, c) /\ o.ovl = 0 /\ Named(o, c)
    /\ o.op \in {"multisplit", "multidisorder"} \/ (o.op \in {"fakedsplit", "fakeddisorder"} /\ c.len <= MaxFake)
LEMMA CutterLawful ==
    ASSUME NEW c \in Context, NEW T, NEW blk, NEW p, Lawful(c, T, FALSE, blk, p),
           NEW o, Lasting(c, T, FALSE, blk, o), Cutter(c, o)
    PROVE  Lawful(c, T, TRUE, blk, Apply(o, c, p))
  <1>1. o \in Operation /\ o.ttl \in T
    BY DEF Lasting
  <1>2. Named(o, c) /\ o.ovl = 0
    BY DEF Cutter
  <1>3. CASE o.op = "multisplit"
    BY <1>1, <1>2, <1>3, MultisplitLawful DEF Apply
  <1>4. CASE o.op = "multidisorder"
    BY <1>1, <1>2, <1>4, MultidisorderLawful DEF Apply
  <1>5. CASE o.op = "fakedsplit" /\ c.len <= MaxFake
    BY <1>1, <1>2, <1>5, FakedsplitLawful DEF Apply
  <1>6. CASE o.op = "fakeddisorder" /\ c.len <= MaxFake
    BY <1>1, <1>2, <1>6, FakeddisorderLawful DEF Apply
  <1>. QED BY <1>3, <1>4, <1>5, <1>6 DEF Cutter

(* One turn keeps a plan lawful, whether the operation is applied, degrades or is left out. *)
Turning(c, T, cut, blk, o) ==
    o \in Operation /\ ApplyTTL(o, c).ttl \in T /\ (cut => Phase(o) = 3) /\ (o.op = "block" => blk)
LEMMA PhaseOf == ASSUME NEW o, NEW r, o.op = r.op PROVE Phase(o) = Phase(r)
  BY Zenon DEF Phase
LEMMA StepLawful ==
    ASSUME NEW c \in Context, NEW T, NEW cut \in BOOLEAN, NEW blk, NEW p, Lawful(c, T, cut, blk, p),
           NEW o, Turning(c, T, cut, blk, o), NEW u
    PROVE  Lawful(c, T, cut, blk, Step(o, c, u, p))
  <1>. DEFINE r == ApplyTTL(o, c)
  <1>1. o \in Operation /\ r.ttl \in T /\ (cut => Phase(o) = 3) /\ (o.op = "block" => blk)
    BY DEF Turning
  <1>2. SameButTTL(o, r)
    BY <1>1, TTLApplied
  <1>. HIDE DEF r
  <1>3. r \in Operation /\ r.op = o.op
    BY <1>2 DEF SameButTTL
  <1>4. Phase(r) = Phase(o)
    BY <1>3, PhaseOf, Zenon
  <1>5. Lasting(c, T, cut, blk, r)
    BY <1>1, <1>3, <1>4, Zenon DEF Lasting
  <1>6. Lawful(c, T, cut, blk, Apply(r, c, p)) /\ Lawful(c, T, cut, blk, Degrade(r, c, p))
    BY <1>5, ApplyLawful, DegradeLawful, Zenon
  <1>7. Step(o, c, u, p) \in {Apply(r, c, p), Degrade(r, c, p), p}
    BY Zenon DEF Step, r
  <1>. QED BY <1>6, <1>7

LEMMA SupportedOf == ASSUME NEW c, NEW o, NEW r, o.op = r.op PROVE Supported(o, c) <=> Supported(r, c)
  <1>1. Requires(o) = Requires(r)
    BY Zenon DEF Requires
  <1>. QED BY <1>1, Zenon DEF Supported
LEMMA StepCuts ==
    ASSUME NEW c \in Context, NEW T, NEW blk, NEW p, Lawful(c, T, FALSE, blk, p),
           NEW o, Turning(c, T, FALSE, blk, o), Cutter(c, o), NEW u
    PROVE  Lawful(c, T, TRUE, blk, Step(o, c, u, p))
  <1>. DEFINE r == ApplyTTL(o, c)
  <1>1. o \in Operation /\ r.ttl \in T /\ (o.op = "block" => blk)
    BY DEF Turning
  <1>2. SameButTTL(o, r)
    BY <1>1, TTLApplied
  <1>. HIDE DEF r
  <1>3. r \in Operation /\ r.op = o.op /\ r.ovl = o.ovl /\ r.pos = o.pos
    BY <1>2 DEF SameButTTL
  <1>5. Lasting(c, T, FALSE, blk, r)
    BY <1>1, <1>3, Zenon DEF Lasting
  <1>6. Specs(r) = Specs(o)
    BY <1>3, Zenon DEF Specs
  <1>7. Supported(r, c)
    BY <1>3, SupportedOf, Zenon DEF Cutter
  <1>8. Cutter(c, r)
    BY <1>3, <1>6, <1>7, Zenon DEF Cutter, Named
  <1>9. Step(o, c, u, p) = Apply(r, c, p)
    BY Zenon DEF Step, Cutter, r
  <1>. QED BY <1>5, <1>8, <1>9, CutterLawful, Zenon

(* What the loader makes of a profile: its operations, in the order of their phases. *)
InOrder(ops) == Sorted(DOMAIN ops, [i \in DOMAIN ops |-> Phase(ops[i])])
CompiledAs(ops, n, todo, at) ==
    /\ n \in Nat /\ todo \in Seq(Operation) /\ Len(todo) = n /\ at \in [1 .. n -> 1 .. n]
    /\ \A k \in 1 .. n : todo[k] = ops[at[k]] /\ todo[k] \in Operation /\ Phase(todo[k]) \in 0 .. 3
    /\ \A i \in 1 .. n : \E k \in 1 .. n : at[k] = i
    /\ \A j, k \in 1 .. n : j < k => Phase(todo[j]) <= Phase(todo[k]) /\ at[j] # at[k]
LEMMA PhaseRange == ASSUME NEW o PROVE Phase(o) \in 0 .. 3
  <1>1. Phase(o) = 0 \/ Phase(o) = 1 \/ Phase(o) = 2 \/ Phase(o) = 3
    BY Zenon DEF Phase
  <1>. QED BY <1>1
LEMMA CompiledFacts ==
    ASSUME NEW ops \in Seq(Operation)
    PROVE  CompiledAs(ops, Len(ops), Compiled(ops), InOrder(ops))
  <1>. DEFINE I == DOMAIN ops
              key == [i \in I |-> Phase(ops[i])]
              n == Len(ops)
              at == Sorted(I, key)
              todo == [k \in I |-> ops[at[k]]]
  <1>1. n \in Nat /\ I = 1 .. n /\ \A i \in 1 .. n : ops[i] \in Operation
    OBVIOUS
  <1>2. IsFiniteSet(I) /\ Cardinality(I) = n
    <2>1. IsFiniteSet(1 .. n) /\ Cardinality(1 .. n) = IF 1 > n THEN 0 ELSE n - 1 + 1
      BY <1>1, FS_Interval
    <2>. HIDE DEF I, n
    <2>2. (IF 1 > n THEN 0 ELSE n - 1 + 1) = n
      BY <1>1
    <2>. QED BY <1>1, <2>1, <2>2
  <1>3. I \in SUBSET Int
    BY <1>1
  <1>4. key \in [I -> Int] /\ \A i \in I : key[i] = Phase(ops[i])
    BY PhaseRange
  <1>. HIDE DEF key, n
  <1>5. /\ at \in [1 .. n -> I]
        /\ \A i \in I : \E k \in 1 .. n : at[k] = i
        /\ \A a, b \in 1 .. n : a < b => key[at[a]] < key[at[b]] \/ (key[at[a]] = key[at[b]] /\ at[a] < at[b])
    BY <1>2, <1>3, <1>4, SortedFacts, ZenonT(40)
  <1>6. Compiled(ops) = todo /\ InOrder(ops) = at
    BY DEF Compiled, InOrder, key
  <1>. HIDE DEF at, I
  <1>7. todo \in Seq(Operation) /\ Len(todo) = n /\ \A k \in 1 .. n : todo[k] = ops[at[k]] /\ todo[k] \in Operation
    <2>1. DOMAIN todo = 1 .. n /\ \A k \in 1 .. n : todo[k] = ops[at[k]] /\ at[k] \in 1 .. n
      BY <1>1, <1>5
    <2>. HIDE DEF todo
    <2>2. \A k \in 1 .. n : todo[k] = ops[at[k]] /\ todo[k] \in Operation
      BY <1>1, <2>1
    <2>3. todo = [k \in 1 .. n |-> todo[k]]
      BY <1>1 DEF todo
    <2>4. todo \in [1 .. n -> Operation]
      BY <2>2, <2>3
    <2>5. todo \in Seq(Operation) /\ Len(todo) = n
      BY <1>1, <2>4
    <2>. QED BY <2>2, <2>5
  <1>. HIDE DEF todo
  <1>8. \A j, k \in 1 .. n : j < k => Phase(todo[j]) <= Phase(todo[k]) /\ at[j] # at[k]
    <2>. SUFFICES ASSUME NEW j \in 1 .. n, NEW k \in 1 .. n, j < k PROVE Phase(todo[j]) <= Phase(todo[k]) /\ at[j] # at[k]
      OBVIOUS
    <2>0. at[j] \in I /\ at[k] \in I
      BY <1>5
    <2>1. key[at[j]] = Phase(todo[j]) /\ key[at[k]] = Phase(todo[k]) /\ at[j] \in Int /\ at[k] \in Int
      <3>1. todo[j] = ops[at[j]] /\ todo[k] = ops[at[k]]
        BY <1>7, Zenon
      <3>2. key[at[j]] = Phase(ops[at[j]]) /\ key[at[k]] = Phase(ops[at[k]])
        BY <1>4, <2>0, Zenon
      <3>. QED BY <1>1, <2>0, <3>1, <3>2
    <2>2. key[at[j]] \in Int /\ key[at[k]] \in Int
      BY <1>4, <1>5
    <2>3. key[at[j]] < key[at[k]] \/ (key[at[j]] = key[at[k]] /\ at[j] < at[k])
      BY <1>5
    <2>4. at[j] # at[k]
      BY <2>1, <2>2, <2>3
    <2>. QED BY <2>1, <2>2, <2>3, <2>4
  <1>9. \A k \in 1 .. n : Phase(todo[k]) \in 0 .. 3
    BY PhaseRange, Zenon
  <1>10. CompiledAs(ops, n, todo, at)
    BY <1>1, <1>5, <1>7, <1>8, <1>9 DEF CompiledAs
  <1>. QED BY <1>6, <1>10 DEF n

(* The TTLs of a profile's operations, and whether one of them blocks. *)
TTLs(ops, c) == {ApplyTTL(ops[i], c).ttl : i \in DOMAIN ops}
Blocking(ops) == \E i \in DOMAIN ops : ops[i].op = "block"
LEMMA Turned ==
    ASSUME NEW c \in Context, NEW ops \in Seq(Operation), NEW k \in 1 .. Len(ops)
    PROVE  Turning(c, TTLs(ops, c), FALSE, Blocking(ops), Compiled(ops)[k])
  <1>. DEFINE todo == Compiled(ops)
              at == InOrder(ops)
  <1>1. todo[k] = ops[at[k]] /\ todo[k] \in Operation /\ at[k] \in 1 .. Len(ops)
    BY CompiledFacts DEF CompiledAs
  <1>2. at[k] \in DOMAIN ops
    BY <1>1
  <1>. HIDE DEF todo, at
  <1>3. ApplyTTL(todo[k], c).ttl \in TTLs(ops, c)
    BY <1>1, <1>2, Zenon DEF TTLs
  <1>4. todo[k].op = "block" => Blocking(ops)
    BY <1>1, <1>2, Zenon DEF Blocking
  <1>. QED BY <1>1, <1>3, <1>4 DEF Turning, todo

(* The plans after each operation. *)
Unrolled(ops, c, u, f) ==
    /\ f[0] = EmptyPlan
    /\ \A k \in 1 .. Len(ops) : f[k] = Step(Compiled(ops)[k], c, u, f[k - 1])
    /\ Run(ops, c, u) = Finished(f[Len(ops)])
LEMMA RunUnfolds ==
    ASSUME NEW c \in Context, NEW ops \in Seq(Operation), NEW u
    PROVE  \E f : Unrolled(ops, c, u, f)
  <1>. DEFINE todo == Compiled(ops)
              n == Len(ops)
              T == TTLs(ops, c)
              V == {p \in PlanOf(T) : Lawful(c, T, FALSE, Blocking(ops), p)}
              step == [k \in 1 .. n |-> [p \in V |-> Step(todo[k], c, u, p)]]
              Is(f) == f = [k \in 0 .. n |-> IF k = 0 THEN EmptyPlan ELSE Step(todo[k], c, u, f[k - 1])]
              plan == CHOOSE f : Is(f)
  <1>1. n \in Nat /\ Len(todo) = n
    BY CompiledFacts DEF CompiledAs
  <1>2. EmptyPlan \in V
    BY EmptyLawful, LawfulFields
  <1>3. ASSUME NEW k \in 1 .. n, NEW p \in V PROVE Step(todo[k], c, u, p) \in V
    BY Turned, StepLawful, LawfulFields
  <1>. HIDE DEF V, n
  <1>4. step \in [1 .. n -> [V -> V]]
    BY <1>3
  <1>5. PICK f \in [0 .. n -> V] : Unfolds(f, n, EmptyPlan, step)
    BY <1>1, <1>2, <1>4, Recursive
  <1>6. f[0] = EmptyPlan /\ \A k \in 1 .. n : f[k] = Step(todo[k], c, u, f[k - 1])
    <2>1. \A k \in 1 .. n : k - 1 \in 0 .. n
      BY <1>1
    <2>2. \A k \in 1 .. n : step[k][f[k - 1]] = Step(todo[k], c, u, f[k - 1])
      BY <1>5, <2>1
    <2>. QED BY <1>5, <2>2 DEF Unfolds
  <1>7. Is(f)
    <2>1. f = [k \in 0 .. n |-> f[k]]
      BY <1>5
    <2>2. \A k \in 0 .. n : f[k] = IF k = 0 THEN EmptyPlan ELSE Step(todo[k], c, u, f[k - 1])
      BY <1>1, <1>6
    <2>. QED BY <2>1, <2>2, Zenon
  <1>. HIDE DEF Is
  <1>8. Is(plan)
    BY <1>7, Zenon
  <1>. DEFINE g == plan
  <1>9. /\ g = [k \in 0 .. n |-> IF k = 0 THEN EmptyPlan ELSE Step(todo[k], c, u, g[k - 1])]
    BY <1>8, Zenon DEF Is
  <1>10. Run(ops, c, u) = Finished(g[n])
    BY <1>1, Zenon DEF Run, Is
  <1>. HIDE DEF g
  <1>11. g[0] = EmptyPlan /\ \A k \in 1 .. n : g[k] = Step(todo[k], c, u, g[k - 1])
    <2>1. 0 \in 0 .. n /\ \A k \in 1 .. n : k \in 0 .. n /\ k # 0
      BY <1>1
    <2>. QED BY <1>9, <2>1, Zenon
  <1>. QED BY <1>10, <1>11, Zenon DEF Unrolled, n

(* A finished plan. *)
Whole(c, T, blk, p) ==
    /\ p \in PlanOf(T) /\ SegsLawful(c, T, FALSE, p.segs) /\ DgramsLawful(c, T, p.dgrams)
    /\ IF p.drop THEN blk \/ p.segs # <<>> \/ p.dgrams # <<>> ELSE p.segs = <<>> /\ p.dgrams = <<>>
LEMMA FinishedIs ==
    ASSUME NEW T, NEW p \in PlanOf(T)
    PROVE  /\ Finished(p) \in PlanOf(T) /\ Finished(p).segs = p.segs /\ Finished(p).dgrams = p.dgrams
           /\ Finished(p).drop = (p.drop \/ p.segs # <<>> \/ p.dgrams # <<>>)
  BY DEF Finished, PlanOf
LEMMA FinishedWhole ==
    ASSUME NEW c, NEW T, NEW blk, NEW p, Lawful(c, T, FALSE, blk, p)
    PROVE  Whole(c, T, blk, Finished(p))
  <1>1. p \in PlanOf(T) /\ SegsLawful(c, T, FALSE, p.segs) /\ DgramsLawful(c, T, p.dgrams) /\ (p.drop /\ ~blk => p.segs # <<>>)
    BY DEF Lawful
  <1>. DEFINE q == Finished(p)
  <1>2. q \in PlanOf(T) /\ q.segs = p.segs /\ q.dgrams = p.dgrams /\ q.drop = (p.drop \/ p.segs # <<>> \/ p.dgrams # <<>>)
    BY <1>1, FinishedIs
  <1>. HIDE DEF q
  <1>. QED BY <1>1, <1>2 DEF Whole, q

LEMMA StepsLawful ==
    ASSUME NEW c \in Context, NEW ops \in Seq(Operation), NEW u, NEW f, Unrolled(ops, c, u, f)
    PROVE  \A k \in 0 .. Len(ops) : Lawful(c, TTLs(ops, c), FALSE, Blocking(ops), f[k])
  <1>. DEFINE n == Len(ops)
              G == {k \in 0 .. n : Lawful(c, TTLs(ops, c), FALSE, Blocking(ops), f[k])}
  <1>1. n \in Nat
    OBVIOUS
  <1>2. 0 \in G
    <2>1. Lawful(c, TTLs(ops, c), FALSE, Blocking(ops), EmptyPlan)
      BY EmptyLawful
    <2>2. f[0] = EmptyPlan /\ 0 \in 0 .. n
      BY <1>1 DEF Unrolled
    <2>. QED BY <2>1, <2>2, Zenon
  <1>3. ASSUME NEW k \in 0 .. n - 1, k \in G PROVE k + 1 \in G
    <2>1. k + 1 \in 1 .. n /\ (k + 1) - 1 = k /\ k + 1 \in 0 .. n
      BY <1>1
    <2>2. f[k + 1] = Step(Compiled(ops)[k + 1], c, u, f[k])
      BY <2>1 DEF Unrolled
    <2>3. Turning(c, TTLs(ops, c), FALSE, Blocking(ops), Compiled(ops)[k + 1])
      BY <2>1, Turned
    <2>4. Lawful(c, TTLs(ops, c), FALSE, Blocking(ops), f[k])
      BY <1>3
    <2>5. Lawful(c, TTLs(ops, c), FALSE, Blocking(ops), f[k + 1])
      BY <2>2, <2>3, <2>4, StepLawful
    <2>. QED BY <2>1, <2>5
  <1>. HIDE DEF G, n
  <1>4. \A k \in 0 .. n : k \in G
    BY <1>1, <1>2, <1>3, Induct
  <1>. QED BY <1>4 DEF G, n

(* Engine.run, for any profile and any packet of its context: the data of the     *)
(* plan are a tiling of a form of the payload, so each byte of it once, and what  *)
(* drops the packet puts something in its place unless an operation blocks it.    *)
THEOREM PlanHoldsPayload ==
    ASSUME NEW c \in Context, NEW ops \in Seq(Operation), NEW u
    PROVE  Whole(c, TTLs(ops, c), Blocking(ops), Run(ops, c, u))
  <1>1. PICK f : Unrolled(ops, c, u, f)
    BY RunUnfolds
  <1>2. Len(ops) \in 0 .. Len(ops)
    OBVIOUS
  <1>3. Lawful(c, TTLs(ops, c), FALSE, Blocking(ops), f[Len(ops)])
    BY <1>1, <1>2, StepsLawful, Zenon
  <1>4. Run(ops, c, u) = Finished(f[Len(ops)])
    BY <1>1, Zenon DEF Unrolled
  <1>. QED BY <1>3, <1>4, FinishedWhole, Zenon

(* The one operation of a profile that cuts, and cuts the name. *)
Splits(ops) == Chosen(ops, {i \in DOMAIN ops : Phase(ops[i]) = 2})
OneCut(ops, c) == Len(Splits(ops)) = 1 /\ Cutter(c, Splits(ops)[1])
OnlyAt(ops, todo, n, s) ==
    /\ s \in 1 .. n /\ todo[s] = Splits(ops)[1]
    /\ \A k \in 1 .. n : k > s => Phase(todo[k]) = 3
LEMMA OneSplit ==
    ASSUME NEW ops \in Seq(Operation), Len(Splits(ops)) = 1
    PROVE  \E s : OnlyAt(ops, Compiled(ops), Len(ops), s)
  <1>. DEFINE n == Len(ops)
              I == {i \in DOMAIN ops : Phase(ops[i]) = 2}
              q == Ascending(I)
              todo == Compiled(ops)
              at == InOrder(ops)
  <1>1. n \in Nat /\ DOMAIN ops = 1 .. n /\ I \in SUBSET (1 .. n)
    OBVIOUS
  <1>2. CompiledAs(ops, n, todo, at)
    BY CompiledFacts
  <1>. HIDE DEF I, todo, at
  <1>3. /\ Len(Chosen(ops, I)) = Cardinality(I) /\ Cardinality(I) \in Nat
        /\ q \in [1 .. Cardinality(I) -> I] /\ (\A k \in 1 .. Cardinality(I) : Chosen(ops, I)[k] = ops[q[k]])
        /\ \A i \in I : \E k \in 1 .. Cardinality(I) : q[k] = i
    BY <1>1, ChosenFacts
  <1>4. Splits(ops) = Chosen(ops, I)
    BY DEF Splits, I
  <1>5. Cardinality(I) = 1
    BY <1>3, <1>4
  <1>. HIDE DEF q
  <1>6. q[1] \in I /\ Splits(ops)[1] = ops[q[1]] /\ \A i \in I : i = q[1]
    <2>1. 1 \in 1 .. 1 /\ \A k \in 1 .. 1 : k = 1
      OBVIOUS
    <2>. QED BY <1>3, <1>4, <1>5, <2>1
  <1>7. q[1] \in 1 .. n /\ Phase(ops[q[1]]) = 2
    BY <1>1, <1>6 DEF I
  <1>8. PICK s \in 1 .. n : at[s] = q[1]
    BY <1>2, <1>7 DEF CompiledAs
  <1>9. todo[s] = ops[q[1]]
    BY <1>2, <1>8, Zenon DEF CompiledAs
  <1>10. ASSUME NEW k \in 1 .. n, k > s PROVE Phase(todo[k]) = 3
    <2>1. Phase(todo[s]) <= Phase(todo[k]) /\ at[s] # at[k]
      BY <1>2, <1>10 DEF CompiledAs
    <2>2. todo[k] = ops[at[k]] /\ at[k] \in 1 .. n
      BY <1>2 DEF CompiledAs
    <2>3. at[k] \notin I
      BY <1>6, <1>8, <2>1, Zenon
    <2>4. Phase(todo[k]) # 2
      BY <1>1, <2>2, <2>3 DEF I
    <2>5. Phase(todo[k]) \in 0 .. 3
      BY PhaseRange
    <2>6. Phase(todo[s]) = 2
      BY <1>7, <1>9
    <2>. QED BY <2>1, <2>4, <2>5, <2>6
  <1>11. OnlyAt(ops, todo, n, s)
    BY <1>6, <1>9, <1>10 DEF OnlyAt
  <1>. QED BY <1>11 DEF todo
LEMMA RunCut ==
    ASSUME NEW c \in Context, NEW ops \in Seq(Operation), NEW u, OneCut(ops, c)
    PROVE  SegsLawful(c, TTLs(ops, c), TRUE, Run(ops, c, u).segs)
  <1>. DEFINE n == Len(ops)
              T == TTLs(ops, c)
              blk == Blocking(ops)
              todo == Compiled(ops)
  <1>1. PICK f : Unrolled(ops, c, u, f)
    BY RunUnfolds
  <1>2. n \in Nat
    OBVIOUS
  <1>3. PICK s : OnlyAt(ops, todo, n, s)
    BY OneSplit DEF OneCut
  <1>. DEFINE G == {k \in 0 .. n : k >= s => Lawful(c, T, TRUE, blk, f[k])}
  <1>4. s \in 1 .. n /\ Cutter(c, todo[s]) /\ \A k \in 1 .. n : k > s => Phase(todo[k]) = 3
    BY <1>3, Zenon DEF OnlyAt, OneCut
  <1>. HIDE DEF T, blk, n, todo
  <1>5. 0 \in G
    <2>1. 0 \in 0 .. n /\ ~(0 >= s)
      BY <1>2, <1>4
    <2>. QED BY <2>1, Zenon
  <1>6. ASSUME NEW k \in 0 .. n - 1, k \in G PROVE k + 1 \in G
    <2>1. k + 1 \in 1 .. n /\ (k + 1) - 1 = k /\ k + 1 \in 0 .. n /\ k \in 0 .. n /\ s \in Int
      BY <1>2, <1>4
    <2>2. f[k + 1] = Step(todo[k + 1], c, u, f[k])
      BY <1>1, <2>1 DEF Unrolled, todo, n
    <2>3. Turning(c, T, FALSE, blk, todo[k + 1])
      BY <2>1, Turned DEF T, blk, todo, n
    <2>4. Lawful(c, T, FALSE, blk, f[k])
      BY <1>1, <2>1, StepsLawful DEF T, blk, n
    <2>5. CASE k + 1 = s
      <3>1. Cutter(c, todo[k + 1])
        BY <1>4, <2>5
      <3>2. Lawful(c, T, TRUE, blk, f[k + 1])
        BY <2>2, <2>3, <2>4, <3>1, StepCuts, Zenon
      <3>. QED BY <2>1, <3>2
    <2>6. CASE k + 1 > s
      <3>1. k >= s
        BY <2>1, <2>6
      <3>2. Lawful(c, T, TRUE, blk, f[k])
        BY <1>6, <3>1
      <3>3. Phase(todo[k + 1]) = 3
        BY <1>4, <2>1, <2>6
      <3>4. Turning(c, T, TRUE, blk, todo[k + 1])
        BY <2>3, <3>3 DEF Turning
      <3>5. Lawful(c, T, TRUE, blk, f[k + 1])
        BY <2>2, <3>2, <3>4, StepLawful
      <3>. QED BY <2>1, <3>5
    <2>7. CASE k + 1 < s
      <3>1. ~(k + 1 >= s)
        BY <2>1, <2>7
      <3>. QED BY <2>1, <3>1, Zenon
    <2>8. k + 1 = s \/ k + 1 > s \/ k + 1 < s
      BY <2>1
    <2>. QED BY <2>5, <2>6, <2>7, <2>8, Zenon
  <1>. HIDE DEF G
  <1>7. \A k \in 0 .. n : k \in G
    BY <1>2, <1>5, <1>6, Induct
  <1>8. Lawful(c, T, TRUE, blk, f[n])
    <2>1. n \in 0 .. n /\ n >= s
      BY <1>2, <1>4
    <2>2. n \in G
      BY <1>7, <2>1
    <2>. QED BY <2>1, <2>2 DEF G
  <1>9. Run(ops, c, u) = Finished(f[n])
    BY <1>1, Zenon DEF Unrolled, n
  <1>10. f[n] \in PlanOf(T) /\ SegsLawful(c, T, TRUE, f[n].segs)
    BY <1>8 DEF Lawful
  <1>11. Finished(f[n]).segs = f[n].segs
    BY <1>10, FinishedIs
  <1>. QED BY <1>9, <1>10, <1>11 DEF T

==============================================================================
