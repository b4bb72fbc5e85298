---------------------------- MODULE OrderLemmas ----------------------------
(***************************************************************************)
(* Facts about the elements of a finite set in an order, and about reading  *)
(* a sequence to its end, that the proofs of several components rest on.   *)
(***************************************************************************)
EXTENDS Integers, Sequences, SequencesExt, FiniteSets, SequenceTheorems, FiniteSetTheorems, TLAPS

(* A function on 1..n is a sequence of n elements.                        *)
LEMMA FunctionIsSeq ==
    ASSUME NEW S, NEW n \in Nat, NEW f \in [1..n -> S]
    PROVE  f \in Seq(S) /\ Len(f) = n
<1>1. f \in Seq(S)
  OBVIOUS
<1> QED
  BY <1>1, LenProperties

-----------------------------------------------------------------------------
(* R orders S strictly: of two elements one is before the other.            *)
Orders(R, S) ==
    /\ \A x \in S : <<x, x>> \notin R
    /\ \A x, y \in S : x # y => <<x, y>> \in R \/ <<y, x>> \in R
    /\ \A x, y, z \in S : <<x, y>> \in R /\ <<y, z>> \in R => <<x, z>> \in R

Rank(R, S, x) == Cardinality({y \in S : <<y, x>> \in R})

(* In a finite set each element has a rank of its own, from 0 on, and each  *)
(* rank below the number of elements is one's.                              *)
LEMMA RanksAreAll ==
    ASSUME NEW S, IsFiniteSet(S), NEW R, Orders(R, S)
    PROVE  /\ \A x \in S : Rank(R, S, x) \in 0..(Cardinality(S) - 1)
           /\ \A x, y \in S : <<x, y>> \in R => Rank(R, S, x) < Rank(R, S, y)
           /\ \A x, y \in S : Rank(R, S, x) = Rank(R, S, y) => x = y
           /\ \A k \in 1..Cardinality(S) : \E x \in S : Rank(R, S, x) = k - 1
<1> DEFINE n == Cardinality(S)
           Before(x) == {y \in S : <<y, x>> \in R}
           rank == [x \in S |-> Rank(R, S, x)]
<1>1. n \in Nat
  BY FS_CardinalityType
<1>2. ASSUME NEW x \in S
      PROVE  /\ IsFiniteSet(Before(x)) /\ Cardinality(Before(x)) \in 0..(n - 1)
             /\ Rank(R, S, x) = Cardinality(Before(x))
  <2>1. IsFiniteSet(Before(x)) /\ Cardinality(Before(x)) <= n
        /\ (Cardinality(S) = Cardinality(Before(x)) => S = Before(x))
    BY FS_Subset
  <2>2. Before(x) # S
    BY DEF Orders
  <2>3. Cardinality(Before(x)) # n /\ Cardinality(Before(x)) \in Nat
    BY <2>1, <2>2, FS_CardinalityType
  <2>4. Rank(R, S, x) = Cardinality(Before(x))
    BY DEF Rank
  <2> HIDE DEF Before, n
  <2> QED
    BY <1>1, <2>1, <2>3, <2>4
<1>3. ASSUME NEW x \in S, NEW y \in S, <<x, y>> \in R
      PROVE  Rank(R, S, x) < Rank(R, S, y)
  <2>1. Before(x) \subseteq Before(y)
    BY <1>3 DEF Orders
  <2>2. x \notin Before(x) /\ x \in Before(y)
    BY <1>3 DEF Orders
  <2>3. Before(x) # Before(y)
    BY <2>2
  <2>4. IsFiniteSet(Before(y))
    BY <1>2
  <2>5. /\ Cardinality(Before(x)) <= Cardinality(Before(y))
        /\ Cardinality(Before(x)) # Cardinality(Before(y))
    <3> HIDE DEF Before
    <3> QED
      BY <2>1, <2>3, <2>4, FS_Subset
  <2> HIDE DEF Before, n
  <2>6. /\ Rank(R, S, x) = Cardinality(Before(x)) /\ Rank(R, S, y) = Cardinality(Before(y))
        /\ Cardinality(Before(x)) \in Int /\ Cardinality(Before(y)) \in Int
    BY <1>1, <1>2
  <2> QED
    BY <2>5, <2>6
<1>4. ASSUME NEW x \in S, NEW y \in S, Rank(R, S, x) = Rank(R, S, y)
      PROVE  x = y
  <2>1. Rank(R, S, x) \in Int
    <3> HIDE DEF Before, n
    <3> QED
      BY <1>1, <1>2
  <2>2. <<x, y>> \notin R
    BY <1>3, <1>4, <2>1
  <2>3. <<y, x>> \notin R
    BY <1>3, <1>4, <2>1
  <2> QED
    BY <2>2, <2>3 DEF Orders
<1>5. rank \in Injection(S, 0..(n - 1))
  <2>1. rank \in [S -> 0..(n - 1)]
    <3>1. \A x \in S : Rank(R, S, x) \in 0..(n - 1)
      BY <1>2
    <3> HIDE DEF n
    <3> QED
      BY <3>1
  <2>2. \A x, y \in S : rank[x] = rank[y] => x = y
    BY <1>4
  <2> HIDE DEF rank
  <2> QED
    BY <2>1, <2>2 DEF Injection, IsInjective
<1>6. IsFiniteSet(0..(n - 1)) /\ Cardinality(0..(n - 1)) = n
  <2> HIDE DEF n
  <2>1. 0 \in Int /\ n - 1 \in Int
    BY <1>1
  <2>2. IsFiniteSet(0..(n - 1)) /\ Cardinality(0..(n - 1)) = IF 0 > n - 1 THEN 0 ELSE n - 1 - 0 + 1
    BY <2>1, FS_Interval
  <2> QED
    BY <1>1, <2>2
<1>7. rank \in Surjection(S, 0..(n - 1))
  <2> HIDE DEF rank
  <2> QED
    BY <1>5, <1>6, FS_Injection
<1>8. \A k \in 1..n : \E x \in S : rank[x] = k - 1
  <2> HIDE DEF rank, n
  <2>1. \A k \in 1..n : k - 1 \in 0..(n - 1)
    BY <1>1
  <2> QED
    BY <1>7, <2>1 DEF Surjection
<1> QED
  <2>1. \A x \in S : Rank(R, S, x) \in 0..(n - 1)
    BY <1>2
  <2>2. \A k \in 1..n : \E x \in S : Rank(R, S, x) = k - 1
    BY <1>8
  <2> QED
    BY <1>3, <1>4, <2>1, <2>2

(* The elements of a finite set of numbers, the least first: each stands    *)
(* where as many are before it, and one above them all stands last.         *)
Nth(S, k) == CHOOSE i \in S : Cardinality({j \in S : j < i}) = k - 1

LEMMA LeastFirst ==
    ASSUME NEW S \in SUBSET Nat, IsFiniteSet(S)
    PROVE  /\ Cardinality(S) \in Nat
           /\ \A i \in S : Cardinality({j \in S : j < i}) \in 0..(Cardinality(S) - 1)
           /\ \A i, j \in S : i < j => Cardinality({l \in S : l < i}) < Cardinality({l \in S : l < j})
           /\ \A k \in 1..Cardinality(S) :
                 /\ Nth(S, k) \in S
                 /\ Cardinality({j \in S : j < Nth(S, k)}) = k - 1
                 /\ \A i \in S : Cardinality({j \in S : j < i}) = k - 1 => i = Nth(S, k)
<1> DEFINE R == {p \in S \X S : p[1] < p[2]}
           Under(i) == Cardinality({j \in S : j < i})
           n == Cardinality(S)
<1>1. Orders(R, S)
  BY DEF Orders
<1>2. ASSUME NEW i \in S
      PROVE  Rank(R, S, i) = Under(i)
  <2>1. {j \in S : <<j, i>> \in R} = {j \in S : j < i}
    OBVIOUS
  <2> QED
    BY <2>1 DEF Rank
<1>3. \A i, j \in S : i < j => <<i, j>> \in R
  OBVIOUS
<1>4. n \in Nat
  BY FS_CardinalityType
<1> HIDE DEF R, Under
<1>5. /\ \A i \in S : Rank(R, S, i) \in 0..(n - 1)
      /\ \A i, j \in S : <<i, j>> \in R => Rank(R, S, i) < Rank(R, S, j)
      /\ \A i, j \in S : Rank(R, S, i) = Rank(R, S, j) => i = j
      /\ \A k \in 1..n : \E i \in S : Rank(R, S, i) = k - 1
  <2>1. IsFiniteSet(S) /\ Orders(R, S)
    BY <1>1
  <2>2. /\ \A i \in S : Rank(R, S, i) \in 0..(Cardinality(S) - 1)
        /\ \A i, j \in S : <<i, j>> \in R => Rank(R, S, i) < Rank(R, S, j)
        /\ \A i, j \in S : Rank(R, S, i) = Rank(R, S, j) => i = j
        /\ \A k \in 1..Cardinality(S) : \E i \in S : Rank(R, S, i) = k - 1
    <3> HIDE DEF n
    <3> QED
      BY <2>1, RanksAreAll
  <2> QED
    BY <2>2
<1> HIDE DEF n
<1>6. /\ \A i \in S : Under(i) \in 0..(n - 1)
      /\ \A i, j \in S : i < j => Under(i) < Under(j)
      /\ \A i, j \in S : Under(i) = Under(j) => i = j
      /\ \A k \in 1..n : \E i \in S : Under(i) = k - 1
  BY <1>2, <1>3, <1>5
<1>7. \A k : Nth(S, k) = CHOOSE i \in S : Under(i) = k - 1
  BY DEF Nth, Under
<1>8. \A k \in 1..n : Nth(S, k) \in S /\ Under(Nth(S, k)) = k - 1
  BY <1>6, <1>7
<1>9. \A k \in 1..n : \A i \in S : Under(i) = k - 1 => i = Nth(S, k)
  BY <1>6, <1>8
<1> QED
  BY <1>4, <1>6, <1>8, <1>9 DEF Under, n

LEMMA NthOnce ==
    ASSUME NEW S \in SUBSET Nat, IsFiniteSet(S), NEW j \in 1..Cardinality(S), NEW k \in 1..Cardinality(S),
           Nth(S, j) = Nth(S, k)
    PROVE  j = k
<1>1. Cardinality({l \in S : l < Nth(S, j)}) = j - 1
  BY LeastFirst
<1>2. Cardinality({l \in S : l < Nth(S, k)}) = k - 1
  BY LeastFirst
<1>3. j - 1 = k - 1
  BY <1>1, <1>2
<1> QED
  BY <1>3

LEMMA OneMoreAtTheEnd ==
    ASSUME NEW S \in SUBSET Nat, IsFiniteSet(S), NEW n \in Nat, \A i \in S : i < n
    PROVE  /\ IsFiniteSet(S \cup {n}) /\ Cardinality(S \cup {n}) = Cardinality(S) + 1
           /\ \A k \in 1..Cardinality(S) : Nth(S \cup {n}, k) = Nth(S, k)
           /\ Nth(S \cup {n}, Cardinality(S) + 1) = n
<1> DEFINE T == S \cup {n}
           c == Cardinality(S)
<1>1. n \notin S
  OBVIOUS
<1>2. c \in Nat /\ IsFiniteSet(T) /\ Cardinality(T) = c + 1
  BY <1>1, FS_AddElement, FS_CardinalityType
<1>3. ASSUME NEW i \in S
      PROVE  {j \in T : j < i} = {j \in S : j < i}
  <2>1. i \in Nat /\ n \in Nat /\ i < n
    OBVIOUS
  <2>2. ~ (n < i)
    BY <2>1
  <2> QED
    BY <2>2
<1>4. {j \in T : j < n} = S
  <2>1. ~ (n < n)
    OBVIOUS
  <2> QED
    BY <2>1
<1> HIDE DEF T
<1>0. \A k \in 1..c + 1 : \A i \in T : Cardinality({j \in T : j < i}) = k - 1 => i = Nth(T, k)
  <2>1. T \in SUBSET Nat
    BY DEF T
  <2> QED
    BY <1>2, <2>1, LeastFirst
<1>5. ASSUME NEW k \in 1..c
      PROVE  Nth(T, k) = Nth(S, k)
  <2>1. Nth(S, k) \in S /\ Cardinality({j \in S : j < Nth(S, k)}) = k - 1
    BY LeastFirst
  <2>2. Nth(S, k) \in T /\ Cardinality({j \in T : j < Nth(S, k)}) = k - 1
    BY <1>3, <2>1 DEF T
  <2>3. k \in 1..c + 1
    BY <1>2
  <2> QED
    BY <1>0, <2>2, <2>3
<1>6. Nth(T, c + 1) = n
  <2>1. n \in T /\ Cardinality({j \in T : j < n}) = (c + 1) - 1
    BY <1>2, <1>4 DEF T
  <2>2. c + 1 \in 1..c + 1
    BY <1>2
  <2> QED
    BY <1>0, <2>1, <2>2
<1> QED
  BY <1>2, <1>5, <1>6 DEF T

(* What is left of a sequence that is read to its end is the end of it.     *)
EndOf(s, all) ==
    /\ Len(s) <= Len(all)
    /\ \A i \in 1..Len(s) : s[i] = all[Len(all) - Len(s) + i]

LEMMA EndOfTail ==
    ASSUME NEW S, NEW T, NEW s \in Seq(S), NEW all \in Seq(T), s # << >>, EndOf(s, all)
    PROVE  /\ EndOf(Tail(s), all) /\ Tail(s) \in Seq(S) /\ Len(Tail(s)) = Len(s) - 1
           /\ Len(all) - Len(s) + 1 \in 1..Len(all) /\ Head(s) = all[Len(all) - Len(s) + 1]
<1>1. Len(s) \in Nat /\ Len(all) \in Nat /\ Len(s) # 0
  BY EmptySeq, SeqEqual
<1>2. Tail(s) \in Seq(S) /\ Len(Tail(s)) = Len(s) - 1 /\ \A i \in 1..(Len(s) - 1) : Tail(s)[i] = s[i + 1]
  BY <1>1, HeadTailProperties
<1>3. Head(s) = s[1]
  BY <1>1
<1>4. s[1] = all[Len(all) - Len(s) + 1]
  BY <1>1 DEF EndOf
<1>5. EndOf(Tail(s), all)
  <2>1. Len(Tail(s)) <= Len(all)
    BY <1>1, <1>2 DEF EndOf
  <2>2. ASSUME NEW i \in 1..Len(Tail(s))
        PROVE  Tail(s)[i] = all[Len(all) - Len(Tail(s)) + i]
    <3>1. i \in 1..(Len(s) - 1) /\ i + 1 \in 1..Len(s)
      BY <1>1, <1>2
    <3>2. Tail(s)[i] = s[i + 1]
      BY <1>2, <3>1
    <3>3. s[i + 1] = all[Len(all) - Len(s) + (i + 1)]
      BY <3>1 DEF EndOf
    <3>4. Len(all) - Len(s) + (i + 1) = Len(all) - Len(Tail(s)) + i
      BY <1>1, <1>2, <3>1
    <3> QED
      BY <3>2, <3>3, <3>4
  <2> QED
    BY <2>1, <2>2 DEF EndOf
<1>6. Len(all) - Len(s) + 1 \in 1..Len(all)
  BY <1>1 DEF EndOf
<1> QED
  BY <1>2, <1>3, <1>4, <1>5, <1>6

LEMMA EndOfItself ==
    ASSUME NEW T, NEW all \in Seq(T)
    PROVE  EndOf(all, all)
BY DEF EndOf

=============================================================================
