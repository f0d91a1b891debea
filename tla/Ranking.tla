------------------------------- MODULE Ranking -------------------------------
(***************************************************************************)
(* A finite set laid out in the order of a relation: what a sort of a list *)
(* without duplicates returns, and, over positions, what a filter does.    *)
(* The rank of an element is the number of those before it, so there is no *)
(* recursion in it and TLAPS can reason about it.                          *)
(***************************************************************************)
EXTENDS Naturals, FiniteSets, FiniteSetTheorems, TLAPS

(* The elements of S that R puts before x.                                 *)
Before(S, R, x) == {y \in S : <<y, x>> \in R}

Ranked(S, R) ==
  [n \in 1 .. Cardinality(S) |-> CHOOSE x \in S : Cardinality(Before(S, R, x)) = n - 1]

(* R is a strict total order of S.                                         *)
Orders(R, S) ==
  /\ \A x \in S : <<x, x>> \notin R
  /\ \A x, y \in S : x # y => <<x, y>> \in R \/ <<y, x>> \in R
  /\ \A x, y, z \in S : <<x, y>> \in R /\ <<y, z>> \in R => <<x, z>> \in R

-----------------------------------------------------------------------------
(* An element has fewer before it than the set has elements, and fewer     *)
(* than any element after it.                                              *)
LEMMA Ranks ==
  ASSUME NEW S, NEW R, IsFiniteSet(S), Orders(R, S)
  PROVE  /\ \A x \in S : Cardinality(Before(S, R, x)) \in 0 .. Cardinality(S) - 1
         /\ \A x, y \in S : <<x, y>> \in R =>
              Cardinality(Before(S, R, x)) < Cardinality(Before(S, R, y))
<1>1. ASSUME NEW x \in S
      PROVE  /\ IsFiniteSet(Before(S, R, x))
             /\ Cardinality(Before(S, R, x)) \in 0 .. Cardinality(S) - 1
  <2>1. Before(S, R, x) \subseteq S /\ Before(S, R, x) # S
    BY DEF Before, Orders
  <2>2. /\ IsFiniteSet(Before(S, R, x))
        /\ Cardinality(Before(S, R, x)) < Cardinality(S)
    BY <2>1, FS_Subset, FS_CardinalityType
  <2> QED  BY <2>2, FS_CardinalityType
<1>2. ASSUME NEW x \in S, NEW y \in S, <<x, y>> \in R
      PROVE  Cardinality(Before(S, R, x)) < Cardinality(Before(S, R, y))
  <2>1. Before(S, R, x) \subseteq Before(S, R, y)
    BY <1>2 DEF Before, Orders
  <2>2. Before(S, R, x) # Before(S, R, y)
    BY <1>2 DEF Before, Orders
  <2> QED  BY <1>1, <2>1, <2>2, FS_Subset
<1> QED  BY <1>1, <1>2

(* Ranked lays the set out: each element once, in the order of R.          *)
LEMMA RankedInOrder ==
  ASSUME NEW S, NEW R, IsFiniteSet(S), Orders(R, S)
  PROVE  /\ Cardinality(S) \in Nat
         /\ Ranked(S, R) \in [1 .. Cardinality(S) -> S]
         /\ \A x \in S : \E n \in 1 .. Cardinality(S) : Ranked(S, R)[n] = x
         /\ \A m, n \in 1 .. Cardinality(S) :
              m < n => <<Ranked(S, R)[m], Ranked(S, R)[n]>> \in R
<1> DEFINE N == Cardinality(S)
           rank(x) == Cardinality(Before(S, R, x))
           place == [x \in S |-> rank(x) + 1]
<1>1. N \in Nat
  BY FS_CardinalityType
<1>2. \A x \in S : rank(x) \in 0 .. N - 1
  BY Ranks
<1>3. \A x, y \in S : <<x, y>> \in R => rank(x) < rank(y)
  BY Ranks
<1> HIDE DEF rank
<1>4. \A x, y \in S : rank(x) = rank(y) => x = y
  <2> SUFFICES ASSUME NEW x \in S, NEW y \in S, rank(x) = rank(y), x # y
               PROVE  FALSE
    OBVIOUS
  <2>1. <<x, y>> \in R \/ <<y, x>> \in R
    BY DEF Orders
  <2>2. rank(x) < rank(y) \/ rank(y) < rank(x)
    BY <2>1, <1>3
  <2>3. rank(x) \in Nat /\ rank(y) \in Nat
    BY <1>1, <1>2
  <2> QED  BY <2>2, <2>3
<1>5. place \in Injection(S, 1 .. N)
  BY <1>1, <1>2, <1>4 DEF Injection, IsInjective
<1>6. IsFiniteSet(1 .. N) /\ Cardinality(1 .. N) = N
  BY <1>1, FS_Interval
<1>7. place \in Surjection(S, 1 .. N)
  BY <1>5, <1>6, FS_Injection
<1>8. \A n \in 1 .. N : \E x \in S : rank(x) = n - 1
  <2> SUFFICES ASSUME NEW n \in 1 .. N PROVE \E x \in S : rank(x) = n - 1
    OBVIOUS
  <2>1. PICK x \in S : place[x] = n
    BY <1>7 DEF Surjection
  <2> QED  BY <2>1, <1>1, <1>2
<1>9. Ranked(S, R) = [n \in 1 .. N |-> CHOOSE x \in S : rank(x) = n - 1]
  BY DEF Ranked, rank
<1>10. \A n \in 1 .. N : Ranked(S, R)[n] \in S /\ rank(Ranked(S, R)[n]) = n - 1
  BY <1>8, <1>9
<1>11. ASSUME NEW x \in S
       PROVE  \E n \in 1 .. N : Ranked(S, R)[n] = x
  <2>1. rank(x) + 1 \in 1 .. N
    BY <1>1, <1>2
  <2> QED  BY <2>1, <1>2, <1>4, <1>10
<1>12. ASSUME NEW m \in 1 .. N, NEW n \in 1 .. N, m < n
       PROVE  <<Ranked(S, R)[m], Ranked(S, R)[n]>> \in R
  <2> DEFINE x == Ranked(S, R)[m]
             y == Ranked(S, R)[n]
  <2>1. x \in S /\ y \in S /\ rank(x) = m - 1 /\ rank(y) = n - 1
    BY <1>10
  <2> HIDE DEF x, y
  <2>2. x # y /\ ~ (rank(y) < rank(x))
    BY <2>1, <1>1, <1>12
  <2>3. <<x, y>> \in R
    BY <2>1, <2>2, <1>3 DEF Orders
  <2> QED  BY <2>3 DEF x, y
<1> QED  BY <1>1, <1>9, <1>10, <1>11, <1>12
=============================================================================
