--------------------------- MODULE RecursionProofs ---------------------------
(***************************************************************************)
(* Functions that are defined by recursion over the first n numbers.  The  *)
(* induction theorems of the library take an operator as a parameter; here *)
(* induction is over a set of numbers, from the least number outside it,   *)
(* and the step of a recursion is a function.                              *)
(***************************************************************************)
EXTENDS Integers, WellFoundedInduction, TLAPS

-----------------------------------------------------------------------------
(* Induction over the numbers. *)

\* A set of numbers that is not empty has a least one.
LEMMA LeastNat ==
  ASSUME NEW S \in SUBSET Nat, S # {}
  PROVE  \E n \in S : \A m \in S : n <= m
  <1>1. PICK R : R = OpToRel(<, Nat)
    OBVIOUS
  <1>2. IsWellFoundedOn(R, Nat)
    BY <1>1, NatLessThanWellFounded
  <1>3. PICK n \in S : \A m \in S : ~(<<m, n>> \in R)
    BY <1>2, WFMin
  <1>4. \A m \in S : ~(m < n)
    <2>1. \A m, k \in Nat : m < k => <<m, k>> \in R
      BY <1>1 DEF OpToRel
    <2>2. n \in Nat /\ \A m \in S : m \in Nat
      OBVIOUS
    <2> QED
      BY <1>3, <2>1, <2>2
  <1>5. \A m \in S : n <= m
    <2>1. n \in Nat /\ \A m \in S : m \in Nat
      OBVIOUS
    <2> QED
      BY <1>4, <2>1
  <1> QED
    BY <1>5

\* What holds of 0, and of n + 1 whenever it holds of n, holds of all numbers.
LEMMA Induction ==
  ASSUME NEW S, 0 \in S, \A n \in Nat : n \in S => n + 1 \in S
  PROVE  Nat \subseteq S
  <1> SUFFICES ASSUME Nat \ S # {} PROVE FALSE
    OBVIOUS
  <1>1. PICK n \in Nat \ S : \A m \in Nat \ S : n <= m
    BY LeastNat
  <1>2. n - 1 \in Nat /\ n - 1 \in S
    BY <1>1
  <1> QED
    BY <1>1, <1>2

-----------------------------------------------------------------------------
(* Recursive functions over the first n numbers: in T, from e by F[i] at i. *)

Recursive(f, n, e, F) == f[0] = e /\ \A i \in 1 .. n : f[i] = F[i][f[i - 1]]

\* f is as far as its values are known to be in T.
RecursiveIn(T, f, n, e, F) ==
    f[0] = e /\ \A i \in 1 .. n : f[i - 1] \in T => f[i] = F[i][f[i - 1]]

\* There is such a function.
LEMMA RecursionExists ==
  ASSUME NEW T, NEW n \in Nat, NEW e \in T, NEW F \in [1 .. n -> [T -> T]]
  PROVE  \E f \in [0 .. n -> T] : Recursive(f, n, e, F)
  <1> DEFINE Upto(k) == {f \in [0 .. k -> T] : Recursive(f, k, e, F)}
             Some == {k \in Nat : k <= n => Upto(k) # {}}
  <1>1. 0 \in Some
    <2>1. [i \in 0 .. 0 |-> e] \in Upto(0)
      BY DEF Recursive
    <2> QED
      BY <2>1
  <1>2. ASSUME NEW k \in Nat, k \in Some PROVE k + 1 \in Some
    <2>0. SUFFICES ASSUME k + 1 <= n PROVE Upto(k + 1) # {}
      OBVIOUS
    <2>1. PICK f \in Upto(k) : TRUE
      BY <1>2, <2>0
    <2>2. f \in [0 .. k -> T] /\ f[0] = e /\ \A i \in 1 .. k : f[i] = F[i][f[i - 1]]
      BY <2>1 DEF Recursive
    <2>3. k + 1 \in 1 .. n /\ F[k + 1] \in [T -> T] /\ f[k] \in T
      BY <2>0, <2>2
    <2>4. PICK v \in T : v = F[k + 1][f[k]]
      BY <2>3
    <2>5. PICK g : g = [i \in 0 .. k + 1 |-> IF i = k + 1 THEN v ELSE f[i]]
      OBVIOUS
    <2>6. g \in [0 .. k + 1 -> T] /\ g[0] = e
      BY <2>2, <2>5
    <2>7. ASSUME NEW i \in 1 .. k + 1 PROVE g[i] = F[i][g[i - 1]]
      <3>1. CASE i = k + 1
        <4>1. g[i] = v /\ g[i - 1] = f[k]
          BY <2>5, <3>1
        <4> QED
          BY <2>4, <3>1, <4>1
      <3>2. CASE i # k + 1
        <4>1. i \in 1 .. k
          BY <3>2
        <4>2. g[i] = f[i] /\ g[i - 1] = f[i - 1]
          BY <2>5, <4>1
        <4> QED
          BY <2>2, <4>1, <4>2
      <3> QED
        BY <3>1, <3>2
    <2>8. g \in Upto(k + 1)
      BY <2>6, <2>7 DEF Recursive
    <2> QED
      BY <2>8
  <1>3. n \in Some
    <2> HIDE DEF Some
    <2> QED
      BY <1>1, <1>2, Induction
  <1> QED
    BY <1>3

\* And no other.
LEMMA RecursionUnique ==
  ASSUME NEW T, NEW n \in Nat, NEW e \in T, NEW F \in [1 .. n -> [T -> T]],
         NEW f, Recursive(f, n, e, F), NEW g, RecursiveIn(T, g, n, e, F)
  PROVE  \A i \in 0 .. n : f[i] = g[i] /\ f[i] \in T
  <1> DEFINE Same == {i \in Nat : i <= n => f[i] = g[i] /\ f[i] \in T}
  <1>1. 0 \in Same
    BY DEF Recursive, RecursiveIn
  <1>2. ASSUME NEW i \in Nat, i \in Same PROVE i + 1 \in Same
    <2>1. SUFFICES ASSUME i + 1 <= n PROVE f[i + 1] = g[i + 1] /\ f[i + 1] \in T
      OBVIOUS
    <2>2. f[i] = g[i] /\ f[i] \in T
      BY <1>2, <2>1
    <2>3. i + 1 \in 1 .. n /\ (i + 1) - 1 = i
      BY <2>1
    <2>4. f[i + 1] = F[i + 1][f[i]] /\ g[i + 1] = F[i + 1][g[i]]
      BY <2>2, <2>3 DEF Recursive, RecursiveIn
    <2>5. F[i + 1] \in [T -> T]
      BY <2>3
    <2> QED
      BY <2>2, <2>4, <2>5
  <1>3. Nat \subseteq Same
    <2> HIDE DEF Same
    <2> QED
      BY <1>1, <1>2, Induction
  <1> QED
    BY <1>3
==============================================================================
