-------------------------- MODULE RecursionLemmas ---------------------------
(***************************************************************************)
(* What the proofs about recursive functions need: induction over the      *)
(* naturals for a property given as a set, from the least element of its   *)
(* complement, and that a function defined by primitive recursion exists.  *)
(***************************************************************************)
EXTENDS Integers, WellFoundedInduction, TLAPS

\* A set of naturals has a least element.
LEMMA Least ==
  ASSUME NEW S \in SUBSET Nat, S # {}
  PROVE  \E i \in S : \A j \in S : i <= j
  <1> DEFINE R == {ss \in Nat \X Nat : ss[1] < ss[2]}
  <1>1. IsWellFoundedOn(R, Nat)
    BY ONLY NatLessThanWellFounded, Zenon DEF OpToRel
  <1>2. \E x \in S : \A y \in S : <<y, x>> \notin R
    <2> HIDE DEF R
    <2> QED BY <1>1, WFMin
  <1>3. PICK x \in S : \A y \in S : <<y, x>> \notin R
    BY <1>2
  <1>4. ASSUME NEW y \in S PROVE x <= y
    <2>1. x \in Nat /\ y \in Nat OBVIOUS
    <2>2. <<y, x>> \notin R BY <1>3
    <2>3. ~(y < x) BY <2>1, <2>2
    <2> QED BY <2>1, <2>3
  <1> QED BY <1>4

\* Induction over the naturals, for a property given as a set.
LEMMA Induct ==
  ASSUME NEW S \in SUBSET Nat, 0 \in S, \A n \in S : n + 1 \in S
  PROVE  S = Nat
  <1> SUFFICES ASSUME S # Nat PROVE FALSE OBVIOUS
  <1>1. PICK i \in Nat \ S : \A j \in Nat \ S : i <= j
    <2>1. Nat \ S # {} /\ Nat \ S \in SUBSET Nat OBVIOUS
    <2> QED BY <2>1, Least
  <1>2. i # 0 /\ i - 1 \in Nat BY <1>1
  <1>3. i - 1 \in S BY <1>1, <1>2
  <1>4. (i - 1) + 1 = i BY <1>2
  <1> QED BY <1>1, <1>3, <1>4

\* g is the function on 0 .. m that starts with b and goes on by F.
Unfolds(g, T, b, F, m) ==
    /\ g \in [0 .. m -> T] /\ g[0] = b
    /\ \A n \in 1 .. m : g[n] = F[n][g[n - 1]]

\* A function defined by primitive recursion exists.
LEMMA Recursion ==
  ASSUME NEW T, NEW b \in T, NEW F \in [Nat -> [T -> T]], NEW m \in Nat
  PROVE  \E g : Unfolds(g, T, b, F, m)
  <1> DEFINE Q(g, k) == g[0] = b /\ \A n \in 1 .. k : g[n] = F[n][g[n - 1]]
             S == {k \in Nat : \E g \in [0 .. k -> T] : Q(g, k)}
  <1>1. 0 \in S
    <2>1. [n \in 0 .. 0 |-> b] \in [0 .. 0 -> T] /\ Q([n \in 0 .. 0 |-> b], 0) OBVIOUS
    <2> QED BY <2>1
  <1>2. ASSUME NEW k \in S PROVE k + 1 \in S
    <2>1. PICK g \in [0 .. k -> T] : Q(g, k) OBVIOUS
    <2> DEFINE h == [n \in 0 .. k + 1 |-> IF n = k + 1 THEN F[k + 1][g[k]] ELSE g[n]]
    <2>2. g[k] \in T /\ k + 1 \in Nat /\ F[k + 1][g[k]] \in T OBVIOUS
    <2>3. h \in [0 .. k + 1 -> T] BY <2>2
    <2>4. h[0] = b /\ h[k + 1] = F[k + 1][g[k]] /\ \A n \in 0 .. k : h[n] = g[n] BY <2>1
    <2>5. ASSUME NEW n \in 1 .. k + 1 PROVE h[n] = F[n][h[n - 1]]
      <3>1. CASE n = k + 1 BY <3>1, <2>4
      <3>2. CASE n # k + 1
        <4>1. n \in 1 .. k /\ n - 1 \in 0 .. k /\ n \in 0 .. k BY <3>2
        <4>2. h[n] = g[n] /\ h[n - 1] = g[n - 1] /\ g[n] = F[n][g[n - 1]]
          BY <4>1, <2>4, <2>1
        <4> QED BY <4>2
      <3> QED BY <3>1, <3>2
    <2>6. Q(h, k + 1) BY <2>4, <2>5
    <2>7. \E x \in [0 .. k + 1 -> T] : Q(x, k + 1)
      <3> HIDE DEF h, Q
      <3> QED BY <2>3, <2>6
    <2> QED BY <2>2, <2>7
  <1>3. S = Nat
    <2> HIDE DEF S
    <2>1. S \in SUBSET Nat BY DEF S
    <2> QED BY <1>1, <1>2, <2>1, Induct
  <1> QED BY <1>3 DEF Unfolds
=============================================================================
