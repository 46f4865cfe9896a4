------------------------------ MODULE Induction ------------------------------
(***************************************************************************)
(* Induction over the naturals in a form without an operator parameter:    *)
(* what is proved by induction is the set of the numbers it holds for.     *)
(* The proofs about recursive functions of the project rest on it.         *)
(***************************************************************************)
EXTENDS Integers, WellFoundedInduction, TLAPS

\* A set of naturals that is not empty has a least element.
LEMMA Least ==
    ASSUME NEW T, T \subseteq Nat, T # {}
    PROVE  \E m \in T : \A n \in T : m <= n
<1>1. IsWellFoundedOn(OpToRel(<, Nat), Nat)
  BY NatLessThanWellFounded
<1>2. PICK m \in T : \A n \in T : ~(<<n, m>> \in OpToRel(<, Nat))
  BY <1>1, WFMin
<1>3. \A n \in T : ~(n < m)
  <2> TAKE n \in T
  <2>1. n \in Nat /\ m \in Nat
    OBVIOUS
  <2> QED BY <1>2, <2>1 DEF OpToRel
<1> QED BY <1>3

\* Induction up to a bound.
LEMMA UpTo ==
    ASSUME NEW N \in Nat, NEW T, 0 \in T,
           \A n \in 1 .. N : n - 1 \in T => n \in T
    PROVE  \A n \in 0 .. N : n \in T
<1> DEFINE F == {n \in 0 .. N : n \notin T}
<1> SUFFICES ASSUME F # {} PROVE FALSE
  OBVIOUS
<1>0. F \subseteq Nat
  OBVIOUS
<1>1. PICK m \in F : \A n \in F : m <= n
  <2> HIDE DEF F
  <2> QED BY <1>0, Least
<1>2. m \in 1 .. N /\ m - 1 \in 0 .. N
  BY <1>1
<1>3. m - 1 \in T
  BY <1>1, <1>2
<1> QED BY <1>1, <1>2, <1>3

\* A step of a recursion over the elements of S, N steps long, and a function
\* that begins with a and goes on so.
IsStep(Step, S, N) == Step \in [S -> [1 .. N -> S]]
Iterates(g, S, a, N, Step) ==
    /\ g \in [0 .. N -> S]
    /\ g[0] = a
    /\ \A n \in 1 .. N : g[n] = Step[g[n - 1]][n]

\* Definition by recursion up to a bound: there is such a function.
LEMMA Recursion ==
    ASSUME NEW S, NEW a \in S, NEW N \in Nat, NEW Step, IsStep(Step, S, N)
    PROVE  \E g : Iterates(g, S, a, N, Step)
<1> USE DEF IsStep
<1> DEFINE Is(g, m) == g[0] = a /\ \A n \in 1 .. m : g[n] = Step[g[n - 1]][n]
           T == {m \in 0 .. N : \E g \in [0 .. m -> S] : Is(g, m)}
<1>1. 0 \in T
  <2> DEFINE g == [n \in 0 .. 0 |-> a]
  <2>1. g \in [0 .. 0 -> S] /\ Is(g, 0)
    OBVIOUS
  <2> HIDE DEF g
  <2> QED BY <2>1
<1>2. ASSUME NEW m \in 1 .. N, m - 1 \in T
      PROVE  m \in T
  <2>1. PICK g \in [0 .. (m - 1) -> S] : Is(g, m - 1)
    BY <1>2
  <2> DEFINE h == [n \in 0 .. m |-> IF n = m THEN Step[g[m - 1]][m] ELSE g[n]]
  <2>2. h \in [0 .. m -> S]
    OBVIOUS
  <2>3. Is(h, m)
    BY <2>1
  <2>4. m \in 0 .. N
    OBVIOUS
  <2> HIDE DEF h, Is
  <2> QED BY <2>2, <2>3, <2>4
<1>3. N \in T
  <2>1. \A m \in 1 .. N : m - 1 \in T => m \in T
    BY <1>2
  <2> HIDE DEF T
  <2>2. \A m \in 0 .. N : m \in T
    BY <1>1, <2>1, UpTo
  <2> QED BY <2>2
<1> QED BY <1>3 DEF Iterates
==============================================================================
