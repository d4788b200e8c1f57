-------------------------- MODULE IntervalInduction --------------------------
\* Induction and recursion over 0..k, stated about sets and functions so that the
\* lemmas can be cited for the recursive functions of the models.
EXTENDS Naturals, WellFoundedInduction, TLAPS

\* A set of numbers that is not empty has a least one.
LEMMA LeastElement ==
    ASSUME NEW T, T \subseteq Nat, T # {}
    PROVE  \E n \in T : \A m \in T : n <= m
<1>1. \E n \in T : \A m \in T : ~(<<m, n>> \in OpToRel(<, Nat))
  BY NatLessThanWellFounded, WFMin
<1>2. ASSUME NEW n \in T, NEW m \in T, ~(<<m, n>> \in OpToRel(<, Nat)) PROVE n <= m
  BY <1>2 DEF OpToRel
<1> QED
  BY <1>1, <1>2

\* A set that holds 0, and with a number below k the next one, holds 0..k.
LEMMA UpToInduction ==
    ASSUME NEW k \in Nat, NEW T, 0 \in T, \A n \in 0..k : n < k /\ n \in T => n + 1 \in T
    PROVE  0..k \subseteq T
<1> DEFINE missing == {n \in 0..k : n \notin T}
<1>1. CASE missing = {}
  BY <1>1
<1>2. CASE missing # {}
  <2> missing \subseteq Nat
    OBVIOUS
  <2>1. PICK n \in missing : \A m \in missing : n <= m
    BY <1>2, LeastElement
  <2> HIDE DEF missing
  <2>2. n \in 0..k /\ n \notin T /\ n # 0
    BY <2>1 DEF missing
  <2>3. n - 1 \in 0..k /\ n - 1 < k /\ ~(n <= n - 1) /\ n - 1 + 1 = n
    BY <2>2
  <2>4. n - 1 \in T
    BY <2>1, <2>3 DEF missing
  <2> QED
    BY <2>2, <2>3, <2>4
<1> QED
  BY <1>1, <1>2

\* f starts with base, and f[n] is step[n] of the value before, up to k.
Iterates(f, k, base, step) ==
    f[0] = base /\ \A n \in 1..k : f[n] = step[n][f[n - 1]]

\* Recursion over 0..k defines a function.
LEMMA UpToRecursion ==
    ASSUME NEW k \in Nat, NEW S, NEW base \in S, NEW step \in [0..k -> [S -> S]]
    PROVE  \E f \in [0..k -> S] : Iterates(f, k, base, step)
<1> DEFINE T == {j \in 0..k : \E f \in [0..j -> S] : Iterates(f, j, base, step)}
<1>1. 0 \in T
  <2> DEFINE g == [n \in 0..0 |-> base]
  <2>1. g \in [0..0 -> S] /\ g[0] = base
    OBVIOUS
  <2>2. Iterates(g, 0, base, step) /\ 0 \in 0..k
    BY <2>1 DEF Iterates
  <2> HIDE DEF g
  <2> QED
    BY <2>1, <2>2
<1>2. ASSUME NEW j \in 0..k, j < k, j \in T PROVE j + 1 \in T
  <2>1. PICK f \in [0..j -> S] : Iterates(f, j, base, step)
    BY <1>2
  <2> DEFINE g == [n \in 0..j + 1 |-> IF n = j + 1 THEN step[j + 1][f[j]] ELSE f[n]]
  <2>2. step[j + 1][f[j]] \in S
    BY <1>2
  <2>3. g \in [0..j + 1 -> S]
    BY <2>2
  <2>4. g[0] = base
    BY <2>1 DEF Iterates
  <2>5. ASSUME NEW n \in 1..j + 1 PROVE g[n] = step[n][g[n - 1]]
    BY <2>1 DEF Iterates
  <2> HIDE DEF g
  <2>6. Iterates(g, j + 1, base, step) /\ j + 1 \in 0..k
    BY <2>4, <2>5, <1>2 DEF Iterates
  <2> QED
    BY <2>3, <2>6
<1>3. k \in 0..k
  OBVIOUS
<1> HIDE DEF T
<1>4. 0..k \subseteq T
  BY <1>1, <1>2, UpToInduction
<1>5. k \in T
  BY <1>3, <1>4
<1> QED
  BY <1>5 DEF T
=============================================================================
