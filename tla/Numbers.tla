------------------------------ MODULE Numbers ------------------------------
(***************************************************************************)
(* Facts about numbers, for proofs about the loops, the nested calls and   *)
(* the counters of the modelled code: division, induction and recursion.   *)
(*                                                                         *)
(* A function f[s \in S] == Body(f, s) is CHOOSE f : f = [s \in S |->      *)
(* Body(f, s)]: before anything can be said about it, a function that      *)
(* solves the equation must be shown to exist.  Induction is by a least    *)
(* counterexample, which no operator has to be passed for.                 *)
(***************************************************************************)
EXTENDS Integers, WellFoundedInduction, TLAPS

\* Quotient and remainder.
LEMMA Division ==
  ASSUME NEW a \in Int, NEW b \in Nat \ {0}
  PROVE  \E q \in Int, r \in 0 .. b - 1 :
           /\ q = a \div b /\ r = a % b
           /\ a = q * b + r
           /\ a \in Nat => q \in Nat
<1>1. PICK q \in Int : q = a \div b  OBVIOUS
<1>2. PICK r \in 0 .. b - 1 : r = a % b  OBVIOUS
<1>3. a = q * b + r  BY <1>1, <1>2
<1>4. a \in Nat => q \in Nat  BY <1>1
<1> QED  BY <1>1, <1>2, <1>3, <1>4, Zenon

\* They are the only ones.
LEMMA DivisionUnique ==
  ASSUME NEW q \in Int, NEW r \in Int, NEW b \in Nat \ {0}, 0 <= r, r < b
  PROVE  (q * b + r) \div b = q /\ (q * b + r) % b = r
OBVIOUS

\* Whole multiples of b are ordered as their factors are, and so are numbers
\* less than b above them.
LEMMA Multiples ==
  ASSUME NEW b \in Nat \ {0}, NEW p \in Int, NEW q \in Int, NEW r \in Int, 0 <= r, r < b
  PROVE  p * b <= q * b + r <=> p <= q
OBVIOUS

\* Quotient and remainder of the next number.
LEMMA NextDivision ==
  ASSUME NEW a \in Int, NEW b \in Nat \ {0}
  PROVE  IF (a % b) + 1 = b
         THEN (a + 1) \div b = a \div b + 1 /\ (a + 1) % b = 0
         ELSE (a + 1) \div b = a \div b /\ (a + 1) % b = (a % b) + 1
<1>1. PICK q \in Int, r \in 0 .. b - 1 : q = a \div b /\ r = a % b /\ a = q * b + r
  BY Division
<1>2. q * b \in Int /\ (q + 1) * b = q * b + b  OBVIOUS
<1>3. CASE r + 1 = b
  <2>1. a + 1 = (q + 1) * b + 0  BY <1>1, <1>2, <1>3
  <2>2. ((q + 1) * b + 0) \div b = q + 1 /\ ((q + 1) * b + 0) % b = 0
    BY DivisionUnique
  <2> QED  BY <1>1, <1>3, <2>1, <2>2, Zenon
<1>4. CASE r + 1 # b
  <2>1. a + 1 = q * b + (r + 1)  BY <1>1, <1>2
  <2>2. r + 1 \in Int /\ 0 <= r + 1 /\ r + 1 < b  BY <1>4
  <2>3. (q * b + (r + 1)) \div b = q /\ (q * b + (r + 1)) % b = r + 1
    BY <2>2, DivisionUnique, Zenon
  <2> QED  BY <1>1, <1>4, <2>1, <2>3, Zenon
<1> QED  BY <1>3, <1>4

\* A set of natural numbers that is not empty has a least member.
LEMMA LeastNumber ==
  ASSUME NEW T, T \subseteq Nat, T # {}
  PROVE  \E x \in T : \A y \in T : x <= y
<1>1. OpToRel(<, Nat) = {r \in Nat \X Nat : r[1] < r[2]}  BY DEF OpToRel
<1>2. PICK x \in T : \A y \in T : <<y, x>> \notin OpToRel(<, Nat)
  BY WFMin, NatLessThanWellFounded
<1>3. ASSUME NEW y \in T PROVE x <= y
  <2>1. ~(y < x)  BY <1>1, <1>2
  <2> QED  BY <2>1
<1> QED  BY <1>3

\* Among the members of a set that have a natural number for a measure, one
\* has the least.
LEMMA LeastMeasure ==
  ASSUME NEW B, NEW m, \A s \in B : m[s] \in Nat, B # {}
  PROVE  \E s \in B : \A t \in B : ~(m[t] < m[s])
<1> DEFINE T == {m[s] : s \in B}
<1>1. PICK x \in T : \A y \in T : x <= y
  <2>1. T \subseteq Nat /\ T # {}  OBVIOUS
  <2> HIDE DEF T
  <2> QED  BY <2>1, LeastNumber
<1>2. PICK s \in B : x = m[s]  BY <1>1
<1>3. ASSUME NEW t \in B PROVE ~(m[t] < m[s])
  <2>1. m[s] <= m[t]  BY <1>1, <1>2
  <2> QED  BY <2>1
<1> QED  BY <1>3

\* G maps a function on S to the next one, and the value that it gives at s
\* only depends on values at members of smaller measure.
WellFounded(S, D, m, G) ==
  /\ m \in [S -> Nat]
  /\ G \in [[S -> D] -> [S -> D]]
  /\ [S -> D] # {}
  /\ \A f, g \in [S -> D] : \A s \in S :
       (\A t \in S : m[t] < m[s] => f[t] = g[t]) => G[f][s] = G[g][s]

\* Then it has a fixed point.
THEOREM RecursiveFunction ==
  ASSUME NEW S, NEW D, NEW m, NEW G, WellFounded(S, D, m, G)
  PROVE  \E f \in [S -> D] : f = G[f]
<1> DEFINE F       == [S -> D]
           Below(h, n) == \A s \in S : m[s] < n => h[s] = G[h][s]
<1> USE DEF WellFounded
<1>1. ASSUME NEW n \in Nat, NEW f \in F, NEW g \in F, Below(f, n), Below(g, n)
      PROVE  \A s \in S : m[s] < n => f[s] = g[s]
  <2> DEFINE B == {s \in S : m[s] < n /\ f[s] # g[s]}
  <2> SUFFICES ASSUME B # {} PROVE FALSE  OBVIOUS
  <2>1. PICK s \in B : \A t \in B : ~(m[t] < m[s])
    <3>1. \A s \in B : m[s] \in Nat  OBVIOUS
    <3> HIDE DEF B
    <3> QED  BY <3>1, LeastMeasure
  <2>2. \A t \in S : m[t] < m[s] => f[t] = g[t]  BY <2>1
  <2>3. G[f][s] = G[g][s]  BY <2>1, <2>2
  <2> QED  BY <1>1, <2>1, <2>3
<1>2. \A n \in Nat : \E h \in F : Below(h, n)
  <2> DEFINE B == {n \in Nat : ~ \E h \in F : Below(h, n)}
  <2> SUFFICES ASSUME B # {} PROVE FALSE  OBVIOUS
  <2>1. PICK n \in B : \A k \in B : n <= k
    <3>1. B \subseteq Nat  OBVIOUS
    <3> HIDE DEF B
    <3> QED  BY <3>1, LeastNumber
  <2>2. CASE n = 0
    <3>1. PICK h \in F : TRUE  OBVIOUS
    <3>2. Below(h, n)  BY <2>2
    <3> QED  BY <2>1, <3>1, <3>2
  <2>3. CASE n # 0
    <3>1. n - 1 \in Nat /\ n - 1 \notin B  BY <2>1, <2>3
    <3>2. PICK h \in F : Below(h, n - 1)  BY <3>1
    <3>3. G[h] \in F  OBVIOUS
    <3>4. ASSUME NEW s \in S, m[s] < n PROVE G[h][s] = G[G[h]][s]
      <4>1. \A t \in S : m[t] < m[s] => m[t] < n - 1  BY <3>1, <3>4
      <4>2. \A t \in S : m[t] < m[s] => h[t] = G[h][t]  BY <3>2, <4>1
      <4> QED  BY <3>3, <4>2
    <3>5. Below(G[h], n)  BY <3>4
    <3> QED  BY <2>1, <3>3, <3>5
  <2> QED  BY <2>2, <2>3
<1> DEFINE H == [n \in Nat |-> CHOOSE h \in F : Below(h, n)]
           f == [s \in S |-> H[m[s] + 1][s]]
<1>3. \A n \in Nat : H[n] \in F /\ Below(H[n], n)  BY <1>2
<1> HIDE DEF H
<1>4. f \in F
  <2>1. \A s \in S : H[m[s] + 1] \in F  BY <1>3
  <2> QED  BY <2>1
<1>5. ASSUME NEW s \in S PROVE f[s] = G[f][s]
  <2> DEFINE n == m[s] + 1
             h == H[n]
  <2>1. n \in Nat /\ h \in F /\ Below(h, n)  BY <1>3
  <2>2. ASSUME NEW t \in S, m[t] < m[s] PROVE h[t] = f[t]
    <3> DEFINE k == m[t] + 1
    <3>1. k \in Nat /\ H[k] \in F /\ Below(H[k], k) /\ k <= n  BY <1>3, <2>2
    <3>2. Below(h, k)  BY <2>1, <3>1
    <3>3. m[t] < k /\ f[t] = H[k][t]  OBVIOUS
    <3> HIDE DEF Below, F, h, k, f
    <3>4. h[t] = H[k][t]  BY <1>1, <2>1, <3>1, <3>2, <3>3
    <3> QED  BY <3>3, <3>4
  <2>3. G[h][s] = G[f][s]  BY <1>4, <2>1, <2>2
  <2>4. h[s] = G[h][s]  BY <2>1
  <2> QED  BY <2>3, <2>4
<1>6. G[f] \in F  BY <1>4
<1>7. f = G[f]  BY <1>4, <1>5, <1>6
<1> QED  BY <1>4, <1>7

\* A set that has 0 and the successor of every number that it has.
LEMMA Induction ==
  ASSUME NEW P, 0 \in P, \A n \in Nat : n \in P => n + 1 \in P
  PROVE  \A n \in Nat : n \in P
<1> DEFINE B == {n \in Nat : n \notin P}
<1> SUFFICES ASSUME B # {} PROVE FALSE  OBVIOUS
<1>1. PICK n \in B : \A k \in B : n <= k
  <2>1. B \subseteq Nat  OBVIOUS
  <2> HIDE DEF B
  <2> QED  BY <2>1, LeastNumber
<1>2. n # 0  BY <1>1
<1>3. n - 1 \in Nat /\ n - 1 \notin B  BY <1>1, <1>2
<1>4. n - 1 \in P  BY <1>3
<1>5. (n - 1) + 1 = n  BY <1>1
<1>6. n \in P  BY <1>3, <1>4, <1>5
<1> QED  BY <1>1, <1>6

\* A sequence that is given by its first value and the step from each to the
\* next.
LEMMA Stepwise ==
  ASSUME NEW D, NEW x \in D, NEW step \in [D -> D]
  PROVE  \E f \in [Nat -> D] : f = [k \in Nat |-> IF k = 0 THEN x ELSE step[f[k - 1]]]
<1> DEFINE G == [f \in [Nat -> D] |-> [k \in Nat |-> IF k = 0 THEN x ELSE step[f[k - 1]]]]
           m == [k \in Nat |-> k]
<1>1. \A k \in Nat : k # 0 => k - 1 \in Nat /\ k - 1 < k  OBVIOUS
<1>2. G \in [[Nat -> D] -> [Nat -> D]]  BY <1>1
<1>3. m \in [Nat -> Nat]  OBVIOUS
<1>4. [Nat -> D] # {}
  <2>1. [k \in Nat |-> x] \in [Nat -> D]  OBVIOUS
  <2> QED  BY <2>1
<1>5. \A f, g \in [Nat -> D] : \A k \in Nat :
        (\A t \in Nat : m[t] < m[k] => f[t] = g[t]) => G[f][k] = G[g][k]
  BY <1>1
<1>6. WellFounded(Nat, D, m, G)
  <2> HIDE DEF G, m
  <2> QED  BY <1>2, <1>3, <1>4, <1>5, Zenon DEF WellFounded
<1>7. PICK f \in [Nat -> D] : f = G[f]
  <2> HIDE DEF G, m
  <2> QED  BY <1>6, RecursiveFunction
<1> QED  BY <1>7
=============================================================================
