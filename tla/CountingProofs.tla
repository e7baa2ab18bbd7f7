--------------------------- MODULE CountingProofs ---------------------------
(***************************************************************************)
(* Facts about natural numbers, finite sets and functions that the proofs  *)
(* about statistics, saved individuals and constants share.                *)
(***************************************************************************)
EXTENDS Integers, Sequences, FiniteSets, Functions, FunctionTheorems,
        FiniteSetTheorems, SequenceTheorems, TLAPS

\* A set of natural numbers that is not empty has a least element.
LEMMA LeastNumber ==
  ASSUME NEW S \in SUBSET Nat, S # {}
  PROVE  \E x \in S : \A y \in S : x <= y
<1> DEFINE R == OpToRel(<, Nat)
<1>1. PICK x \in S : \A y \in S : ~(<<y, x>> \in R)
  BY NatLessThanWellFounded, WFMin
<1>2. \A y \in S : ~(y < x)
  BY <1>1 DEF OpToRel
<1> QED  BY <1>2

\* Induction over the numbers up to n, for a set of them.
LEMMA Climb ==
  ASSUME NEW n \in Nat, NEW S, 0 \in S,
         \A i \in 1 .. n : i - 1 \in S => i \in S
  PROVE  0 .. n \subseteq S
<1> SUFFICES ASSUME ~(0 .. n \subseteq S) PROVE FALSE
  OBVIOUS
<1> DEFINE T == (0 .. n) \ S
<1>1. T \in SUBSET Nat /\ T # {}
  OBVIOUS
<1>2. PICK x \in T : \A y \in T : x <= y
  BY <1>1, LeastNumber
<1>3. x \in 1 .. n
  BY <1>2
<1>4. x - 1 \in 0 .. n /\ ~(x <= x - 1)
  BY <1>3
<1>5. x - 1 \in S
  BY <1>2, <1>4
<1> QED  BY <1>2, <1>3, <1>5

\* A set of natural numbers with a bound has a greatest element.
LEMMA GreatestNumber ==
  ASSUME NEW S \in SUBSET Nat, S # {}, NEW n \in Nat, \A x \in S : x <= n
  PROVE  \E x \in S : \A y \in S : x >= y
<1> DEFINE T == {b \in Nat : \A x \in S : x <= b}
<1>1. PICK b \in T : \A y \in T : b <= y
  <2>1. T \in SUBSET Nat /\ n \in T
    OBVIOUS
  <2> QED  BY <2>1, LeastNumber
<1>2. CASE b \in S
  BY <1>1, <1>2
<1>3. CASE b \notin S
  <2>1. b # 0
    <3>1. PICK x \in S : TRUE
      OBVIOUS
    <3> QED  BY <1>1, <1>3, <3>1
  <2>2. b - 1 \in Nat
    BY <1>1, <2>1
  <2>3. \A x \in S : x <= b - 1
    BY <1>1, <1>3
  <2>4. b - 1 \in T
    BY <2>2, <2>3
  <2>5. ~(b <= b - 1)
    BY <1>1
  <2> QED  BY <1>1, <2>4, <2>5
<1> QED  BY <1>2, <1>3

\* Induction over numbers from the last to the first, for a set of them.
LEMMA FromBehind ==
  ASSUME NEW D \in SUBSET Nat, NEW n \in Nat, \A p \in D : p <= n, NEW S,
         \A p \in D : (\A r \in D : r > p => r \in S) => p \in S
  PROVE  D \subseteq S
<1> SUFFICES ASSUME ~(D \subseteq S) PROVE FALSE
  OBVIOUS
<1> DEFINE T == D \ S
<1>1. T \in SUBSET Nat /\ T # {} /\ \A p \in T : p <= n
  OBVIOUS
<1>2. PICK x \in T : \A y \in T : x >= y
  BY <1>1, GreatestNumber
<1>3. \A r \in D : r > x => r \in S
  BY <1>1, <1>2
<1> QED  BY <1>2, <1>3

\* A bijection leaves the number of elements alone.
LEMMA SameNumber ==
  ASSUME NEW S, NEW T, IsFiniteSet(S), NEW f \in [S -> T],
         \A x, y \in S : f[x] = f[y] => x = y, \A y \in T : \E x \in S : f[x] = y
  PROVE  IsFiniteSet(T) /\ Cardinality(T) = Cardinality(S)
<1>1. f \in Bijection(S, T)
  BY Fun_IsBij
<1>2. ExistsBijection(S, T)
  BY <1>1 DEF ExistsBijection
<1> QED  BY <1>2, FS_Bijection

\* Numbers of two parts.
LEMMA TwoParts ==
  ASSUME NEW S, NEW T, IsFiniteSet(S), IsFiniteSet(T), S \cap T = {}
  PROVE  /\ IsFiniteSet(S \cup T)
         /\ Cardinality(S \cup T) = Cardinality(S) + Cardinality(T)
<1>1. Cardinality(S \cap T) = 0
  BY FS_EmptySet
<1>2. Cardinality(S) \in Nat /\ Cardinality(T) \in Nat
  BY FS_CardinalityType
<1>3. /\ IsFiniteSet(S \cup T)
      /\ Cardinality(S \cup T) = Cardinality(S) + Cardinality(T) - Cardinality(S \cap T)
  BY FS_Union
<1> QED  BY <1>1, <1>2, <1>3

\* P is row i of the relation A; A and B differ in that row only.
RowOf(P, A, i, K) == P \subseteq K /\ \A k \in K : k \in P <=> <<i, k>> \in A
SameButRow(A, B, i, I, K) ==
  /\ A \subseteq I \X K /\ B \subseteq I \X K
  /\ \A p \in I \X K : p[1] # i => (p \in A <=> p \in B)

\* One row of a finite relation changes: so does the number of its pairs.
LEMMA RowReplaced ==
  ASSUME NEW I, NEW K, IsFiniteSet(I), IsFiniteSet(K), NEW A, NEW B, NEW i \in I,
         SameButRow(A, B, i, I, K),
         NEW P, RowOf(P, A, i, K), NEW Q, RowOf(Q, B, i, K)
  PROVE  /\ Cardinality(A) \in Nat /\ Cardinality(B) \in Nat
         /\ Cardinality(P) \in Nat /\ Cardinality(Q) \in Nat
         /\ Cardinality(B) = Cardinality(A) - Cardinality(P) + Cardinality(Q)
<1> DEFINE Ai == {p \in A : p[1] = i}
           Bi == {p \in B : p[1] = i}
           Rest == {p \in A : p[1] # i}
<1> USE DEF RowOf, SameButRow
<1>1. IsFiniteSet(A) /\ IsFiniteSet(B) /\ IsFiniteSet(P) /\ IsFiniteSet(Q)
  <2>1. IsFiniteSet(I \X K)
    BY FS_Product
  <2>2. IsFiniteSet(A) /\ IsFiniteSet(B)
    BY <2>1, FS_Subset
  <2>4. IsFiniteSet(P) /\ IsFiniteSet(Q)
    BY FS_Subset
  <2> QED  BY <2>2, <2>4
<1>2. IsFiniteSet(Ai) /\ IsFiniteSet(Bi) /\ IsFiniteSet(Rest)
  <2>1. Ai \subseteq A /\ Bi \subseteq B /\ Rest \subseteq A
    OBVIOUS
  <2> QED  BY <1>1, <2>1, FS_Subset
<1>3. Cardinality(Ai) = Cardinality(P)
  <2> DEFINE f == [k \in P |-> <<i, k>>]
  <2>1. \A p \in Ai : p[2] \in P /\ p = f[p[2]]
    OBVIOUS
  <2>2. \A k \in P : f[k] \in Ai
    OBVIOUS
  <2>3. f \in [P -> Ai] /\ \A y \in Ai : \E x \in P : f[x] = y
    BY <2>1, <2>2
  <2>4. \A x, y \in P : f[x] = f[y] => x = y
    OBVIOUS
  <2> HIDE DEF f, Ai
  <2> QED  BY <1>1, <2>3, <2>4, SameNumber
<1>4. Cardinality(Bi) = Cardinality(Q)
  <2> DEFINE f == [k \in Q |-> <<i, k>>]
  <2>1. \A p \in Bi : p[2] \in Q /\ p = f[p[2]]
    OBVIOUS
  <2>2. \A k \in Q : f[k] \in Bi
    OBVIOUS
  <2>3. f \in [Q -> Bi] /\ \A y \in Bi : \E x \in Q : f[x] = y
    BY <2>1, <2>2
  <2>4. \A x, y \in Q : f[x] = f[y] => x = y
    OBVIOUS
  <2> HIDE DEF f, Bi
  <2> QED  BY <1>1, <2>3, <2>4, SameNumber
<1>5. A = Ai \cup Rest /\ Ai \cap Rest = {}
  OBVIOUS
<1>6. B = Bi \cup Rest /\ Bi \cap Rest = {}
  OBVIOUS
<1> HIDE DEF Ai, Bi, Rest
<1>7. Cardinality(A) = Cardinality(Ai) + Cardinality(Rest)
  BY <1>2, <1>5, TwoParts
<1>8. Cardinality(B) = Cardinality(Bi) + Cardinality(Rest)
  BY <1>2, <1>6, TwoParts
<1>9. /\ Cardinality(A) \in Nat /\ Cardinality(B) \in Nat /\ Cardinality(P) \in Nat
      /\ Cardinality(Q) \in Nat /\ Cardinality(Rest) \in Nat
  BY <1>1, <1>2, FS_CardinalityType
<1> QED  BY <1>3, <1>4, <1>7, <1>8, <1>9

\* How many elements of S are below i.
Rank(S, i) == Cardinality({j \in S : j < i})

\* The elements of a finite set of numbers have the ranks from 0 on, in order.
LEMMA Ranks ==
  ASSUME NEW S \in SUBSET Nat, IsFiniteSet(S)
  PROVE  /\ Cardinality(S) \in Nat
         /\ \A i, k \in S : i < k => Rank(S, i) < Rank(S, k)
         /\ \A i \in S : Rank(S, i) \in 0 .. Cardinality(S) - 1
         /\ \A n \in 1 .. Cardinality(S) : \E i \in S : Rank(S, i) = n - 1
<1> DEFINE Below(i) == {j \in S : j < i}
<1>1. \A i \in S : IsFiniteSet(Below(i)) /\ Cardinality(Below(i)) \in Nat
  <2> TAKE i \in S
  <2>1. Below(i) \subseteq S
    OBVIOUS
  <2> QED  BY <2>1, FS_Subset, FS_CardinalityType
<1>2. \A i, k \in S : i < k => Rank(S, i) < Rank(S, k)
  <2> SUFFICES ASSUME NEW i \in S, NEW k \in S, i < k
               PROVE  Rank(S, i) < Rank(S, k)
    OBVIOUS
  <2>1. Below(i) \subseteq Below(k)
    <3> SUFFICES ASSUME NEW j \in S, j < i PROVE j < k
      OBVIOUS
    <3> QED  OBVIOUS
  <2>0. i \in Below(k) /\ i \notin Below(i)
    OBVIOUS
  <2> HIDE DEF Below
  <2>2. Cardinality(Below(i)) <= Cardinality(Below(k))
        /\ Cardinality(Below(i)) # Cardinality(Below(k))
    BY <1>1, <2>0, <2>1, FS_Subset
  <2> QED  BY <1>1, <2>2 DEF Rank, Below
<1>3. Cardinality(S) \in Nat
  BY FS_CardinalityType
<1>4. \A i \in S : Rank(S, i) \in 0 .. Cardinality(S) - 1
  <2> TAKE i \in S
  <2>1. Below(i) \subseteq S /\ i \notin Below(i)
    OBVIOUS
  <2> HIDE DEF Below
  <2>2. Cardinality(Below(i)) <= Cardinality(S) /\ Cardinality(Below(i)) # Cardinality(S)
    BY <2>1, FS_Subset
  <2>3. Cardinality(Below(i)) \in Nat
    BY <1>1
  <2>4. Cardinality(Below(i)) \in 0 .. Cardinality(S) - 1
    BY <1>3, <2>2, <2>3
  <2> QED  BY <2>4 DEF Rank, Below
<1> DEFINE f == [i \in S |-> Rank(S, i) + 1]
<1>5. f \in Injection(S, 1 .. Cardinality(S))
  <2>1. f \in [S -> 1 .. Cardinality(S)]
    BY <1>3, <1>4
  <2>2. \A a, b \in S : f[a] = f[b] => a = b
    <3> SUFFICES ASSUME NEW a \in S, NEW b \in S, f[a] = f[b], a # b PROVE FALSE
      OBVIOUS
    <3>1. Rank(S, a) = Rank(S, b)
      BY <1>3, <1>4
    <3>2. a < b \/ b < a
      OBVIOUS
    <3>3. Rank(S, a) \in Nat
      BY <1>3, <1>4
    <3> QED  BY <1>2, <3>1, <3>2, <3>3
  <2> QED  BY <2>1, <2>2, Fun_IsInj
<1>6. f \in Surjection(S, 1 .. Cardinality(S))
  <2>1. IsFiniteSet(1 .. Cardinality(S)) /\ Cardinality(1 .. Cardinality(S)) = Cardinality(S)
    BY <1>3, FS_Interval
  <2> HIDE DEF f
  <2> QED  BY <1>5, <2>1, FS_Injection
<1>7. \A n \in 1 .. Cardinality(S) : \E i \in S : f[i] = n
  <2> HIDE DEF f
  <2> QED  BY <1>6, Fun_SurjectionProperties
<1>8. \A n \in 1 .. Cardinality(S) : \E i \in S : Rank(S, i) = n - 1
  BY <1>3, <1>4, <1>7
<1> QED  BY <1>2, <1>3, <1>4, <1>8

\* f begins with a, and F says what follows the previous value.
Iterates(f, n, M, a, F) ==
  f \in [0 .. n -> M] /\ f[0] = a /\ \A i \in 1 .. n : f[i] = F[<<i, f[i - 1]>>]

\* A function may be defined by what follows from its previous value.
LEMMA Iteration ==
  ASSUME NEW n \in Nat, NEW M, NEW a \in M, NEW F \in [(1 .. n) \X M -> M]
  PROVE  \E f : Iterates(f, n, M, a, F)
<1> DEFINE Upto(l, f) == f[0] = a /\ \A i \in 1 .. l : f[i] = F[<<i, f[i - 1]>>]
           S == {l \in 0 .. n : \E f \in [0 .. l -> M] : Upto(l, f)}
<1>1. 0 \in S
  <2> DEFINE f == [i \in 0 .. 0 |-> a]
  <2>1. f \in [0 .. 0 -> M] /\ f[0] = a
    OBVIOUS
  <2>2. \A i \in 1 .. 0 : f[i] = F[<<i, f[i - 1]>>]
    OBVIOUS
  <2> HIDE DEF f
  <2>3. \E h \in [0 .. 0 -> M] : Upto(0, h)
    BY <2>1, <2>2
  <2> QED  BY <2>3
<1>2. \A l \in 1 .. n : l - 1 \in S => l \in S
  <2> SUFFICES ASSUME NEW l \in 1 .. n, l - 1 \in S PROVE l \in S
    OBVIOUS
  <2>1. PICK f \in [0 .. l - 1 -> M] : Upto(l - 1, f)
    OBVIOUS
  <2> DEFINE g == [i \in 0 .. l |-> IF i = l THEN F[<<l, f[l - 1]>>] ELSE f[i]]
  <2>2. f[l - 1] \in M /\ <<l, f[l - 1]>> \in (1 .. n) \X M
    BY <2>1
  <2>3. F[<<l, f[l - 1]>>] \in M
    BY <2>2
  <2>4. g \in [0 .. l -> M]
    <3>1. \A i \in 0 .. l : i # l => i \in 0 .. l - 1
      OBVIOUS
    <3> QED  BY <2>1, <2>3, <3>1
  <2>5. g[0] = a
    BY <2>1
  <2>6. \A i \in 1 .. l : g[i] = F[<<i, g[i - 1]>>]
    <3> SUFFICES ASSUME NEW i \in 1 .. l PROVE g[i] = F[<<i, g[i - 1]>>]
      OBVIOUS
    <3>1. g[i - 1] = f[i - 1]
      OBVIOUS
    <3>2. CASE i = l
      BY SMTT(30), <3>1, <3>2
    <3>3. CASE i # l
      <4>1. g[i] = f[i] /\ i \in 1 .. l - 1
        BY <3>3
      <4> QED  BY <2>1, <3>1, <4>1
    <3> QED  BY <3>2, <3>3
  <2> HIDE DEF g
  <2> QED  BY <2>4, <2>5, <2>6
<1> HIDE DEF S
<1>3. n \in S
  BY <1>1, <1>2, Climb
<1> QED  BY <1>3 DEF S, Iterates

-----------------------------------------------------------------------------
(* Sums *)

\* One pair for each unit of a sum.
Units(g, s) == {p \in s \X Nat : p[2] < g[p[1]]}

\* The units of a finite sum.
LEMMA UnitsFacts ==
  ASSUME NEW D, NEW g \in [D -> Nat], NEW s \in SUBSET D, IsFiniteSet(s)
  PROVE  /\ IsFiniteSet(Units(g, s)) /\ Cardinality(Units(g, s)) \in Nat
         /\ \A x \in s : Cardinality(Units(g, s)) = g[x] + Cardinality(Units(g, s \ {x}))
<1>1. ASSUME NEW x \in s
      PROVE  IsFiniteSet(Units(g, {x})) /\ Cardinality(Units(g, {x})) = g[x]
  <2> DEFINE n == g[x]
             f == [k \in 1 .. n |-> <<x, k - 1>>]
  <2>1. n \in Nat
    OBVIOUS
  <2>2. f \in [1 .. n -> Units(g, {x})]
    BY <2>1 DEF Units
  <2>3. \A a, b \in 1 .. n : f[a] = f[b] => a = b
    BY <2>1
  <2>4. \A y \in Units(g, {x}) : \E k \in 1 .. n : f[k] = y
    <3> TAKE y \in Units(g, {x})
    <3>1. y = <<x, y[2]>> /\ y[2] \in Nat /\ y[2] < n
      BY DEF Units
    <3>2. y[2] + 1 \in 1 .. n /\ (y[2] + 1) - 1 = y[2]
      BY <2>1, <3>1
    <3> QED  BY <3>1, <3>2
  <2>5. IsFiniteSet(1 .. n) /\ Cardinality(1 .. n) = n
    BY <2>1, FS_Interval
  <2> HIDE DEF f, n
  <2>6. IsFiniteSet(Units(g, {x})) /\ Cardinality(Units(g, {x})) = n
    BY <2>2, <2>3, <2>4, <2>5, SameNumber
  <2> QED  BY <2>6 DEF n
<1>2. ASSUME NEW T \in SUBSET s, NEW x \in T
      PROVE  /\ Units(g, T) = Units(g, T \ {x}) \cup Units(g, {x})
             /\ Units(g, T \ {x}) \cap Units(g, {x}) = {}
  BY DEF Units
<1> DEFINE K == {k \in 0 .. Cardinality(s) :
                   \A T \in SUBSET s : Cardinality(T) = k => IsFiniteSet(Units(g, T))}
<1>3. Cardinality(s) \in Nat /\ \A T \in SUBSET s : IsFiniteSet(T) /\ Cardinality(T) \in Nat
  BY FS_CardinalityType, FS_Subset
<1>4. 0 \in K
  <2> SUFFICES ASSUME NEW T \in SUBSET s, Cardinality(T) = 0 PROVE IsFiniteSet(Units(g, T))
    BY <1>3
  <2>1. T = {}
    BY <1>3, FS_EmptySet
  <2>2. Units(g, T) = {}
    BY <2>1 DEF Units
  <2> QED  BY <2>2, FS_EmptySet
<1>5. \A k \in 1 .. Cardinality(s) : k - 1 \in K => k \in K
  <2> SUFFICES ASSUME NEW k \in 1 .. Cardinality(s), k - 1 \in K,
                      NEW T \in SUBSET s, Cardinality(T) = k
               PROVE  IsFiniteSet(Units(g, T))
    BY <1>3
  <2>1. T # {}
    BY <1>3, FS_EmptySet
  <2>2. PICK x \in T : TRUE
    BY <2>1
  <2>3. Cardinality(T \ {x}) = k - 1
    BY <1>3, FS_RemoveElement
  <2>4. IsFiniteSet(Units(g, T \ {x}))
    BY <2>3
  <2>5. IsFiniteSet(Units(g, {x})) /\ Units(g, T) = Units(g, T \ {x}) \cup Units(g, {x})
    BY <1>1, <1>2
  <2> QED  BY <2>4, <2>5, FS_Union
<1>6. IsFiniteSet(Units(g, s))
  <2>1. Cardinality(s) \in 0 .. Cardinality(s)
    BY <1>3
  <2> HIDE DEF K
  <2>2. Cardinality(s) \in K
    BY <1>3, <1>4, <1>5, <2>1, Climb
  <2> QED  BY <2>2 DEF K
<1>7. ASSUME NEW x \in s
      PROVE  Cardinality(Units(g, s)) = g[x] + Cardinality(Units(g, s \ {x}))
  <2>1. IsFiniteSet(Units(g, s \ {x}))
    <3>1. Units(g, s \ {x}) \subseteq Units(g, s)
      BY DEF Units
    <3> QED  BY <1>6, <3>1, FS_Subset
  <2>2. Cardinality(Units(g, s)) = Cardinality(Units(g, s \ {x})) + Cardinality(Units(g, {x}))
    <3>1. s \in SUBSET s /\ IsFiniteSet(Units(g, {x}))
      BY <1>1
    <3>2. /\ Units(g, s) = Units(g, s \ {x}) \cup Units(g, {x})
          /\ Units(g, s \ {x}) \cap Units(g, {x}) = {}
      BY <1>2, <3>1
    <3> QED  BY <2>1, <3>1, <3>2, TwoParts
  <2>3. Cardinality(Units(g, s \ {x})) \in Nat /\ g[x] \in Nat
    BY <2>1, FS_CardinalityType
  <2> QED  BY <1>1, <2>2, <2>3
<1> QED  BY <1>6, <1>7, FS_CardinalityType

\* A sum has as many units as it says.
LEMMA SumIsUnits ==
  ASSUME NEW D, IsFiniteSet(D), NEW g \in [D -> Nat]
  PROVE  SumFunction(g) = Cardinality(Units(g, D))
<1> DEFINE Eqn(q) == q = [s \in SUBSET D |->
                            IF s = {} THEN 0
                            ELSE LET x == CHOOSE x \in s : TRUE IN g[x] + q[s \ {x}]]
           h == [s \in SUBSET D |-> Cardinality(Units(g, s))]
           r == CHOOSE q : Eqn(q)
<1>1. \A s \in SUBSET D : IsFiniteSet(s) /\ Cardinality(s) \in Nat
  BY FS_Subset, FS_CardinalityType
<1>2. ASSUME NEW s \in SUBSET D, s # {}
      PROVE  LET x == CHOOSE x \in s : TRUE
             IN /\ x \in s /\ s \ {x} \in SUBSET D
                /\ h[s] = g[x] + h[s \ {x}]
  <2> DEFINE x == CHOOSE x \in s : TRUE
  <2>1. x \in s
    BY <1>2
  <2> HIDE DEF x
  <2>2. Cardinality(Units(g, s)) = g[x] + Cardinality(Units(g, s \ {x}))
    BY <1>1, <2>1, UnitsFacts
  <2>3. x \in s /\ s \ {x} \in SUBSET D /\ h[s] = g[x] + h[s \ {x}]
    BY <2>1, <2>2
  <2> QED  BY <2>3 DEF x
<1>3. h[{}] = 0
  <2>1. Units(g, {}) = {}
    BY DEF Units
  <2> QED  BY <2>1, FS_EmptySet
<1>4. Eqn(h)
  <2>1. h = [s \in SUBSET D |-> h[s]]
    OBVIOUS
  <2> HIDE DEF h
  <2> QED  BY <1>2, <1>3, <2>1
<1>5. Eqn(r)
  BY <1>4
<1>6. SumFunction(g) = r[D]
  BY DEF SumFunction, SumFunctionOnSet, FoldFunctionOnSet, MapThenFoldSet
<1> HIDE DEF r, h
<1>7. r[{}] = 0 /\ \A s \in SUBSET D : s # {} =>
        LET x == CHOOSE x \in s : TRUE IN r[s] = g[x] + r[s \ {x}]
  BY <1>5
<1> DEFINE K == {k \in 0 .. Cardinality(D) : \A s \in SUBSET D : Cardinality(s) = k => r[s] = h[s]}
<1>8. 0 \in K
  <2> SUFFICES ASSUME NEW s \in SUBSET D, Cardinality(s) = 0 PROVE r[s] = h[s]
    BY <1>1
  <2>1. s = {}
    BY <1>1, FS_EmptySet
  <2> QED  BY <1>3, <1>7, <2>1
<1>9. \A k \in 1 .. Cardinality(D) : k - 1 \in K => k \in K
  <2> SUFFICES ASSUME NEW k \in 1 .. Cardinality(D), k - 1 \in K,
                      NEW s \in SUBSET D, Cardinality(s) = k
               PROVE  r[s] = h[s]
    BY <1>1
  <2>1. s # {}
    BY <1>1, FS_EmptySet
  <2> DEFINE x == CHOOSE x \in s : TRUE
  <2>2. x \in s /\ s \ {x} \in SUBSET D /\ h[s] = g[x] + h[s \ {x}]
    BY <1>2, <2>1
  <2>3. r[s] = g[x] + r[s \ {x}]
    BY <1>7, <2>1
  <2> HIDE DEF x
  <2>4. Cardinality(s \ {x}) = k - 1
    BY <1>1, <2>2, FS_RemoveElement
  <2>5. r[s \ {x}] = h[s \ {x}]
    BY <2>2, <2>4
  <2> QED  BY <2>2, <2>3, <2>5
<1>10. Cardinality(D) \in K
  <2>1. Cardinality(D) \in Nat /\ Cardinality(D) \in 0 .. Cardinality(D)
    BY <1>1
  <2> HIDE DEF K
  <2> QED  BY <1>8, <1>9, <2>1, Climb
<1>11. r[D] = h[D]
  BY <1>10
<1> QED  BY <1>6, <1>11 DEF h

\* A sum is 0 or more; one entry may be taken out.
LEMMA SumFacts ==
  ASSUME NEW D, IsFiniteSet(D), NEW g \in [D -> Nat]
  PROVE  /\ SumFunction(g) \in Nat
         /\ D = {} => SumFunction(g) = 0
         /\ \A x \in D : SumFunction(g) = g[x] + SumFunction([y \in D \ {x} |-> g[y]])
<1>1. SumFunction(g) = Cardinality(Units(g, D)) /\ Cardinality(Units(g, D)) \in Nat
  BY SumIsUnits, UnitsFacts
<1>2. D = {} => SumFunction(g) = 0
  <2>1. D = {} => Units(g, D) = {}
    BY DEF Units
  <2> QED  BY <1>1, <2>1, FS_EmptySet
<1>3. ASSUME NEW x \in D
      PROVE  SumFunction(g) = g[x] + SumFunction([y \in D \ {x} |-> g[y]])
  <2> DEFINE R == D \ {x}
             h == [y \in R |-> g[y]]
  <2>1. IsFiniteSet(R) /\ h \in [R -> Nat]
    BY FS_RemoveElement
  <2>2. Units(h, R) = Units(g, R)
    BY DEF Units
  <2>3. Cardinality(Units(g, D)) = g[x] + Cardinality(Units(g, R))
    BY UnitsFacts
  <2> HIDE DEF R, h
  <2>4. SumFunction(h) = Cardinality(Units(h, R))
    BY <2>1, SumIsUnits
  <2>5. SumFunction(g) = g[x] + SumFunction(h)
    BY <1>1, <2>2, <2>3, <2>4
  <2> QED  BY <2>5 DEF R, h
<1> QED  BY <1>1, <1>2, <1>3

\* A sum is what is reached by adding one entry after the other.
LEMMA SumSteps ==
  ASSUME NEW n \in Nat, NEW g \in [1 .. n -> Nat], NEW C \in [0 .. n -> Nat], C[0] = 0,
         \A i \in 1 .. n : C[i] = C[i - 1] + g[i]
  PROVE  SumFunction(g) = C[n]
<1> DEFINE G(i) == [j \in 1 .. i |-> g[j]]
           S == {i \in 0 .. n : SumFunction(G(i)) = C[i]}
<1>1. \A i \in 0 .. n : G(i) \in [1 .. i -> Nat] /\ IsFiniteSet(1 .. i)
  <2> TAKE i \in 0 .. n
  <2>1. \A j \in 1 .. i : j \in 1 .. n
    OBVIOUS
  <2>2. G(i) \in [1 .. i -> Nat]
    BY <2>1
  <2>3. IsFiniteSet(1 .. i)
    BY FS_Interval
  <2> QED  BY <2>2, <2>3
<1>2. 0 \in S
  <2>1. 1 .. 0 = {} /\ 0 \in 0 .. n
    OBVIOUS
  <2> HIDE DEF G
  <2>2. SumFunction(G(0)) = 0
    BY <1>1, <2>1, SumFacts
  <2> QED  BY <2>1, <2>2
<1>3. \A i \in 1 .. n : i - 1 \in S => i \in S
  <2> SUFFICES ASSUME NEW i \in 1 .. n, i - 1 \in S PROVE i \in S
    OBVIOUS
  <2>1. i \in 0 .. n /\ i - 1 \in 0 .. n /\ i \in 1 .. i /\ (1 .. i) \ {i} = 1 .. i - 1
    <3>1. i \in Nat /\ n \in Nat /\ 1 <= i /\ i <= n
      OBVIOUS
    <3>2. \A y \in 1 .. i - 1 : y \in 1 .. i /\ y # i
      BY <3>1
    <3>3. (1 .. i) \ {i} = 1 .. i - 1
      <4>1. \A y \in 1 .. i : y # i => y \in 1 .. i - 1
        BY <3>1
      <4> QED  BY <3>2, <4>1
    <3>4. i \in 0 .. n /\ i - 1 \in 0 .. n /\ i \in 1 .. i
      BY <3>1
    <3> QED  BY <3>3, <3>4
  <2>2. [y \in (1 .. i) \ {i} |-> G(i)[y]] = G(i - 1)
    <3>1. \A y \in 1 .. i - 1 : G(i)[y] = g[y]
      OBVIOUS
    <3> QED  BY <2>1, <3>1
  <2>3. G(i)[i] = g[i]
    BY <2>1
  <2> HIDE DEF G
  <2>4. SumFunction(G(i)) = G(i)[i] + SumFunction([y \in (1 .. i) \ {i} |-> G(i)[y]])
    <3>1. G(i) \in [1 .. i -> Nat] /\ IsFiniteSet(1 .. i)
      BY <1>1, <2>1
    <3> DEFINE D == 1 .. i
               h == G(i)
    <3>2. h \in [D -> Nat] /\ IsFiniteSet(D) /\ i \in D
      BY <2>1, <3>1
    <3> HIDE DEF D, h
    <3>3. \A x \in D : SumFunction(h) = h[x] + SumFunction([y \in D \ {x} |-> h[y]])
      BY ONLY <3>2, SumFacts
    <3> QED  BY <3>2, <3>3 DEF D, h
  <2>5. SumFunction(G(i)) = g[i] + C[i - 1]
    BY <2>2, <2>3, <2>4
  <2>6. C[i] = C[i - 1] + g[i] /\ C[i - 1] \in Nat /\ g[i] \in Nat
    <3>1. i - 1 \in 0 .. n
      OBVIOUS
    <3> QED  BY <3>1
  <2> QED  BY <2>1, <2>5, <2>6
<1>4. n \in S
  <2>1. n \in 0 .. n
    OBVIOUS
  <2> HIDE DEF S
  <2>2. 0 .. n \subseteq S
    BY <1>2, <1>3, Climb
  <2> QED  BY <2>1, <2>2
<1>5. G(n) = g
  OBVIOUS
<1> HIDE DEF G
<1> QED  BY <1>4, <1>5

\* One entry of a sum changes.
LEMMA SumChange ==
  ASSUME NEW D, IsFiniteSet(D), NEW g \in [D -> Nat], NEW h \in [D -> Nat], NEW x \in D,
         \A y \in D : y # x => g[y] = h[y]
  PROVE  SumFunction(h) = SumFunction(g) - g[x] + h[x]
<1> DEFINE r == [y \in D \ {x} |-> g[y]]
<1>1. r = [y \in D \ {x} |-> h[y]]
  OBVIOUS
<1>2. SumFunction(g) = g[x] + SumFunction(r)
  BY SumFacts
<1>3. SumFunction(h) = h[x] + SumFunction(r)
  BY <1>1, SumFacts
<1>4. SumFunction(r) \in Nat
  <2>1. IsFiniteSet(D \ {x}) /\ r \in [D \ {x} -> Nat]
    BY FS_RemoveElement
  <2> HIDE DEF r
  <2> QED  BY <2>1, SumFacts
<1> HIDE DEF r
<1>5. g[x] \in Nat /\ h[x] \in Nat
  OBVIOUS
<1> QED  BY <1>2, <1>3, <1>4, <1>5

=============================================================================
