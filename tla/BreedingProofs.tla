--------------------------- MODULE BreedingProofs ---------------------------
(***************************************************************************)
(* Selection and breeding, proved for any population size, any phases and  *)
(* options, any function sets and any fitness: who becomes a parent, and   *)
(* that offspring are trees, within the limits, with a true cache and with *)
(* what the parents had.                                                   *)
(***************************************************************************)
EXTENDS Breeding, TreesProofs

-----------------------------------------------------------------------------
(* select_interval *)

\* The borders of the intervals are sums.
LEMMA IntervalsFacts ==
  ASSUME NEW fit \in Seq(Nat)
  PROVE  /\ Intervals(fit)[0] = 0
         /\ \A i \in 1 .. Len(fit) : Intervals(fit)[i] = Intervals(fit)[i - 1] + fit[i]
         /\ \A i \in 0 .. Len(fit) : Intervals(fit)[i] \in Nat
<1> DEFINE n == Len(fit)
           Eqn(r) == r = [i \in 0 .. n |-> IF i = 0 THEN 0 ELSE r[i - 1] + fit[i]]
           F == [q \in (1 .. n) \X Nat |-> q[2] + fit[q[1]]]
<1>1. n \in Nat /\ \A i \in 1 .. n : fit[i] \in Nat
  BY ElementOfSeq
<1>2. F \in [(1 .. n) \X Nat -> Nat] /\ \A i \in 1 .. n, x \in Nat : F[<<i, x>>] = x + fit[i]
  BY <1>1
<1> HIDE DEF F
<1>3. \E r : Iterates(r, n, Nat, 0, F)
  BY <1>1, <1>2, Iteration
<1>4. PICK r : Iterates(r, n, Nat, 0, F)
  BY <1>3
<1>5. /\ r \in [0 .. n -> Nat] /\ r[0] = 0
      /\ \A i \in 1 .. n : r[i] = r[i - 1] + fit[i]
  <2>1. r \in [0 .. n -> Nat] /\ r[0] = 0 /\ \A i \in 1 .. n : r[i] = F[<<i, r[i - 1]>>]
    BY <1>4 DEF Iterates
  <2>2. \A i \in 1 .. n : r[i - 1] \in Nat
    <3>1. \A i \in 1 .. n : i - 1 \in 0 .. n
      BY <1>1
    <3> QED  BY <2>1, <3>1
  <2> QED  BY <1>2, <2>1, <2>2
<1>6. Eqn(r)
  BY <1>1, <1>5
<1> DEFINE s == CHOOSE q : Eqn(q)
<1>7. Eqn(s) /\ Intervals(fit) = s
  <2>1. Eqn(s)
    BY <1>6
  <2> QED  BY <2>1 DEF Intervals
<1>8. /\ s[0] = 0 /\ \A i \in 1 .. n : s[i] = s[i - 1] + fit[i]
  <2>1. 0 \in 0 .. n /\ \A i \in 1 .. n : i \in 0 .. n /\ i # 0
    BY <1>1
  <2>2. s = [i \in 0 .. n |-> IF i = 0 THEN 0 ELSE s[i - 1] + fit[i]]
    BY <1>7
  <2> HIDE DEF s
  <2> QED  BY <2>1, <2>2
<1> HIDE DEF s
<1> DEFINE S == {i \in 0 .. n : s[i] \in Nat}
<1>9. 0 .. n \subseteq S
  <2>1. 0 \in S
    BY <1>1, <1>8
  <2>2. \A i \in 1 .. n : i - 1 \in S => i \in S
    BY SMTT(30), <1>1, <1>8
  <2> HIDE DEF S
  <2> QED  BY <1>1, <2>1, <2>2, Climb
<1> QED  BY <1>7, <1>8, <1>9

\* What the binary search finds: an interval that is not empty, if there is one,
\* and the last one otherwise.
Hit(fit, k) ==
  /\ k \in 1 .. Len(fit)
  /\ IF Intervals(fit)[Len(fit)] > 0 THEN fit[k] > 0 ELSE k = Len(fit)

\* Between two turns of the loop rval is in one of the intervals from low to high.
LEMMA SelectIntervalFacts ==
  ASSUME NEW fit \in Seq(Nat), Len(fit) > 0,
         NEW rval \in Nat, rval < Intervals(fit)[Len(fit)] \/ rval = 0
  PROVE  Hit(fit, SelectInterval(fit, rval))
<1> DEFINE n == Len(fit)
           I == Intervals(fit)
           M == (0 .. n) \X (0 .. n)
           Turn(p) == LET low == p[1]
                          high == p[2]
                          middle == (low + high) \div 2
                      IN IF low >= high - 1 THEN p
                         ELSE IF rval >= I[middle] THEN <<middle, high>> ELSE <<low, middle>>
           Eqn(r) == r = [k \in 0 .. n |-> IF k = 0 THEN <<0, n>> ELSE Turn(r[k - 1])]
           F == [q \in (1 .. n) \X M |-> Turn(q[2])]
           Good(k, p) == /\ p \in M /\ p[1] < p[2]
                         /\ p[2] - p[1] <= 1 \/ p[2] - p[1] <= n - k
                         /\ I[p[1]] <= rval
                         /\ rval < I[p[2]] \/ p[2] = n
                         /\ I[n] = 0 => p[2] = n
<1>1. /\ n \in Nat \ {0} /\ \A i \in 1 .. n : fit[i] \in Nat
      /\ I[0] = 0 /\ \A i \in 1 .. n : I[i] = I[i - 1] + fit[i]
      /\ \A i \in 0 .. n : I[i] \in Nat
  BY ElementOfSeq, IntervalsFacts
<1>2. I[n] = 0 => \A i \in 0 .. n : I[i] = 0
  <2> SUFFICES ASSUME I[n] = 0 PROVE \A i \in 0 .. n : I[i] = 0
    OBVIOUS
  <2> DEFINE S == {k \in 0 .. n : I[n - k] = 0}
  <2> HIDE DEF I
  <2>1. 0 \in S
    BY <1>1
  <2>2. \A k \in 1 .. n : k - 1 \in S => k \in S
    <3> TAKE k \in 1 .. n
    <3> HAVE k - 1 \in S
    <3>1. n - k + 1 \in 1 .. n /\ n - (k - 1) = n - k + 1 /\ n - k \in 0 .. n
      BY <1>1
    <3>2. I[n - k + 1] = I[n - k] + fit[n - k + 1]
      BY <1>1, <3>1
    <3>3. I[n - k] \in Nat /\ fit[n - k + 1] \in Nat /\ I[n - k + 1] = 0
      BY <1>1, <3>1
    <3> QED  BY SMTT(30), <1>1, <3>1, <3>2, <3>3
  <2>3. 0 .. n \subseteq S
    <3> HIDE DEF S
    <3> QED  BY <1>1, <2>1, <2>2, Climb
  <2>4. \A i \in 0 .. n : n - i \in 0 .. n /\ n - (n - i) = i
    BY <1>1
  <2> QED  BY <2>3, <2>4
<1> HIDE DEF I, n
<1>3. \A p \in M : Turn(p) \in M
  <2> TAKE p \in M
  <2>1. PICK low \in 0 .. n, high \in 0 .. n : p = <<low, high>>
    OBVIOUS
  <2>2. (low + high) \div 2 \in 0 .. n
    BY <1>1
  <2> QED  BY <2>1, <2>2
<1>4. ASSUME NEW k \in 1 .. n, NEW p, Good(k - 1, p) PROVE Good(k, Turn(p))
  <2>1. PICK low \in 0 .. n, high \in 0 .. n : p = <<low, high>>
    BY <1>4
  <2> DEFINE middle == (low + high) \div 2
  <2>2. /\ low < high /\ (high - low <= 1 \/ high - low <= n - (k - 1))
        /\ I[low] <= rval /\ (rval < I[high] \/ high = n) /\ (I[n] = 0 => high = n)
    BY <1>4, <2>1
  <2>3. CASE low >= high - 1
    <3>1. Turn(p) = p
      BY <2>1, <2>3
    <3>2. high - low <= 1
      BY <1>1, <2>3
    <3> QED  BY <1>4, <2>1, <3>1, <3>2
  <2>4. CASE low < high - 1
    <3>1. middle \in 0 .. n /\ low < middle /\ middle < high
      BY <1>1, <2>4
    <3>2. high - low <= n - k + 1
      BY <1>1, <2>2, <2>4
    <3>3. high - middle <= n - k /\ middle - low <= n - k
      BY <1>1, <3>1, <3>2
    <3>4. I[middle] \in Nat /\ I[n] = 0 => I[middle] = 0
      BY <1>1, <1>2, <3>1
    <3>5. CASE rval >= I[middle]
      <4>1. Turn(p) = <<middle, high>>
        BY <2>1, <2>4, <3>5
      <4> HIDE DEF middle, Turn
      <4> QED  BY <2>2, <3>1, <3>3, <3>5, <4>1
    <3>6. CASE rval < I[middle]
      <4>1. Turn(p) = <<low, middle>>
        BY <1>1, <2>1, <2>4, <3>1, <3>6
      <4>2. I[n] # 0
        BY <1>1, <1>2, <3>1, <3>6
      <4> HIDE DEF middle, Turn
      <4> QED  BY SMTT(30), <2>2, <3>1, <3>3, <3>6, <4>1, <4>2
    <3>7. I[middle] \in Nat
      BY <1>1, <3>1
    <3> QED  BY <3>5, <3>6, <3>7
  <2> QED  BY <1>1, <2>3, <2>4
<1> HIDE DEF Turn
<1>5. <<0, n>> \in M /\ F \in [(1 .. n) \X M -> M]
      /\ \A k \in 1 .. n, p \in M : F[<<k, p>>] = Turn(p)
  BY <1>1, <1>3
<1> HIDE DEF F
<1>6. \E r : Eqn(r)
  <2>1. PICK r : Iterates(r, n, M, <<0, n>>, F)
    BY <1>1, <1>5, Iteration
  <2>2. /\ r \in [0 .. n -> M] /\ r[0] = <<0, n>>
        /\ \A k \in 1 .. n : r[k] = F[<<k, r[k - 1]>>]
    BY <2>1 DEF Iterates
  <2>3. \A k \in 1 .. n : r[k] = Turn(r[k - 1])
    <3>1. \A k \in 1 .. n : k - 1 \in 0 .. n
      BY <1>1
    <3> HIDE DEF M
    <3> QED  BY <1>5, <2>2, <3>1
  <2> HIDE DEF M
  <2>4. \A k \in 0 .. n : k # 0 => k \in 1 .. n
    BY <1>1
  <2>5. \A k \in 0 .. n : r[k] = IF k = 0 THEN <<0, n>> ELSE Turn(r[k - 1])
    BY <2>2, <2>3, <2>4
  <2>6. r = [k \in 0 .. n |-> r[k]]
    BY <2>2
  <2> QED  BY <2>5, <2>6
<1> DEFINE r == CHOOSE q : Eqn(q)
<1>7. Eqn(r)
  BY <1>6
<1>8. SelectInterval(fit, rval) = r[n][2]
  BY DEF SelectInterval, Turn, I, n
<1> HIDE DEF r
<1>9. r[0] = <<0, n>> /\ \A k \in 1 .. n : r[k] = Turn(r[k - 1])
  <2>1. 0 \in 0 .. n /\ \A k \in 1 .. n : k \in 0 .. n /\ k # 0
    BY <1>1
  <2> QED  BY <1>7, <2>1
<1> DEFINE S == {k \in 0 .. n : Good(k, r[k])}
<1>10. 0 .. n \subseteq S
  <2>1. 0 \in S
    <3>1. I[0] <= rval /\ 0 < n /\ n - 0 <= n - 0 /\ 0 \in 0 .. n /\ n \in 0 .. n
      BY <1>1
    <3>2. Good(0, <<0, n>>)
      BY <3>1
    <3>3. Good(0, r[0])
      <4> HIDE DEF Good
      <4> QED  BY <1>9, <3>2
    <3> HIDE DEF Good
    <3> QED  BY <3>1, <3>3
  <2>2. \A k \in 1 .. n : k - 1 \in S => k \in S
    <3> SUFFICES ASSUME NEW k \in 1 .. n, Good(k - 1, r[k - 1]) PROVE Good(k, r[k])
      <4> HIDE DEF Good
      <4> QED  BY <1>1
    <3>1. Good(k, Turn(r[k - 1]))
      BY <1>4
    <3>2. r[k] = Turn(r[k - 1])
      BY <1>9
    <3> HIDE DEF Good
    <3> QED  BY <3>1, <3>2
  <2> HIDE DEF S
  <2> QED  BY <1>1, <2>1, <2>2, Climb
<1>11. Good(n, r[n])
  <2> HIDE DEF Good
  <2> QED  BY <1>1, <1>10
<1>12. PICK low \in 0 .. n, high \in 0 .. n : r[n] = <<low, high>>
  BY <1>11
<1>13. /\ low < high /\ high - low <= 1 /\ I[low] <= rval
       /\ rval < I[high] \/ high = n
       /\ I[n] = 0 => high = n
  BY <1>1, <1>11, <1>12
<1>14. high \in 1 .. n /\ low = high - 1 /\ I[high] = I[high - 1] + fit[high]
  BY <1>1, <1>13
<1>15. I[n] > 0 => rval < I[high]
  <2>1. rval < I[n] \/ rval = 0
    BY DEF I, n
  <2> QED  BY <1>13, <2>1
<1>16. I[n] > 0 => fit[high] > 0
  <2>1. I[high - 1] \in Nat /\ fit[high] \in Nat
    BY <1>1, <1>14
  <2> QED  BY <1>13, <1>14, <1>15, <2>1
<1>17. I[n] \in Nat
  BY <1>1
<1>18. SelectInterval(fit, rval) = high
  BY <1>8, <1>12
<1> QED  BY <1>13, <1>14, <1>16, <1>17, <1>18 DEF Hit, I, n

-----------------------------------------------------------------------------
(* Selection by fitness *)

\* The last border is above 0 if one interval has a width.
LEMMA SomeWidth ==
  ASSUME NEW fit \in Seq(Nat), NEW k \in 1 .. Len(fit), fit[k] > 0
  PROVE  Intervals(fit)[Len(fit)] > 0
<1> DEFINE n == Len(fit)
           I == Intervals(fit)
           S == {j \in 0 .. n : j >= k => I[j] > 0}
<1>1. /\ n \in Nat /\ \A i \in 1 .. n : fit[i] \in Nat
      /\ I[0] = 0 /\ \A i \in 1 .. n : I[i] = I[i - 1] + fit[i]
      /\ \A i \in 0 .. n : I[i] \in Nat
  BY ElementOfSeq, IntervalsFacts
<1> HIDE DEF I
<1>2. 0 \in S
  BY <1>1
<1>3. \A j \in 1 .. n : j - 1 \in S => j \in S
  <2> TAKE j \in 1 .. n
  <2> HAVE j - 1 \in S
  <2>1. I[j - 1] \in Nat /\ fit[j] \in Nat /\ I[j] = I[j - 1] + fit[j]
    <3>1. j - 1 \in 0 .. n
      BY <1>1
    <3> QED  BY <1>1, <3>1
  <2>2. CASE j = k
    BY <1>1, <2>1, <2>2
  <2>3. CASE j # k
    BY SMTT(30), <1>1, <2>1, <2>3
  <2> QED  BY <2>2, <2>3
<1>4. 0 .. n \subseteq S
  <2> HIDE DEF S
  <2> QED  BY <1>1, <1>2, <1>3, Climb
<1>5. n \in 0 .. n /\ n >= k
  BY <1>1
<1> QED  BY <1>4, <1>5 DEF I

\* Selection in proportion to a fitness that nobody has is that of the last one.
LEMMA FitnessPicksFacts ==
  ASSUME NEW fit \in Seq(Nat), Len(fit) > 0, NEW k \in FitnessPicks(fit)
  PROVE  Hit(fit, k)
<1>1. Len(fit) \in 0 .. Len(fit) /\ Intervals(fit)[Len(fit)] \in Nat
  <2>1. Len(fit) \in 0 .. Len(fit)
    BY LenProperties
  <2> QED  BY <2>1, IntervalsFacts
<1>2. PICK rval \in {0} \cup 0 .. Intervals(fit)[Len(fit)] - 1 : k = SelectInterval(fit, rval)
  BY DEF FitnessPicks
<1>3. rval \in Nat /\ (rval < Intervals(fit)[Len(fit)] \/ rval = 0)
  BY <1>1, <1>2
<1> QED  BY <1>2, <1>3, SelectIntervalFacts

\* An order of all the indices misses none.
LEMMA OrdersAreOnto ==
  ASSUME NEW n \in Nat, NEW list \in [1 .. n -> 1 .. n], IsInjective(list), NEW i \in 1 .. n
  PROVE  \E j \in 1 .. n : list[j] = i
<1>1. list \in Injection(1 .. n, 1 .. n)
  <2>1. \A a, b \in 1 .. n : list[a] = list[b] => a = b
    BY DEF IsInjective
  <2> QED  BY <2>1, Fun_IsInj
<1>2. IsFiniteSet(1 .. n)
  BY FS_Interval
<1>3. list \in Surjection(1 .. n, 1 .. n)
  BY <1>1, <1>2, FS_Injection
<1>4. \A t \in 1 .. n : \E j \in 1 .. n : list[j] = t
  BY <1>3 DEF Surjection
<1> QED  BY <1>4

\* The widths of the intervals are multiples of the fitness.
Multiples(w, fit, list) ==
  /\ w \in Seq(Nat) /\ Len(w) = Len(fit)
  /\ \A j \in 1 .. Len(fit) : \E x \in 0 .. 10 : w[j] = fit[list[j]] * x

\* Only fractions from 0 to 1 are allowed.
LEMMA WidthsFacts ==
  ASSUME NEW fit \in Seq(Nat), NEW method, method.proportion \in 0 .. 10, Len(fit) > 0,
         NEW list \in [1 .. Len(fit) -> 1 .. Len(fit)]
  PROVE  Multiples(OverselectWidths(fit, list, method), fit, list)
<1> DEFINE n == Len(fit)
           w == OverselectWidths(fit, list, method)
<1>1. /\ n \in Nat \ {0} /\ DOMAIN fit = 1 .. n /\ \A j \in 1 .. n : fit[j] \in Nat
  BY LenProperties, ElementOfSeq
<1>4. list \in [1 .. n -> 1 .. n]
  OBVIOUS
<1>5. \A j \in 1 .. n : \E x \in 0 .. 10 : w[j] = fit[list[j]] * x
  <2> TAKE j \in 1 .. n
  <2>1. 10 - method.proportion \in 0 .. 10
    OBVIOUS
  <2>2. DOMAIN list = 1 .. n
    BY <1>4
  <2>3. \/ w[j] = fit[list[j]] * method.proportion
        \/ w[j] = fit[list[j]] * (10 - method.proportion)
    BY <2>2 DEF OverselectWidths
  <2> HIDE DEF w
  <2> QED  BY <2>1, <2>3
<1>6. w \in Seq(Nat) /\ Len(w) = n
  <2>1. DOMAIN w = 1 .. n /\ w = [j \in 1 .. n |-> w[j]]
    BY <1>4 DEF OverselectWidths
  <2> HIDE DEF w
  <2>2. \A j \in 1 .. n : w[j] \in Nat
    <3> TAKE j \in 1 .. n
    <3>1. PICK x \in 0 .. 10 : w[j] = fit[list[j]] * x
      BY <1>5
    <3>2. fit[list[j]] \in Nat
      BY <1>1, <1>4
    <3> QED  BY SMTT(30), <3>1, <3>2
  <2>3. w \in [1 .. n -> Nat]
    BY <2>1, <2>2
  <2>4. n \in Nat
    BY <1>1
  <2> HIDE DEF n
  <2>5. w \in Seq(Nat)
    BY <2>3, <2>4, SeqDef
  <2>6. DOMAIN w = 1 .. Len(w) /\ Len(w) \in Nat
    BY <2>5, LenProperties
  <2> QED  BY <2>1, <2>4, <2>5, <2>6
<1> QED  BY <1>5, <1>6 DEF Multiples

\* Whom selection by fitness takes, with the fittest preferred or not.
LEMMA OverselectPicksFacts ==
  ASSUME NEW fit \in Seq(Nat), NEW method, method.proportion \in 0 .. 10,
         NEW i \in 1 .. Len(fit), fit[i] > 0, NEW p \in OverselectPicks(fit, method)
  PROVE  p \in 1 .. Len(fit) /\ fit[p] > 0
<1> DEFINE n == Len(fit)
<1>1. /\ n \in Nat \ {0} /\ DOMAIN fit = 1 .. n /\ \A j \in 1 .. n : fit[j] \in Nat
  BY LenProperties, ElementOfSeq
<1>2. PICK list \in WorstOrders(fit) :
        \E k \in FitnessPicks(OverselectWidths(fit, list, method)) : p = list[k]
  BY DEF OverselectPicks
<1> DEFINE w == OverselectWidths(fit, list, method)
<1>3. PICK k \in FitnessPicks(w) : p = list[k]
  BY <1>2
<1>4. /\ list \in [1 .. n -> 1 .. n] /\ IsInjective(list)
      /\ \A a, b \in 1 .. n : a < b => fit[list[a]] <= fit[list[b]]
  BY <1>1, <1>2 DEF WorstOrders
<1>5. Len(fit) > 0
  BY <1>1
<1>6. /\ w \in Seq(Nat) /\ Len(w) = n
      /\ \A j \in 1 .. n : \E x \in 0 .. 10 : w[j] = fit[list[j]] * x
  <2>1. Multiples(w, fit, list)
    BY <1>4, <1>5, WidthsFacts
  <2> HIDE DEF w
  <2> QED  BY <2>1 DEF Multiples
<1> HIDE DEF w
<1>7. Hit(w, k)
  BY <1>3, <1>5, <1>6, FitnessPicksFacts
<1>8. k \in 1 .. n /\ p \in 1 .. n /\ fit[p] \in Nat
  BY <1>1, <1>3, <1>4, <1>6, <1>7 DEF Hit
<1>9. CASE w[k] > 0
  <2>1. PICK x \in 0 .. 10 : w[k] = fit[p] * x
    BY <1>3, <1>6, <1>8
  <2>2. fit[p] = 0 => w[k] = 0
    BY <2>1
  <2> QED  BY <1>8, <1>9, <2>2
<1>10. CASE k = n
  <2>1. PICK j \in 1 .. n : list[j] = i
    <3>1. n \in Nat /\ i \in 1 .. n
      BY <1>1
    <3> HIDE DEF n
    <3> QED  BY <1>4, <3>1, OrdersAreOnto
  <2>2. fit[list[j]] <= fit[list[n]]
    <3>1. CASE j = n
      BY <1>1, <1>4, <3>1
    <3>2. CASE j # n
      <4>1. j < n /\ n \in 1 .. n
        <5>1. n \in Nat \ {0}
          BY <1>1
        <5> HIDE DEF n
        <5> QED  BY <3>2, <5>1
      <4> QED  BY <1>4, <4>1
    <3> QED  BY <3>1, <3>2
  <2>3. fit[i] <= fit[p] /\ fit[i] \in Nat
    BY <1>1, <1>3, <1>10, <2>1, <2>2
  <2> QED  BY <1>8, <2>3
<1> QED  BY <1>6, <1>7, <1>9, <1>10 DEF Hit

\* The i-th of k values is the first of the greatest.
First(f, i, k) == /\ i \in 1 .. k /\ \A j \in 1 .. k : f[j] <= f[i]
                  /\ \A j \in 1 .. i - 1 : f[j] < f[i]

\* Somebody wins a tournament of at least one.
LEMMA TournamentFacts ==
  ASSUME NEW fit \in Seq(Nat), NEW size \in Nat \ {0}, NEW p \in TournamentPicks(fit, size)
  PROVE  p \in 1 .. Len(fit)
<1>1. PICK draws \in [1 .. size -> DOMAIN fit] : p = TournamentWinner(fit, draws)
  BY DEF TournamentPicks
<1>2. /\ DOMAIN fit = 1 .. Len(fit) /\ DOMAIN draws = 1 .. size
      /\ \A i \in 1 .. Len(fit) : fit[i] \in Nat
  BY <1>1, LenProperties, ElementOfSeq
<1> DEFINE f == [i \in 1 .. size |-> fit[draws[i]]]
           N == size - 1
           S == {k \in 0 .. N : \E i \in 1 .. k + 1 : First(f, i, k + 1)}
<1>0. N \in Nat /\ size = N + 1
  OBVIOUS
<1>3. \A i \in 1 .. size : f[i] = fit[draws[i]] /\ f[i] \in Nat
  <2> SUFFICES ASSUME NEW i \in 1 .. size PROVE f[i] = fit[draws[i]] /\ f[i] \in Nat
    OBVIOUS
  <2>1. draws[i] \in 1 .. Len(fit)
    BY <1>1, <1>2
  <2> QED  BY <1>2, <2>1
<1> HIDE DEF f, N
<1>4. 0 \in S
  <2>1. f[1] \in Nat /\ 1 \in 1 .. 0 + 1 /\ 0 \in 0 .. N
    BY <1>0, <1>3
  <2>2. First(f, 1, 0 + 1)
    BY <2>1 DEF First
  <2> QED  BY <2>1, <2>2
<1>5. \A k \in 1 .. N : k - 1 \in S => k \in S
  <2> SUFFICES ASSUME NEW k \in 1 .. N, NEW i \in 1 .. k, First(f, i, k)
               PROVE  \E m \in 1 .. k + 1 : First(f, m, k + 1)
    BY <1>0
  <2>1. k + 1 \in 1 .. size /\ i \in 1 .. size /\ \A j \in 1 .. k : j \in 1 .. size
    BY <1>0
  <2>2. f[k + 1] \in Nat /\ f[i] \in Nat /\ \A j \in 1 .. k : f[j] \in Nat
    BY <1>3, <2>1
  <2>4. \A j \in 1 .. k + 1 : j = k + 1 \/ j \in 1 .. k
    BY <1>0
  <2>5. CASE f[k + 1] > f[i]
    <3>1. \A j \in 1 .. k : f[j] < f[k + 1]
      BY SMTT(30), <2>2, <2>5 DEF First
    <3>3. k + 1 \in 1 .. k + 1 /\ k + 1 - 1 = k
      BY <1>0
    <3>4. \A j \in 1 .. k + 1 : f[j] <= f[k + 1]
      <4> TAKE j \in 1 .. k + 1
      <4>1. CASE j = k + 1
        BY <2>2, <4>1
      <4>2. CASE j \in 1 .. k
        BY SMTT(30), <2>2, <3>1, <4>2
      <4> QED  BY <2>4, <4>1, <4>2
    <3>2. First(f, k + 1, k + 1)
      BY <3>1, <3>3, <3>4 DEF First
    <3> QED  BY <3>2, <3>3
  <2>6. CASE f[k + 1] <= f[i]
    <3>1. First(f, i, k + 1) /\ i \in 1 .. k + 1
      BY <1>0, <2>2, <2>4, <2>6 DEF First
    <3> QED  BY <3>1
  <2> QED  BY <2>2, <2>5, <2>6
<1>6. 0 .. N \subseteq S
  <2> HIDE DEF S
  <2> QED  BY <1>0, <1>4, <1>5, Climb
<1>7. PICK i \in 1 .. size : First(f, i, size)
  <2>1. N \in S
    BY <1>0, <1>6
  <2> QED  BY <1>0, <2>1
<1> DEFINE Wins(m) == /\ \A j \in DOMAIN draws : fit[draws[j]] <= fit[draws[m]]
                      /\ \A j \in 1 .. m - 1 : fit[draws[j]] < fit[draws[m]]
<1>8. Wins(i)
  <2>1. \A j \in 1 .. i - 1 : j \in 1 .. size
    BY <1>7
  <2> QED  BY <1>2, <1>3, <1>7, <2>1 DEF First
<1> DEFINE w == CHOOSE m \in DOMAIN draws : Wins(m)
<1>9. w \in 1 .. size
  BY <1>2, <1>8
<1>10. p = draws[w]
  BY <1>1 DEF TournamentWinner
<1> HIDE DEF w
<1> QED  BY <1>1, <1>2, <1>9, <1>10

\* The methods that the assumption allows.
Allowed(m) ==
  /\ m.name \in {"fitness", "fitness_overselect", "tournament", "random"}
  /\ m.name = "fitness_overselect" => m.proportion \in 0 .. 10
  /\ m.name = "tournament" => m.size \in Nat \ {0}

\* Any method returns the index of an individual, and selection by fitness that
\* of one that has some, if there is one.
LEMMA PicksFacts ==
  ASSUME NEW fit \in Seq(Nat), Len(fit) > 0, NEW m, Allowed(m), NEW p \in Picks(m, fit)
  PROVE  /\ p \in 1 .. Len(fit)
         /\ m.name \in ByFitness /\ (\E i \in 1 .. Len(fit) : fit[i] > 0) => fit[p] > 0
<1>1. /\ DOMAIN fit = 1 .. Len(fit) /\ Len(fit) \in Nat \ {0}
      /\ \A i \in 1 .. Len(fit) : fit[i] \in Nat
  BY LenProperties, ElementOfSeq
<1>2. CASE m.name = "fitness"
  <2>1. p \in FitnessPicks(fit)
    BY <1>2 DEF Picks
  <2>2. Hit(fit, p)
    BY <2>1, FitnessPicksFacts
  <2>3. (\E i \in 1 .. Len(fit) : fit[i] > 0) => Intervals(fit)[Len(fit)] > 0
    BY SomeWidth
  <2> QED  BY <2>2, <2>3 DEF Hit
<1>3. CASE m.name = "fitness_overselect"
  <2>1. p \in OverselectPicks(fit, m) /\ m.proportion \in 0 .. 10
    BY <1>3 DEF Picks, Allowed
  <2>2. PICK list \in WorstOrders(fit) :
          \E k \in FitnessPicks(OverselectWidths(fit, list, m)) : p = list[k]
    BY <2>1 DEF OverselectPicks
  <2>3. PICK k \in FitnessPicks(OverselectWidths(fit, list, m)) : p = list[k]
    BY <2>2
  <2>4. list \in [1 .. Len(fit) -> 1 .. Len(fit)]
    BY <1>1, <2>2 DEF WorstOrders
  <2>5. k \in 1 .. Len(fit)
    <3> DEFINE w == OverselectWidths(fit, list, m)
    <3>1. Multiples(w, fit, list)
      BY <1>1, <2>1, <2>4, WidthsFacts
    <3> HIDE DEF w
    <3>2. w \in Seq(Nat) /\ Len(w) = Len(fit) /\ Len(w) > 0
      BY <1>1, <3>1 DEF Multiples
    <3>3. Hit(w, k)
      BY <2>3, <3>2, FitnessPicksFacts DEF w
    <3> QED  BY <3>2, <3>3 DEF Hit
  <2>6. (\E i \in 1 .. Len(fit) : fit[i] > 0) => fit[p] > 0
    BY <2>1, OverselectPicksFacts
  <2> QED  BY <2>3, <2>4, <2>5, <2>6
<1>4. CASE m.name = "tournament"
  <2>1. p \in TournamentPicks(fit, m.size) /\ m.size \in Nat \ {0}
    BY <1>4 DEF Picks, Allowed
  <2>2. m.name \notin ByFitness
    BY <1>4 DEF ByFitness
  <2> QED  BY <2>1, <2>2, TournamentFacts
<1>5. CASE m.name = "random"
  <2>1. p \in DOMAIN fit
    BY <1>5 DEF Picks
  <2>2. m.name \notin ByFitness
    BY <1>5 DEF ByFitness
  <2> QED  BY <1>1, <2>1, <2>2
<1> QED  BY <1>2, <1>3, <1>4, <1>5 DEF Allowed

-----------------------------------------------------------------------------
(* Individuals and populations *)

\* The cached fitness, if there is one, is that of the trees there now.
Cached(ind) ==
  ind.evald => ind.fit = AFitness([j \in TreeIndex |-> EvaluateTree(ind.tr[j])])

\* A tree of the type and within the limits of its place in an individual.
Proper(t, j) ==
  Parsed(t, TreeMap[j].ret) /\ ~TreeTooBig(j, TreeNodes(t), TreeDepth(t))

\* What is true of everybody, with the settings o.
Individual(ind, o) ==
  /\ DOMAIN ind = {"tr", "nodes", "fit", "evald"}
  /\ ind.fit \in Nat /\ ind.evald \in BOOLEAN
  /\ Cached(ind)
  /\ DOMAIN ind.tr = TreeIndex /\ ind.nodes = NodeCounts(ind.tr)
  /\ \A j \in TreeIndex : Proper(ind.tr[j], j)
  /\ o.ignore_limits \/ ~IndTooBig(NodeCounts(ind.tr))

Population(s, o) == \E S : s \in Seq(S) /\ \A x \in S : Individual(x, o)

\* The members of a population.
LEMMA PopulationFacts ==
  ASSUME NEW o, NEW s, Population(s, o)
  PROVE  /\ Len(s) \in Nat /\ DOMAIN s = 1 .. Len(s)
         /\ \A i \in 1 .. Len(s) : Individual(s[i], o)
<1>1. PICK S : s \in Seq(S) /\ \A x \in S : Individual(x, o)
  BY DEF Population
<1>2. Len(s) \in Nat /\ DOMAIN s = 1 .. Len(s)
  BY <1>1, LenProperties
<1>3. \A i \in 1 .. Len(s) : s[i] \in S
  BY <1>1, ElementOfSeq
<1> QED  BY <1>1, <1>2, <1>3

\* Nobody.
LEMMA NobodyIsAPopulation == (\A o : Population(<<>>, o)) /\ Len(<<>>) = 0
<1> DEFINE nobody == {}
<1>1. <<>> \in Seq(nobody) /\ \A o : \A x \in nobody : Individual(x, o)
  OBVIOUS
<1> HIDE DEF nobody
<1>2. \A o : Population(<<>>, o)
  BY <1>1 DEF Population
<1>3. Len(<<>>) = 0
  OBVIOUS
<1> QED  BY <1>2, <1>3

\* One more individual.
LEMMA PopulationAppend ==
  ASSUME NEW o, NEW s, Population(s, o), NEW x, Individual(x, o)
  PROVE  /\ Population(Append(s, x), o) /\ Len(Append(s, x)) = Len(s) + 1
         /\ Append(s, x)[Len(s) + 1] = x
<1>1. PICK S : s \in Seq(S) /\ \A y \in S : Individual(y, o)
  BY DEF Population
<1> DEFINE T == S \cup {x}
<1>2. s \in Seq(T) /\ x \in T /\ \A y \in T : Individual(y, o)
  BY <1>1, SeqMonotonic
<1> HIDE DEF T
<1>3. /\ Append(s, x) \in Seq(T) /\ Len(Append(s, x)) = Len(s) + 1
      /\ Append(s, x)[Len(s) + 1] = x
  BY <1>2, AppendProperties
<1> QED  BY <1>2, <1>3 DEF Population

\* Two more, or one if there is no place for the second.
LEMMA PopulationTwo ==
  ASSUME NEW o, NEW s, Population(s, o), NEW a, NEW b, Individual(a, o), Individual(b, o),
         NEW m \in 0 .. Len(s) + 2
  PROVE  LET t == SubSeq(s \o <<a, b>>, 1, m)
         IN /\ Population(t, o) /\ Len(t) = m
            /\ \A i \in 1 .. m : i > Len(s) => t[i] = IF i = Len(s) + 1 THEN a ELSE b
<1>1. PICK S : s \in Seq(S) /\ \A y \in S : Individual(y, o)
  BY DEF Population
<1> DEFINE T == S \cup {a, b}
           u == s \o <<a, b>>
<1>2. s \in Seq(T) /\ a \in T /\ b \in T /\ \A y \in T : Individual(y, o)
  BY <1>1, SeqMonotonic
<1> HIDE DEF T
<1>3. <<a, b>> \in Seq(T) /\ Len(<<a, b>>) = 2
  BY <1>2
<1>4. /\ u \in Seq(T) /\ Len(u) = Len(s) + 2
      /\ \A i \in 1 .. Len(u) : u[i] = IF i <= Len(s) THEN s[i] ELSE <<a, b>>[i - Len(s)]
  BY <1>2, <1>3, ConcatProperties
<1>5. Len(s) \in Nat
  BY <1>2, LenProperties
<1>6. \A i \in 1 .. Len(s) + 2 : i > Len(s) => u[i] = IF i = Len(s) + 1 THEN a ELSE b
  <2> TAKE i \in 1 .. Len(s) + 2
  <2> HAVE i > Len(s)
  <2>1. \/ i - Len(s) = 1 /\ i = Len(s) + 1
        \/ i - Len(s) = 2 /\ i # Len(s) + 1
    BY <1>5
  <2>2. u[i] = <<a, b>>[i - Len(s)]
    BY <1>4, <1>5
  <2> QED  BY <2>1, <2>2
<1> HIDE DEF u
<1>7. /\ SubSeq(u, 1, m) \in Seq(T) /\ Len(SubSeq(u, 1, m)) = m
      /\ \A i \in 1 .. m : SubSeq(u, 1, m)[i] = u[i]
  <2>1. m \in Nat /\ 1 .. m \subseteq 1 .. Len(u)
    BY <1>4, <1>5
  <2> QED  BY <1>4, <2>1, SubSeqProperties
<1>8. Population(SubSeq(u, 1, m), o)
  BY <1>2, <1>7 DEF Population
<1>9. \A i \in 1 .. m : i > Len(s) => SubSeq(u, 1, m)[i] = IF i = Len(s) + 1 THEN a ELSE b
  BY <1>5, <1>6, <1>7
<1> QED  BY <1>7, <1>8, <1>9 DEF u

\* As many individuals as are taken from somewhere.
LEMMA PopulationOf ==
  ASSUME NEW o, NEW n \in Nat, NEW s, s = [i \in 1 .. n |-> s[i]], \A i \in 1 .. n : Individual(s[i], o)
  PROVE  Population(s, o) /\ Len(s) = n
<1> DEFINE S == {s[i] : i \in 1 .. n}
<1>1. s \in [1 .. n -> S] /\ \A x \in S : Individual(x, o)
  OBVIOUS
<1> HIDE DEF S
<1>2. s \in Seq(S)
  BY <1>1, SeqDef
<1>3. DOMAIN s = 1 .. Len(s) /\ Len(s) \in Nat
  BY <1>2, LenProperties
<1>4. DOMAIN s = 1 .. n
  OBVIOUS
<1>5. Len(s) = n
  BY <1>3, <1>4
<1> QED  BY <1>1, <1>2, <1>5 DEF Population

\* A random individual.
LEMMA NewMember ==
  ASSUME NEW o, NEW trs, DOMAIN trs = TreeIndex, \A j \in TreeIndex : Proper(trs[j], j),
         o.ignore_limits \/ ~IndTooBig(NodeCounts(trs))
  PROVE  Individual([tr |-> trs, nodes |-> NodeCounts(trs), fit |-> 0, evald |-> FALSE], o)
<1>1. 0 \in Nat /\ FALSE \in BOOLEAN
  OBVIOUS
<1> QED  BY <1>1 DEF Individual, Cached

\* The depth of a tree, and of a place in it, is a number.
LEMMA DepthsAreNumbers ==
  ASSUME NEW t, NEW ty, Parsed(t, ty)
  PROVE  TreeDepth(t) \in Nat /\ \A s \in Subtrees(t) : DepthToSubtree(t, s) \in Nat
<1>1. PICK K : Shape(t, K, ty)
  BY DEF Parsed
<1>2. /\ TreeDepth(t) = Max(Depths(t, K, 1)) /\ Within(t, K, 1) = Subtrees(t)
      /\ Grown(t, K, 1) /\ 1 \in Subtrees(t)
      /\ \A s \in Subtrees(t) : DepthToSubtree(t, s) = Cardinality(Above(t, K, 1, s))
  BY <1>1, ShapeFacts
<1> QED  BY <1>2, DepthFacts

\* A tree that was found not to be bad is proper, and what was foreseen of the
\* individual is what its trees have.
LEMMA NotBad ==
  ASSUME NEW o, NEW ind, Individual(ind, o), NEW j \in TreeIndex,
         NEW s \in Subtrees(ind.tr[j]), NEW with, Parsed(with, Fn(ind.tr[j][s]).ret),
         ~BadTree(ind, j, s, with)
  PROVE  LET u == CopyTreeReplace(ind.tr[j], s, with)
         IN Proper(u, j) /\ ~IndTooBig([ind.nodes EXCEPT ![j] = TreeNodes(u)])
<1> DEFINE t == ind.tr[j]
           ty == TreeMap[j].ret
           u == CopyTreeReplace(t, s, with)
           ns == ind.nodes[j] - Measure(t)[s].nodes + TreeNodes(with)
           depth == DepthToSubtree(t, s) + TreeDepth(with)
           limit == TreeMap[j].depthlimit
<1>1. Parsed(t, ty) /\ ~TreeTooBig(j, TreeNodes(t), TreeDepth(t)) /\ ind.nodes[j] = TreeNodes(t)
  BY DEF Individual, Proper, NodeCounts
<1>2. ~TreeTooBig(j, ns, depth) /\ ~IndTooBig([ind.nodes EXCEPT ![j] = ns])
  BY DEF BadTree
<1>3. limit \in Int
  BY BreedingAssumption DEF TreeIndex
<1>7. /\ Parsed(u, ty)
      /\ TreeNodes(u) = TreeNodes(t) - Measure(t)[s].nodes + TreeNodes(with)
      /\ \A m \in Int : TreeDepth(t) <= m /\ depth <= m => TreeDepth(u) <= m
  BY <1>1, ReplacementForeseen
<1> HIDE DEF ty
<1>8. Parsed(u, ty)
  BY <1>7
<1>9. TreeNodes(u) = ns
  BY <1>1, <1>7
<1>10. TreeDepth(t) \in Int /\ depth \in Int /\ TreeDepth(u) \in Int
  <2>1. TreeDepth(t) \in Nat /\ DepthToSubtree(t, s) \in Nat
    BY <1>1, DepthsAreNumbers
  <2>2. TreeDepth(with) \in Nat /\ TreeDepth(u) \in Nat
    BY <1>8, DepthsAreNumbers
  <2> QED  BY <2>1, <2>2
<1> HIDE DEF u, ns, depth, t
<1>11. ~TreeTooBig(j, TreeNodes(u), TreeDepth(u))
  <2>1. ~Over(TreeNodes(u), TreeMap[j].nodelimit)
    BY <1>2, <1>9 DEF TreeTooBig
  <2>2. ~Over(TreeDepth(t), limit) /\ ~Over(depth, limit)
    BY <1>1, <1>2 DEF TreeTooBig
  <2>3. ~Over(TreeDepth(u), limit)
    BY <1>3, <1>7, <1>10, <2>2 DEF Over, Unset
  <2> QED  BY <2>1, <2>3 DEF TreeTooBig
<1>12. ~IndTooBig([ind.nodes EXCEPT ![j] = TreeNodes(u)])
  BY <1>2, <1>9
<1> QED  BY <1>8, <1>11, <1>12 DEF Proper, u, t, ty

\* A copy of a parent, with or without a new tree.
LEMMA OffspringFacts ==
  ASSUME NEW o, NEW ind, Individual(ind, o), NEW j \in TreeIndex,
         NEW s \in Subtrees(ind.tr[j]), NEW with, NEW bad \in BOOLEAN,
         ~bad => Parsed(with, Fn(ind.tr[j][s]).ret) /\ ~BadTree(ind, j, s, with)
  PROVE  /\ Individual(Offspring(ind, j, s, with, bad), o)
         /\ ~bad => Offspring(ind, j, s, with, bad).evald = FALSE
<1>1. CASE bad
  BY <1>1 DEF Offspring
<1>2. CASE ~bad
  <2> DEFINE x == Offspring(ind, j, s, with, bad)
             u == CopyTreeReplace(ind.tr[j], s, with)
  <2>0. Proper(u, j) /\ ~IndTooBig([ind.nodes EXCEPT ![j] = TreeNodes(u)])
    BY <1>2, NotBad
  <2> HIDE DEF u
  <2>1. /\ DOMAIN x = DOMAIN ind /\ x.fit = ind.fit /\ x.evald = FALSE
        /\ x.tr = [ind.tr EXCEPT ![j] = u] /\ x.nodes = [ind.nodes EXCEPT ![j] = TreeNodes(u)]
    BY <1>2 DEF Offspring, Individual, u
  <2> HIDE DEF x
  <2>2. DOMAIN ind.tr = TreeIndex /\ ind.nodes = NodeCounts(ind.tr)
        /\ \A k \in TreeIndex : Proper(ind.tr[k], k)
    BY DEF Individual
  <2>3. DOMAIN x.tr = TreeIndex /\ \A k \in TreeIndex : x.tr[k] = IF k = j THEN u ELSE ind.tr[k]
    BY <2>1, <2>2
  <2>4. x.nodes = NodeCounts(x.tr)
    <3>1. x.nodes = [k \in TreeIndex |-> IF k = j THEN TreeNodes(u) ELSE TreeNodes(ind.tr[k])]
      BY <2>1, <2>2 DEF NodeCounts
    <3>2. NodeCounts(x.tr) = [k \in TreeIndex |-> TreeNodes(x.tr[k])]
      BY <2>3 DEF NodeCounts
    <3>3. \A k \in TreeIndex :
            TreeNodes(x.tr[k]) = IF k = j THEN TreeNodes(u) ELSE TreeNodes(ind.tr[k])
      BY <2>3
    <3> QED  BY <3>1, <3>2, <3>3
  <2>5. \A k \in TreeIndex : Proper(x.tr[k], k)
    BY <2>0, <2>2, <2>3
  <2>6. Individual(x, o)
    BY <2>0, <2>1, <2>3, <2>4, <2>5 DEF Individual, Cached
  <2> QED  BY <2>1, <2>6 DEF x
<1> QED  BY <1>1, <1>2

-----------------------------------------------------------------------------
(* The breed phases *)

\* What the assumption says.
LEMMA Constants ==
  /\ PopSize \in Nat \ {0} /\ Attempts \in Nat \ {0}
  /\ \A o \in Options : o.elitism \in 0 .. PopSize
  /\ Phases \in Seq(Range(Phases)) /\ Len(Phases) \in Nat \ {0}
  /\ DOMAIN Phases = 1 .. Len(Phases)
  /\ \A i \in 1 .. Len(Phases) : Phases[i].rate \in Nat /\ Allowed(Phases[i].sel)
  /\ \A i \in 1 .. Len(Phases) : Phases[i].operator = "crossover" => Allowed(Phases[i].sel2)
<1>1. Phases \in Seq(Range(Phases)) /\ Phases # <<>>
  BY BreedingAssumption
<1>2. Len(Phases) \in Nat \ {0} /\ DOMAIN Phases = 1 .. Len(Phases)
  BY <1>1, LenProperties, EmptySeq
<1>3. \A m \in Methods : Allowed(m)
  BY BreedingAssumption DEF Allowed
<1>4. \A i \in 1 .. Len(Phases) : Phases[i].sel \in Methods
  BY <1>2 DEF Methods
<1>5. \A i \in 1 .. Len(Phases) : Phases[i].operator = "crossover" => Phases[i].sel2 \in Methods
  BY <1>2 DEF Methods
<1> QED  BY <1>1, <1>2, <1>3, <1>4, <1>5, BreedingAssumption

\* The operators work on trees of the individuals, and make new ones of some depth.
LEMMA PhaseTrees ==
  ASSUME NEW i \in 1 .. Len(Phases)
  PROVE  /\ Phases[i].operator \in {"crossover", "mutate"} =>
              \A j \in Phases[i].trees : j \in TreeIndex
         /\ Phases[i].operator = "mutate" =>
              \A depth \in Phases[i].mindepth .. Phases[i].maxdepth : depth \in Nat
<1>1. i \in DOMAIN Phases
  BY Constants
<1>2. Phases[i].operator \in {"crossover", "mutate"} => Phases[i].trees \subseteq TreeIndex
  BY <1>1, BreedingAssumption DEF TreeIndex
<1>3. Phases[i].operator = "mutate" => Phases[i].mindepth \in Nat /\ Phases[i].maxdepth \in Nat
  BY <1>1, BreedingAssumption
<1> QED  BY <1>2, <1>3

\* The search for a phase stops at one.
LEMMA PhaseChosen ==
  ASSUME Len(newpop) \in 0 .. PopSize, NEW i \in PhaseChoices
  PROVE  i \in 1 .. Len(Phases)
<1> DEFINE n == Len(Phases)
           rates == [k \in DOMAIN Phases |-> Phases[k].rate]
<1>1. n \in Nat \ {0} /\ DOMAIN Phases = 1 .. n /\ \A k \in 1 .. n : Phases[k].rate \in Nat
  BY Constants
<1>2. CASE opt.prob_oper
  BY <1>1, <1>2 DEF PhaseChoices
<1>3. CASE ~opt.prob_oper
  <2> DEFINE reached == {k \in DOMAIN Phases :
                           RateUpTo(k) * PopSize >= RateUpTo(Len(Phases)) * Len(newpop)}
  <2>1. i = Min(reached)
    BY <1>3 DEF PhaseChoices
  <2>2. rates \in Seq(Nat) /\ Len(rates) = n
    <3>1. rates \in [1 .. n -> Nat] /\ DOMAIN rates = 1 .. n
      BY <1>1
    <3> HIDE DEF rates, n
    <3>2. rates \in Seq(Nat)
      BY <1>1, <3>1, SeqDef
    <3>3. DOMAIN rates = 1 .. Len(rates) /\ Len(rates) \in Nat
      BY <3>2, LenProperties
    <3> QED  BY <1>1, <3>1, <3>2, <3>3
  <2>3. RateUpTo(n) \in Nat
    <3>1. \A k \in 0 .. Len(rates) : Intervals(rates)[k] \in Nat
      BY <2>2, IntervalsFacts
    <3>2. n \in 0 .. n
      BY <1>1
    <3>3. Intervals(rates)[n] \in Nat
      BY <2>2, <3>1, <3>2
    <3> QED  BY <3>3 DEF RateUpTo
  <2>4. RateUpTo(n) * PopSize >= RateUpTo(n) * Len(newpop)
    <3> DEFINE r == RateUpTo(n)
    <3>1. PopSize \in Nat /\ Len(newpop) \in Nat /\ Len(newpop) <= PopSize
      BY Constants
    <3> HIDE DEF r
    <3>2. r \in Nat
      BY <2>3 DEF r
    <3>3. \A x, y, z \in Nat : y <= z => x * z >= x * y
      OBVIOUS
    <3>4. r * PopSize >= r * Len(newpop)
      BY <3>1, <3>2, <3>3
    <3> QED  BY <3>4 DEF r
  <2>5. n \in reached /\ reached \in SUBSET Nat
    BY <1>1, <2>4
  <2> HIDE DEF reached
  <2>6. \E x \in reached : \A y \in reached : x <= y
    BY <2>5, LeastNumber
  <2>7. Min(reached) \in reached
    BY <2>6 DEF Min
  <2> QED  BY <1>1, <2>1, <2>7 DEF reached
<1> QED  BY <1>2, <1>3

-----------------------------------------------------------------------------
(* The inductive invariant *)

\* The individual at p of the population is one that the method may have taken.
Taken(method, p) ==
  /\ p \in 1 .. Len(pop)
  /\ method.name \in ByFitness /\ (\E i \in 1 .. Len(pop) : pop[i].fit > 0)
     => pop[p].fit > 0

\* An operator call belongs to a phase, its parents were taken from pop, and it
\* works on trees that they have.
Operation ==
  op # NoOp =>
    /\ pc = "breed" /\ Len(newpop) < PopSize /\ op.phase \in 1 .. Len(Phases)
    /\ LET ph == Phases[op.phase]
       IN /\ ph.operator \in {"crossover", "mutate"}
          /\ Taken(ph.sel, op.p1) /\ op.t1 \in TreeIndex
          /\ ph.operator = "crossover" =>
               /\ Taken(ph.sel2, op.p2) /\ op.t2 \in TreeIndex
               /\ DOMAIN op = {"phase", "t1", "t2", "p1", "p2", "count"}
          /\ ph.operator = "mutate" => DOMAIN op = {"phase", "t1", "p1", "count"}

\* The stages: breeding starts when everybody has been evaluated.
Sizes ==
  /\ opt \in Options
  /\ pc \in {"populate", "evaluate", "elite", "breed", "gaveup"}
  /\ Len(newpop) <= PopSize
  /\ IF pc \in {"populate", "gaveup"} THEN Len(pop) < PopSize ELSE Len(pop) = PopSize
  /\ pc \in {"elite", "breed"} => \A i \in 1 .. Len(pop) : pop[i].evald

\* What there is of the next member of the initial population.  Only the attempt
\* that a duplicate costs is taken without looking whether there is one left.
Half ==
  /\ temp \in Seq(Seq(Lnodes)) /\ Len(temp) <= Len(TreeMap)
  /\ \A j \in 1 .. Len(temp) : Proper(temp[j], j)
  /\ attempts \in -1 .. Attempts /\ (attempts = -1 => temp = <<>>)

IInv == Population(pop, opt) /\ Population(newpop, opt) /\ Sizes /\ Half /\ Operation

\* What a method takes.
LEMMA PicksTaken ==
  ASSUME Population(pop, opt), Len(pop) > 0, NEW m, Allowed(m), NEW p \in Picks(m, Fits)
  PROVE  Taken(m, p)
<1>1. /\ Len(pop) \in Nat /\ DOMAIN pop = 1 .. Len(pop)
      /\ \A i \in 1 .. Len(pop) : pop[i].fit \in Nat
  BY PopulationFacts DEF Individual
<1>2. /\ Fits \in [1 .. Len(pop) -> Nat]
      /\ \A i \in 1 .. Len(pop) : Fits[i] = pop[i].fit
  BY <1>1 DEF Fits
<1>3. Fits \in Seq(Nat) /\ Len(Fits) = Len(pop)
  <2>1. Fits \in Seq(Nat)
    BY <1>1, <1>2, SeqDef
  <2>2. DOMAIN Fits = 1 .. Len(Fits) /\ Len(Fits) \in Nat
    BY <2>1, LenProperties
  <2>3. DOMAIN Fits = 1 .. Len(pop)
    BY <1>2
  <2> DEFINE a == Len(Fits)
             b == Len(pop)
  <2>4. a \in Nat /\ b \in Nat /\ 1 .. a = 1 .. b
    BY <1>1, <2>2, <2>3
  <2> HIDE DEF a, b
  <2>5. a = b
    BY <2>4
  <2> QED  BY <2>1, <2>5 DEF a, b
<1>4. Len(Fits) > 0
  BY <1>3
<1>5. /\ p \in 1 .. Len(Fits)
      /\ m.name \in ByFitness /\ (\E i \in 1 .. Len(Fits) : Fits[i] > 0) => Fits[p] > 0
  BY <1>3, <1>4, PicksFacts
<1> QED  BY <1>2, <1>3, <1>5 DEF Taken

-----------------------------------------------------------------------------
(* Every step preserves it *)

\* What there is of the next member does not change with anything else.
LEMMA HalfKept == Half /\ UNCHANGED <<temp, attempts>> => Half'
BY DEF Half

\* Nothing of it.
LEMMA NoHalf ==
  /\ <<>> \in Seq(Seq(Lnodes)) /\ Len(<<>>) = 0
  /\ Len(TreeMap) \in Nat \ {0} /\ TreeIndex = 1 .. Len(TreeMap)
<1>1. <<>> \in Seq(Seq(Lnodes)) /\ Len(<<>>) = 0
  OBVIOUS
<1>2. TreeMap \in Seq(Range(TreeMap)) /\ TreeMap # <<>>
  BY BreedingAssumption
<1>3. Len(TreeMap) \in Nat \ {0} /\ DOMAIN TreeMap = 1 .. Len(TreeMap)
  BY <1>2, LenProperties, EmptySeq
<1> QED  BY <1>1, <1>3 DEF TreeIndex

\* Before the first tree is made.
LEMMA InitIInv == Init => IInv
<1> SUFFICES ASSUME Init PROVE IInv
  OBVIOUS
<1>1. pop = <<>> /\ newpop = <<>> /\ op = NoOp /\ opt \in Options /\ pc = "populate"
  BY DEF Init
<1>2. Population(<<>>, opt) /\ Len(<<>>) = 0
  BY NobodyIsAPopulation
<1>3. temp = <<>> /\ attempts = Attempts
  BY DEF Init
<1>4. Half
  BY <1>3, NoHalf, Constants DEF Half
<1>5. Sizes
  BY <1>1, <1>2, Constants DEF Sizes
<1> QED  BY <1>1, <1>2, <1>4, <1>5 DEF IInv, Operation

\* A generated tree is kept, if it is within the limits.
LEMMA GenerateTreeHalf == Half /\ GenerateTree => Half'
<1> SUFFICES ASSUME Half, GenerateTree PROVE Half'
  OBVIOUS
<1> DEFINE j == Len(temp) + 1
           m == TreeMap[j]
<1>1. /\ temp \in Seq(Seq(Lnodes)) /\ Len(temp) \in Nat /\ Len(temp) < Len(TreeMap)
      /\ attempts \in Int /\ attempts > 0 /\ attempts <= Attempts /\ attempts' = attempts - 1
      /\ \A k \in 1 .. Len(temp) : Proper(temp[k], k)
  <2>1. /\ temp \in Seq(Seq(Lnodes)) /\ Len(temp) < Len(TreeMap) /\ attempts \in -1 .. Attempts
        /\ attempts > 0 /\ attempts' = attempts - 1 /\ \A k \in 1 .. Len(temp) : Proper(temp[k], k)
    BY DEF Half, GenerateTree
  <2>2. Len(temp) \in Nat /\ Attempts \in Nat
    BY <2>1, LenProperties, Constants
  <2> QED  BY <2>1, <2>2
<1>2. j \in TreeIndex /\ Len(TreeMap) \in Nat
  BY <1>1, NoHalf
<1>3. /\ m.fset \in SUBSET Function /\ m.ret \in Types /\ m.mindepth \in Nat /\ m.maxdepth \in Nat
  BY <1>2, BreedingAssumption DEF TreeIndex
<1>4a. PICK depth \in m.mindepth .. m.maxdepth :
         \E t \in GeneratedTrees(m.fset, m.method, depth, m.ret) :
           temp' = IF TreeTooBig(j, TreeNodes(t), TreeDepth(t)) THEN temp ELSE Append(temp, t)
  BY DEF GenerateTree
<1>4. PICK t \in GeneratedTrees(m.fset, m.method, depth, m.ret) :
        temp' = IF TreeTooBig(j, TreeNodes(t), TreeDepth(t)) THEN temp ELSE Append(temp, t)
  BY <1>4a
<1>5. t \in Seq(Lnodes) /\ Parsed(t, m.ret)
  <2>1. depth \in Nat
    BY <1>3
  <2> QED  BY <1>3, <1>4, <2>1, GeneratedTreesParse
<1>6. attempts' \in -1 .. Attempts /\ attempts' # -1
  BY <1>1, Constants
<1>7. CASE TreeTooBig(j, TreeNodes(t), TreeDepth(t))
  BY <1>1, <1>4, <1>6, <1>7 DEF Half
<1>8. CASE ~TreeTooBig(j, TreeNodes(t), TreeDepth(t))
  <2>1. Proper(t, j)
    BY <1>5, <1>8 DEF Proper
  <2>2. temp' = Append(temp, t)
    BY <1>4, <1>8
  <2> HIDE DEF m
  <2>3. /\ temp' \in Seq(Seq(Lnodes)) /\ Len(temp') = Len(temp) + 1 /\ temp'[j] = t
        /\ \A k \in 1 .. Len(temp) : temp'[k] = temp[k]
    BY <1>1, <1>5, <2>2, AppendProperties
  <2>4. \A k \in 1 .. Len(temp') : Proper(temp'[k], k)
    <3> TAKE k \in 1 .. Len(temp')
    <3>1. k = j \/ k \in 1 .. Len(temp)
      BY <1>1, <2>3
    <3> QED  BY <1>1, <2>1, <2>3, <3>1
  <2>5. Len(temp') <= Len(TreeMap)
    BY <1>1, <1>2, <2>3
  <2> QED  BY <1>6, <2>3, <2>4, <2>5 DEF Half
<1> QED  BY <1>7, <1>8

\* Where the trees are put together to an individual: nobody has been evaluated.
LEMMA AdmitIInv == IInv /\ Admit => IInv'
<1> SUFFICES ASSUME IInv, Admit PROVE IInv'
  OBVIOUS
<1>1. /\ pc = "populate" /\ op = NoOp /\ UNCHANGED <<opt, newpop, op>> /\ temp' = <<>>
      /\ Len(temp) = Len(TreeMap) /\ temp # <<>>
      /\ attempts \in -1 .. Attempts /\ attempts # -1
  <2>1. pc = "populate" /\ UNCHANGED <<opt, newpop, op>> /\ temp' = <<>> /\ Len(temp) = Len(TreeMap)
    BY DEF Admit
  <2>2. temp # <<>>
    BY <2>1, NoHalf
  <2> QED  BY <2>1, <2>2 DEF IInv, Operation, Half
<1>2. Half'
  <2>1. attempts' \in {attempts, attempts - 1, Attempts}
    BY DEF Admit
  <2>2. attempts' \in -1 .. Attempts
    BY <1>1, <2>1, Constants
  <2> QED  BY <1>1, <2>2, NoHalf DEF Half
<1>3. CASE UNCHANGED <<pc, pop>>
  <2>1. Sizes'
    BY <1>1, <1>3 DEF IInv, Sizes
  <2> QED  BY <1>1, <1>2, <1>3, <2>1 DEF IInv, Operation
<1>4. CASE ~UNCHANGED <<pc, pop>>
  <2> DEFINE new == [tr |-> temp, nodes |-> NodeCounts(temp), fit |-> 0, evald |-> FALSE]
  <2>1. /\ opt.ignore_limits \/ ~IndTooBig(NodeCounts(temp))
        /\ pop' = Append(pop, new) /\ pc' = IF Len(pop') = PopSize THEN "evaluate" ELSE pc
    BY <1>4 DEF Admit
  <2>2. DOMAIN temp = TreeIndex /\ \A j \in TreeIndex : Proper(temp[j], j)
    <3>1. temp \in Seq(Seq(Lnodes)) /\ \A j \in 1 .. Len(temp) : Proper(temp[j], j)
      BY DEF IInv, Half
    <3>2. DOMAIN temp = 1 .. Len(temp)
      BY <3>1, LenProperties
    <3> QED  BY <1>1, <3>1, <3>2, NoHalf
  <2>3. Individual(new, opt)
    BY <2>1, <2>2, NewMember
  <2> HIDE DEF new
  <2>4. Population(pop', opt) /\ Len(pop') = Len(pop) + 1
    BY <2>1, <2>3, PopulationAppend DEF IInv
  <2>5. Len(pop) \in Nat /\ Len(pop) < PopSize /\ PopSize \in Nat
    BY <1>1, PopulationFacts, Constants DEF IInv, Sizes
  <2>6. Sizes'
    <3>1. pc' = IF Len(pop') = PopSize THEN "evaluate" ELSE "populate"
      BY <1>1, <2>1
    <3>2. pc' = "populate" => Len(pop') < PopSize
      BY <2>4, <2>5, <3>1
    <3> QED  BY <1>1, <3>1, <3>2 DEF IInv, Sizes
  <2> QED  BY <1>1, <1>2, <2>4, <2>6 DEF IInv, Operation
<1> QED  BY <1>3, <1>4

\* The initial population.
LEMMA PopulateIInv == IInv /\ Populate => IInv'
<1> SUFFICES ASSUME IInv, Populate PROVE IInv'
  OBVIOUS
<1>1. CASE GenerateTree
  <2>1. Half'
    BY <1>1, GenerateTreeHalf DEF IInv
  <2> QED  BY <1>1, <2>1 DEF IInv, Sizes, Operation, GenerateTree, Taken
<1>2. CASE GiveUp
  <2>1. /\ pc = "populate" /\ pc' = "gaveup" /\ op = NoOp
        /\ UNCHANGED <<opt, pop, temp, attempts, newpop, op>>
    BY <1>2 DEF GiveUp, IInv, Operation
  <2>2. Half'
    BY <2>1, HalfKept DEF IInv
  <2> QED  BY <2>1, <2>2 DEF IInv, Sizes, Operation
<1> QED  BY <1>1, <1>2, AdmitIInv DEF Populate

\* Evaluation gives every individual the fitness of its trees.
LEMMA EvaluateIInv ==
  ASSUME \A values : AFitness(values) \in Nat, IInv, Evaluate
  PROVE  IInv'
<1>1. /\ pc = "evaluate" /\ pc' = "elite" /\ UNCHANGED <<opt, newpop, op>>
      /\ op = NoOp /\ Len(pop) = PopSize
  BY DEF Evaluate, IInv, Sizes, Operation
<1>2. /\ Len(pop) \in Nat /\ DOMAIN pop = 1 .. Len(pop)
      /\ \A i \in 1 .. Len(pop) : Individual(pop[i], opt)
  BY PopulationFacts DEF IInv
<1> DEFINE e(ind) ==
             IF ind.evald THEN ind
             ELSE [ind EXCEPT !.fit = AFitness([j \in TreeIndex |-> EvaluateTree(ind.tr[j])]),
                              !.evald = TRUE]
<1>3. \A ind : Individual(ind, opt) => Individual(e(ind), opt) /\ e(ind).evald
  <2> SUFFICES ASSUME NEW ind, Individual(ind, opt), ~ind.evald
               PROVE  Individual(e(ind), opt) /\ e(ind).evald
    OBVIOUS
  <2>1. /\ DOMAIN e(ind) = DOMAIN ind /\ e(ind).tr = ind.tr /\ e(ind).nodes = ind.nodes
        /\ e(ind).fit = AFitness([j \in TreeIndex |-> EvaluateTree(ind.tr[j])])
        /\ e(ind).evald = TRUE
    BY DEF Individual
  <2> HIDE DEF e
  <2>2. e(ind).fit \in Nat
    BY <2>1
  <2>3. Cached(e(ind))
    BY <2>1 DEF Cached
  <2>4. /\ DOMAIN ind = {"tr", "nodes", "fit", "evald"}
        /\ DOMAIN ind.tr = TreeIndex /\ ind.nodes = NodeCounts(ind.tr)
        /\ \A j \in TreeIndex : Proper(ind.tr[j], j)
        /\ opt.ignore_limits \/ ~IndTooBig(NodeCounts(ind.tr))
    BY DEF Individual
  <2>5. Individual(e(ind), opt)
    BY <2>1, <2>2, <2>3, <2>4 DEF Individual
  <2> QED  BY <2>1, <2>5
<1>4. pop' = [i \in 1 .. Len(pop) |-> e(pop[i])]
  BY <1>2 DEF Evaluate
<1> HIDE DEF e
<1>5. \A i \in 1 .. Len(pop) : pop'[i] = e(pop[i])
  BY <1>4
<1>6. pop' = [i \in 1 .. Len(pop) |-> pop'[i]]
  BY <1>4
<1>7. \A i \in 1 .. Len(pop) : Individual(pop'[i], opt) /\ pop'[i].evald
  BY <1>2, <1>3, <1>5
<1>8. Population(pop', opt) /\ Len(pop') = Len(pop)
  BY <1>2, <1>6, <1>7, PopulationOf
<1>9. Half'
  BY HalfKept DEF Evaluate, IInv
<1>10. Sizes'
  BY <1>1, <1>7, <1>8 DEF IInv, Sizes
<1> QED  BY <1>1, <1>8, <1>9, <1>10 DEF IInv, Operation

\* The elite are members of the old population.
LEMMA TakeEliteIInv == IInv /\ TakeElite => IInv'
<1> SUFFICES ASSUME IInv, TakeElite PROVE IInv'
  OBVIOUS
<1>1. /\ pc = "elite" /\ pc' = "breed" /\ UNCHANGED <<opt, pop, op>>
      /\ op = NoOp /\ Len(pop) = PopSize /\ opt \in Options
  BY DEF TakeElite, IInv, Sizes, Operation
<1>2. /\ Len(pop) \in Nat /\ DOMAIN pop = 1 .. Len(pop)
      /\ \A i \in 1 .. Len(pop) : Individual(pop[i], opt)
  BY PopulationFacts DEF IInv
<1>3. PICK list \in BestOrders(Fits) : newpop' = [i \in 1 .. opt.elitism |-> pop[list[i]]]
  BY DEF TakeElite
<1>4. list \in [1 .. Len(pop) -> 1 .. Len(pop)]
  <2>1. DOMAIN Fits = 1 .. Len(pop)
    BY <1>2 DEF Fits
  <2> QED  BY <1>3, <2>1 DEF BestOrders
<1>5. opt.elitism \in Nat /\ opt.elitism <= Len(pop)
  BY <1>1, Constants
<1>6. \A i \in 1 .. opt.elitism : newpop'[i] = pop[list[i]] /\ list[i] \in 1 .. Len(pop)
  <2> DEFINE n == opt.elitism
             l == Len(pop)
  <2>1. n \in Nat /\ l \in Nat /\ n <= l /\ list \in [1 .. l -> 1 .. l]
    BY <1>2, <1>4, <1>5
  <2>2. newpop' = [i \in 1 .. n |-> pop[list[i]]]
    BY <1>3
  <2> HIDE DEF n, l
  <2>3. \A i \in 1 .. n : newpop'[i] = pop[list[i]] /\ list[i] \in 1 .. l
    BY <2>1, <2>2
  <2> QED  BY <2>3 DEF n, l
<1>7. Population(newpop', opt) /\ Len(newpop') = opt.elitism
  <2>1. newpop' = [i \in 1 .. opt.elitism |-> newpop'[i]]
    BY <1>3
  <2>2. \A i \in 1 .. opt.elitism : Individual(newpop'[i], opt)
    BY <1>2, <1>6
  <2> QED  BY <1>5, <2>1, <2>2, PopulationOf
<1>8. Half'
  BY HalfKept DEF TakeElite, IInv
<1>9. Sizes'
  BY <1>1, <1>5, <1>7 DEF IInv, Sizes
<1> QED  BY <1>1, <1>7, <1>8, <1>9 DEF IInv, Operation

\* A copy of somebody.
LEMMA ReproduceIInv == IInv /\ Reproduce => IInv'
<1> SUFFICES ASSUME IInv, Reproduce PROVE IInv'
  OBVIOUS
<1>1. /\ pc = "breed" /\ op = NoOp /\ UNCHANGED <<opt, pop, op, pc>>
      /\ Len(pop) = PopSize /\ Len(newpop) < PopSize
  BY DEF Reproduce, IInv, Sizes
<1>2. PICK i \in PhaseChoices :
        \E p \in Picks(Phases[i].sel, Fits) : newpop' = Append(newpop, pop[p])
  BY DEF Reproduce
<1>3. PICK p \in Picks(Phases[i].sel, Fits) : newpop' = Append(newpop, pop[p])
  BY <1>2
<1>4. PopSize \in Nat \ {0} /\ Len(newpop) \in Nat
  BY Constants, PopulationFacts DEF IInv
<1>5. Allowed(Phases[i].sel)
  BY <1>1, <1>2, <1>4, PhaseChosen, Constants
<1>6. Taken(Phases[i].sel, p)
  BY <1>1, <1>3, <1>4, <1>5, PicksTaken DEF IInv
<1>7. Individual(pop[p], opt)
  BY <1>6, PopulationFacts DEF Taken, IInv
<1>8. Population(newpop', opt) /\ Len(newpop') = Len(newpop) + 1
  BY <1>3, <1>7, PopulationAppend DEF IInv
<1>9. Half'
  BY HalfKept DEF Reproduce, IInv
<1>10. Sizes'
  BY <1>1, <1>4, <1>8 DEF IInv, Sizes
<1> QED  BY <1>1, <1>8, <1>9, <1>10 DEF IInv, Operation

\* operator_crossover and operator_mutate take their parents.
LEMMA StartIInv == IInv /\ (StartCrossover \/ StartMutation) => IInv'
<1> SUFFICES ASSUME IInv, StartCrossover \/ StartMutation PROVE IInv'
  OBVIOUS
<1>1. /\ pc = "breed" /\ op = NoOp /\ UNCHANGED <<opt, pop, newpop, pc>>
      /\ Len(pop) = PopSize /\ Len(newpop) < PopSize
  BY DEF StartCrossover, StartMutation, IInv, Sizes
<1>2. Len(newpop) \in 0 .. PopSize /\ Len(pop) > 0
  BY <1>1, Constants, PopulationFacts DEF IInv
<1>3. \A m, p : Taken(m, p) => Taken(m, p)'
  BY <1>1 DEF Taken
<1>4. Operation'
  <2>1. CASE StartCrossover
    <3>1. PICK i \in PhaseChoices :
            /\ Phases[i].operator = "crossover"
            /\ \E t1, t2 \in Phases[i].trees :
               \E p1 \in Picks(Phases[i].sel, Fits), p2 \in Picks(Phases[i].sel2, Fits) :
                 op' = [phase |-> i, t1 |-> t1, t2 |-> t2, p1 |-> p1, p2 |-> p2, count |-> 0]
      BY <2>1 DEF StartCrossover
    <3>2. PICK t1 \in Phases[i].trees, t2 \in Phases[i].trees,
               p1 \in Picks(Phases[i].sel, Fits), p2 \in Picks(Phases[i].sel2, Fits) :
            op' = [phase |-> i, t1 |-> t1, t2 |-> t2, p1 |-> p1, p2 |-> p2, count |-> 0]
      BY <3>1
    <3>3. i \in 1 .. Len(Phases)
      BY <1>2, PhaseChosen
    <3>4. Allowed(Phases[i].sel) /\ Allowed(Phases[i].sel2)
      BY <3>1, <3>3, Constants
    <3>5. Taken(Phases[i].sel, p1) /\ Taken(Phases[i].sel2, p2)
      BY <1>2, <3>4, PicksTaken DEF IInv
    <3>6. Taken(Phases[i].sel, p1)' /\ Taken(Phases[i].sel2, p2)'
      BY <1>3, <3>5
    <3>7. /\ op'.phase = i /\ op'.p1 = p1 /\ op'.p2 = p2 /\ op'.t1 = t1 /\ op'.t2 = t2
          /\ DOMAIN op' = {"phase", "t1", "t2", "p1", "p2", "count"}
      BY <3>2
    <3>8. t1 \in TreeIndex /\ t2 \in TreeIndex
      BY <3>1, <3>2, <3>3, PhaseTrees
    <3> QED  BY <1>1, <3>1, <3>3, <3>6, <3>7, <3>8 DEF Operation
  <2>2. CASE StartMutation
    <3>1. PICK i \in PhaseChoices :
            /\ Phases[i].operator = "mutate"
            /\ \E t \in Phases[i].trees : \E p \in Picks(Phases[i].sel, Fits) :
                 op' = [phase |-> i, t1 |-> t, p1 |-> p, count |-> 0]
      BY <2>2 DEF StartMutation
    <3>2. PICK t \in Phases[i].trees, p \in Picks(Phases[i].sel, Fits) :
            op' = [phase |-> i, t1 |-> t, p1 |-> p, count |-> 0]
      BY <3>1
    <3>3. i \in 1 .. Len(Phases)
      BY <1>2, PhaseChosen
    <3>4. Allowed(Phases[i].sel)
      BY <3>3, Constants
    <3>5. Taken(Phases[i].sel, p)
      BY <1>2, <3>4, PicksTaken DEF IInv
    <3>6. Taken(Phases[i].sel, p)'
      BY <1>3, <3>5
    <3>7. op'.phase = i /\ op'.p1 = p /\ op'.t1 = t /\ DOMAIN op' = {"phase", "t1", "p1", "count"}
      BY <3>2
    <3>8. t \in TreeIndex
      BY <3>1, <3>2, <3>3, PhaseTrees
    <3> QED  BY <1>1, <3>1, <3>3, <3>6, <3>7, <3>8 DEF Operation
  <2> QED  BY <2>1, <2>2
<1>5. Half'
  BY HalfKept DEF StartCrossover, StartMutation, IInv
<1>6. Sizes'
  BY <1>1 DEF IInv, Sizes
<1> QED  BY <1>1, <1>4, <1>5, <1>6 DEF IInv

\* What a round of crossover that ends the loop inserts, and what is known of the
\* subtrees that it exchanges.
Crossed(a, b, s1, s2, bad1, bad2) ==
  /\ s1 \in Subtrees(a.tr[op.t1]) /\ s2 \in Subtrees(b.tr[op.t2])
  /\ bad1 \in BOOLEAN /\ bad2 \in BOOLEAN
  /\ ~bad1 => /\ Fn(a.tr[op.t1][s1]).ret = Fn(b.tr[op.t2][s2]).ret
              /\ ~BadTree(a, op.t1, s1, SubtreeAt(b.tr[op.t2], s2))
  /\ ~bad2 => /\ Fn(a.tr[op.t1][s1]).ret = Fn(b.tr[op.t2][s2]).ret
              /\ ~BadTree(b, op.t2, s2, SubtreeAt(a.tr[op.t1], s1))
  /\ op' = NoOp
  /\ newpop' = SubSeq(newpop \o Both(a, b, s1, s2, bad1, bad2),
                      1, Min({PopSize, Len(newpop) + 2}))
  /\ KeepsTrying(Phases[op.phase]) => ~bad1 /\ ~bad2

\* An operator that keeps trying without end does not stop at a bad tree.
LEMMA NeverStopsAtBad ==
  ASSUME NEW ph, KeepsTrying(ph), NEW bad, bad, NEW again \in AgainChoices(ph, bad)
  PROVE  again
<1>1. ph.keep_trying /\ bad /\ ph.num_times = 0
  BY DEF KeepsTrying
<1>2. ph.num_times # Unset
  BY <1>1 DEF Unset
<1>3. AgainChoices(ph, bad) = {ph.num_times = 0 \/ ph.num_times > op.count + 1}
  BY <1>1, <1>2 DEF AgainChoices
<1>4. again = (ph.num_times = 0 \/ ph.num_times > op.count + 1)
  BY <1>3
<1> QED  BY <1>1, <1>4

\* One round of crossover: another one follows, or the offspring are inserted.
LEMMA CrossoverRound ==
  ASSUME Crossover
  PROVE  \/ Again(Phases[op.phase])
         \/ \E s1, s2, bad1, bad2 : Crossed(pop[op.p1], pop[op.p2], s1, s2, bad1, bad2)
<1> DEFINE ph == Phases[op.phase]
           a == pop[op.p1]
           b == pop[op.p2]
           mismatch(s1, s2) == Fn(a.tr[op.t1][s1]).ret # Fn(b.tr[op.t2][s2]).ret
           bad1(s1, s2) ==
             mismatch(s1, s2) \/ BadTree(a, op.t1, s1, SubtreeAt(b.tr[op.t2], s2))
           bad2(s1, s2) ==
             mismatch(s1, s2) \/ BadTree(b, op.t2, s2, SubtreeAt(a.tr[op.t1], s1))
<1>0. \A i, t : Points(i, t) \subseteq Subtrees(t)
  BY DEF Points, InternalSubtrees, ExternalSubtrees
<1>1. PICK s1 \in Subtrees(a.tr[op.t1]), s2 \in Subtrees(b.tr[op.t2]) :
        \E again \in AgainChoices(ph, bad1(s1, s2) \/ bad2(s1, s2)) :
        \/ again /\ Again(ph)
        \/ /\ ~again
           /\ newpop' = SubSeq(newpop \o Both(a, b, s1, s2, bad1(s1, s2), bad2(s1, s2)),
                               1, Min({PopSize, Len(newpop) + 2}))
           /\ op' = NoOp
  BY <1>0 DEF Crossover
<1>2. PICK again \in AgainChoices(ph, bad1(s1, s2) \/ bad2(s1, s2)) :
        \/ again /\ Again(ph)
        \/ /\ ~again
           /\ newpop' = SubSeq(newpop \o Both(a, b, s1, s2, bad1(s1, s2), bad2(s1, s2)),
                               1, Min({PopSize, Len(newpop) + 2}))
           /\ op' = NoOp
  BY <1>1
<1> HIDE DEF bad1, bad2, ph, a, b
<1>3. ~again /\ KeepsTrying(ph) => ~bad1(s1, s2) /\ ~bad2(s1, s2)
  <2> SUFFICES ASSUME KeepsTrying(ph), bad1(s1, s2) \/ bad2(s1, s2) PROVE again
    OBVIOUS
  <2> DEFINE bad == bad1(s1, s2) \/ bad2(s1, s2)
  <2>1. again \in AgainChoices(ph, bad) /\ bad
    BY <1>2
  <2> HIDE DEF bad
  <2> QED  BY <2>1, NeverStopsAtBad
<1>4. CASE again /\ Again(ph)
  BY <1>4 DEF ph
<1>5. CASE ~again /\ op' = NoOp
           /\ newpop' = SubSeq(newpop \o Both(a, b, s1, s2, bad1(s1, s2), bad2(s1, s2)),
                               1, Min({PopSize, Len(newpop) + 2}))
  <2>1. /\ bad1(s1, s2) \in BOOLEAN /\ bad2(s1, s2) \in BOOLEAN
        /\ ~bad1(s1, s2) => /\ Fn(a.tr[op.t1][s1]).ret = Fn(b.tr[op.t2][s2]).ret
                            /\ ~BadTree(a, op.t1, s1, SubtreeAt(b.tr[op.t2], s2))
        /\ ~bad2(s1, s2) => /\ Fn(a.tr[op.t1][s1]).ret = Fn(b.tr[op.t2][s2]).ret
                            /\ ~BadTree(b, op.t2, s2, SubtreeAt(a.tr[op.t1], s1))
    BY DEF bad1, bad2
  <2>2. Crossed(a, b, s1, s2, bad1(s1, s2), bad2(s1, s2))
    BY <1>1, <1>3, <1>5, <2>1 DEF Crossed, ph
  <2> QED  BY <2>2 DEF a, b
<1> QED  BY <1>2, <1>4, <1>5

\* What is behind the old members of newpop is x, and then y.
PutBehind(x, y) ==
  \A i \in 1 .. Len(newpop') : i > Len(newpop) =>
    newpop'[i] = IF i = Len(newpop) + 1 THEN x ELSE y

\* The offspring of crossover are individuals, and new if the loop keeps trying.
LEMMA CrossedFacts ==
  ASSUME IInv, Crossover, NEW s1, NEW s2, NEW bad1, NEW bad2,
         Crossed(pop[op.p1], pop[op.p2], s1, s2, bad1, bad2)
  PROVE  /\ Population(newpop', opt) /\ Len(newpop') <= PopSize
         /\ Len(newpop') \in Nat /\ Len(newpop') >= Len(newpop)
         /\ PutBehind(Offspring(pop[op.p1], op.t1, s1, SubtreeAt(pop[op.p2].tr[op.t2], s2), bad1),
                      Offspring(pop[op.p2], op.t2, s2, SubtreeAt(pop[op.p1].tr[op.t1], s1), bad2))
         /\ KeepsTrying(Phases[op.phase]) =>
              \A i \in 1 .. Len(newpop') : i > Len(newpop) => newpop'[i].evald = FALSE
<1> DEFINE o1 == Offspring(pop[op.p1], op.t1, s1, SubtreeAt(pop[op.p2].tr[op.t2], s2), bad1)
           o2 == Offspring(pop[op.p2], op.t2, s2, SubtreeAt(pop[op.p1].tr[op.t1], s1), bad2)
           m == Min({PopSize, Len(newpop) + 2})
<1>1. /\ Individual(pop[op.p1], opt) /\ Individual(pop[op.p2], opt)
      /\ op.t1 \in TreeIndex /\ op.t2 \in TreeIndex
  <2>1. /\ op.p1 \in 1 .. Len(pop) /\ op.p2 \in 1 .. Len(pop)
        /\ op.t1 \in TreeIndex /\ op.t2 \in TreeIndex
    BY DEF Crossover, IInv, Operation, Taken
  <2> QED  BY <2>1, PopulationFacts DEF IInv
<1>2. Individual(o1, opt) /\ Individual(o2, opt) /\ (~bad1 => o1.evald = FALSE)
      /\ (~bad2 => o2.evald = FALSE)
  <2> DEFINE a == pop[op.p1]
             b == pop[op.p2]
             w1 == SubtreeAt(b.tr[op.t2], s2)
             w2 == SubtreeAt(a.tr[op.t1], s1)
  <2>1. /\ s1 \in Subtrees(a.tr[op.t1]) /\ s2 \in Subtrees(b.tr[op.t2])
        /\ bad1 \in BOOLEAN /\ bad2 \in BOOLEAN
        /\ ~bad1 => /\ Fn(a.tr[op.t1][s1]).ret = Fn(b.tr[op.t2][s2]).ret
                    /\ ~BadTree(a, op.t1, s1, w1)
        /\ ~bad2 => /\ Fn(a.tr[op.t1][s1]).ret = Fn(b.tr[op.t2][s2]).ret
                    /\ ~BadTree(b, op.t2, s2, w2)
    BY DEF Crossed
  <2>2. Parsed(a.tr[op.t1], TreeMap[op.t1].ret) /\ Parsed(b.tr[op.t2], TreeMap[op.t2].ret)
    BY <1>1 DEF Individual, Proper
  <2>3. Parsed(w2, Fn(a.tr[op.t1][s1]).ret) /\ Parsed(w1, Fn(b.tr[op.t2][s2]).ret)
    BY <2>1, <2>2, SubtreeParsed DEF Parsed
  <2> HIDE DEF w1, w2
  <2>4. ~bad1 => Parsed(w1, Fn(a.tr[op.t1][s1]).ret) /\ ~BadTree(a, op.t1, s1, w1)
    BY <2>1, <2>3
  <2>5. ~bad2 => Parsed(w2, Fn(b.tr[op.t2][s2]).ret) /\ ~BadTree(b, op.t2, s2, w2)
    BY <2>1, <2>3
  <2>8. /\ s1 \in Subtrees(a.tr[op.t1]) /\ s2 \in Subtrees(b.tr[op.t2])
        /\ Individual(a, opt) /\ Individual(b, opt)
        /\ op.t1 \in TreeIndex /\ op.t2 \in TreeIndex /\ bad1 \in BOOLEAN /\ bad2 \in BOOLEAN
    BY <1>1, <2>1
  <2> HIDE DEF a, b
  <2>6. Individual(Offspring(a, op.t1, s1, w1, bad1), opt)
        /\ (~bad1 => Offspring(a, op.t1, s1, w1, bad1).evald = FALSE)
    BY <2>4, <2>8, OffspringFacts
  <2>7. Individual(Offspring(b, op.t2, s2, w2, bad2), opt)
        /\ (~bad2 => Offspring(b, op.t2, s2, w2, bad2).evald = FALSE)
    BY <2>5, <2>8, OffspringFacts
  <2> QED  BY <2>6, <2>7 DEF a, b, w1, w2
<1>3. KeepsTrying(Phases[op.phase]) => o1.evald = FALSE /\ o2.evald = FALSE
  BY <1>2 DEF Crossed
<1>4. Len(newpop) \in Nat /\ PopSize \in Nat
  BY Constants, PopulationFacts DEF IInv
<1>5. m \in 0 .. Len(newpop) + 2 /\ m <= PopSize /\ (m = PopSize \/ m = Len(newpop) + 2)
  <2> DEFINE x == Len(newpop) + 2
             S == {PopSize, x}
  <2>1. x \in Nat /\ PopSize \in Nat
    BY <1>4
  <2> HIDE DEF x
  <2>2. \E y \in S : \A z \in S : y <= z
    BY <2>1
  <2>3. Min(S) \in S /\ \A z \in S : Min(S) <= z
    BY <2>2 DEF Min
  <2> QED  BY <2>1, <2>3 DEF x
<1>6. newpop' = SubSeq(newpop \o <<o1, o2>>, 1, m)
  BY DEF Crossed, Both
<1> HIDE DEF o1, o2, m
<1>7. /\ Population(newpop', opt) /\ Len(newpop') = m
      /\ \A i \in 1 .. m : i > Len(newpop) =>
           newpop'[i] = IF i = Len(newpop) + 1 THEN o1 ELSE o2
  BY <1>2, <1>5, <1>6, PopulationTwo DEF IInv
<1>8. m >= Len(newpop)
  <2>1. Len(newpop) < PopSize
    BY DEF Crossover, IInv, Operation
  <2> QED  BY <1>4, <1>5, <2>1
<1>9. PutBehind(o1, o2)
  BY <1>7 DEF PutBehind
<1> QED  BY <1>3, <1>4, <1>5, <1>7, <1>8, <1>9 DEF o1, o2

\* A round of a loop that goes on.
LEMMA AgainIInv ==
  ASSUME IInv, op # NoOp, Again(Phases[op.phase]), UNCHANGED <<pc, opt, pop, temp, attempts>>
  PROVE  IInv' /\ op' # NoOp
<1>1. /\ op' = [op EXCEPT !.count = IF Phases[op.phase].num_times > 0 THEN @ + 1 ELSE 0]
      /\ newpop' = newpop
  BY DEF Again
<1>2. /\ op.phase \in 1 .. Len(Phases) /\ pc = "breed" /\ Len(newpop) < PopSize
      /\ Phases[op.phase].operator \in {"crossover", "mutate"}
      /\ Taken(Phases[op.phase].sel, op.p1) /\ op.t1 \in TreeIndex
      /\ Phases[op.phase].operator = "crossover" =>
           /\ Taken(Phases[op.phase].sel2, op.p2) /\ op.t2 \in TreeIndex
           /\ DOMAIN op = {"phase", "t1", "t2", "p1", "p2", "count"}
      /\ Phases[op.phase].operator = "mutate" => DOMAIN op = {"phase", "t1", "p1", "count"}
  BY DEF IInv, Operation
<1>3. /\ DOMAIN op' = DOMAIN op /\ op'.phase = op.phase /\ op'.p1 = op.p1 /\ op'.t1 = op.t1
      /\ Phases[op.phase].operator = "crossover" => op'.p2 = op.p2 /\ op'.t2 = op.t2
  BY <1>1, <1>2
<1>4. \A m, p : Taken(m, p) => Taken(m, p)'
  BY DEF Taken
<1>5. op' # NoOp
  <2>1. "p1" \in DOMAIN op' /\ "p1" \notin DOMAIN NoOp
    BY <1>2, <1>3 DEF NoOp
  <2> QED  BY <2>1
<1>6. Operation'
  BY <1>1, <1>2, <1>3, <1>4 DEF Operation
<1>7. Population(pop', opt) /\ Population(newpop', opt) /\ Sizes' /\ Half' /\ opt' = opt
  BY <1>1, HalfKept DEF IInv, Sizes
<1> QED  BY <1>5, <1>6, <1>7 DEF IInv

\* A round of crossover.
LEMMA CrossoverIInv == IInv /\ Crossover => IInv'
<1> SUFFICES ASSUME IInv, Crossover PROVE IInv'
  OBVIOUS
<1>1. op # NoOp /\ UNCHANGED <<pc, opt, pop, temp, attempts>>
  BY DEF Crossover
<1>2. CASE Again(Phases[op.phase])
  BY <1>1, <1>2, AgainIInv
<1>3. ASSUME NEW s1, NEW s2, NEW bad1, NEW bad2,
             Crossed(pop[op.p1], pop[op.p2], s1, s2, bad1, bad2)
      PROVE  IInv'
  <2>1. Population(newpop', opt) /\ Len(newpop') <= PopSize
    BY <1>3, CrossedFacts
  <2>2. op' = NoOp
    BY <1>3 DEF Crossed
  <2>3. Half' /\ Sizes'
    BY <1>1, <2>1, HalfKept DEF IInv, Sizes
  <2> QED  BY <1>1, <2>1, <2>2, <2>3 DEF IInv, Operation
<1> QED  BY <1>2, <1>3, CrossoverRound

\* What a round of mutation that ends the loop inserts.
Mutated(a, s, new, bad) ==
  /\ s \in Subtrees(a.tr[op.t1])
  /\ LET ph == Phases[op.phase]
     IN \E depth \in ph.mindepth .. ph.maxdepth :
          new \in GeneratedTrees(TreeMap[op.t1].fset, ph.method, depth, Fn(a.tr[op.t1][s]).ret)
  /\ bad \in BOOLEAN /\ (~bad => ~BadTree(a, op.t1, s, new))
  /\ op' = NoOp
  /\ newpop' = Append(newpop, Offspring(a, op.t1, s, new, bad))
  /\ KeepsTrying(Phases[op.phase]) => ~bad

\* One round of mutation.
LEMMA MutationRound ==
  ASSUME Mutate
  PROVE  \/ Again(Phases[op.phase])
         \/ \E s, new, bad : Mutated(pop[op.p1], s, new, bad)
<1> DEFINE ph == Phases[op.phase]
           a == pop[op.p1]
           bad(s, new) == BadTree(a, op.t1, s, new)
           made(s, new) ==
             \E depth \in ph.mindepth .. ph.maxdepth :
               new \in GeneratedTrees(TreeMap[op.t1].fset, ph.method, depth, Fn(a.tr[op.t1][s]).ret)
<1>0. \A i, t : Points(i, t) \subseteq Subtrees(t)
  BY DEF Points, InternalSubtrees, ExternalSubtrees
<1>1. PICK s, new :
        /\ s \in Subtrees(a.tr[op.t1]) /\ made(s, new)
        /\ \E again \in AgainChoices(ph, bad(s, new)) :
             \/ again /\ Again(ph)
             \/ /\ ~again
                /\ newpop' = Append(newpop, Offspring(a, op.t1, s, new, bad(s, new)))
                /\ op' = NoOp
  BY <1>0 DEF Mutate
<1>2. PICK again \in AgainChoices(ph, bad(s, new)) :
        \/ again /\ Again(ph)
        \/ /\ ~again
           /\ newpop' = Append(newpop, Offspring(a, op.t1, s, new, bad(s, new)))
           /\ op' = NoOp
  BY <1>1
<1> HIDE DEF bad, ph, a, made
<1>3. ~again /\ KeepsTrying(ph) => ~bad(s, new)
  <2> SUFFICES ASSUME KeepsTrying(ph), bad(s, new) PROVE again
    OBVIOUS
  <2> QED  BY <1>2, NeverStopsAtBad
<1>4. CASE again /\ Again(ph)
  BY <1>4 DEF ph
<1>5. CASE ~again /\ op' = NoOp
           /\ newpop' = Append(newpop, Offspring(a, op.t1, s, new, bad(s, new)))
  <2>1. Mutated(a, s, new, bad(s, new))
    <3>1. bad(s, new) \in BOOLEAN /\ (~bad(s, new) => ~BadTree(a, op.t1, s, new))
      BY DEF bad, BadTree
    <3> QED  BY <1>1, <1>3, <1>5, <3>1 DEF Mutated, ph, made
  <2> QED  BY <2>1 DEF a
<1> QED  BY <1>2, <1>4, <1>5

\* The offspring of mutation is an individual, and new if the loop keeps trying.
LEMMA MutatedFacts ==
  ASSUME IInv, Mutate, NEW s, NEW new, NEW bad, Mutated(pop[op.p1], s, new, bad)
  PROVE  /\ Population(newpop', opt) /\ Len(newpop') <= PopSize
         /\ Len(newpop') = Len(newpop) + 1
         /\ KeepsTrying(Phases[op.phase]) => newpop'[Len(newpop) + 1].evald = FALSE
<1> DEFINE o == Offspring(pop[op.p1], op.t1, s, new, bad)
<1>1. /\ Individual(pop[op.p1], opt) /\ op.t1 \in TreeIndex /\ op.phase \in 1 .. Len(Phases)
      /\ Phases[op.phase].operator = "mutate"
  <2>1. /\ op.p1 \in 1 .. Len(pop) /\ op.t1 \in TreeIndex /\ op.phase \in 1 .. Len(Phases)
        /\ Phases[op.phase].operator = "mutate"
    BY DEF Mutate, IInv, Operation, Taken
  <2> QED  BY <2>1, PopulationFacts DEF IInv
<1>2. Individual(o, opt) /\ (~bad => o.evald = FALSE)
  <2> DEFINE a == pop[op.p1]
             ty == Fn(a.tr[op.t1][s]).ret
             ph == Phases[op.phase]
             set == TreeMap[op.t1].fset
  <2>1. /\ s \in Subtrees(a.tr[op.t1]) /\ bad \in BOOLEAN /\ (~bad => ~BadTree(a, op.t1, s, new))
        /\ \E depth \in ph.mindepth .. ph.maxdepth : new \in GeneratedTrees(set, ph.method, depth, ty)
    BY DEF Mutated
  <2>2. PICK depth \in ph.mindepth .. ph.maxdepth : new \in GeneratedTrees(set, ph.method, depth, ty)
    BY <2>1
  <2>3. depth \in Nat /\ set \in SUBSET Function
    BY <1>1, <2>2, PhaseTrees, BreedingAssumption DEF TreeIndex
  <2>4. PICK K : Shape(a.tr[op.t1], K, TreeMap[op.t1].ret)
    BY <1>1 DEF Individual, Proper, Parsed
  <2>5. ty \in Types
    BY <2>1, <2>4, ShapeFacts, SubtreeFacts
  <2>6. Parsed(new, ty)
    BY <2>2, <2>3, <2>5, GeneratedTreesParse
  <2> QED  BY ZenonT(40), <1>1, <2>1, <2>6, OffspringFacts
<1>3. newpop' = Append(newpop, o) /\ (KeepsTrying(Phases[op.phase]) => ~bad)
  BY DEF Mutated
<1> HIDE DEF o
<1>4. /\ Population(newpop', opt) /\ Len(newpop') = Len(newpop) + 1
      /\ newpop'[Len(newpop) + 1] = o
  BY <1>2, <1>3, PopulationAppend DEF IInv
<1>5. Len(newpop) \in Nat /\ PopSize \in Nat /\ Len(newpop) < PopSize
  BY Constants, PopulationFacts DEF Mutate, IInv, Operation
<1> QED  BY <1>2, <1>3, <1>4, <1>5

\* A round of mutation.
LEMMA MutateIInv == IInv /\ Mutate => IInv'
<1> SUFFICES ASSUME IInv, Mutate PROVE IInv'
  OBVIOUS
<1>1. op # NoOp /\ UNCHANGED <<pc, opt, pop, temp, attempts>>
  BY DEF Mutate
<1>2. CASE Again(Phases[op.phase])
  BY <1>1, <1>2, AgainIInv
<1>3. ASSUME NEW s, NEW new, NEW bad, Mutated(pop[op.p1], s, new, bad)
      PROVE  IInv'
  <2>1. Population(newpop', opt) /\ Len(newpop') <= PopSize
    BY <1>3, MutatedFacts
  <2>2. op' = NoOp
    BY <1>3 DEF Mutated
  <2>3. Half' /\ Sizes'
    BY <1>1, <2>1, HalfKept DEF IInv, Sizes
  <2> QED  BY <1>1, <2>1, <2>2, <2>3 DEF IInv, Operation
<1> QED  BY <1>2, <1>3, MutationRound

\* The new population replaces the old one.
LEMMA ReplaceIInv == IInv /\ Replace => IInv'
<1> SUFFICES ASSUME IInv, Replace PROVE IInv'
  OBVIOUS
<1>1. /\ op = NoOp /\ op' = op /\ pop' = newpop /\ newpop' = <<>> /\ opt' = opt
      /\ Len(newpop) = PopSize
  BY DEF Replace
<1>2. Population(<<>>, opt) /\ Len(<<>>) = 0
  BY NobodyIsAPopulation
<1>3. Half' /\ Sizes'
  BY <1>1, <1>2, Constants, HalfKept DEF Replace, IInv, Sizes
<1> QED  BY <1>1, <1>2, <1>3 DEF IInv, Operation

\* The invariant, of all behaviours, if fitness values are natural numbers.
LEMMA InvariantHolds ==
  ASSUME \A values : AFitness(values) \in Nat
  PROVE  Spec => []IInv
<1>1. Init => IInv
  BY InitIInv
<1>2. IInv /\ [Next]_vars => IInv'
  <2> SUFFICES ASSUME IInv, [Next]_vars PROVE IInv'
    OBVIOUS
  <2>1. CASE UNCHANGED vars
    BY <2>1, HalfKept DEF vars, IInv, Sizes, Operation, Taken
  <2>2. CASE Evaluate
    BY <2>2, EvaluateIInv
  <2> QED  BY <2>1, <2>2, PopulateIInv, TakeEliteIInv, ReproduceIInv, StartIInv, CrossoverIInv,
              MutateIInv, ReplaceIInv DEF Next, Breed
<1> QED  BY <1>1, <1>2, PTL DEF Spec

\* What a step put behind the members of newpop.
LEMMA InsertedFacts ==
  ASSUME Len(newpop) \in Nat, Population(newpop', opt), Len(newpop') >= Len(newpop)
  PROVE  /\ DOMAIN Inserted = 1 .. Len(newpop') - Len(newpop)
         /\ \A i \in 1 .. Len(newpop') - Len(newpop) : Inserted[i] = newpop'[Len(newpop) + i]
<1> DEFINE n == Len(newpop)
           n1 == Len(newpop')
<1>1. n \in Nat /\ n1 \in Nat /\ n1 >= n
  BY PopulationFacts
<1>2. PICK S : newpop' \in Seq(S)
  BY DEF Population
<1>3. \A k \in n + 1 .. n1 : newpop'[k] \in S
  BY <1>1, <1>2, ElementOfSeq
<1> HIDE DEF n, n1
<1>4. /\ SubSeq(newpop', n + 1, n1) \in Seq(S)
      /\ Len(SubSeq(newpop', n + 1, n1)) = IF n + 1 <= n1 THEN n1 - (n + 1) + 1 ELSE 0
      /\ \A k \in 1 .. n1 - (n + 1) + 1 :
           SubSeq(newpop', n + 1, n1)[k] = newpop'[n + 1 + k - 1]
  BY <1>1, <1>3, SubSeqProperties
<1>5. Inserted = SubSeq(newpop', n + 1, n1)
  BY DEF Inserted, n, n1
<1>6. DOMAIN Inserted = 1 .. Len(Inserted)
  BY <1>4, <1>5, LenProperties
<1>7. n1 - (n + 1) + 1 = n1 - n /\ (n + 1 <= n1 \/ n1 - n = 0)
  BY <1>1
<1>8. Len(Inserted) = n1 - n
  BY <1>4, <1>5, <1>7
<1>9. \A k \in 1 .. n1 - n : n + 1 + k - 1 = n + k
  BY <1>1
<1> QED  BY <1>4, <1>5, <1>6, <1>7, <1>8, <1>9 DEF n, n1

-----------------------------------------------------------------------------
(* What crossover exchanges *)

\* How often a tree, and an individual, has a function.
Count(t, f) == Cardinality({p \in DOMAIN t : t[p] = Node(f)})
UsesOf(ind, f) == SumFunction([j \in TreeIndex |-> Count(ind.tr[j], f)])

\* A function is counted where its nodes are.
LEMMA CountIsHas ==
  ASSUME NEW t \in Seq(Lnodes), NEW f
  PROVE  Count(t, f) = Cardinality(Has(t, {Node(f)})) /\ Count(t, f) \in Nat
<1> DEFINE S == {p \in DOMAIN t : t[p] = Node(f)}
<1>1. S = Has(t, {Node(f)})
  <2>1. IsFunction(Node(f))
    BY DEF IsFunction, Node
  <2>2. \A p \in DOMAIN t : t[p] = Node(f) => IsFunction(t[p])
    BY <2>1
  <2> QED  BY <2>2 DEF Has, Subtrees
<1>2. S \subseteq 1 .. Len(t) /\ Len(t) \in Nat
  BY LenProperties
<1> HIDE DEF S
<1>3. Cardinality(S) \in Nat
  <2>1. IsFiniteSet(1 .. Len(t))
    BY <1>2, FS_Interval
  <2> QED  BY <1>2, <2>1, FS_Subset, FS_CardinalityType
<1> QED  BY <1>1, <1>3 DEF Count, S

\* The counts of an individual.
LEMMA UsesOfFacts ==
  ASSUME NEW o, NEW ind, Individual(ind, o), NEW f
  PROVE  /\ IsFiniteSet(TreeIndex)
         /\ \A j \in TreeIndex : ind.tr[j] \in Seq(Lnodes) /\ Count(ind.tr[j], f) \in Nat
         /\ UsesOf(ind, f) \in Nat
<1> DEFINE g == [j \in TreeIndex |-> Count(ind.tr[j], f)]
<1>1. IsFiniteSet(TreeIndex)
  BY NoHalf, FS_Interval
<1>2. \A j \in TreeIndex : ind.tr[j] \in Seq(Lnodes)
  BY ShapeFacts DEF Individual, Proper, Parsed
<1>3. \A j \in TreeIndex : Count(ind.tr[j], f) \in Nat
  BY <1>2, CountIsHas
<1>4. g \in [TreeIndex -> Nat]
  BY <1>3
<1> HIDE DEF g
<1>5. SumFunction(g) \in Nat
  BY <1>1, <1>4, SumFacts
<1> QED  BY <1>1, <1>2, <1>3, <1>5 DEF UsesOf, g

\* Two individuals.
LEMMA UsesOfTwo ==
  ASSUME NEW s, DOMAIN s = 1 .. 2, NEW f, UsesOf(s[1], f) \in Nat, UsesOf(s[2], f) \in Nat
  PROVE  Uses(s, f) = UsesOf(s[1], f) + UsesOf(s[2], f)
<1> DEFINE g == [i \in 1 .. 2 |-> UsesOf(s[i], f)]
           C == [i \in 0 .. 2 |-> IF i = 0 THEN 0 ELSE IF i = 1 THEN g[1] ELSE g[1] + g[2]]
<1>1. g[1] = UsesOf(s[1], f) /\ g[2] = UsesOf(s[2], f)
  OBVIOUS
<1>2. \A i \in 1 .. 2 : i = 1 \/ i = 2
  OBVIOUS
<1>3. g \in [1 .. 2 -> Nat]
  <2>1. \A i \in 1 .. 2 : UsesOf(s[i], f) \in Nat
    BY <1>2
  <2> QED  BY <2>1
<1>4. Uses(s, f) = SumFunction(g)
  BY DEF Uses, UsesOf, Count
<1> HIDE DEF g
<1>5. g[1] \in Nat /\ g[2] \in Nat
  BY <1>3
<1>6. C \in [0 .. 2 -> Nat] /\ C[0] = 0 /\ C[1] = g[1] /\ C[2] = g[1] + g[2]
  BY <1>5
<1> HIDE DEF C
<1>7. \A i \in 1 .. 2 : C[i] = C[i - 1] + g[i]
  BY <1>2, <1>5, <1>6
<1>8. SumFunction(g) = C[2]
  BY <1>3, <1>6, <1>7, SumSteps
<1> QED  BY <1>1, <1>4, <1>6, <1>8

\* An offspring has what its parent has, without the subtree that was cut out and
\* with the one that was put in.
LEMMA OffspringUses ==
  ASSUME NEW o, NEW ind, Individual(ind, o), NEW j \in TreeIndex,
         NEW s \in Subtrees(ind.tr[j]), NEW with, NEW bad \in BOOLEAN, ~bad,
         Parsed(with, Fn(ind.tr[j][s]).ret), NEW f
  PROVE  /\ UsesOf(Offspring(ind, j, s, with, bad), f)
              = UsesOf(ind, f) - Count(SubtreeAt(ind.tr[j], s), f) + Count(with, f)
         /\ UsesOf(Offspring(ind, j, s, with, bad), f) \in Nat
         /\ Count(SubtreeAt(ind.tr[j], s), f) \in Nat /\ Count(with, f) \in Nat
<1> DEFINE t == ind.tr[j]
           ty == TreeMap[j].ret
           X == {Node(f)}
           u == CopyTreeReplace(t, s, with)
           x == Offspring(ind, j, s, with, bad)
           g == [k \in TreeIndex |-> Count(ind.tr[k], f)]
           h == [k \in TreeIndex |-> Count(x.tr[k], f)]
<1>1. PICK K : Shape(t, K, ty)
  BY DEF Individual, Proper, Parsed
<1>2. PICK Kw : Shape(with, Kw, Fn(t[s]).ret)
  BY DEF Parsed
<1> DEFINE e == End(t, K, s)
           d == Len(with) - (e - s)
           M == SplicedPlaces(K, s, e, Kw, Len(with))
<1>3. Replaced(t, K, ty, s, e, with, Kw, d)
  BY <1>1, <1>2 DEF Replaced
<1>4. IsSpliced(t, K, s, e, with, Kw, d, u, M) /\ Shape(u, M, ty)
  BY <1>3, ReplaceFacts
<1>5. Cardinality(Has(u, X))
        = Cardinality(Has(t, X)) - Cardinality(Has(t, X) \cap Within(t, K, s))
          + Cardinality(Has(with, X))
  <2> HIDE DEF u, M, d, e, X, t, ty
  <2> QED  BY <1>3, <1>4, CountReplaced
<1>6. Cardinality(Has(SubtreeAt(t, s), X)) = Cardinality(Has(t, X) \cap Within(t, K, s))
  BY <1>1, CountSubtree
<1>7. /\ t \in Seq(Lnodes) /\ u \in Seq(Lnodes) /\ with \in Seq(Lnodes)
      /\ SubtreeAt(t, s) \in Seq(Lnodes)
  <2>1. Parsed(SubtreeAt(t, s), Fn(t[s]).ret)
    BY <1>1, SubtreeParsed
  <2> QED  BY <1>1, <1>2, <1>4, <2>1, ShapeFacts DEF Parsed
<1> DEFINE w == SubtreeAt(t, s)
<1>8. /\ Count(u, f) = Count(t, f) - Count(w, f) + Count(with, f)
      /\ Count(u, f) \in Nat /\ Count(t, f) \in Nat /\ Count(w, f) \in Nat /\ Count(with, f) \in Nat
  <2> HIDE DEF u, w, t, X
  <2>1. /\ Count(u, f) = Cardinality(Has(u, X)) /\ Count(t, f) = Cardinality(Has(t, X))
        /\ Count(w, f) = Cardinality(Has(w, X)) /\ Count(with, f) = Cardinality(Has(with, X))
        /\ Count(u, f) \in Nat /\ Count(t, f) \in Nat /\ Count(w, f) \in Nat /\ Count(with, f) \in Nat
    BY <1>7, CountIsHas DEF X, w
  <2>2. Cardinality(Has(w, X)) = Cardinality(Has(t, X) \cap Within(t, K, s))
    BY <1>6 DEF w
  <2> QED  BY <1>5, <2>1, <2>2
<1>9. /\ IsFiniteSet(TreeIndex) /\ \A k \in TreeIndex : Count(ind.tr[k], f) \in Nat
      /\ UsesOf(ind, f) \in Nat
  BY UsesOfFacts
<1>10. \A k \in TreeIndex : x.tr[k] = IF k = j THEN u ELSE ind.tr[k]
  BY DEF Offspring, Individual
<1> HIDE DEF u, w, x, t
<1>11. g \in [TreeIndex -> Nat] /\ g[j] = Count(t, f)
  BY <1>9 DEF t
<1>12. h \in [TreeIndex -> Nat] /\ h[j] = Count(u, f) /\ \A k \in TreeIndex : k # j => g[k] = h[k]
  <2>1. \A k \in TreeIndex : Count(x.tr[k], f) = IF k = j THEN Count(u, f) ELSE Count(ind.tr[k], f)
    BY <1>10
  <2> QED  BY <1>8, <1>9, <2>1
<1>13. UsesOf(ind, f) = SumFunction(g) /\ UsesOf(x, f) = SumFunction(h)
  BY DEF UsesOf
<1> HIDE DEF g, h
<1>14. SumFunction(h) = SumFunction(g) - g[j] + h[j] /\ SumFunction(h) \in Nat
  BY <1>9, <1>11, <1>12, SumChange, SumFacts
<1>15. UsesOf(x, f) = UsesOf(ind, f) - Count(w, f) + Count(with, f)
  BY <1>8, <1>9, <1>11, <1>12, <1>13, <1>14
<1> QED  BY <1>8, <1>13, <1>14, <1>15 DEF x, w, t

-----------------------------------------------------------------------------
(* The theorems *)

\* Selection by fitness, with the fittest preferred or not, takes nobody of
\* fitness 0 while somebody has more: for any fitness values, any random value
\* and any order that qsort gives to equals.
THEOREM ParentsAlwaysHaveFitness ==
  ASSUME \A values : AFitness(values) \in Nat
  PROVE  Spec => []ParentsHaveFitness
<1>1. IInv => ParentsHaveFitness
  <2> SUFFICES ASSUME IInv, op # NoOp, \E i \in DOMAIN pop : pop[i].fit > 0
               PROVE  /\ Phases[op.phase].sel.name \in ByFitness => pop[op.p1].fit > 0
                      /\ /\ Phases[op.phase].operator = "crossover"
                         /\ Phases[op.phase].sel2.name \in ByFitness
                         => pop[op.p2].fit > 0
    BY DEF ParentsHaveFitness
  <2>1. DOMAIN pop = 1 .. Len(pop)
    BY PopulationFacts DEF IInv
  <2> QED  BY <2>1 DEF IInv, Operation, Taken
<1> QED  BY <1>1, InvariantHolds, PTL

\* A phase that keeps trying without end inserts nothing but new trees, after
\* any number of rounds of its loop.
THEOREM KeepsTryingAlways ==
  ASSUME \A values : AFitness(values) \in Nat
  PROVE  Spec => KeepTrying
<1>1. IInv /\ [Next]_vars => KeepTryingAct
  <2> SUFFICES ASSUME IInv, [Next]_vars, op # NoOp, KeepsTrying(Phases[op.phase]), op' = NoOp,
                      NEW i \in DOMAIN Inserted
               PROVE  ~Inserted[i].evald
    BY DEF KeepTryingAct
  <2>1. op.phase \in 1 .. Len(Phases) /\ Len(newpop) \in Nat /\ pc = "breed"
    BY PopulationFacts DEF IInv, Operation
  <2>2. Crossover \/ Mutate
    BY <2>1 DEF Next, vars, Populate, GenerateTree, GiveUp, Admit, Evaluate, Breed, TakeElite,
                Reproduce, StartCrossover, StartMutation, Replace
  <2>3. ~Again(Phases[op.phase])
    BY <2>2, AgainIInv DEF Crossover, Mutate
  <2>4. ASSUME Population(newpop', opt), Len(newpop') >= Len(newpop),
               \A k \in 1 .. Len(newpop') : k > Len(newpop) => newpop'[k].evald = FALSE
        PROVE  ~Inserted[i].evald
    <3>1. /\ i \in 1 .. Len(newpop') - Len(newpop) /\ Inserted[i] = newpop'[Len(newpop) + i]
          /\ Len(newpop') \in Nat
      BY <2>1, <2>4, InsertedFacts, PopulationFacts
    <3>2. Len(newpop) + i \in 1 .. Len(newpop') /\ Len(newpop) + i > Len(newpop)
      BY <2>1, <3>1
    <3> QED  BY <2>4, <3>1, <3>2
  <2>5. CASE Crossover
    <3>1. PICK s1, s2, bad1, bad2 : Crossed(pop[op.p1], pop[op.p2], s1, s2, bad1, bad2)
      BY <2>3, <2>5, CrossoverRound
    <3> QED  BY <2>4, <2>5, <3>1, CrossedFacts
  <2>6. CASE Mutate
    <3>1. PICK s, new, bad : Mutated(pop[op.p1], s, new, bad)
      BY <2>3, <2>6, MutationRound
    <3>2. /\ Population(newpop', opt) /\ Len(newpop') = Len(newpop) + 1
          /\ newpop'[Len(newpop) + 1].evald = FALSE
      BY <2>6, <3>1, MutatedFacts
    <3>3. /\ \A k \in 1 .. Len(newpop') : k > Len(newpop) => k = Len(newpop) + 1
          /\ Len(newpop') >= Len(newpop)
      BY <2>1, <3>2
    <3> QED  BY <2>4, <3>2, <3>3
  <2> QED  BY <2>2, <2>5, <2>6
<1> QED  BY <1>1, InvariantHolds, PTL DEF Spec, KeepTrying

\* Everybody is an individual.
LEMMA MembersFacts == IInv => \A ind \in Members : Individual(ind, opt)
<1> SUFFICES ASSUME IInv, NEW ind \in Members PROVE Individual(ind, opt)
  OBVIOUS
<1>1. ASSUME NEW s, Population(s, opt), ind \in Range(s) PROVE Individual(ind, opt)
  <2>1. PICK i \in DOMAIN s : ind = s[i]
    BY <1>1 DEF Range
  <2> QED  BY <1>1, <2>1, PopulationFacts
<1> QED  BY <1>1 DEF IInv, Members

\* After any number of crossovers and mutations every array is a tree of the type
\* of its place, with skip nodes that skip what follows, and the node count beside
\* it is right (copy_tree_replace_many, generate_random_*_tree).
THEOREM TypesAlwaysOK ==
  ASSUME \A values : AFitness(values) \in Nat
  PROVE  Spec => []TypeOK
<1>1. IInv => TypeOK
  <2> SUFFICES ASSUME IInv PROVE TypeOK
    OBVIOUS
  <2>1. Len(pop) <= PopSize /\ Len(newpop) <= PopSize
    BY Constants, PopulationFacts DEF IInv, Sizes
  <2>2. ASSUME NEW ind \in Members, NEW j \in TreeIndex
        PROVE  /\ IsTree(ind.tr[j], TreeMap[j].ret)
               /\ ind.nodes[j] = Cardinality(Subtrees(ind.tr[j]))
    <3>1. Individual(ind, opt)
      BY MembersFacts
    <3>2. Parsed(ind.tr[j], TreeMap[j].ret) /\ ind.nodes[j] = TreeNodes(ind.tr[j])
      BY <3>1 DEF Individual, Proper, NodeCounts
    <3>3. TreeNodes(ind.tr[j]) = Cardinality(Subtrees(ind.tr[j]))
      BY <3>2, ShapeFacts DEF Parsed
    <3> QED  BY <3>2, <3>3, ParsedIsTree
  <2> QED  BY <2>1, <2>2 DEF TypeOK, IInv, Sizes, Half
<1> QED  BY <1>1, InvariantHolds, PTL

\* No operator makes a tree, or an individual, that is above its limits: what is
\* foreseen of a new tree before it is made (crossovr.c, mutate.c) is its number of
\* nodes, and at least its depth.
THEOREM LimitsAlwaysKept ==
  ASSUME \A values : AFitness(values) \in Nat
  PROVE  Spec => []WithinLimits
<1>1. IInv => WithinLimits
  <2> SUFFICES ASSUME IInv, NEW ind \in Members
               PROVE  /\ \A j \in TreeIndex :
                           ~TreeTooBig(j, TreeNodes(ind.tr[j]), TreeDepth(ind.tr[j]))
                      /\ opt.ignore_limits \/ ~IndTooBig(NodeCounts(ind.tr))
    BY DEF WithinLimits
  <2>1. Individual(ind, opt)
    BY MembersFacts
  <2> QED  BY <2>1 DEF Individual, Proper
<1> QED  BY <1>1, InvariantHolds, PTL

\* A fitness that is marked as cached is that of what the trees stand for: the skip
\* nodes that evaluation follows (evaluate_tree) never lead it astray, and an
\* operator that changes a tree drops the cache.
THEOREM CacheAlwaysTruthful ==
  ASSUME \A values : AFitness(values) \in Nat
  PROVE  Spec => []CacheTruthful
<1>1. IInv => CacheTruthful
  <2> SUFFICES ASSUME IInv, NEW ind \in Members, ind.evald
               PROVE  ind.fit = AFitness([j \in TreeIndex |-> Meaning(ind.tr[j])])
    BY DEF CacheTruthful
  <2>1. Individual(ind, opt)
    BY MembersFacts
  <2>2. ind.fit = AFitness([j \in TreeIndex |-> EvaluateTree(ind.tr[j])])
    BY <2>1 DEF Individual, Cached
  <2>3. \A j \in TreeIndex : EvaluateTree(ind.tr[j]) = Meaning(ind.tr[j])
    BY <2>1, EvaluateMeaning DEF Individual, Proper
  <2>4. [j \in TreeIndex |-> EvaluateTree(ind.tr[j])] = [j \in TreeIndex |-> Meaning(ind.tr[j])]
    BY <2>3
  <2> QED  BY <2>2, <2>4
<1> QED  BY <1>1, InvariantHolds, PTL

\* Two new offspring have together what their parents have: what one of them lost,
\* the other one got.
LEMMA CrossedUses ==
  ASSUME IInv, Crossover, NEW s1, NEW s2, NEW bad1, NEW bad2,
         Crossed(pop[op.p1], pop[op.p2], s1, s2, bad1, bad2),
         Len(newpop') = Len(newpop) + 2, Inserted[1].evald = Inserted[2].evald, NEW f
  PROVE  Uses(Inserted, f) = Uses(<<pop[op.p1], pop[op.p2]>>, f)
<1> DEFINE a == pop[op.p1]
           b == pop[op.p2]
           w1 == SubtreeAt(b.tr[op.t2], s2)
           w2 == SubtreeAt(a.tr[op.t1], s1)
           o1 == Offspring(a, op.t1, s1, w1, bad1)
           o2 == Offspring(b, op.t2, s2, w2, bad2)
<1>1. /\ Individual(a, opt) /\ Individual(b, opt) /\ a.evald /\ b.evald
      /\ op.t1 \in TreeIndex /\ op.t2 \in TreeIndex
  <2>1. /\ op.p1 \in 1 .. Len(pop) /\ op.p2 \in 1 .. Len(pop)
        /\ op.t1 \in TreeIndex /\ op.t2 \in TreeIndex /\ pc = "breed"
    BY DEF Crossover, IInv, Operation, Taken
  <2> QED  BY <2>1, PopulationFacts DEF IInv, Sizes
<1>2. /\ s1 \in Subtrees(a.tr[op.t1]) /\ s2 \in Subtrees(b.tr[op.t2])
      /\ bad1 \in BOOLEAN /\ bad2 \in BOOLEAN
      /\ ~bad1 => Fn(a.tr[op.t1][s1]).ret = Fn(b.tr[op.t2][s2]).ret
  BY DEF Crossed
<1>3. Inserted[1] = o1 /\ Inserted[2] = o2 /\ DOMAIN Inserted = 1 .. 2
  <2>1. Len(newpop) \in Nat /\ Population(newpop', opt) /\ Len(newpop') >= Len(newpop)
    BY CrossedFacts, PopulationFacts DEF IInv
  <2>2. Len(newpop') - Len(newpop) = 2
    BY <2>1
  <2>3. /\ DOMAIN Inserted = 1 .. 2 /\ Inserted[1] = newpop'[Len(newpop) + 1]
        /\ Inserted[2] = newpop'[Len(newpop) + 2]
    BY <2>1, <2>2, InsertedFacts
  <2>4. /\ Len(newpop) + 1 \in 1 .. Len(newpop') /\ Len(newpop) + 2 \in 1 .. Len(newpop')
        /\ Len(newpop) + 1 > Len(newpop) /\ Len(newpop) + 2 > Len(newpop)
        /\ Len(newpop) + 2 # Len(newpop) + 1
    BY <2>1
  <2>6. \A i \in 1 .. Len(newpop') : i > Len(newpop) =>
          newpop'[i] = IF i = Len(newpop) + 1 THEN o1 ELSE o2
    <3>1. PutBehind(o1, o2)
      BY CrossedFacts
    <3> HIDE DEF o1, o2
    <3> QED  BY <3>1 DEF PutBehind
  <2>5. newpop'[Len(newpop) + 1] = o1 /\ newpop'[Len(newpop) + 2] = o2
    <3> HIDE DEF o1, o2
    <3> QED  BY <2>4, <2>6
  <2> QED  BY <2>3, <2>5
<1>4. Parsed(w2, Fn(a.tr[op.t1][s1]).ret) /\ Parsed(w1, Fn(b.tr[op.t2][s2]).ret)
  BY <1>1, <1>2, SubtreeParsed DEF Individual, Proper, Parsed
<1>5. bad1 = bad2
  <2>1. bad1 => o1.evald
    BY <1>1 DEF Offspring
  <2>2. bad2 => o2.evald
    BY <1>1 DEF Offspring
  <2>3. ~bad1 => ~o1.evald
    BY <1>1 DEF Offspring, Individual
  <2>4. ~bad2 => ~o2.evald
    BY <1>1 DEF Offspring, Individual
  <2> QED  BY <1>2, <1>3, <2>1, <2>2, <2>3, <2>4
<1> HIDE DEF a, b, w1, w2
<1>6. UsesOf(a, f) \in Nat /\ UsesOf(b, f) \in Nat
  BY <1>1, UsesOfFacts
<1>7. /\ UsesOf(o1, f) \in Nat /\ UsesOf(o2, f) \in Nat
      /\ UsesOf(o1, f) + UsesOf(o2, f) = UsesOf(a, f) + UsesOf(b, f)
  <2>1. CASE bad1
    <3>1. o1 = a /\ o2 = b
      BY <1>5, <2>1 DEF Offspring
    <3> QED  BY <1>6, <3>1
  <2>2. CASE ~bad1
    <3>1. ~bad1 /\ ~bad2 /\ bad1 \in BOOLEAN /\ bad2 \in BOOLEAN
      BY <1>2, <1>5, <2>2
    <3>2. Parsed(w1, Fn(a.tr[op.t1][s1]).ret) /\ Parsed(w2, Fn(b.tr[op.t2][s2]).ret)
      BY <1>2, <1>4, <2>2
    <3>6. /\ s1 \in Subtrees(a.tr[op.t1]) /\ s2 \in Subtrees(b.tr[op.t2])
          /\ o1 = Offspring(a, op.t1, s1, w1, bad1) /\ o2 = Offspring(b, op.t2, s2, w2, bad2)
          /\ op.t1 \in TreeIndex /\ op.t2 \in TreeIndex
          /\ Individual(a, opt) /\ Individual(b, opt)
      BY <1>1, <1>2, <3>1
    <3> HIDE DEF o1, o2
    <3>3. /\ UsesOf(o1, f) = UsesOf(a, f) - Count(SubtreeAt(a.tr[op.t1], s1), f) + Count(w1, f)
          /\ UsesOf(o1, f) \in Nat /\ Count(w1, f) \in Nat
      BY <3>1, <3>2, <3>6, OffspringUses
    <3>4. /\ UsesOf(o2, f) = UsesOf(b, f) - Count(SubtreeAt(b.tr[op.t2], s2), f) + Count(w2, f)
          /\ UsesOf(o2, f) \in Nat /\ Count(w2, f) \in Nat
      BY <3>1, <3>2, <3>6, OffspringUses
    <3>5. SubtreeAt(a.tr[op.t1], s1) = w2 /\ SubtreeAt(b.tr[op.t2], s2) = w1
      BY DEF w1, w2
    <3> QED  BY <1>6, <3>3, <3>4, <3>5
  <2> QED  BY <1>2, <2>1, <2>2
<1> HIDE DEF o1, o2
<1>8. Uses(Inserted, f) = UsesOf(o1, f) + UsesOf(o2, f)
  BY <1>3, <1>7, UsesOfTwo
<1>9. Uses(<<a, b>>, f) = UsesOf(a, f) + UsesOf(b, f)
  <2> DEFINE s == <<a, b>>
  <2>1. DOMAIN s = 1 .. 2 /\ s[1] = a /\ s[2] = b
    OBVIOUS
  <2> HIDE DEF s
  <2>2. Uses(s, f) = UsesOf(s[1], f) + UsesOf(s[2], f)
    BY <1>6, <2>1, UsesOfTwo
  <2> QED  BY <2>1, <2>2 DEF s
<1> QED  BY <1>7, <1>8, <1>9 DEF a, b

\* Crossover exchanges (crossovr.c): whatever the trees, the points and the limits,
\* no function or terminal is lost or doubled where both offspring are new.
THEOREM CrossoverAlwaysConserves ==
  ASSUME \A values : AFitness(values) \in Nat
  PROVE  Spec => CrossoverConserves
<1>1. IInv /\ [Next]_vars => CrossoverConservesAct
  <2> SUFFICES ASSUME IInv, [Next]_vars, op # NoOp, op' = NoOp,
                      Phases[op.phase].operator = "crossover",
                      Len(newpop') = Len(newpop) + 2, Inserted[1].evald = Inserted[2].evald,
                      NEW f \in Function
               PROVE  Uses(Inserted, f) = Uses(<<pop[op.p1], pop[op.p2]>>, f)
    BY DEF CrossoverConservesAct
  <2>1. pc = "breed"
    BY DEF IInv, Operation
  <2>2. Crossover
    BY <2>1 DEF Next, vars, Populate, GenerateTree, GiveUp, Admit, Evaluate, Breed, TakeElite,
                Reproduce, StartCrossover, StartMutation, Mutate, Replace
  <2>3. ~Again(Phases[op.phase])
    BY <2>2, AgainIInv DEF Crossover
  <2>4. PICK s1, s2, bad1, bad2 : Crossed(pop[op.p1], pop[op.p2], s1, s2, bad1, bad2)
    BY <2>2, <2>3, CrossoverRound
  <2> QED  BY <2>2, <2>4, CrossedUses
<1> QED  BY <1>1, InvariantHolds, PTL DEF Spec, CrossoverConserves

=============================================================================
