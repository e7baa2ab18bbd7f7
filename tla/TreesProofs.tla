---------------------------- MODULE TreesProofs ----------------------------
(***************************************************************************)
(* Arrays of lnodes, proved for any functions and any arrays: what the     *)
(* recursions of the kernel over a tree count, copy and evaluate.          *)
(*                                                                         *)
(* The recursions go by position, so every fact about a tree is one about  *)
(* the positions of its array: K[p] lists where the children of the node   *)
(* at p are, from the first one's place (its skip node, if it has one) to  *)
(* the position behind the last one.                                       *)
(***************************************************************************)
EXTENDS Trees, CountingProofs

Lnodes == {Node(f) : f \in Function} \cup {Skip(n) : n \in Int} \cup {ErcValue}

\* How far behind a function its first child begins, and how far behind the
\* child's place the child itself.
Step(l) == IF Fn(l).erc THEN 2 ELSE 1
Gap(l) == IF Fn(l).expr THEN 1 ELSE 0

Kid(t, K, p, i) == K[p][i] + Gap(t[p])
End(t, K, p) == K[p][Arity(t[p]) + 1]

\* The node at p has n children, and they are where K says.
Made(t, K, p, n) ==
  /\ K[p][1] = p + Step(t[p])
  /\ Fn(t[p]).erc => p + 1 \in DOMAIN t /\ t[p + 1] = ErcValue
  /\ \A i \in 1 .. n :
       /\ Kid(t, K, p, i) \in Subtrees(t)
       /\ Fn(t[Kid(t, K, p, i)]).ret = Fn(t[p]).args[i]
       /\ K[p][i + 1] = End(t, K, Kid(t, K, p, i))
       /\ Fn(t[p]).expr => t[K[p][i]] = Skip(K[p][i + 1] - Kid(t, K, p, i))

Places == [Nat -> [Nat -> Int]]

\* From position a on, every function has its children.
Grown(t, K, a) ==
  /\ t \in Seq(Lnodes) /\ K \in Places /\ a \in Nat
  /\ \A p \in Subtrees(t) : p >= a => Made(t, K, p, Arity(t[p]))

\* t is a tree of type ty, and K says where its nodes are.
Shape(t, K, ty) ==
  /\ Grown(t, K, 1)
  /\ 1 \in Subtrees(t) /\ Fn(t[1]).ret = ty /\ End(t, K, 1) = Len(t) + 1

Parsed(t, ty) == \E K : Shape(t, K, ty)

-----------------------------------------------------------------------------
(* Positions *)

\* What the lnodes are.
LEMMA LnodeFacts ==
  ASSUME NEW l \in Lnodes
  PROVE  /\ l \notin {Node(f) : f \in Function} => ~IsFunction(l)
         /\ IsFunction(l) =>
              /\ l[2] \in Function /\ l = Node(l[2])
              /\ Fn(l).args \in Seq(Types) /\ Arity(l) \in Nat
              /\ Fn(l).ret \in Types
              /\ Fn(l).erc => Arity(l) = 0
         /\ Gap(l) \in {0, 1} /\ Step(l) \in {1, 2}
         /\ Fn(l).erc => Step(l) = 2
         /\ ~Fn(l).erc => Step(l) = 1
         /\ Fn(l).expr => Gap(l) = 1
         /\ ~Fn(l).expr => Gap(l) = 0
<1>1. l \notin {Node(f) : f \in Function} => ~IsFunction(l)
  BY DEF Lnodes, IsFunction, Skip, ErcValue
<1>2. ASSUME IsFunction(l) PROVE l[2] \in Function /\ l = Node(l[2])
  <2>1. PICK f \in Function : l = Node(f)
    BY <1>1, <1>2
  <2> QED  BY <2>1 DEF Node
<1>3. ASSUME IsFunction(l)
      PROVE  /\ Fn(l).args \in Seq(Types) /\ Fn(l).ret \in Types
             /\ Fn(l).erc => Fn(l).args = <<>>
  BY <1>2, <1>3, TreesAssumption DEF Fn, Types
<1>4. ASSUME IsFunction(l) PROVE Arity(l) \in Nat /\ (Fn(l).erc => Arity(l) = 0)
  <2>1. Len(Fn(l).args) \in Nat
    BY <1>3, <1>4, LenProperties
  <2>2. Fn(l).args = <<>> => Len(Fn(l).args) = 0
    OBVIOUS
  <2> QED  BY <1>3, <1>4, <2>1, <2>2 DEF Arity
<1>5. /\ Gap(l) \in {0, 1} /\ Step(l) \in {1, 2}
      /\ Fn(l).erc => Step(l) = 2
      /\ ~Fn(l).erc => Step(l) = 1
      /\ Fn(l).expr => Gap(l) = 1
      /\ ~Fn(l).expr => Gap(l) = 0
  BY DEF Gap, Step
<1> QED  BY <1>1, <1>2, <1>3, <1>4, <1>5

\* Skip nodes and constants are no functions.
LEMMA NoFunctions == ~IsFunction(ErcValue) /\ \A n : ~IsFunction(Skip(n))
BY DEF IsFunction, ErcValue, Skip

\* Positions of functions.
LEMMA SubtreeFacts ==
  ASSUME NEW t \in Seq(Lnodes)
  PROVE  /\ Len(t) \in Nat /\ DOMAIN t = 1 .. Len(t)
         /\ \A q \in 1 .. Len(t) : t[q] \in Lnodes
         /\ Subtrees(t) \subseteq 1 .. Len(t)
         /\ \A p \in Subtrees(t) :
              /\ t[p] \in Lnodes /\ IsFunction(t[p]) /\ t[p][2] \in Function
              /\ Arity(t[p]) \in Nat /\ Fn(t[p]).ret \in Types
              /\ Fn(t[p]).erc => Arity(t[p]) = 0
              /\ Step(t[p]) \in {1, 2} /\ Gap(t[p]) \in {0, 1}
<1>1. Len(t) \in Nat /\ DOMAIN t = 1 .. Len(t) /\ \A q \in 1 .. Len(t) : t[q] \in Lnodes
  BY LenProperties, ElementOfSeq
<1>2. Subtrees(t) \subseteq 1 .. Len(t) /\ \A p \in Subtrees(t) : IsFunction(t[p])
  BY <1>1 DEF Subtrees
<1> QED  BY <1>1, <1>2, LnodeFacts

\* Children come one after the other, behind their parent, and inside the array.
LEMMA Order ==
  ASSUME NEW t, NEW K, NEW a, Grown(t, K, a), NEW p \in Subtrees(t), p >= a
  PROVE  /\ p < End(t, K, p) /\ End(t, K, p) <= Len(t) + 1
         /\ \A i \in 1 .. Arity(t[p]) + 1 : p < K[p][i] /\ K[p][i] <= End(t, K, p)
         /\ \A i \in 1 .. Arity(t[p]) :
              /\ K[p][i] <= Kid(t, K, p, i) /\ Kid(t, K, p, i) < K[p][i + 1]
              /\ \A j \in i + 1 .. Arity(t[p]) + 1 : K[p][i] < K[p][j]
<1> DEFINE L == Len(t)
           Done(q) == /\ q < End(t, K, q) /\ End(t, K, q) <= L + 1
                      /\ \A i \in 1 .. Arity(t[q]) + 1 : q < K[q][i] /\ K[q][i] <= End(t, K, q)
                      /\ \A i \in 1 .. Arity(t[q]) :
                           /\ K[q][i] <= Kid(t, K, q, i) /\ Kid(t, K, q, i) < K[q][i + 1]
                           /\ \A j \in i + 1 .. Arity(t[q]) + 1 : K[q][i] < K[q][j]
           B == {k \in Nat : \E q \in Subtrees(t) : q >= a /\ ~Done(q) /\ k = L - q}
<1>0. t \in Seq(Lnodes) /\ K \in Places /\ a \in Nat
  BY DEF Grown
<1>1. /\ L \in Nat /\ Subtrees(t) \subseteq 1 .. L /\ DOMAIN t = 1 .. L
      /\ \A q \in Subtrees(t) : /\ Arity(t[q]) \in Nat /\ Step(t[q]) \in {1, 2}
                                /\ Gap(t[q]) \in {0, 1} /\ t[q] \in Lnodes
                                /\ Fn(t[q]).erc => Arity(t[q]) = 0
  BY <1>0, SubtreeFacts
<1> HIDE DEF L
<1>2. ASSUME NEW q \in Subtrees(t), q >= a,
             \A r \in Subtrees(t) : r > q => Done(r)
      PROVE  Done(q)
  <2> DEFINE n == Arity(t[q])
             P == K[q]
  <2>1. /\ P[1] = q + Step(t[q])
        /\ Fn(t[q]).erc => q + 1 \in DOMAIN t
        /\ \A i \in 1 .. n : /\ P[i] + Gap(t[q]) \in Subtrees(t)
                             /\ P[i + 1] = End(t, K, P[i] + Gap(t[q]))
    <3>1. Made(t, K, q, n)
      BY <1>2 DEF Grown
    <3> QED  BY <3>1 DEF Made, Kid
  <2>2. n \in Nat /\ q \in Nat /\ Step(t[q]) \in {1, 2} /\ Gap(t[q]) \in {0, 1}
        /\ \A i \in Nat : P[i] \in Int
    <3>1. q \in Nat
      BY <1>1
    <3>2. K \in [Nat -> [Nat -> Int]]
      BY <1>0 DEF Places
    <3>3. P \in [Nat -> Int]
      BY <3>1, <3>2
    <3> HIDE DEF P
    <3> QED  BY <1>1, <3>1, <3>3
  <2> DEFINE g == Gap(t[q])
  <2> HIDE DEF n, P, g
  <2>3. \A i \in 1 .. n : P[i] > q => P[i] <= P[i] + g /\ P[i] + g < P[i + 1] /\ P[i + 1] <= L + 1
    <3> SUFFICES ASSUME NEW i \in 1 .. n, P[i] > q
                 PROVE  P[i] <= P[i] + g /\ P[i] + g < P[i + 1] /\ P[i + 1] <= L + 1
      OBVIOUS
    <3>1. P[i] \in Int /\ g \in {0, 1}
      BY <2>2 DEF g
    <3>2. P[i] + g \in Subtrees(t) /\ P[i + 1] = End(t, K, P[i] + g)
      BY <2>1 DEF g
    <3>3. P[i] + g > q
      BY <2>2, <3>1
    <3>4. Done(P[i] + g)
      BY <1>2, <3>2, <3>3
    <3> QED  BY <3>1, <3>2, <3>4
  <2> DEFINE S == {i \in 0 .. n : P[i + 1] > q /\ \A j \in 1 .. i : P[j] < P[i + 1]}
  <2>4. 0 .. n \subseteq S
    <3>1. 0 \in S
      BY <2>1, <2>2
    <3>2. \A i \in 1 .. n : i - 1 \in S => i \in S
      <4> SUFFICES ASSUME NEW i \in 1 .. n, i - 1 \in S PROVE i \in S
        OBVIOUS
      <4>1. i - 1 + 1 = i /\ i \in Nat /\ i + 1 \in Nat
        BY <2>2
      <4>2. P[i] > q /\ \A j \in 1 .. i - 1 : P[j] < P[i]
        BY <4>1
      <4>3. P[i] < P[i + 1]
        BY <2>2, <2>3, <4>1, <4>2 DEF g
      <4>4. \A j \in 1 .. i : P[j] < P[i + 1]
        <5> TAKE j \in 1 .. i
        <5>1. j \in Nat /\ (j = i \/ j \in 1 .. i - 1)
          BY <4>1
        <5>2. P[j] \in Int /\ P[i] \in Int /\ P[i + 1] \in Int
          BY <2>2, <4>1, <5>1
        <5> QED  BY <4>2, <4>3, <5>1, <5>2
      <4>5. P[i + 1] > q
        BY <2>2, <4>1, <4>2, <4>3
      <4> QED  BY <2>2, <4>4, <4>5
    <3> HIDE DEF S
    <3> QED  BY <2>2, <3>1, <3>2, Climb
  <2>5. \A i \in 1 .. n + 1 : P[i] > q /\ \A j \in 1 .. i - 1 : P[j] < P[i]
    <3> TAKE i \in 1 .. n + 1
    <3>1. i - 1 \in S /\ i - 1 + 1 = i
      BY <2>2, <2>4
    <3> QED  BY <3>1
  <2>6. \A i \in 1 .. n + 1 : q < P[i] /\ P[i] <= P[n + 1]
    <3> TAKE i \in 1 .. n + 1
    <3>1. i \in Nat /\ n + 1 \in Nat /\ n + 1 \in 1 .. n + 1 /\ (i = n + 1 \/ i \in 1 .. (n + 1) - 1)
      BY <2>2
    <3> QED  BY <2>2, <2>5, <3>1
  <2>7. \A i \in 1 .. n : /\ P[i] <= P[i] + g /\ P[i] + g < P[i + 1]
                          /\ \A j \in i + 1 .. n + 1 : P[i] < P[j]
    <3> TAKE i \in 1 .. n
    <3>1. i \in 1 .. n + 1
      BY <2>2
    <3>2. \A j \in i + 1 .. n + 1 : j \in 1 .. n + 1 /\ i \in 1 .. j - 1
      BY <2>2
    <3> QED  BY <2>3, <2>5, <3>1, <3>2
  <2>8. P[n + 1] <= L + 1
    <3>1. CASE n = 0
      <4>1. P[1] <= L + 1
        BY <1>1, <2>1, <2>2, LnodeFacts
      <4> QED  BY <3>1, <4>1
    <3>2. CASE n # 0
      <4>1. n \in 1 .. n /\ P[n] > q
        BY <2>2, <2>5, <3>2
      <4> QED  BY <2>3, <4>1
    <3> QED  BY <3>1, <3>2
  <2>9. q < P[n + 1]
    <3>1. n + 1 \in 1 .. n + 1
      BY <2>2
    <3> QED  BY <2>6, <3>1
  <2>10. /\ End(t, K, q) = P[n + 1] /\ \A i : Kid(t, K, q, i) = P[i] + g
         /\ n = Arity(t[q]) /\ P = K[q]
    BY DEF End, Kid, n, P, g
  <2> QED  BY <2>6, <2>7, <2>8, <2>9, <2>10
<1> HIDE DEF Done
<1>3. \A q \in Subtrees(t) : q >= a => Done(q)
  <2> SUFFICES ASSUME NEW q0 \in Subtrees(t), q0 >= a, ~Done(q0) PROVE FALSE
    OBVIOUS
  <2>1. B \in SUBSET Nat /\ L - q0 \in B
    BY <1>1
  <2>2. PICK k \in B : \A y \in B : k <= y
    BY <2>1, LeastNumber
  <2>3. PICK q \in Subtrees(t) : q >= a /\ ~Done(q) /\ k = L - q
    BY <2>2
  <2>4. \A r \in Subtrees(t) : r > q => Done(r)
    <3> SUFFICES ASSUME NEW r \in Subtrees(t), r > q, ~Done(r) PROVE FALSE
      OBVIOUS
    <3>1. q \in 1 .. L /\ r \in 1 .. L /\ r >= a
      BY <1>0, <1>1, <2>3
    <3>2. L - r \in B
      BY <1>1, <3>1
    <3>3. ~(L - q <= L - r)
      BY <1>1, <3>1
    <3> QED  BY <2>2, <2>3, <3>2, <3>3
  <2> QED  BY <1>2, <2>3, <2>4
<1> QED  BY <1>3 DEF Done, L

\* Between a function and the end of its subtree there are only the subtrees of
\* its children, constants and skip nodes.
LEMMA Inside ==
  ASSUME NEW t, NEW K, NEW a, Grown(t, K, a), NEW p \in Subtrees(t), p >= a,
         NEW q \in Subtrees(t), p < q, q < End(t, K, p)
  PROVE  \E i \in 1 .. Arity(t[p]) : Kid(t, K, p, i) <= q /\ q < K[p][i + 1]
<1> DEFINE n == Arity(t[p])
           P == K[p]
           S == {i \in 1 .. n + 1 : P[i] <= q}
<1>1. /\ t \in Seq(Lnodes) /\ K \in Places /\ p \in Nat /\ q \in Nat /\ n \in Nat
      /\ IsFunction(t[q]) /\ t[p] \in Lnodes
  BY SubtreeFacts DEF Grown
<1>2. \A i \in Nat : P[i] \in Int
  <2>1. P \in [Nat -> Int]
    BY <1>1 DEF Places
  <2> HIDE DEF P
  <2> QED  BY <2>1
<1>3. Made(t, K, p, n)
  BY DEF Grown
<1>4. 1 \in S
  <2>1. P[1] = p + Step(t[p]) /\ (Fn(t[p]).erc => t[p + 1] = ErcValue)
    BY <1>3 DEF Made
  <2>2. CASE Fn(t[p]).erc
    <3>1. q # p + 1
      BY <1>1, <2>1, <2>2, NoFunctions
    <3>2. Step(t[p]) = 2
      BY <2>2 DEF Step
    <3> HIDE DEF P, n
    <3> QED  BY <1>1, <2>1, <3>1, <3>2
  <2>3. CASE ~Fn(t[p]).erc
    <3>1. Step(t[p]) = 1
      BY <2>3 DEF Step
    <3> HIDE DEF P, n
    <3> QED  BY <1>1, <2>1, <3>1
  <2> QED  BY <2>2, <2>3
<1>5. PICK i \in S : \A j \in S : i >= j
  <2>1. S \in SUBSET Nat /\ S # {} /\ n + 1 \in Nat /\ \A j \in S : j <= n + 1
    BY <1>1, <1>4
  <2> HIDE DEF S
  <2> QED  BY <2>1, GreatestNumber
<1>6. q < P[n + 1]
  BY DEF End
<1> HIDE DEF P, n
<1>7. i \in 1 .. n /\ q < P[i + 1]
  <2>1. i # n + 1
    BY <1>1, <1>2, <1>6
  <2>2. i \in 1 .. n /\ i + 1 \in 1 .. n + 1 /\ ~(i >= i + 1)
    BY <1>1, <2>1
  <2>3. ~(P[i + 1] <= q)
    BY <1>5, <2>2
  <2> QED  BY <1>1, <1>2, <2>2, <2>3
<1>8. Kid(t, K, p, i) <= q
  <2>1. P[i] <= q /\ P[i] \in Int /\ Kid(t, K, p, i) = P[i] + Gap(t[p])
    BY <1>1, <1>2 DEF Kid, P
  <2>2. CASE Fn(t[p]).expr
    <3>1. t[P[i]] = Skip(K[p][i + 1] - Kid(t, K, p, i))
      BY <1>3, <1>7, <2>2 DEF Made, P
    <3>2. P[i] # q
      BY <1>1, <3>1, NoFunctions
    <3>3. Gap(t[p]) = 1
      BY <2>2 DEF Gap
    <3> QED  BY <1>1, <2>1, <3>2, <3>3
  <2>3. CASE ~Fn(t[p]).expr
    <3>1. Gap(t[p]) = 0
      BY <2>3 DEF Gap
    <3> QED  BY <2>1, <3>1
  <2> QED  BY <2>2, <2>3
<1> QED  BY <1>7, <1>8 DEF P, n

\* A place in front of q's subtree or behind it, seen from a node before q:
\* subtrees are nested or apart.
LEMMA Nested ==
  ASSUME NEW t, NEW K, NEW a, Grown(t, K, a), NEW p \in Subtrees(t), p >= a,
         NEW q \in Subtrees(t), p < q
  PROVE  /\ \A i \in 1 .. Arity(t[p]) + 1 : K[p][i] <= q \/ K[p][i] >= End(t, K, q)
         /\ \A i \in 1 .. Arity(t[p]) :
              /\ Kid(t, K, p, i) <= q => K[p][i] <= q
              /\ K[p][i] <= q => Kid(t, K, p, i) <= q
         /\ q < End(t, K, p) => End(t, K, q) <= End(t, K, p)
<1> DEFINE D == {r \in Subtrees(t) : a <= r /\ r < q}
           Apart(r) == \A i \in 1 .. Arity(t[r]) + 1 : K[r][i] <= q \/ K[r][i] >= End(t, K, q)
           S == {r \in D : Apart(r)}
<1>1. /\ t \in Seq(Lnodes) /\ K \in Places /\ a \in Nat /\ Len(t) \in Nat
      /\ Subtrees(t) \subseteq 1 .. Len(t) /\ IsFunction(t[q])
      /\ \A r \in Subtrees(t) : Arity(t[r]) \in Nat /\ r \in Nat
  BY SubtreeFacts DEF Grown
<1>2. \A r, i \in Nat : K[r][i] \in Int
  BY <1>1 DEF Places
<1>3. ASSUME NEW r \in D, \A u \in D : u > r => u \in S
      PROVE  r \in S
  <2> DEFINE n == Arity(t[r])
  <2>1. /\ n \in Nat /\ \A i \in 1 .. n + 1 : K[r][i] \in Int /\ K[r][i] <= End(t, K, r)
        /\ \A i \in 1 .. n : /\ K[r][i] <= Kid(t, K, r, i) /\ Kid(t, K, r, i) < K[r][i + 1]
                             /\ \A j \in i + 1 .. n + 1 : K[r][i] < K[r][j]
                             /\ r < K[r][i]
        /\ End(t, K, r) = K[r][n + 1]
    <3>1. r \in Subtrees(t) /\ r >= a
      BY <1>1
    <3>2. n \in Nat /\ \A i \in 1 .. n + 1 : K[r][i] \in Int
      BY <1>1, <1>2
    <3>3. \A i \in 1 .. n : i \in 1 .. n + 1
      BY <3>2
    <3> QED  BY <3>1, <3>2, <3>3, Order DEF End
  <2>2. CASE End(t, K, r) <= q
    <3>1. n + 1 \in 1 .. n + 1
      BY <2>1
    <3> QED  BY SMTT(30), <1>1, <2>1, <2>2, <3>1
  <2>3. CASE q < End(t, K, r)
    <3>1. PICK i \in 1 .. n : Kid(t, K, r, i) <= q /\ q < K[r][i + 1]
      BY <1>1, <2>3, Inside
    <3> DEFINE c == Kid(t, K, r, i)
    <3>2. c \in Subtrees(t) /\ K[r][i + 1] = End(t, K, c)
      <4>1. Made(t, K, r, n)
        BY <1>1 DEF Grown
      <4> QED  BY <4>1 DEF Made
    <3>3. r < c /\ c \in Nat /\ i \in Nat /\ i \in 1 .. n + 1 /\ i + 1 \in 1 .. n + 1
      <4>1. i \in Nat /\ i \in 1 .. n + 1 /\ i + 1 \in 1 .. n + 1
        BY <2>1
      <4>2. K[r][i] \in Int /\ r < K[r][i] /\ K[r][i] <= c /\ r \in Int /\ c \in Nat
        BY <1>1, <2>1, <3>2, <4>1
      <4> HIDE DEF c
      <4> QED  BY <4>1, <4>2
    <3>4. K[r][i + 1] >= End(t, K, q)
      <4>1. CASE c = q
        BY <2>1, <3>2, <3>3, <4>1
      <4>2. CASE c # q
        <5>1. c \in S
          BY SMTT(30), <1>1, <1>3, <3>1, <3>2, <3>3, <4>2
        <5>2. Arity(t[c]) + 1 \in 1 .. Arity(t[c]) + 1
          BY SMTT(30), <1>1, <3>2
        <5>3. End(t, K, c) <= q \/ End(t, K, c) >= End(t, K, q)
          BY <5>1, <5>2 DEF End
        <5>4. K[r][i + 1] \in Int /\ q < K[r][i + 1] /\ q \in Int
          BY <1>1, <2>1, <3>1, <3>3
        <5> HIDE DEF c
        <5> QED  BY <3>2, <5>3, <5>4
      <4> QED  BY <4>1, <4>2
    <3>5. End(t, K, q) \in Int /\ q \in Int
      BY <1>1, <1>2 DEF End
    <3>6. ASSUME NEW j \in 1 .. n + 1
          PROVE  K[r][j] <= q \/ K[r][j] >= End(t, K, q)
      <4>1. CASE j <= i
        <5>1. K[r][j] <= K[r][i]
          <6>1. CASE j = i
            BY <2>1, <3>3, <6>1
          <6>2. CASE j # i
            <7>1. j \in 1 .. n /\ i \in j + 1 .. n + 1
              BY <2>1, <3>3, <4>1, <6>2
            <7>2. K[r][j] < K[r][i] /\ K[r][j] \in Int /\ K[r][i] \in Int
              BY <2>1, <3>3, <7>1
            <7> QED  BY <7>2
          <6> QED  BY <6>1, <6>2
        <5>2. K[r][i] <= c /\ c <= q /\ K[r][j] \in Int /\ K[r][i] \in Int /\ c \in Int
          BY <2>1, <3>1, <3>3
        <5> HIDE DEF c
        <5> QED  BY <3>5, <5>1, <5>2
      <4>2. CASE j = i + 1
        BY <3>4, <4>2
      <4>3. CASE j > i + 1
        <5>1. i + 1 \in 1 .. n /\ j \in (i + 1) + 1 .. n + 1
          BY <2>1, <3>3, <4>3
        <5>2. K[r][i + 1] < K[r][j] /\ K[r][i + 1] \in Int /\ K[r][j] \in Int
          BY <2>1, <3>3, <5>1
        <5> QED  BY <3>4, <3>5, <5>2
      <4> QED  BY <2>1, <3>3, <4>1, <4>2, <4>3
    <3> QED  BY <3>6
  <2> QED  BY <1>1, <1>2, <2>1, <2>2, <2>3
<1>4. p \in S
  <2>1. D \in SUBSET Nat /\ Len(t) \in Nat /\ (\A r \in D : r <= Len(t)) /\ p \in D
    BY <1>1
  <2> HIDE DEF D, S
  <2>2. D \subseteq S
    BY <1>3, <2>1, FromBehind
  <2> QED  BY <2>1, <2>2
<1>5. Apart(p)
  BY <1>4
<1>6. q < End(t, K, p) => End(t, K, q) <= End(t, K, p)
  <2>1. Arity(t[p]) + 1 \in 1 .. Arity(t[p]) + 1 /\ Arity(t[p]) + 1 \in Nat
    BY <1>1
  <2>2. End(t, K, p) <= q \/ End(t, K, p) >= End(t, K, q)
    BY <1>5, <2>1 DEF End
  <2>3. End(t, K, p) \in Int /\ End(t, K, q) \in Int /\ q \in Int
    BY <1>1, <1>2, <2>1 DEF End
  <2> QED  BY <2>2, <2>3
<1>7. ASSUME NEW i \in 1 .. Arity(t[p])
      PROVE  /\ Kid(t, K, p, i) <= q => K[p][i] <= q
             /\ K[p][i] <= q => Kid(t, K, p, i) <= q
  <2>1. Made(t, K, p, Arity(t[p])) /\ i \in Nat
    BY <1>1 DEF Grown
  <2>2. K[p][i] \in Int /\ Kid(t, K, p, i) = K[p][i] + Gap(t[p])
    BY <1>1, <1>2, <2>1 DEF Kid
  <2>3. CASE Fn(t[p]).expr
    <3>1. t[K[p][i]] = Skip(K[p][i + 1] - Kid(t, K, p, i))
      BY <2>1, <2>3 DEF Made
    <3>2. K[p][i] # q
      BY <1>1, <3>1, NoFunctions
    <3>3. Gap(t[p]) = 1
      BY <2>3 DEF Gap
    <3> QED  BY <1>1, <2>2, <3>2, <3>3
  <2>4. CASE ~Fn(t[p]).expr
    <3>1. Gap(t[p]) = 0
      BY <2>4 DEF Gap
    <3> QED  BY <2>2, <3>1
  <2> QED  BY <2>3, <2>4
<1> QED  BY <1>5, <1>6, <1>7

\* u has what t has from p to the end of its subtree, o lnodes farther on, and M
\* the places of it.
Moved(t, K, p, u, M, o) ==
  /\ \A q \in p .. End(t, K, p) - 1 : q + o \in DOMAIN u /\ u[q + o] = t[q]
  /\ \A q \in Subtrees(t) : p <= q /\ q < End(t, K, p) =>
       \A i \in 1 .. Arity(t[q]) + 1 : M[q + o][i] = K[q][i] + o

\* A subtree that moves as a whole stays one.
LEMMA MovedFacts ==
  ASSUME NEW t, NEW K, NEW a, Grown(t, K, a), NEW p \in Subtrees(t), p >= a,
         NEW u \in Seq(Lnodes), NEW M, NEW o \in Int, Moved(t, K, p, u, M, o)
  PROVE  /\ p + o \in Subtrees(u) /\ u[p + o] = t[p]
         /\ Made(u, M, p + o, Arity(u[p + o]))
         /\ End(u, M, p + o) = End(t, K, p) + o
<1> DEFINE n == Arity(t[p])
           P == K[p]
           Q == M[p + o]
           e == End(t, K, p)
<1>1. /\ t \in Seq(Lnodes) /\ K \in Places /\ a \in Nat /\ n \in Nat
      /\ \A r \in Subtrees(t) : r \in Nat /\ IsFunction(t[r]) /\ Arity(t[r]) \in Nat
      /\ \A r \in DOMAIN t : r \in Nat
      /\ t[p] \in Lnodes
  BY SubtreeFacts DEF Grown
<1>2. \A r, i \in Nat : K[r][i] \in Int
  BY <1>1 DEF Places
<1>3. \A i \in 1 .. n + 1 : i \in Nat /\ P[i] \in Int /\ Q[i] = P[i] + o
  <2>1. p <= p /\ p < e /\ p \in Nat
    BY <1>1, Order
  <2> QED  BY <1>1, <1>2, <2>1 DEF Moved
<1>4. /\ p \in Nat /\ e \in Int /\ p < e
      /\ \A i \in 1 .. n + 1 : p < P[i] /\ P[i] <= e
      /\ \A i \in 1 .. n : P[i] <= Kid(t, K, p, i) /\ Kid(t, K, p, i) < P[i + 1]
  <2>1. n + 1 \in Nat
    BY <1>1
  <2> QED  BY <1>1, <1>2, <2>1, Order DEF End
<1>5. /\ P[1] = p + Step(t[p])
      /\ Fn(t[p]).erc => p + 1 \in DOMAIN t /\ t[p + 1] = ErcValue
      /\ \A i \in 1 .. n :
           /\ Kid(t, K, p, i) \in Subtrees(t)
           /\ Fn(t[Kid(t, K, p, i)]).ret = Fn(t[p]).args[i]
           /\ P[i + 1] = End(t, K, Kid(t, K, p, i))
           /\ Fn(t[p]).expr => t[P[i]] = Skip(P[i + 1] - Kid(t, K, p, i))
  <2>1. Made(t, K, p, n)
    BY <1>1 DEF Grown
  <2> QED  BY <2>1 DEF Made
<1>6. \A q \in Int : p <= q /\ q < e => q + o \in DOMAIN u /\ u[q + o] = t[q]
  <2>1. \A q \in Int : p <= q /\ q < e => q \in p .. e - 1
    BY <1>4
  <2> QED  BY <2>1 DEF Moved
<1>7. u[p + o] = t[p] /\ p + o \in Subtrees(u)
  BY <1>1, <1>4, <1>6 DEF Subtrees
<1>8. Q[1] = p + o + Step(t[p])
  <2>1. 1 \in 1 .. n + 1 /\ Step(t[p]) \in Int
    BY <1>1 DEF Step
  <2> HIDE DEF P, Q
  <2> QED  BY <1>3, <1>4, <1>5, <2>1 DEF P, Q
<1>9. Fn(t[p]).erc => p + o + 1 \in DOMAIN u /\ u[p + o + 1] = ErcValue
  <2> SUFFICES ASSUME Fn(t[p]).erc PROVE p + o + 1 \in DOMAIN u /\ u[p + o + 1] = ErcValue
    OBVIOUS
  <2>1. Step(t[p]) = 2 /\ 1 \in 1 .. n + 1
    BY <1>1 DEF Step
  <2>2. P[1] = p + 2 /\ P[1] <= e
    BY <1>4, <1>5, <2>1
  <2> HIDE DEF P, Q, n, e
  <2>3. (p + 1) + o \in DOMAIN u /\ u[(p + 1) + o] = t[p + 1]
    BY <1>4, <1>6, <2>2
  <2>4. (p + 1) + o = p + o + 1
    BY <1>4
  <2> QED  BY <1>5, <2>3, <2>4
<1>10. ASSUME NEW i \in 1 .. n
       PROVE  LET c == Kid(u, M, p + o, i)
              IN /\ c \in Subtrees(u)
                 /\ Fn(u[c]).ret = Fn(t[p]).args[i]
                 /\ Q[i + 1] = End(u, M, c)
                 /\ Fn(t[p]).expr => u[Q[i]] = Skip(Q[i + 1] - c)
  <2> DEFINE b == Kid(t, K, p, i)
             c == Kid(u, M, p + o, i)
  <2>1. i \in 1 .. n + 1 /\ i + 1 \in 1 .. n + 1 /\ i \in Nat
    BY <1>1
  <2>2. P[i] \in Int /\ P[i + 1] \in Int /\ Q[i] = P[i] + o /\ Q[i + 1] = P[i + 1] + o
    BY <1>3, <2>1
  <2>3. c = Q[i] + Gap(t[p]) /\ b = P[i] + Gap(t[p]) /\ Gap(t[p]) \in Int
    BY <1>7 DEF Kid, Gap
  <2> HIDE DEF P, Q, n, e, b, c
  <2>4. c = b + o /\ b \in Int
    BY <2>2, <2>3
  <2>5. p < P[i] /\ P[i] <= b /\ b < P[i + 1] /\ P[i + 1] <= e
    BY <1>4, <2>1 DEF b
  <2>6. p <= b /\ b < e /\ p <= P[i] /\ P[i] < e
    BY <1>4, <2>2, <2>4, <2>5
  <2>7. c \in DOMAIN u /\ u[c] = t[b] /\ u[Q[i]] = t[P[i]]
    BY <1>6, <2>2, <2>4, <2>6
  <2>8. /\ b \in Subtrees(t) /\ Fn(t[b]).ret = Fn(t[p]).args[i] /\ P[i + 1] = End(t, K, b)
        /\ Fn(t[p]).expr => t[P[i]] = Skip(P[i + 1] - b)
    BY <1>5 DEF b
  <2>9. c \in Subtrees(u)
    BY <1>1, <2>7, <2>8 DEF Subtrees
  <2>10. End(u, M, c) = End(t, K, b) + o
    <3>1. Arity(t[b]) + 1 \in 1 .. Arity(t[b]) + 1
      BY <1>1, <2>8
    <3>2. M[b + o][Arity(t[b]) + 1] = K[b][Arity(t[b]) + 1] + o
      BY <2>6, <2>8, <3>1 DEF Moved, e
    <3> QED  BY <2>4, <2>7, <3>2 DEF End
  <2>11. Q[i + 1] = End(u, M, c) /\ Q[i + 1] - c = P[i + 1] - b
    BY <2>2, <2>4, <2>8, <2>10
  <2> QED  BY <2>7, <2>8, <2>9, <2>11 DEF c
<1>11. Made(u, M, p + o, n)
  BY <1>7, <1>8, <1>9, <1>10 DEF Made
<1>12. End(u, M, p + o) = e + o
  <2>1. n + 1 \in 1 .. n + 1
    BY <1>1
  <2> QED  BY <1>3, <1>7, <2>1 DEF End
<1> QED  BY <1>7, <1>11, <1>12

\* What is known of a node and its children.
LEMMA KidFacts ==
  ASSUME NEW t, NEW K, NEW a, Grown(t, K, a), NEW p \in Subtrees(t), p >= a
  PROVE  /\ Arity(t[p]) \in Nat /\ p \in Nat /\ End(t, K, p) \in Nat /\ p < End(t, K, p)
         /\ End(t, K, p) <= Len(t) + 1
         /\ K[p][1] = p + Step(t[p])
         /\ Arity(t[p]) = 0 => End(t, K, p) = p + Step(t[p])
         /\ \A i \in 1 .. Arity(t[p]) + 1 : K[p][i] \in Nat /\ p < K[p][i]
         /\ \A i \in 1 .. Arity(t[p]) :
              LET c == Kid(t, K, p, i)
              IN /\ c \in Subtrees(t) /\ c \in Nat /\ c >= a /\ c = K[p][i] + Gap(t[p])
                 /\ p < K[p][i] /\ K[p][i] <= c /\ c < K[p][i + 1]
                 /\ K[p][i + 1] = End(t, K, c) /\ K[p][i + 1] <= End(t, K, p)
                 /\ Fn(t[c]).ret = Fn(t[p]).args[i]
                 /\ Fn(t[p]).expr => t[K[p][i]] = Skip(K[p][i + 1] - c)
                 /\ \A j \in 1 .. Arity(t[p]) : j < i => K[p][j + 1] <= K[p][i]
<1> DEFINE n == Arity(t[p])
           P == K[p]
<1>1. /\ t \in Seq(Lnodes) /\ K \in Places /\ a \in Nat /\ n \in Nat /\ p \in Nat
      /\ \A r \in Subtrees(t) : r \in Nat
  BY SubtreeFacts DEF Grown
<1>2. \A i \in Nat : P[i] \in Int
  BY <1>1 DEF Places
<1>3. \A i \in 1 .. n + 1 : P[i] \in Int /\ p < P[i] /\ P[i] <= End(t, K, p)
  BY <1>1, <1>2, Order
<1>4. \A i \in 1 .. n : i \in 1 .. n + 1 /\ i + 1 \in 1 .. n + 1
  BY <1>1
<1>5. End(t, K, p) = P[n + 1] /\ End(t, K, p) \in Int /\ p < End(t, K, p)
  BY <1>1, <1>2, Order DEF End
<1>6. Made(t, K, p, n)
  BY DEF Grown
<1>7. P[1] = p + Step(t[p])
  BY <1>6 DEF Made
<1>8. \A i \in 1 .. n + 1 : P[i] \in Nat
  <2> HIDE DEF P, n
  <2> QED  BY <1>1, <1>3
<1>9. ASSUME NEW i \in 1 .. n
      PROVE  LET c == Kid(t, K, p, i)
             IN /\ c \in Subtrees(t) /\ c \in Nat /\ c >= a /\ c = P[i] + Gap(t[p])
                /\ p < P[i] /\ P[i] <= c /\ c < P[i + 1]
                /\ P[i + 1] = End(t, K, c) /\ P[i + 1] <= End(t, K, p)
                /\ Fn(t[c]).ret = Fn(t[p]).args[i]
                /\ Fn(t[p]).expr => t[P[i]] = Skip(P[i + 1] - c)
                /\ \A j \in 1 .. n : j < i => P[j + 1] <= P[i]
  <2> DEFINE c == Kid(t, K, p, i)
  <2>1. /\ c \in Subtrees(t) /\ Fn(t[c]).ret = Fn(t[p]).args[i] /\ P[i + 1] = End(t, K, c)
        /\ Fn(t[p]).expr => t[P[i]] = Skip(P[i + 1] - c)
    BY <1>6 DEF Made
  <2>2. P[i] <= c /\ c < P[i + 1] /\ c = P[i] + Gap(t[p])
    BY Order DEF Kid
  <2>3. \A j \in 1 .. n : j < i => P[j + 1] <= P[i]
    <3> SUFFICES ASSUME NEW j \in 1 .. n, j < i PROVE P[j + 1] <= P[i]
      OBVIOUS
    <3>1. CASE j + 1 = i
      BY <1>3, <1>4, <3>1
    <3>2. CASE j + 1 # i
      <4>1. j + 1 \in 1 .. n /\ i \in (j + 1) + 1 .. n + 1
        BY <1>1, <3>2
      <4>2. P[j + 1] < P[i] /\ P[j + 1] \in Int /\ P[i] \in Int
        BY <1>3, <1>4, <4>1, Order
      <4> QED  BY <4>2
    <3> QED  BY <3>1, <3>2
  <2>4. p < P[i] /\ P[i] \in Nat /\ P[i + 1] <= End(t, K, p) /\ c \in Nat
    BY <1>1, <1>3, <1>4, <1>8, <2>1
  <2> HIDE DEF c
  <2>5. c >= a
    BY <1>1, <2>2, <2>4
  <2> HIDE DEF P
  <2>6. /\ c \in Subtrees(t) /\ c \in Nat /\ c >= a /\ c = P[i] + Gap(t[p])
        /\ p < P[i] /\ P[i] <= c /\ c < P[i + 1]
        /\ P[i + 1] = End(t, K, c) /\ P[i + 1] <= End(t, K, p)
        /\ Fn(t[c]).ret = Fn(t[p]).args[i]
        /\ Fn(t[p]).expr => t[P[i]] = Skip(P[i + 1] - c)
    BY <2>1, <2>2, <2>4, <2>5
  <2> QED  BY <2>3, <2>6 DEF c
<1>10. End(t, K, p) \in Nat /\ (n = 0 => End(t, K, p) = p + Step(t[p]))
  <2>1. End(t, K, p) \in Nat
    <3> HIDE DEF P, n
    <3> QED  BY <1>1, <1>5
  <2> QED  BY <1>5, <1>7, <2>1
<1>11. End(t, K, p) <= Len(t) + 1
  BY Order
<1> QED  BY <1>1, <1>3, <1>5, <1>7, <1>8, <1>9, <1>10, <1>11

\* The nodes of the subtree at p, and those of them that q is inside of.
Within(t, K, p) == {q \in Subtrees(t) : p <= q /\ q < End(t, K, p)}
Above(t, K, p, q) == {r \in Subtrees(t) : p <= r /\ r < q /\ q < End(t, K, r)}

\* Subtrees of an array are finite.
LEMMA Finite ==
  ASSUME NEW t \in Seq(Lnodes), NEW X \in SUBSET Subtrees(t)
  PROVE  IsFiniteSet(X) /\ Cardinality(X) \in Nat
<1>1. X \subseteq 1 .. Len(t) /\ Len(t) \in Nat
  BY SubtreeFacts
<1>2. IsFiniteSet(1 .. Len(t))
  BY <1>1, FS_Interval
<1> QED  BY <1>1, <1>2, FS_Subset, FS_CardinalityType

\* A node other than p is within one child of p; those of a child are within p.
LEMMA WithinKids ==
  ASSUME NEW t, NEW K, NEW a, Grown(t, K, a), NEW p \in Subtrees(t), p >= a
  PROVE  /\ p \in Within(t, K, p)
         /\ \A q \in Within(t, K, p) : q # p =>
              \E i \in 1 .. Arity(t[p]) : q \in Within(t, K, Kid(t, K, p, i))
         /\ \A i \in 1 .. Arity(t[p]) : \A q \in Within(t, K, Kid(t, K, p, i)) :
              q \in Within(t, K, p) /\ q # p /\ q >= K[p][i] /\ q < K[p][i + 1]
<1>1. /\ p \in Nat /\ End(t, K, p) \in Nat /\ p < End(t, K, p)
      /\ \A q \in Subtrees(t) : q \in Nat
  <2>1. t \in Seq(Lnodes)
    BY DEF Grown
  <2> QED  BY <2>1, KidFacts, SubtreeFacts
<1>2. p \in Within(t, K, p)
  BY <1>1 DEF Within
<1>3. ASSUME NEW q \in Within(t, K, p), q # p
      PROVE  \E i \in 1 .. Arity(t[p]) : q \in Within(t, K, Kid(t, K, p, i))
  <2>1. q \in Subtrees(t) /\ p < q /\ q < End(t, K, p)
    BY <1>1, <1>3 DEF Within
  <2>2. PICK i \in 1 .. Arity(t[p]) : Kid(t, K, p, i) <= q /\ q < K[p][i + 1]
    BY <2>1, Inside
  <2>3. K[p][i + 1] = End(t, K, Kid(t, K, p, i))
    BY KidFacts
  <2> QED  BY <2>1, <2>2, <2>3 DEF Within
<1>4. ASSUME NEW i \in 1 .. Arity(t[p]), NEW q \in Within(t, K, Kid(t, K, p, i))
      PROVE  q \in Within(t, K, p) /\ q # p /\ q >= K[p][i] /\ q < K[p][i + 1]
  <2> DEFINE c == Kid(t, K, p, i)
  <2>1. /\ p < K[p][i] /\ K[p][i] <= c /\ c \in Nat /\ K[p][i + 1] = End(t, K, c)
        /\ K[p][i + 1] <= End(t, K, p)
    BY KidFacts
  <2>2. /\ K[p][i] \in Nat /\ K[p][i + 1] \in Nat
    <3>1. i \in 1 .. Arity(t[p]) + 1 /\ i + 1 \in 1 .. Arity(t[p]) + 1
      BY KidFacts
    <3> QED  BY <3>1, KidFacts
  <2>3. q \in Subtrees(t) /\ c <= q /\ q < End(t, K, c)
    BY DEF Within
  <2> HIDE DEF c
  <2> QED  BY <1>1, <2>1, <2>2, <2>3 DEF Within
<1> QED  BY <1>2, <1>3, <1>4

\* Counting nodes child by child.
LEMMA CountKids ==
  ASSUME NEW t, NEW K, NEW a, Grown(t, K, a), NEW p \in Subtrees(t), p >= a,
         NEW X \in SUBSET Subtrees(t)
  PROVE  /\ SumFunction([i \in 1 .. Arity(t[p]) |->
                           Cardinality(X \cap Within(t, K, Kid(t, K, p, i)))])
            = Cardinality((X \cap Within(t, K, p)) \ {p})
<1> DEFINE n == Arity(t[p])
           P == K[p]
           W(i) == X \cap Within(t, K, Kid(t, K, p, i))
           V(i) == {q \in X \cap Within(t, K, p) : q # p /\ q < P[i + 1]}
           g == [i \in 1 .. n |-> Cardinality(W(i))]
           C == [i \in 0 .. n |-> Cardinality(V(i))]
<1>1. /\ n \in Nat /\ t \in Seq(Lnodes) /\ \A q \in X : q \in Nat
      /\ \A i \in 1 .. n + 1 : P[i] \in Nat
      /\ P[n + 1] = End(t, K, p)
      /\ \A i \in 1 .. n : P[i] < P[i + 1] /\ \A j \in 1 .. n : j < i => P[j + 1] <= P[i]
  <2>1. n \in Nat /\ t \in Seq(Lnodes) /\ \A q \in X : q \in Nat
    BY KidFacts, SubtreeFacts DEF Grown
  <2>2. \A i \in 1 .. n + 1 : P[i] \in Nat
    BY KidFacts
  <2>3. \A i \in 1 .. n : P[i] < P[i + 1]
    <3> TAKE i \in 1 .. n
    <3>1. P[i] \in Nat /\ P[i + 1] \in Nat
      BY <2>1, <2>2
    <3>2. P[i] <= Kid(t, K, p, i) /\ Kid(t, K, p, i) < P[i + 1] /\ Kid(t, K, p, i) \in Nat
      BY KidFacts
    <3> HIDE DEF P
    <3> QED  BY <3>1, <3>2
  <2> QED  BY <2>1, <2>2, <2>3, KidFacts DEF End
<1>2. \A q \in X : q \in Within(t, K, p) /\ q # p => \E i \in 1 .. n : q \in W(i)
  BY WithinKids
<1>3. \A i \in 1 .. n : \A q \in W(i) :
        q \in X /\ q \in Within(t, K, p) /\ q # p /\ q >= P[i] /\ q < P[i + 1]
  BY WithinKids
<1>4. \A i \in 1 .. n : IsFiniteSet(W(i)) /\ Cardinality(W(i)) \in Nat
  <2> TAKE i \in 1 .. n
  <2>1. W(i) \in SUBSET Subtrees(t)
    OBVIOUS
  <2> HIDE DEF W
  <2> QED  BY <1>1, <2>1, Finite
<1>5. \A i \in 0 .. n : IsFiniteSet(V(i)) /\ Cardinality(V(i)) \in Nat
  <2> TAKE i \in 0 .. n
  <2>1. V(i) \in SUBSET Subtrees(t)
    OBVIOUS
  <2> HIDE DEF V
  <2> QED  BY <1>1, <2>1, Finite
<1>6. V(n) = (X \cap Within(t, K, p)) \ {p}
  BY <1>1 DEF Within
<1> HIDE DEF W, n, P
<1>7. V(0) = {}
  <2> SUFFICES ASSUME NEW q \in X, q \in Within(t, K, p), q # p, q < P[1] PROVE FALSE
    OBVIOUS
  <2>1. PICK i \in 1 .. n : q \in W(i)
    BY <1>2
  <2>2. q >= P[i]
    BY <1>3, <2>1
  <2>3. P[1] <= P[i]
    <3>1. CASE i = 1
      BY <1>1, <3>1
    <3>2. CASE i # 1
      <4>1. 1 \in 1 .. n /\ 1 < i /\ 1 \in 1 .. n + 1 /\ 1 + 1 \in 1 .. n + 1 /\ i \in 1 .. n + 1
        BY <1>1, <3>2
      <4>2. P[1] < P[1 + 1] /\ P[1 + 1] <= P[i]
        BY <1>1, <4>1
      <4> QED  BY <1>1, <4>1, <4>2
    <3> QED  BY <3>1, <3>2
  <2>4. i \in 1 .. n + 1 /\ 1 \in 1 .. n + 1
    BY <1>1
  <2>5. P[1] \in Nat /\ P[i] \in Nat /\ q \in Nat
    BY <1>1, <2>4
  <2> QED  BY <2>2, <2>3, <2>5
<1>8. ASSUME NEW i \in 1 .. n
      PROVE  V(i) = V(i - 1) \cup W(i) /\ V(i - 1) \cap W(i) = {}
  <2>1. i - 1 + 1 = i /\ i \in 1 .. n + 1 /\ i + 1 \in 1 .. n + 1
    BY <1>1
  <2>2. P[i] \in Nat /\ P[i + 1] \in Nat /\ P[i] < P[i + 1]
    BY <1>1, <2>1
  <2>3. ASSUME NEW q \in V(i) PROVE q \in V(i - 1) \cup W(i)
    <3>1. q \in X /\ q \in Within(t, K, p) /\ q # p /\ q < P[i + 1] /\ q \in Nat
      BY <1>1, <2>3
    <3>2. PICK j \in 1 .. n : q \in W(j)
      BY <1>2, <3>1
    <3>3. q >= P[j] /\ q < P[j + 1] /\ j \in 1 .. n + 1 /\ j + 1 \in 1 .. n + 1
      BY <1>1, <1>3, <3>2
    <3>4. P[j] \in Nat /\ P[j + 1] \in Nat
      BY <1>1, <3>3
    <3>5. CASE j = i
      BY <3>2, <3>5
    <3>6. CASE j < i
      <4>1. P[j + 1] <= P[i]
        BY <1>1, <3>6
      <4>2. q < P[i]
        BY <2>2, <3>1, <3>3, <3>4, <4>1
      <4> QED  BY <2>1, <3>1, <4>2
    <3>7. CASE j > i
      <4>1. P[i + 1] <= P[j]
        BY <1>1, <3>7
      <4> QED  BY <2>2, <3>1, <3>3, <3>4, <4>1
    <3> QED  BY <3>5, <3>6, <3>7
  <2>4. ASSUME NEW q \in V(i - 1) PROVE q \in V(i) /\ q \notin W(i)
    <3>1. q \in X /\ q \in Within(t, K, p) /\ q # p /\ q < P[i] /\ q \in Nat
      BY <1>1, <2>1, <2>4
    <3> QED  BY <1>3, <2>2, <3>1
  <2>5. ASSUME NEW q \in W(i) PROVE q \in V(i)
    BY <1>3, <2>5
  <2> HIDE DEF V
  <2> QED  BY <2>3, <2>4, <2>5
<1>9. C \in [0 .. n -> Nat] /\ g \in [1 .. n -> Nat]
  BY <1>4, <1>5
<1>10. C[0] = 0
  <2>1. 0 \in 0 .. n
    BY <1>1
  <2> HIDE DEF V
  <2> QED  BY <1>7, <2>1, FS_EmptySet
<1>11. \A i \in 1 .. n : C[i] = C[i - 1] + g[i]
  <2> TAKE i \in 1 .. n
  <2>1. i \in 0 .. n /\ i - 1 \in 0 .. n
    BY <1>1
  <2>2. C[i] = Cardinality(V(i)) /\ C[i - 1] = Cardinality(V(i - 1)) /\ g[i] = Cardinality(W(i))
    BY <2>1
  <2>3. IsFiniteSet(V(i - 1)) /\ IsFiniteSet(W(i))
    BY <1>4, <1>5, <2>1
  <2> HIDE DEF V, C, g
  <2>4. Cardinality(V(i)) = Cardinality(V(i - 1)) + Cardinality(W(i))
    BY <1>8, <2>3, TwoParts
  <2> QED  BY <2>2, <2>4
<1>12. SumFunction(g) = C[n]
  <2> HIDE DEF g, C
  <2> QED  BY <1>1, <1>9, <1>10, <1>11, SumSteps
<1>13. C[n] = Cardinality((X \cap Within(t, K, p)) \ {p})
  <2>1. n \in 0 .. n
    BY <1>1
  <2> QED  BY <1>6, <2>1
<1> QED  BY <1>12, <1>13 DEF n, W

\* Inside a child a node is inside of the parent, and what it is inside of there.
LEMMA AboveKid ==
  ASSUME NEW t, NEW K, NEW a, Grown(t, K, a), NEW p \in Subtrees(t), p >= a,
         NEW i \in 1 .. Arity(t[p]), NEW q \in Within(t, K, Kid(t, K, p, i))
  PROVE  /\ Above(t, K, p, q) = {p} \cup Above(t, K, Kid(t, K, p, i), q)
         /\ p \notin Above(t, K, Kid(t, K, p, i), q)
<1> DEFINE c == Kid(t, K, p, i)
           n == Arity(t[p])
<1>1. /\ t \in Seq(Lnodes) /\ a \in Nat /\ p \in Nat /\ n \in Nat
      /\ \A r \in Subtrees(t) : r \in Nat
  BY KidFacts, SubtreeFacts DEF Grown
<1>2. /\ c \in Subtrees(t) /\ c \in Nat /\ c >= a /\ p < K[p][i] /\ K[p][i] <= c
      /\ K[p][i + 1] = End(t, K, c) /\ K[p][i + 1] <= End(t, K, p)
  BY KidFacts
<1>3. K[p][i] \in Nat /\ End(t, K, c) \in Nat /\ End(t, K, p) \in Nat
  <2>1. i \in 1 .. n + 1
    BY <1>1
  <2>2. End(t, K, p) \in Nat /\ K[p][i] \in Nat
    BY <2>1, KidFacts
  <2> HIDE DEF c
  <2>3. End(t, K, c) \in Nat
    BY <1>2, KidFacts
  <2> QED  BY <2>2, <2>3
<1>4. q \in Subtrees(t) /\ q \in Nat /\ c <= q /\ q < End(t, K, c)
  BY <1>1 DEF Within
<1>10. \A x, y \in 1 .. n : y < x => K[p][y + 1] <= K[p][x]
  BY KidFacts
<1>5. p < c
  <2> HIDE DEF c
  <2> QED  BY <1>1, <1>2, <1>3
<1>6. p \in Above(t, K, p, q)
  <2> HIDE DEF c
  <2> QED  BY <1>1, <1>2, <1>3, <1>4, <1>5 DEF Above
<1>7. p \notin Above(t, K, c, q)
  <2> HIDE DEF c
  <2> QED  BY <1>1, <1>2, <1>5 DEF Above
<1>8. ASSUME NEW r \in Above(t, K, c, q) PROVE r \in Above(t, K, p, q)
  <2> HIDE DEF c
  <2> QED  BY <1>1, <1>2, <1>5, <1>8 DEF Above
<1>9. ASSUME NEW r \in Above(t, K, p, q), r # p PROVE r \in Above(t, K, c, q)
  <2>1. r \in Subtrees(t) /\ r \in Nat /\ p < r /\ r < q /\ q < End(t, K, r)
    BY <1>1, <1>9 DEF Above
  <2>2. r >= c
    <3> SUFFICES ASSUME r < c PROVE FALSE
      BY <1>2, <2>1
    <3>1. r < End(t, K, p)
      <4> HIDE DEF c
      <4> QED  BY <1>2, <1>3, <1>4, <2>1
    <3>2. PICK j \in 1 .. n : Kid(t, K, p, j) <= r /\ r < K[p][j + 1]
      BY <2>1, <3>1, Inside
    <3> DEFINE b == Kid(t, K, p, j)
    <3>3. b \in Subtrees(t) /\ b \in Nat /\ b >= a /\ p < K[p][j] /\ K[p][j] <= b
          /\ K[p][j + 1] = End(t, K, b)
      BY KidFacts
    <3>4. K[p][j] \in Nat /\ K[p][j + 1] \in Nat /\ End(t, K, r) \in Nat
      <4>1. j \in 1 .. n + 1 /\ j + 1 \in 1 .. n + 1 /\ r >= a
        BY <1>1, <2>1
      <4> QED  BY <2>1, <4>1, KidFacts
    <3>5. j < i
      <4> SUFFICES ASSUME j > i PROVE FALSE
        <5>1. Kid(t, K, p, j) # Kid(t, K, p, i)
          BY <1>2, <2>1, <3>2
        <5>2. j # i
          BY <5>1
        <5>3. j \in Nat /\ i \in Nat
          BY <1>1
        <5> QED  BY <5>2, <5>3
      <4>1. K[p][i + 1] <= K[p][j]
        BY <1>10
      <4> HIDE DEF c, b
      <4>2. b <= r
        BY <3>2 DEF b
      <4> QED  BY <1>2, <1>3, <1>4, <2>1, <3>3, <3>4, <4>1, <4>2
    <3>6. K[p][j + 1] <= K[p][i]
      BY <3>5, KidFacts
    <3>7. End(t, K, r) <= K[p][j + 1]
      <4>0. b <= r /\ r < K[p][j + 1]
        BY <3>2
      <4> HIDE DEF b
      <4>1. CASE b = r
        BY <3>3, <3>4, <4>1
      <4>2. CASE b # r
        <5>1. b < r /\ r < End(t, K, b)
          BY <2>1, <3>3, <4>0, <4>2
        <5> QED  BY <2>1, <3>3, <5>1, Nested
      <4> QED  BY <4>1, <4>2
    <3> HIDE DEF c, b
    <3> QED  BY <1>2, <1>3, <1>4, <2>1, <3>4, <3>6, <3>7
  <2> HIDE DEF c
  <2> QED  BY <2>1, <2>2 DEF Above
<1> QED  BY <1>6, <1>7, <1>8, <1>9

\* How deep the tree below p goes: the greatest number of nodes that one is inside of.
Depths(t, K, p) == {Cardinality(Above(t, K, p, q)) : q \in Within(t, K, p)}

\* A greatest member is the greatest one.
LEMMA GreatestIs ==
  ASSUME NEW S \in SUBSET Nat, NEW m \in S, \A y \in S : y <= m
  PROVE  Max(S) = m
<1>1. \A y \in S : m >= y
  OBVIOUS
<1>2. \A x \in S : (\A y \in S : x >= y) => x = m
  BY <1>1
<1> QED  BY <1>1, <1>2 DEF Max

\* The depth exists, and is one more than the greatest of the children's.
LEMMA DepthFacts ==
  ASSUME NEW t, NEW K, NEW a, Grown(t, K, a), NEW p \in Subtrees(t), p >= a
  PROVE  /\ Max(Depths(t, K, p)) \in Nat /\ Max(Depths(t, K, p)) \in Depths(t, K, p)
         /\ \A q \in Within(t, K, p) :
              /\ Cardinality(Above(t, K, p, q)) \in Nat
              /\ Cardinality(Above(t, K, p, q)) <= Max(Depths(t, K, p))
<1> DEFINE S == Depths(t, K, p)
           N == Cardinality(Subtrees(t))
<1>1. t \in Seq(Lnodes)
  BY DEF Grown
<1>2. /\ N \in Nat /\ \A q : /\ Cardinality(Above(t, K, p, q)) \in Nat
                             /\ Cardinality(Above(t, K, p, q)) <= N
  <2>1. IsFiniteSet(Subtrees(t)) /\ N \in Nat
    BY <1>1, Finite
  <2>2. \A q : Above(t, K, p, q) \in SUBSET Subtrees(t)
    BY DEF Above
  <2> QED  BY <2>1, <2>2, FS_Subset, FS_CardinalityType
<1>3. S \in SUBSET Nat /\ S # {} /\ \A x \in S : x <= N
  <2>1. p \in Within(t, K, p)
    BY WithinKids
  <2> QED  BY <1>2, <2>1 DEF Depths
<1> HIDE DEF S, N
<1>4. PICK m \in S : \A y \in S : m >= y
  BY <1>2, <1>3, GreatestNumber
<1>5. Max(S) = m
  BY <1>3, <1>4, GreatestIs
<1>6. \A q \in Within(t, K, p) : Cardinality(Above(t, K, p, q)) \in S
  BY DEF S, Depths
<1>7. Max(S) \in Nat /\ Max(S) \in S
  BY <1>3, <1>4, <1>5
<1>8. \A q \in Within(t, K, p) : Cardinality(Above(t, K, p, q)) <= Max(S)
  BY <1>2, <1>3, <1>4, <1>5, <1>6
<1> QED  BY <1>2, <1>7, <1>8 DEF S

\* A node without children has depth 0, any other is one deeper than the deepest
\* child (tree_depth_recurse).
LEMMA DepthKids ==
  ASSUME NEW t, NEW K, NEW a, Grown(t, K, a), NEW p \in Subtrees(t), p >= a
  PROVE  /\ Arity(t[p]) = 0 => Max(Depths(t, K, p)) = 0
         /\ Arity(t[p]) # 0 =>
              Max(Depths(t, K, p))
                = 1 + Max({Max(Depths(t, K, Kid(t, K, p, i))) : i \in 1 .. Arity(t[p])})
<1> DEFINE n == Arity(t[p])
           d(i) == Max(Depths(t, K, Kid(t, K, p, i)))
           A(q) == Cardinality(Above(t, K, p, q))
           R == {d(i) : i \in 1 .. n}
           S == Depths(t, K, p)
<1>1. n \in Nat /\ t \in Seq(Lnodes) /\ p \in Nat /\ \A r \in Subtrees(t) : r \in Nat
  BY KidFacts, SubtreeFacts DEF Grown
<1>2. A(p) = 0
  <2>1. Above(t, K, p, p) = {}
    <3> SUFFICES ASSUME NEW r \in Above(t, K, p, p) PROVE FALSE
      OBVIOUS
    <3>1. r \in Nat /\ p <= r /\ r < p
      BY <1>1 DEF Above
    <3> QED  BY <1>1, <3>1
  <2> QED  BY <2>1, FS_EmptySet
<1>3. \A i \in 1 .. n : Kid(t, K, p, i) \in Subtrees(t) /\ Kid(t, K, p, i) >= a
  BY KidFacts
<1>4. /\ \A i \in 1 .. n : d(i) \in Nat
      /\ \A i \in 1 .. n : \A q \in Within(t, K, Kid(t, K, p, i)) :
           q \in Within(t, K, p) /\ A(q) <= 1 + d(i)
      /\ \A i \in 1 .. n : \E q \in Within(t, K, p) : A(q) = 1 + d(i)
  <2> SUFFICES ASSUME NEW i \in 1 .. n
               PROVE  /\ d(i) \in Nat
                      /\ \A q \in Within(t, K, Kid(t, K, p, i)) :
                           q \in Within(t, K, p) /\ A(q) <= 1 + d(i)
                      /\ \E q \in Within(t, K, p) : A(q) = 1 + d(i)
    OBVIOUS
  <2> DEFINE c == Kid(t, K, p, i)
             B(q) == Cardinality(Above(t, K, c, q))
  <2>1. \A q \in Within(t, K, c) : q \in Within(t, K, p) /\ A(q) = B(q) + 1
    <3> TAKE q \in Within(t, K, c)
    <3>1. /\ Above(t, K, p, q) = {p} \cup Above(t, K, c, q) /\ p \notin Above(t, K, c, q)
      BY AboveKid
    <3>2. Above(t, K, c, q) \in SUBSET Subtrees(t)
      BY DEF Above
    <3> HIDE DEF c
    <3>3. IsFiniteSet(Above(t, K, c, q))
      BY <1>1, <3>2, Finite
    <3>4. A(q) = B(q) + 1
      <4>1. Above(t, K, p, q) = Above(t, K, c, q) \cup {p}
        BY <3>1
      <4> QED  BY <3>1, <3>3, <4>1, FS_AddElement
    <3> QED  BY <3>4, WithinKids DEF c
  <2>2. /\ d(i) \in Nat /\ d(i) \in Depths(t, K, c)
        /\ \A q \in Within(t, K, c) : B(q) \in Nat /\ B(q) <= d(i)
    <3>1. c \in Subtrees(t) /\ c >= a
      BY <1>3
    <3> HIDE DEF c
    <3>2. /\ Max(Depths(t, K, c)) \in Nat /\ Max(Depths(t, K, c)) \in Depths(t, K, c)
          /\ \A q \in Within(t, K, c) : B(q) \in Nat /\ B(q) <= Max(Depths(t, K, c))
      BY <3>1, DepthFacts
    <3> QED  BY <3>2 DEF c
  <2>3. \E q \in Within(t, K, c) : B(q) = d(i)
    BY <2>2 DEF Depths
  <2> HIDE DEF A, B, d
  <2> QED  BY <2>1, <2>2, <2>3 DEF c
<1>5. \A q \in Within(t, K, p) : q = p \/ \E i \in 1 .. n : q \in Within(t, K, Kid(t, K, p, i))
  BY WithinKids
<1>6. S = {A(q) : q \in Within(t, K, p)} /\ S \in SUBSET Nat /\ 0 \in S
  <2>1. p \in Within(t, K, p)
    BY WithinKids
  <2>2. \A q \in Within(t, K, p) : A(q) \in Nat
    BY DepthFacts
  <2>3. S = {A(q) : q \in Within(t, K, p)}
    BY DEF Depths
  <2> HIDE DEF A, S
  <2> QED  BY <1>2, <2>1, <2>2, <2>3
<1> HIDE DEF A, d, S
<1>7. CASE n = 0
  <2>1. \A y \in S : y <= 0
    BY <1>2, <1>5, <1>6, <1>7
  <2> QED  BY <1>6, <1>7, <2>1, GreatestIs DEF S
<1>8. CASE n # 0
  <2>1. R \in SUBSET Nat /\ d(1) \in R
    <3>1. 1 \in 1 .. n
      BY <1>1, <1>8
    <3> QED  BY <1>4, <3>1
  <2>2. PICK i \in 1 .. n : \A j \in 1 .. n : d(i) >= d(j)
    <3>1. \E b \in Nat : \A x \in S : x <= b
      <4>1. /\ Max(S) \in Nat /\ \A q \in Within(t, K, p) : A(q) <= Max(S)
        BY DepthFacts DEF S, A
      <4> QED  BY <1>6, <4>1
    <3>2. PICK b \in Nat : \A x \in S : x <= b
      BY <3>1
    <3>3. \A x \in R : x <= b
      <4> SUFFICES ASSUME NEW j \in 1 .. n PROVE d(j) <= b
        OBVIOUS
      <4>1. 1 + d(j) \in S
        BY <1>4, <1>6
      <4> QED  BY <1>4, <3>2, <4>1
    <3>4. R \in SUBSET Nat /\ R # {}
      BY <2>1
    <3> HIDE DEF R
    <3>5. \E x \in R : \A y \in R : x >= y
      BY <3>2, <3>3, <3>4, GreatestNumber
    <3> QED  BY <3>5 DEF R
  <2>3. Max(R) = d(i)
    <3>1. d(i) \in R /\ \A y \in R : y <= d(i)
      BY <1>4, <2>2
    <3> HIDE DEF R
    <3> QED  BY <2>1, <3>1, GreatestIs
  <2>4. 1 + d(i) \in S
    BY <1>4, <1>6
  <2>5. \A y \in S : y <= 1 + d(i)
    <3> SUFFICES ASSUME NEW q \in Within(t, K, p) PROVE A(q) <= 1 + d(i)
      BY <1>6
    <3>1. CASE q = p
      BY <1>2, <1>4, <3>1
    <3>2. CASE q # p
      <4>1. PICK j \in 1 .. n : q \in Within(t, K, Kid(t, K, p, j))
        BY <1>5, <3>2
      <4>2. A(q) <= 1 + d(j) /\ A(q) \in Nat /\ d(j) \in Nat /\ d(i) \in Nat
        BY <1>4, <1>6, <4>1
      <4>3. d(i) >= d(j)
        BY <2>2
      <4> QED  BY <4>2, <4>3
    <3> QED  BY <3>1, <3>2
  <2>6. Max(S) = 1 + d(i)
    BY <1>6, <2>4, <2>5, GreatestIs
  <2> QED  BY <1>8, <2>3, <2>6 DEF S, d
<1> QED  BY <1>7, <1>8

-----------------------------------------------------------------------------
(* What Measure finds *)

\* The parts of its definition.
Header(l) == IF IsFunction(l) THEN Fn(l) ELSE [args |-> <<>>, erc |-> FALSE, expr |-> FALSE]

KidRowIs(k, l, p, b) ==
  k = [i \in 1 .. Len(Header(l).args) |->
         b[(IF i = 1 THEN 1 ELSE k[i - 1].end - p) + (IF Header(l).expr THEN 1 ELSE 0)]]

KidRow(l, p, b) == CHOOSE k : KidRowIs(k, l, p, b)

FirstEntry(l, p, b) ==
  LET n == Len(Header(l).args)
      kid == KidRow(l, p, b)
  IN IF n = 0
     THEN [end |-> p + 1 + (IF Header(l).erc THEN 1 ELSE 0),
           nodes |-> 1, internal |-> 0, depth |-> 0]
     ELSE [end |-> kid[n].end,
           nodes |-> 1 + SumFunction([i \in 1 .. n |-> kid[i].nodes]),
           internal |-> 1 + SumFunction([i \in 1 .. n |-> kid[i].internal]),
           depth |-> 1 + Max({kid[i].depth : i \in 1 .. n})]

MeasureIs(r, t) ==
  r = [p \in 1 .. Len(t) + 1 |->
         IF p = Len(t) + 1 THEN <<>> ELSE <<FirstEntry(t[p], p, r[p + 1])>> \o r[p + 1]]

\* Measure is the first entry of that row.
LEMMA MeasureParts == \A t : Measure(t) = (CHOOSE r : MeasureIs(r, t))[1]
BY DEF Measure, MeasureIs, FirstEntry, KidRow, KidRowIs, Header

\* What it should find.
Entry(t, K, q) ==
  IF IsFunction(t[q])
  THEN [end |-> End(t, K, q), nodes |-> Cardinality(Within(t, K, q)),
        internal |-> Cardinality(InternalSubtrees(t) \cap Within(t, K, q)),
        depth |-> Max(Depths(t, K, q))]
  ELSE [end |-> q + 1, nodes |-> 1, internal |-> 0, depth |-> 0]

\* The entries from position p on.
Entries(t, K, p) == [j \in 1 .. Len(t) + 1 - p |-> Entry(t, K, p + j - 1)]

\* One entry after the other.
LEMMA EntriesFacts ==
  ASSUME NEW t \in Seq(Lnodes), NEW K
  PROVE  /\ Entries(t, K, Len(t) + 1) = <<>>
         /\ \A p \in 1 .. Len(t) :
              <<Entry(t, K, p)>> \o Entries(t, K, p + 1) = Entries(t, K, p)
<1> DEFINE L == Len(t)
           S == {Entry(t, K, q) : q \in 1 .. L}
<1>1. L \in Nat
  BY SubtreeFacts
<1> HIDE DEF L
<1>2. \A p \in 1 .. L + 1 :
        /\ Entries(t, K, p) \in Seq(S) /\ Len(Entries(t, K, p)) = L + 1 - p
        /\ \A j \in 1 .. L + 1 - p : Entries(t, K, p)[j] = Entry(t, K, p + j - 1)
        /\ Entries(t, K, p) = [j \in 1 .. L + 1 - p |-> Entry(t, K, p + j - 1)]
  <2> TAKE p \in 1 .. L + 1
  <2> DEFINE E == Entries(t, K, p)
             n == L + 1 - p
  <2>1. n \in Nat /\ \A j \in 1 .. n : p + j - 1 \in 1 .. L
    BY <1>1
  <2>2. E = [j \in 1 .. n |-> Entry(t, K, p + j - 1)]
    BY DEF Entries, L
  <2> HIDE DEF E, n
  <2>3. E \in [1 .. n -> S]
    BY <2>1, <2>2
  <2> HIDE DEF S
  <2>4. E \in Seq(S)
    BY <2>1, <2>3, SeqDef
  <2>5. DOMAIN E = 1 .. n /\ DOMAIN E = 1 .. Len(E) /\ Len(E) \in Nat
    BY <2>3, <2>4, LenProperties
  <2>6. Len(E) = n
    BY <2>1, <2>5
  <2> QED  BY <2>2, <2>4, <2>6 DEF E, n
<1>3. Entries(t, K, L + 1) = <<>>
  <2>1. L + 1 \in 1 .. L + 1 /\ L + 1 - (L + 1) = 0
    BY <1>1
  <2> HIDE DEF S
  <2>2. Entries(t, K, L + 1) \in Seq(S) /\ Len(Entries(t, K, L + 1)) = 0
    BY <1>2, <2>1
  <2> QED  BY <2>2, EmptySeq
<1>4. ASSUME NEW p \in 1 .. L
      PROVE  <<Entry(t, K, p)>> \o Entries(t, K, p + 1) = Entries(t, K, p)
  <2> DEFINE e == Entry(t, K, p)
             B == Entries(t, K, p + 1)
             C == <<e>> \o B
             E == Entries(t, K, p)
             n == L + 1 - p
  <2>1. p \in 1 .. L + 1 /\ p + 1 \in 1 .. L + 1 /\ L + 1 - (p + 1) = n - 1 /\ n \in Nat \ {0}
    BY <1>1
  <2>2. B \in Seq(S) /\ Len(B) = n - 1 /\ \A j \in 1 .. n - 1 : B[j] = Entry(t, K, p + j)
    <3>1. B \in Seq(S) /\ Len(B) = n - 1
          /\ \A j \in 1 .. n - 1 : B[j] = Entry(t, K, (p + 1) + j - 1)
      BY <1>2, <2>1
    <3>2. \A j \in 1 .. n - 1 : (p + 1) + j - 1 = p + j
      BY <2>1
    <3> HIDE DEF B, S
    <3> QED  BY <3>1, <3>2
  <2>3. E \in Seq(S) /\ Len(E) = n /\ \A j \in 1 .. n : E[j] = Entry(t, K, p + j - 1)
    BY <1>2, <2>1
  <2>4. e \in S
    BY <2>1
  <2> HIDE DEF e, B, S, E, n
  <2>5. <<e>> \in Seq(S) /\ Len(<<e>>) = 1 /\ <<e>>[1] = e
    BY <2>4
  <2>6. C \in Seq(S) /\ Len(C) = n
        /\ \A j \in 1 .. n : C[j] = IF j <= 1 THEN <<e>>[j] ELSE B[j - 1]
    <3>1. C \in Seq(S) /\ Len(C) = 1 + (n - 1)
          /\ \A j \in 1 .. 1 + (n - 1) : C[j] = IF j <= 1 THEN <<e>>[j] ELSE B[j - 1]
      BY <2>2, <2>5, ConcatProperties
    <3>2. 1 + (n - 1) = n
      BY <2>1
    <3> HIDE DEF C
    <3> QED  BY <3>1, <3>2
  <2> HIDE DEF C
  <2>7. \A j \in 1 .. n : C[j] = E[j]
    <3> TAKE j \in 1 .. n
    <3>1. CASE j = 1
      <4>1. p + j - 1 = p
        BY <3>1
      <4> QED  BY <2>3, <2>5, <2>6, <3>1, <4>1 DEF e
    <3>2. CASE j # 1
      <4>1. ~(j <= 1) /\ j - 1 \in 1 .. n - 1 /\ p + (j - 1) = p + j - 1
        BY <2>1, <3>2
      <4> QED  BY <2>2, <2>3, <2>6, <4>1
    <3> QED  BY <3>1, <3>2
  <2>8. C = E
    <3>1. DOMAIN C = 1 .. n /\ C = [j \in 1 .. n |-> C[j]]
      BY <2>6, LenProperties
    <3>2. DOMAIN E = 1 .. n /\ E = [j \in 1 .. n |-> E[j]]
      BY <2>3, LenProperties
    <3> QED  BY <2>7, <3>1, <3>2
  <2> QED  BY <2>8 DEF C, E, e, B
<1> QED  BY <1>3, <1>4 DEF L

\* The children's entries are found in what is behind their parent.
LEMMA KidRowFacts ==
  ASSUME NEW t, NEW K, Grown(t, K, 1), NEW p \in Subtrees(t), Arity(t[p]) # 0
  PROVE  /\ DOMAIN KidRow(t[p], p, Entries(t, K, p + 1)) = 1 .. Arity(t[p])
         /\ \A i \in 1 .. Arity(t[p]) :
              KidRow(t[p], p, Entries(t, K, p + 1))[i] = Entry(t, K, Kid(t, K, p, i))
<1> DEFINE n == Arity(t[p])
           b == Entries(t, K, p + 1)
           g == Gap(t[p])
           E(i) == Entry(t, K, Kid(t, K, p, i))
           At(x) == (x - p) + g
           h == [i \in 1 .. n |-> E(i)]
           k == KidRow(t[p], p, b)
<1>1. /\ t \in Seq(Lnodes) /\ n \in Nat \ {0} /\ p \in 1 .. Len(t) /\ Len(t) \in Nat
      /\ IsFunction(t[p]) /\ Step(t[p]) = 1 /\ p >= 1
      /\ \A r \in Subtrees(t) : IsFunction(t[r]) /\ r \in 1 .. Len(t)
  <2>1. t \in Seq(Lnodes)
    BY DEF Grown
  <2>2. n \in Nat /\ p \in 1 .. Len(t) /\ Len(t) \in Nat /\ IsFunction(t[p])
        /\ \A r \in Subtrees(t) : IsFunction(t[r]) /\ r \in 1 .. Len(t)
    BY <2>1, SubtreeFacts
  <2>3. ~Fn(t[p]).erc
    BY <2>1, SubtreeFacts
  <2> QED  BY <2>1, <2>2, <2>3 DEF Step
<1>2. /\ K[p][1] = p + 1 /\ g \in {0, 1} /\ g = IF Fn(t[p]).expr THEN 1 ELSE 0
      /\ \A i \in 1 .. n + 1 : K[p][i] \in Nat /\ p < K[p][i]
      /\ \A i \in 1 .. n : /\ Kid(t, K, p, i) = K[p][i] + g /\ Kid(t, K, p, i) \in Subtrees(t)
                           /\ End(t, K, Kid(t, K, p, i)) = K[p][i + 1]
  BY <1>1, KidFacts DEF Gap
<1>3. Header(t[p]) = Fn(t[p]) /\ Len(Header(t[p]).args) = n
  BY <1>1 DEF Header, Arity
<1>4. \A i \in 1 .. n : E(i).end = K[p][i + 1]
  BY <1>1, <1>2 DEF Entry
<1>5. \A i \in 1 .. n : b[K[p][i] - p + g] = E(i)
  <2> TAKE i \in 1 .. n
  <2> DEFINE j == K[p][i] - p + g
  <2>1. i \in 1 .. n + 1
    BY <1>1
  <2>2. K[p][i] \in Nat /\ p < K[p][i] /\ Kid(t, K, p, i) = K[p][i] + g
        /\ Kid(t, K, p, i) \in 1 .. Len(t)
    BY <1>1, <1>2, <2>1
  <2>3. j \in 1 .. Len(t) + 1 - (p + 1) /\ (p + 1) + j - 1 = Kid(t, K, p, i)
    <3> DEFINE x == K[p][i]
               c == Kid(t, K, p, i)
               L == Len(t)
    <3>1. x \in Nat /\ p < x /\ c = x + g /\ c \in 1 .. L /\ L \in Nat /\ p \in 1 .. L /\ g \in {0, 1}
      BY <1>1, <1>2, <2>2
    <3> HIDE DEF x, c, L, g
    <3>2. x - p + g \in 1 .. L + 1 - (p + 1) /\ (p + 1) + (x - p + g) - 1 = c
      BY <3>1
    <3> QED  BY <3>2 DEF x, c, L, g
  <2> HIDE DEF j
  <2>4. b[j] = Entry(t, K, (p + 1) + j - 1)
    BY <2>3 DEF Entries
  <2> QED  BY <2>3, <2>4 DEF j
<1>6. \A i \in 1 .. n : (IF i = 1 THEN 1 ELSE h[i - 1].end - p) = K[p][i] - p
  <2> TAKE i \in 1 .. n
  <2>1. CASE i = 1
    BY <1>1, <1>2, <2>1
  <2>2. CASE i # 1
    <3>1. i - 1 \in 1 .. n /\ i - 1 + 1 = i
      BY <1>1, <2>2
    <3>2. h[i - 1].end = K[p][i]
      BY <1>4, <3>1
    <3> QED  BY <2>2, <3>2
  <2> QED  BY <2>1, <2>2
<1> HIDE DEF E, g, b, n
<1>7. KidRowIs(h, t[p], p, b)
  <2>1. \A i \in 1 .. n : h[i] = b[(IF i = 1 THEN 1 ELSE h[i - 1].end - p) + g]
    BY <1>5, <1>6
  <2>2. h = [i \in 1 .. n |-> h[i]]
    OBVIOUS
  <2> HIDE DEF h
  <2>3. h = [i \in 1 .. n |-> b[(IF i = 1 THEN 1 ELSE h[i - 1].end - p) + g]]
    BY <2>1, <2>2
  <2>4. g = IF Header(t[p]).expr THEN 1 ELSE 0
    BY <1>2, <1>3
  <2> QED  BY <1>3, <2>3, <2>4 DEF KidRowIs
<1>8. KidRowIs(k, t[p], p, b)
  BY <1>7 DEF KidRow
<1> HIDE DEF k, h
<1>9. /\ DOMAIN k = 1 .. n
      /\ \A i \in 1 .. n : k[i] = b[(IF i = 1 THEN 1 ELSE k[i - 1].end - p) + g]
  <2>1. g = IF Header(t[p]).expr THEN 1 ELSE 0
    BY <1>2, <1>3
  <2>2. k = [i \in 1 .. n |-> b[(IF i = 1 THEN 1 ELSE k[i - 1].end - p) + g]]
    BY <1>3, <1>8, <2>1 DEF KidRowIs
  <2> QED  BY <2>2
<1> DEFINE S == {i \in 0 .. n : i = 0 \/ k[i] = E(i)}
<1>10. 0 .. n \subseteq S
  <2>1. 0 \in S
    BY <1>1
  <2>2. \A i \in 1 .. n : i - 1 \in S => i \in S
    <3> SUFFICES ASSUME NEW i \in 1 .. n, i - 1 \in S PROVE k[i] = E(i)
      BY <1>1
    <3>1. (IF i = 1 THEN 1 ELSE k[i - 1].end - p) = K[p][i] - p
      <4>1. CASE i = 1
        BY <1>1, <1>2, <4>1
      <4>2. CASE i # 1
        <5>1. i - 1 \in 1 .. n /\ i - 1 # 0 /\ i - 1 + 1 = i
          BY <1>1, <4>2
        <5>2. k[i - 1] = E(i - 1)
          BY <5>1
        <5>3. E(i - 1).end = K[p][i]
          BY <1>4, <5>1
        <5> QED  BY <4>2, <5>2, <5>3
      <4> QED  BY <4>1, <4>2
    <3> QED  BY <1>5, <1>9, <3>1
  <2> HIDE DEF S
  <2> QED  BY <1>1, <2>1, <2>2, Climb
<1>11. \A i \in 1 .. n : k[i] = E(i)
  <2>1. \A i \in 1 .. n : i \in 0 .. n /\ i # 0
    BY <1>1
  <2> QED  BY <1>10, <2>1
<1> QED  BY <1>9, <1>11 DEF k, n, b, E

\* A node with its parts, or the whole of it without the first.
LEMMA OneMore ==
  ASSUME NEW S, IsFiniteSet(S), NEW x \in S
  PROVE  Cardinality(S) = 1 + Cardinality(S \ {x}) /\ Cardinality(S \ {x}) \in Nat
<1>1. Cardinality(S \ {x}) = Cardinality(S) - 1 /\ IsFiniteSet(S \ {x})
  BY FS_RemoveElement
<1> QED  BY <1>1, FS_CardinalityType

\* What is put in front of the entries of what is behind p is the entry of p.
LEMMA FirstEntryFacts ==
  ASSUME NEW t, NEW K, Grown(t, K, 1), NEW p \in 1 .. Len(t)
  PROVE  FirstEntry(t[p], p, Entries(t, K, p + 1)) = Entry(t, K, p)
<1> DEFINE b == Entries(t, K, p + 1)
           k == KidRow(t[p], p, b)
           n == Arity(t[p])
           W == Within(t, K, p)
           I == InternalSubtrees(t) \cap W
<1>1. /\ t \in Seq(Lnodes) /\ p \in Nat /\ p >= 1 /\ p \in DOMAIN t
      /\ InternalSubtrees(t) \in SUBSET Subtrees(t) /\ W \in SUBSET Subtrees(t)
      /\ I \in SUBSET Subtrees(t)
  <2>1. t \in Seq(Lnodes)
    BY DEF Grown
  <2> QED  BY <2>1, SubtreeFacts DEF InternalSubtrees, Within
<1>2. CASE ~IsFunction(t[p])
  <2>1. Header(t[p]) = [args |-> <<>>, erc |-> FALSE, expr |-> FALSE]
    BY <1>2 DEF Header
  <2>2. Len(Header(t[p]).args) = 0 /\ Header(t[p]).erc = FALSE
    BY <2>1
  <2>3. p + 1 + 0 = p + 1
    BY <1>1
  <2> QED  BY <1>2, <2>2, <2>3 DEF FirstEntry, Entry
<1>3. CASE IsFunction(t[p])
  <2>0. p \in Subtrees(t) /\ n \in Nat
    BY <1>1, <1>3, SubtreeFacts DEF Subtrees
  <2>1. Header(t[p]) = Fn(t[p]) /\ Len(Header(t[p]).args) = n
    BY <1>3 DEF Header, Arity
  <2>2. p \in W /\ IsFiniteSet(W) /\ IsFiniteSet(I)
    BY <1>1, <2>0, WithinKids, Finite
  <2>3. CASE n = 0
    <3>1. W = {p} /\ I = {}
      BY <1>1, <2>0, <2>2, <2>3, WithinKids DEF InternalSubtrees
    <3>2. Cardinality(W) = 1 /\ Cardinality(I) = 0
      BY <3>1, FS_Singleton, FS_EmptySet
    <3>3. Max(Depths(t, K, p)) = 0
      BY <1>1, <2>0, <2>3, DepthKids
    <3>4. End(t, K, p) = p + 1 + (IF Fn(t[p]).erc THEN 1 ELSE 0)
      <4>1. End(t, K, p) = p + Step(t[p])
        BY <1>1, <2>0, <2>3, KidFacts
      <4> QED  BY <1>1, <4>1 DEF Step
    <3> QED  BY <1>3, <2>1, <2>3, <3>2, <3>3, <3>4 DEF FirstEntry, Entry
  <2>4. CASE n # 0
    <3>1. DOMAIN k = 1 .. n /\ \A i \in 1 .. n : k[i] = Entry(t, K, Kid(t, K, p, i))
      BY <2>0, <2>4, KidRowFacts
    <3>2. \A i \in 1 .. n : IsFunction(t[Kid(t, K, p, i)]) /\ K[p][i + 1] = End(t, K, Kid(t, K, p, i))
      BY <1>1, <2>0, KidFacts DEF Subtrees
    <3> HIDE DEF k
    <3>3. \A i \in 1 .. n : /\ k[i].end = K[p][i + 1]
                            /\ k[i].nodes = Cardinality(Within(t, K, Kid(t, K, p, i)))
                            /\ k[i].internal
                                 = Cardinality(InternalSubtrees(t) \cap Within(t, K, Kid(t, K, p, i)))
                            /\ k[i].depth = Max(Depths(t, K, Kid(t, K, p, i)))
      <4> TAKE i \in 1 .. n
      <4> DEFINE c == Kid(t, K, p, i)
      <4>1. k[i] = Entry(t, K, c) /\ IsFunction(t[c]) /\ K[p][i + 1] = End(t, K, c)
        BY <3>1, <3>2
      <4> HIDE DEF c
      <4>2. k[i] = [end |-> End(t, K, c), nodes |-> Cardinality(Within(t, K, c)),
                    internal |-> Cardinality(InternalSubtrees(t) \cap Within(t, K, c)),
                    depth |-> Max(Depths(t, K, c))]
        BY <4>1 DEF Entry
      <4> QED  BY <4>1, <4>2 DEF c
    <3>4. k[n].end = End(t, K, p)
      <4>1. n \in 1 .. n
        BY <2>0, <2>4
      <4> QED  BY <3>3, <4>1 DEF End
    <3>5. SumFunction([i \in 1 .. n |-> k[i].nodes]) = Cardinality(W \ {p})
      <4>1. \A i \in 1 .. n : k[i].nodes
                = Cardinality(Subtrees(t) \cap Within(t, K, Kid(t, K, p, i)))
        <5>1. \A q : Subtrees(t) \cap Within(t, K, q) = Within(t, K, q)
          BY DEF Within
        <5> QED  BY <3>3, <5>1
      <4>2. [i \in 1 .. n |-> k[i].nodes]
              = [i \in 1 .. n |-> Cardinality(Subtrees(t) \cap Within(t, K, Kid(t, K, p, i)))]
        BY <4>1
      <4>3. Subtrees(t) \cap W = W
        BY <1>1
      <4>4. Subtrees(t) \in SUBSET Subtrees(t)
        OBVIOUS
      <4>5. SumFunction([i \in 1 .. n |-> Cardinality(Subtrees(t) \cap Within(t, K, Kid(t, K, p, i)))])
              = Cardinality((Subtrees(t) \cap W) \ {p})
        BY <1>1, <2>0, <4>4, CountKids
      <4> QED  BY <4>2, <4>3, <4>5
    <3>6. SumFunction([i \in 1 .. n |-> k[i].internal]) = Cardinality(I \ {p})
      <4>1. [i \in 1 .. n |-> k[i].internal]
              = [i \in 1 .. n |->
                   Cardinality(InternalSubtrees(t) \cap Within(t, K, Kid(t, K, p, i)))]
        BY <3>3
      <4>2. SumFunction([i \in 1 .. n |->
                           Cardinality(InternalSubtrees(t) \cap Within(t, K, Kid(t, K, p, i)))])
              = Cardinality((InternalSubtrees(t) \cap W) \ {p})
        BY <1>1, <2>0, CountKids
      <4> QED  BY <4>1, <4>2
    <3>7. 1 + Max({k[i].depth : i \in 1 .. n}) = Max(Depths(t, K, p))
      <4>1. {k[i].depth : i \in 1 .. n} = {Max(Depths(t, K, Kid(t, K, p, i))) : i \in 1 .. n}
        BY <3>3
      <4>2. Max(Depths(t, K, p))
              = 1 + Max({Max(Depths(t, K, Kid(t, K, p, i))) : i \in 1 .. n})
        BY <1>1, <2>0, <2>4, DepthKids
      <4> QED  BY <4>1, <4>2
    <3>8. Cardinality(W) = 1 + Cardinality(W \ {p})
      BY <2>2, OneMore
    <3>9. Cardinality(I) = 1 + Cardinality(I \ {p})
      <4>1. p \in I
        <5>1. n > 0
          BY <2>0, <2>4
        <5> QED  BY <2>0, <2>2, <5>1 DEF InternalSubtrees
      <4> HIDE DEF I
      <4> QED  BY <2>2, <4>1, OneMore
    <3> HIDE DEF b, W, I
    <3>10. FirstEntry(t[p], p, b)
             = [end |-> k[n].end,
                nodes |-> 1 + SumFunction([i \in 1 .. n |-> k[i].nodes]),
                internal |-> 1 + SumFunction([i \in 1 .. n |-> k[i].internal]),
                depth |-> 1 + Max({k[i].depth : i \in 1 .. n})]
      BY <2>1, <2>4 DEF FirstEntry, k
    <3>11. Entry(t, K, p) = [end |-> End(t, K, p), nodes |-> Cardinality(W),
                            internal |-> Cardinality(I), depth |-> Max(Depths(t, K, p))]
      BY <1>3 DEF Entry, W, I
    <3> HIDE DEF n
    <3>12. FirstEntry(t[p], p, b) = Entry(t, K, p)
      BY <3>4, <3>5, <3>6, <3>7, <3>8, <3>9, <3>10, <3>11
    <3> QED  BY <3>12 DEF b
  <2> QED  BY <2>3, <2>4
<1> QED  BY <1>2, <1>3

\* Measure finds, at every position, the entry of that position.
LEMMA MeasureFacts ==
  ASSUME NEW t, NEW K, Grown(t, K, 1), t # <<>>
  PROVE  \A p \in 1 .. Len(t) : Measure(t)[p] = Entry(t, K, p)
<1> DEFINE L == Len(t)
           h == [p \in 1 .. L + 1 |-> Entries(t, K, p)]
           r == CHOOSE r : MeasureIs(r, t)
           S == {p \in 1 .. L + 1 : r[p] = Entries(t, K, p)}
<1>1. t \in Seq(Lnodes) /\ L \in Nat
  <2>1. t \in Seq(Lnodes)
    BY DEF Grown
  <2> QED  BY <2>1, SubtreeFacts
<1>2. Entries(t, K, L + 1) = <<>>
  BY <1>1, EntriesFacts
<1>3. \A p \in 1 .. L : <<FirstEntry(t[p], p, Entries(t, K, p + 1))>> \o Entries(t, K, p + 1)
                          = Entries(t, K, p)
  BY <1>1, FirstEntryFacts, EntriesFacts
<1> HIDE DEF L
<1>4. \A p \in 1 .. L + 1 : p = L + 1 \/ (p \in 1 .. L /\ p + 1 \in 1 .. L + 1)
  BY <1>1
<1>5. MeasureIs(h, t)
  <2>1. \A p \in 1 .. L + 1 :
          h[p] = IF p = L + 1 THEN <<>> ELSE <<FirstEntry(t[p], p, h[p + 1])>> \o h[p + 1]
    BY <1>2, <1>3, <1>4
  <2>2. h = [p \in 1 .. L + 1 |-> h[p]]
    OBVIOUS
  <2> HIDE DEF h
  <2> QED  BY <2>1, <2>2 DEF MeasureIs, L
<1>6. MeasureIs(r, t)
  <2> HIDE DEF h
  <2> QED  BY <1>5
<1> HIDE DEF r, h
<1>7. \A p \in 1 .. L + 1 :
        r[p] = IF p = L + 1 THEN <<>> ELSE <<FirstEntry(t[p], p, r[p + 1])>> \o r[p + 1]
  BY <1>6 DEF MeasureIs, L
<1>8. 1 .. L + 1 \subseteq S
  <2> DEFINE D == 1 .. L + 1
  <2>1. D \in SUBSET Nat /\ L + 1 \in Nat /\ \A p \in D : p <= L + 1
    BY <1>1
  <2>2. ASSUME NEW p \in D, \A q \in D : q > p => q \in S
        PROVE  p \in S
    <3>1. CASE p = L + 1
      BY <1>2, <1>7, <3>1
    <3>2. CASE p # L + 1
      <4>1. p \in 1 .. L /\ p + 1 \in D /\ p + 1 > p
        BY <1>1, <3>2
      <4>2. r[p + 1] = Entries(t, K, p + 1)
        BY <2>2, <4>1
      <4> QED  BY <1>3, <1>7, <3>2, <4>1, <4>2
    <3> QED  BY <3>1, <3>2
  <2> HIDE DEF S, D
  <2>3. D \subseteq S
    BY <2>1, <2>2, FromBehind
  <2> QED  BY <2>3 DEF D
<1>9. 1 \in 1 .. L + 1
  BY <1>1
<1>10. Measure(t) = Entries(t, K, 1)
  <2>1. Measure(t) = r[1]
    BY MeasureParts DEF r
  <2> QED  BY <1>8, <1>9, <2>1
<1>11. \A p \in 1 .. L : Entries(t, K, 1)[p] = Entry(t, K, p)
  <2> TAKE p \in 1 .. L
  <2>1. p \in 1 .. L + 1 - 1 /\ 1 + p - 1 = p
    BY <1>1
  <2> QED  BY <2>1 DEF Entries, L
<1> QED  BY <1>10, <1>11 DEF L

\* What Measure says of the nodes of a tree.
LEMMA ShapeFacts ==
  ASSUME NEW t, NEW K, NEW ty, Shape(t, K, ty)
  PROVE  /\ t \in Seq(Lnodes) /\ K \in Places /\ t # <<>> /\ Grown(t, K, 1) /\ Len(t) \in Nat \ {0}
         /\ 1 \in Subtrees(t) /\ Fn(t[1]).ret = ty /\ ty \in Types
         /\ End(t, K, 1) = Len(t) + 1
         /\ Within(t, K, 1) = Subtrees(t)
         /\ TreeNodes(t) = Cardinality(Subtrees(t)) /\ TreeNodes(t) \in Nat
         /\ TreeDepth(t) = Max(Depths(t, K, 1))
         /\ \A s \in Subtrees(t) :
              /\ s \in 1 .. Len(t)
              /\ Measure(t)[s].end = End(t, K, s)
              /\ Measure(t)[s].nodes = Cardinality(Within(t, K, s))
              /\ DepthToSubtree(t, s) = Cardinality(Above(t, K, 1, s))
<1>1. /\ t \in Seq(Lnodes) /\ K \in Places /\ Grown(t, K, 1) /\ 1 \in Subtrees(t)
      /\ Fn(t[1]).ret = ty /\ End(t, K, 1) = Len(t) + 1
  BY DEF Shape, Grown
<1>2. /\ Len(t) \in Nat /\ Subtrees(t) \subseteq 1 .. Len(t) /\ Fn(t[1]).ret \in Types
      /\ \A s \in Subtrees(t) : IsFunction(t[s])
  BY <1>1, SubtreeFacts
<1>3. t # <<>> /\ Len(t) # 0 /\ 1 \in 1 .. Len(t)
  <2>1. 1 \in 1 .. Len(t)
    BY <1>1, <1>2
  <2>2. Len(t) # 0
    BY <1>2, <2>1
  <2>3. t = <<>> => Len(t) = 0
    OBVIOUS
  <2> QED  BY <2>1, <2>2, <2>3
<1>4. \A p \in 1 .. Len(t) : Measure(t)[p] = Entry(t, K, p)
  BY <1>1, <1>3, MeasureFacts
<1>5. \A s \in Subtrees(t) :
        /\ Measure(t)[s].end = End(t, K, s)
        /\ Measure(t)[s].nodes = Cardinality(Within(t, K, s))
        /\ Measure(t)[s].depth = Max(Depths(t, K, s))
  <2> TAKE s \in Subtrees(t)
  <2>1. Measure(t)[s]
          = [end |-> End(t, K, s), nodes |-> Cardinality(Within(t, K, s)),
             internal |-> Cardinality(InternalSubtrees(t) \cap Within(t, K, s)),
             depth |-> Max(Depths(t, K, s))]
    BY <1>2, <1>4 DEF Entry
  <2> QED  BY <2>1
<1>6. Within(t, K, 1) = Subtrees(t)
  <2>1. \A s \in Subtrees(t) : 1 <= s /\ s < End(t, K, 1)
    BY <1>1, <1>2
  <2> QED  BY <2>1 DEF Within
<1>7. \A s \in Subtrees(t) : DepthToSubtree(t, s) = Cardinality(Above(t, K, 1, s))
  <2> TAKE s \in Subtrees(t)
  <2>1. {p \in Subtrees(t) : p < s /\ s < Measure(t)[p].end} = Above(t, K, 1, s)
    <3>1. \A p \in Subtrees(t) : 1 <= p
      BY <1>2
    <3> QED  BY <1>5, <3>1 DEF Above
  <2> QED  BY <2>1 DEF DepthToSubtree
<1>8. TreeNodes(t) \in Nat /\ TreeNodes(t) = Cardinality(Subtrees(t))
  <2>1. Subtrees(t) \in SUBSET Subtrees(t)
    OBVIOUS
  <2>2. Cardinality(Subtrees(t)) \in Nat
    BY <1>1, <2>1, Finite
  <2> QED  BY <1>1, <1>5, <1>6, <2>2 DEF TreeNodes
<1> QED  BY <1>1, <1>2, <1>3, <1>5, <1>6, <1>7, <1>8 DEF TreeDepth

-----------------------------------------------------------------------------
(* The reference definition of a tree *)

\* The parts of its definition.
BehindIs(b, t, p, e) ==
  b = [i \in 0 .. Len(Fn(t[p]).args) |->
         IF i > 0
         THEN LET at == b[i - 1]
                  first == at + (IF Fn(t[p]).expr THEN 1 ELSE 0)
                  next == e[first]
              IN IF \/ at = 0 \/ next = 0 \/ Fn(t[first]).ret # Fn(t[p]).args[i]
                    \/ Fn(t[p]).expr /\ t[at] # Skip(next - first)
                 THEN 0 ELSE next
         ELSE IF ~Fn(t[p]).erc THEN p + 1
         ELSE IF p < Len(t) /\ t[p + 1] = ErcValue THEN p + 2 ELSE 0]

Behind(t, p, e) == CHOOSE b : BehindIs(b, t, p, e)

EndIs(e, t) ==
  e = [p \in 0 .. Len(t) + 2 |->
         IF p \notin DOMAIN t \/ ~IsFunction(t[p]) THEN 0
         ELSE Behind(t, p, e)[Len(Fn(t[p]).args)]]

\* IsTree asks where the tree at 1 ends.
LEMMA IsTreeParts ==
  \A t, ty : IsTree(t, ty) <=> /\ t # <<>> /\ (CHOOSE e : EndIs(e, t))[1] = Len(t) + 1
                              /\ Fn(t[1]).ret = ty
BY DEF IsTree, EndIs, Behind, BehindIs

\* Where the children of p end is known: then so is where p ends.
LEMMA BehindFacts ==
  ASSUME NEW t, NEW K, Grown(t, K, 1), NEW p \in Subtrees(t), NEW e,
         \A i \in 1 .. Arity(t[p]) :
           e[Kid(t, K, p, i)] = End(t, K, Kid(t, K, p, i))
  PROVE  Behind(t, p, e)[Arity(t[p])] = End(t, K, p)
<1> DEFINE n == Arity(t[p])
           f == Fn(t[p])
           P == K[p]
           at0 == IF ~f.erc THEN p + 1
                  ELSE IF p < Len(t) /\ t[p + 1] = ErcValue THEN p + 2 ELSE 0
           Next1(i, at) == LET first == at + (IF f.expr THEN 1 ELSE 0)
                               next == e[first]
                           IN IF \/ at = 0 \/ next = 0 \/ Fn(t[first]).ret # f.args[i]
                                 \/ f.expr /\ t[at] # Skip(next - first)
                              THEN 0 ELSE next
           h == [i \in 0 .. n |-> P[i + 1]]
           b == Behind(t, p, e)
           S == {i \in 0 .. n : b[i] = P[i + 1]}
<1>1. /\ n \in Nat /\ p \in Nat /\ p >= 1 /\ P[1] = p + Step(t[p]) /\ t \in Seq(Lnodes)
      /\ P[n + 1] = End(t, K, p) /\ Len(f.args) = n /\ DOMAIN t = 1 .. Len(t)
  <2>1. t \in Seq(Lnodes)
    BY DEF Grown
  <2>2. p >= 1
    BY <2>1, SubtreeFacts
  <2> QED  BY <2>1, <2>2, KidFacts, SubtreeFacts DEF End, Arity
<1>2. at0 = P[1]
  <2>1. f.erc => p + 1 \in DOMAIN t /\ t[p + 1] = ErcValue
    <3>1. Made(t, K, p, n)
      BY <1>1 DEF Grown
    <3> QED  BY <3>1 DEF Made
  <2>2. f.erc => p < Len(t)
    <3>1. Len(t) \in Nat
      BY <1>1, SubtreeFacts
    <3> QED  BY <1>1, <2>1, <3>1
  <2> QED  BY <1>1, <2>1, <2>2 DEF Step
<1>3. \A i \in 1 .. n : Next1(i, P[i]) = P[i + 1]
  <2> TAKE i \in 1 .. n
  <2> DEFINE c == Kid(t, K, p, i)
  <2>1. /\ c = P[i] + Gap(t[p]) /\ p < P[i] /\ P[i] <= c /\ c < P[i + 1] /\ c \in Nat
        /\ P[i + 1] = End(t, K, c) /\ Fn(t[c]).ret = f.args[i]
        /\ f.expr => t[P[i]] = Skip(P[i + 1] - c)
    <3>0. Grown(t, K, 1) /\ p >= 1 /\ i \in 1 .. Arity(t[p])
      BY <1>1
    <3>1. /\ c = K[p][i] + Gap(t[p]) /\ p < K[p][i] /\ K[p][i] <= c /\ c < K[p][i + 1]
          /\ c \in Nat /\ K[p][i + 1] = End(t, K, c)
      BY <3>0, KidFacts
    <3>2. /\ Fn(t[c]).ret = Fn(t[p]).args[i]
          /\ Fn(t[p]).expr => t[K[p][i]] = Skip(K[p][i + 1] - c)
      BY <3>0, KidFacts
    <3> HIDE DEF c
    <3> QED  BY <3>1, <3>2
  <2>2. P[i] \in Nat /\ P[i + 1] \in Nat
    <3>1. i \in 1 .. n + 1 /\ i + 1 \in 1 .. n + 1
      BY <1>1
    <3> QED  BY <1>1, <3>1, KidFacts
  <2>3. e[c] = P[i + 1]
    BY <2>1
  <2> HIDE DEF c, P
  <2>4. P[i] # 0 /\ P[i + 1] # 0
    BY <1>1, <2>1, <2>2
  <2>5. c = P[i] + (IF f.expr THEN 1 ELSE 0)
    BY <2>1 DEF Gap
  <2> HIDE DEF f
  <2> QED  BY <2>1, <2>3, <2>4, <2>5
<1>4. \A i \in 1 .. n : i > 0 /\ i - 1 \in 0 .. n /\ (i - 1) + 1 = i /\ i \in 0 .. n
  BY <1>1
<1>5. \A i \in 0 .. n : IF i > 0 THEN i \in 1 .. n ELSE i = 0
  BY <1>1
<1>6. \A c : BehindIs(c, t, p, e)
        <=> c = [i \in 0 .. n |-> IF i > 0 THEN Next1(i, c[i - 1]) ELSE at0]
  BY <1>1 DEF BehindIs
<1> HIDE DEF at0, Next1, n, P
<1>7. BehindIs(h, t, p, e)
  <2>1. \A i \in 0 .. n : h[i] = IF i > 0 THEN Next1(i, h[i - 1]) ELSE at0
    <3> TAKE i \in 0 .. n
    <3>1. CASE i > 0
      <4>1. h[i - 1] = P[i] /\ h[i] = P[i + 1]
        BY <1>4, <1>5, <3>1
      <4> QED  BY <1>3, <1>5, <3>1, <4>1
    <3>2. CASE ~(i > 0)
      BY <1>2, <1>5, <3>2
    <3> QED  BY <3>1, <3>2
  <2>2. h = [i \in 0 .. n |-> h[i]]
    OBVIOUS
  <2> HIDE DEF h
  <2>3. h = [i \in 0 .. n |-> IF i > 0 THEN Next1(i, h[i - 1]) ELSE at0]
    BY <2>1, <2>2
  <2> QED  BY <1>6, <2>3
<1>8. BehindIs(b, t, p, e)
  BY <1>7 DEF Behind
<1> HIDE DEF b, h
<1>9. \A i \in 0 .. n : b[i] = IF i > 0 THEN Next1(i, b[i - 1]) ELSE at0
  <2>1. b = [i \in 0 .. n |-> IF i > 0 THEN Next1(i, b[i - 1]) ELSE at0]
    BY <1>6, <1>8
  <2> QED  BY <2>1
<1>10. 0 .. n \subseteq S
  <2>1. 0 \in S
    BY <1>1, <1>2, <1>9
  <2>2. \A i \in 1 .. n : i - 1 \in S => i \in S
    BY <1>3, <1>4, <1>9
  <2> HIDE DEF S
  <2> QED  BY <1>1, <2>1, <2>2, Climb
<1>11. n \in 0 .. n
  BY <1>1
<1> QED  BY <1>1, <1>10, <1>11 DEF b, n

\* An array whose nodes have their places is a tree, in the sense of the reference
\* that the runs check.
THEOREM ParsedIsTree ==
  ASSUME NEW t, NEW ty, Parsed(t, ty)
  PROVE  IsTree(t, ty)
<1>1. PICK K : Shape(t, K, ty)
  BY DEF Parsed
<1> DEFINE D == 0 .. Len(t) + 2
           h == [p \in D |-> IF p \in Subtrees(t) THEN End(t, K, p) ELSE 0]
           e == CHOOSE e : EndIs(e, t)
           S == {p \in Subtrees(t) : e[p] = End(t, K, p)}
<1>2. /\ t \in Seq(Lnodes) /\ Grown(t, K, 1) /\ t # <<>> /\ Len(t) \in Nat \ {0}
      /\ 1 \in Subtrees(t) /\ Fn(t[1]).ret = ty /\ End(t, K, 1) = Len(t) + 1
  BY <1>1, ShapeFacts
<1>3. \A p \in Subtrees(t) : /\ p \in D /\ p \in Nat /\ p <= Len(t) /\ p >= 1
                             /\ p \in DOMAIN t /\ IsFunction(t[p])
  BY <1>2, SubtreeFacts
<1>4. \A p \in Subtrees(t) : \A i \in 1 .. Arity(t[p]) :
        Kid(t, K, p, i) \in Subtrees(t) /\ Kid(t, K, p, i) > p
  <2> TAKE p \in Subtrees(t)
  <2> TAKE i \in 1 .. Arity(t[p])
  <2>1. p >= 1
    BY <1>3
  <2> DEFINE c == Kid(t, K, p, i)
  <2>2. c \in Subtrees(t) /\ p < K[p][i] /\ K[p][i] <= c /\ p \in Nat /\ c \in Nat
    BY <1>2, <2>1, KidFacts
  <2>3. i \in 1 .. Arity(t[p]) + 1
    BY <1>2, <2>1, KidFacts
  <2>4. K[p][i] \in Nat
    BY <1>2, <2>1, <2>3, KidFacts
  <2> HIDE DEF c
  <2>5. c > p
    BY <2>2, <2>4
  <2> QED  BY <2>2, <2>5 DEF c
<1>5. ASSUME NEW x, NEW p \in Subtrees(t),
             \A i \in 1 .. Arity(t[p]) : x[Kid(t, K, p, i)] = End(t, K, Kid(t, K, p, i))
      PROVE  Behind(t, p, x)[Len(Fn(t[p]).args)] = End(t, K, p)
  <2>1. Behind(t, p, x)[Arity(t[p])] = End(t, K, p)
    BY <1>2, <1>5, BehindFacts
  <2> QED  BY <2>1 DEF Arity
<1> HIDE DEF D
<1>6. EndIs(h, t)
  <2>1. \A p \in Subtrees(t) : h[p] = End(t, K, p)
    BY <1>3
  <2>2. \A p \in D :
          h[p] = IF p \notin DOMAIN t \/ ~IsFunction(t[p]) THEN 0
                 ELSE Behind(t, p, h)[Len(Fn(t[p]).args)]
    <3> TAKE p \in D
    <3>1. CASE p \in Subtrees(t)
      <4> HIDE DEF h
      <4>1. Behind(t, p, h)[Len(Fn(t[p]).args)] = End(t, K, p)
        BY <1>4, <1>5, <2>1, <3>1
      <4> QED  BY <1>3, <2>1, <3>1, <4>1
    <3>2. CASE p \notin Subtrees(t)
      <4>1. h[p] = 0
        BY <3>2
      <4> HIDE DEF h
      <4> QED  BY <3>2, <4>1 DEF Subtrees
    <3> QED  BY <3>1, <3>2
  <2>3. h = [p \in D |-> h[p]]
    OBVIOUS
  <2> HIDE DEF h
  <2>4. h = [p \in D |-> IF p \notin DOMAIN t \/ ~IsFunction(t[p]) THEN 0
                         ELSE Behind(t, p, h)[Len(Fn(t[p]).args)]]
    BY <2>2, <2>3
  <2> QED  BY <2>4 DEF EndIs, D
<1> HIDE DEF h
<1>7. EndIs(e, t)
  BY <1>6
<1> HIDE DEF e
<1>8. \A p \in Subtrees(t) : e[p] = Behind(t, p, e)[Len(Fn(t[p]).args)]
  <2> TAKE p \in Subtrees(t)
  <2>1. e = [q \in D |-> IF q \notin DOMAIN t \/ ~IsFunction(t[q]) THEN 0
                         ELSE Behind(t, q, e)[Len(Fn(t[q]).args)]]
    BY <1>7 DEF EndIs, D
  <2> QED  BY <1>3, <2>1
<1>9. Subtrees(t) \subseteq S
  <2>1. Subtrees(t) \in SUBSET Nat /\ Len(t) \in Nat /\ \A p \in Subtrees(t) : p <= Len(t)
    BY <1>2, <1>3
  <2>2. ASSUME NEW p \in Subtrees(t), \A q \in Subtrees(t) : q > p => q \in S
        PROVE  p \in S
    <3>1. Behind(t, p, e)[Len(Fn(t[p]).args)] = End(t, K, p)
      BY <1>4, <1>5, <2>2
    <3> QED  BY <1>8, <3>1
  <2> HIDE DEF S
  <2> QED  BY ZenonT(40), <2>1, <2>2, FromBehind
<1>10. e[1] = Len(t) + 1
  BY <1>2, <1>9
<1> QED  BY <1>2, <1>10, IsTreeParts DEF e

-----------------------------------------------------------------------------
(* A subtree as an array of its own *)

\* All of a subtree that moves is moved.
LEMMA MovedWithin ==
  ASSUME NEW t, NEW K, NEW a, Grown(t, K, a), NEW p \in Subtrees(t), p >= a,
         NEW u \in Seq(Lnodes), NEW M, NEW o \in Int, Moved(t, K, p, u, M, o),
         NEW q \in Within(t, K, p)
  PROVE  /\ q + o \in Subtrees(u) /\ u[q + o] = t[q]
         /\ Made(u, M, q + o, Arity(u[q + o]))
         /\ End(u, M, q + o) = End(t, K, q) + o
<1>1. /\ t \in Seq(Lnodes) /\ a \in Nat /\ q \in Subtrees(t) /\ p <= q /\ q < End(t, K, p)
      /\ p \in Nat /\ q \in Nat /\ End(t, K, p) \in Nat
      /\ \A r \in Subtrees(t) : r \in Nat
  <2>1. t \in Seq(Lnodes) /\ a \in Nat
    BY DEF Grown
  <2> QED  BY <2>1, KidFacts, SubtreeFacts DEF Within
<1>2. q >= a /\ End(t, K, q) \in Nat
  <2>1. q >= a
    BY <1>1
  <2> QED  BY <1>1, <2>1, KidFacts
<1>3. End(t, K, q) <= End(t, K, p)
  <2>1. CASE q = p
    BY <1>1, <2>1
  <2>2. CASE q # p
    <3>1. p < q
      BY <1>1, <2>2
    <3> QED  BY <1>1, <3>1, Nested
  <2> QED  BY <2>1, <2>2
<1>4. Moved(t, K, q, u, M, o)
  <2>1. \A r \in q .. End(t, K, q) - 1 : r \in p .. End(t, K, p) - 1
    BY <1>1, <1>2, <1>3
  <2>2. \A r \in Subtrees(t) : q <= r /\ r < End(t, K, q) => p <= r /\ r < End(t, K, p)
    BY <1>1, <1>2, <1>3
  <2> QED  BY <2>1, <2>2 DEF Moved
<1>5. q \in Subtrees(t) /\ q >= a
  BY <1>1, <1>2
<1> QED  BY <1>4, <1>5, MovedFacts

\* What SubSeq is, for an array.
LEMMA Piece ==
  ASSUME NEW t \in Seq(Lnodes), NEW m \in 1 .. Len(t) + 1, NEW n \in m - 1 .. Len(t)
  PROVE  /\ SubSeq(t, m, n) \in Seq(Lnodes) /\ Len(SubSeq(t, m, n)) = n - m + 1
         /\ \A i \in 1 .. n - m + 1 : SubSeq(t, m, n)[i] = t[m + i - 1]
<1>1. Len(t) \in Nat
  BY SubtreeFacts
<1>2. m <= n + 1 /\ (m <= n => m \in 1 .. Len(t) /\ n \in m .. Len(t))
  BY <1>1
<1> QED  BY <1>1, <1>2, SubSeqProperties

\* The subtree at s is a tree of its own type.
LEMMA SubtreeParsed ==
  ASSUME NEW t, NEW K, NEW ty, Shape(t, K, ty), NEW s \in Subtrees(t)
  PROVE  /\ Parsed(SubtreeAt(t, s), Fn(t[s]).ret)
         /\ Len(SubtreeAt(t, s)) = End(t, K, s) - s
         /\ \A q \in 1 .. End(t, K, s) - s : SubtreeAt(t, s)[q] = t[q + (s - 1)]
<1> DEFINE e == End(t, K, s)
           w == SubtreeAt(t, s)
           M == [q \in Nat |-> [i \in Nat |-> K[q + (s - 1)][i] + (1 - s)]]
<1>1. /\ t \in Seq(Lnodes) /\ K \in Places /\ Grown(t, K, 1) /\ s \in 1 .. Len(t)
      /\ Measure(t)[s].end = e /\ Len(t) \in Nat
  BY ShapeFacts
<1>2. e \in Nat /\ s < e /\ e <= Len(t) + 1 /\ s >= 1
  BY <1>1, KidFacts
<1> DEFINE L == Len(t)
<1> HIDE DEF e, L
<1>3. w \in Seq(Lnodes) /\ Len(w) = e - s /\ \A q \in 1 .. e - s : w[q] = t[q + (s - 1)]
  <2>1. s \in 1 .. L + 1 /\ e - 1 \in s - 1 .. L
    BY <1>1, <1>2 DEF L
  <2>2. (e - 1) - s + 1 = e - s
    BY <1>1, <1>2
  <2>3. \A q \in 1 .. e - s : s + q - 1 = q + (s - 1)
    BY <1>1, <1>2
  <2>4. w = SubSeq(t, s, e - 1)
    BY <1>1 DEF SubtreeAt
  <2>5. /\ w \in Seq(Lnodes) /\ Len(w) = (e - 1) - s + 1
        /\ \A i \in 1 .. (e - 1) - s + 1 : w[i] = t[s + i - 1]
    BY <1>1, <2>1, <2>4, Piece DEF L
  <2> HIDE DEF w
  <2> QED  BY <2>2, <2>3, <2>5
<1> HIDE DEF w
<1>4. DOMAIN w = 1 .. e - s /\ Subtrees(w) \subseteq 1 .. e - s
  BY <1>3, SubtreeFacts
<1>5. M \in Places
  <2>1. \A q, i \in Nat : K[q + (s - 1)][i] \in Int
    <3> TAKE q, i \in Nat
    <3>1. q + (s - 1) \in Nat
      BY <1>1
    <3> QED  BY <1>1, <3>1 DEF Places
  <2>2. \A q, i \in Nat : K[q + (s - 1)][i] + (1 - s) \in Int
    BY <1>1, <2>1
  <2> QED  BY <2>2 DEF Places
<1>6. Moved(t, K, s, w, M, 1 - s)
  <2>1. \A q \in s .. e - 1 : q + (1 - s) \in 1 .. e - s /\ (q + (1 - s)) + (s - 1) = q
    BY <1>1, <1>2
  <2>2. \A q \in s .. e - 1 : q + (1 - s) \in DOMAIN w /\ w[q + (1 - s)] = t[q]
    BY <1>3, <1>4, <2>1
  <2>3. ASSUME NEW q \in Subtrees(t), s <= q, q < e, NEW i \in 1 .. Arity(t[q]) + 1
        PROVE  M[q + (1 - s)][i] = K[q][i] + (1 - s)
    <3>1. q + (1 - s) \in Nat /\ (q + (1 - s)) + (s - 1) = q /\ i \in Nat
      <4>1. q \in Nat /\ Arity(t[q]) \in Nat
        BY <1>1, SubtreeFacts
      <4> QED  BY <1>1, <2>3, <4>1
    <3>2. M[q + (1 - s)] = [j \in Nat |-> K[q][j] + (1 - s)]
      BY <3>1
    <3> QED  BY <3>1, <3>2
  <2> HIDE DEF M
  <2> QED  BY <2>2, <2>3 DEF Moved, e
<1> HIDE DEF M
<1>7. 1 - s \in Int
  BY <1>1
<1>8. \A q \in Within(t, K, s) :
        /\ q + (1 - s) \in Subtrees(w) /\ w[q + (1 - s)] = t[q]
        /\ Made(w, M, q + (1 - s), Arity(w[q + (1 - s)]))
        /\ End(w, M, q + (1 - s)) = End(t, K, q) + (1 - s)
  BY <1>1, <1>2, <1>3, <1>6, <1>7, MovedWithin
<1>9. s + (1 - s) = 1 /\ s \in Within(t, K, s) /\ e + (1 - s) = (e - s) + 1
  BY <1>1, <1>2, WithinKids
<1>10. Grown(w, M, 1)
  <2> SUFFICES ASSUME NEW p \in Subtrees(w) PROVE Made(w, M, p, Arity(w[p]))
    BY <1>3, <1>5 DEF Grown
  <2>1. p \in 1 .. e - s /\ w[p] = t[p + (s - 1)] /\ IsFunction(w[p])
    BY <1>3, <1>4 DEF Subtrees
  <2>2. p + (s - 1) \in 1 .. L /\ s <= p + (s - 1) /\ p + (s - 1) < e
        /\ (p + (s - 1)) + (1 - s) = p
    BY <1>1, <1>2, <2>1 DEF L
  <2>3. p + (s - 1) \in Within(t, K, s)
    <3>1. DOMAIN t = 1 .. L
      BY <1>1, SubtreeFacts DEF L
    <3> QED  BY <2>1, <2>2, <3>1 DEF Within, Subtrees, e
  <2> QED  BY <1>8, <2>2, <2>3
<1>11. Shape(w, M, Fn(t[s]).ret)
  BY <1>3, <1>8, <1>9, <1>10 DEF Shape, e
<1> QED  BY <1>3, <1>11 DEF Parsed, w, e

-----------------------------------------------------------------------------
(* A subtree is replaced *)

\* t with w in the place of the subtree from s up to e, as an array and by
\* position: skip nodes that skip s are changed, what is behind e moves.
Spliced(t, s, e, w) ==
  LET d == Len(w) - (e - s)
  IN [q \in 1 .. Len(t) + d |->
        IF q < s
        THEN IF t[q][1] = "s" /\ s < q + 1 + t[q][2] THEN Skip(t[q][2] + d) ELSE t[q]
        ELSE IF q < s + Len(w) THEN w[q - (s - 1)] ELSE t[q - d]]

\* Where its nodes have their children.
SplicedPlaces(K, s, e, Kw, l) ==
  LET d == l - (e - s)
  IN [p \in Nat |-> [i \in Nat |->
        IF p < s THEN (IF K[p][i] <= s THEN K[p][i] ELSE K[p][i] + d)
        ELSE IF p < s + l THEN Kw[p - (s - 1)][i] + (s - 1) ELSE K[p - d][i] + d]]

\* u is t with w at s: what that means, position by position.
IsSpliced(t, K, s, e, w, Kw, d, u, M) ==
  /\ u \in Seq(Lnodes) /\ Len(u) = Len(t) + d /\ M \in Places
  /\ \A q \in 1 .. s - 1 :
       /\ t[q][1] # "s" => u[q] = t[q]
       /\ \A n \in Int : t[q] = Skip(n) => u[q] = IF s < q + 1 + n THEN Skip(n + d) ELSE t[q]
  /\ \A q \in 1 .. Len(w) : u[q + (s - 1)] = w[q]
  /\ \A q \in e .. Len(t) : u[q + d] = t[q]
  /\ \A i \in Nat :
       /\ \A p \in Nat : p < s => M[p][i] = IF K[p][i] <= s THEN K[p][i] ELSE K[p][i] + d
       /\ \A p \in 1 .. Len(w) : M[p + (s - 1)][i] = Kw[p][i] + (s - 1)
       /\ \A p \in e .. Len(t) : M[p + d][i] = K[p][i] + d

\* The parts of the replacement are trees.
Replaced(t, K, ty, s, e, w, Kw, d) ==
  /\ Shape(t, K, ty) /\ s \in Subtrees(t) /\ e = End(t, K, s)
  /\ Shape(w, Kw, Fn(t[s]).ret)
  /\ d = Len(w) - (e - s)

\* The numbers of a replacement.
LEMMA ReplacedFacts ==
  ASSUME NEW t, NEW K, NEW ty, NEW s, NEW e, NEW w, NEW Kw, NEW d,
         Replaced(t, K, ty, s, e, w, Kw, d)
  PROVE  /\ t \in Seq(Lnodes) /\ w \in Seq(Lnodes) /\ K \in Places /\ Kw \in Places
         /\ Grown(t, K, 1) /\ Grown(w, Kw, 1)
         /\ Len(t) \in Nat \ {0} /\ Len(w) \in Nat \ {0} /\ s \in Nat /\ e \in Nat /\ d \in Int
         /\ 1 <= s /\ s < e /\ e <= Len(t) + 1 /\ d = Len(w) - (e - s)
         /\ s + Len(w) = e + d
         /\ s \in Subtrees(t) /\ e = End(t, K, s)
         /\ 1 \in Subtrees(t) /\ Fn(t[1]).ret = ty /\ End(t, K, 1) = Len(t) + 1
         /\ 1 \in Subtrees(w) /\ Fn(w[1]).ret = Fn(t[s]).ret /\ End(w, Kw, 1) = Len(w) + 1
         /\ \A p \in Subtrees(t) : p \in Nat /\ 1 <= p /\ p <= Len(t) /\ IsFunction(t[p])
         /\ \A p \in Subtrees(w) : p \in Nat /\ 1 <= p /\ p <= Len(w) /\ IsFunction(w[p])
<1>1. /\ Shape(t, K, ty) /\ s \in Subtrees(t) /\ e = End(t, K, s)
      /\ Shape(w, Kw, Fn(t[s]).ret) /\ d = Len(w) - (e - s)
  BY DEF Replaced
<1>2. /\ t \in Seq(Lnodes) /\ K \in Places /\ Grown(t, K, 1) /\ Len(t) \in Nat \ {0}
      /\ 1 \in Subtrees(t) /\ Fn(t[1]).ret = ty /\ End(t, K, 1) = Len(t) + 1
  BY <1>1, ShapeFacts
<1>3. /\ w \in Seq(Lnodes) /\ Kw \in Places /\ Grown(w, Kw, 1) /\ Len(w) \in Nat \ {0}
      /\ 1 \in Subtrees(w) /\ Fn(w[1]).ret = Fn(t[s]).ret /\ End(w, Kw, 1) = Len(w) + 1
  BY <1>1, ShapeFacts
<1>4. \A p \in Subtrees(t) : p \in Nat /\ 1 <= p /\ p <= Len(t) /\ IsFunction(t[p])
  BY <1>2, SubtreeFacts
<1>5. \A p \in Subtrees(w) : p \in Nat /\ 1 <= p /\ p <= Len(w) /\ IsFunction(w[p])
  BY <1>3, SubtreeFacts
<1>6. e \in Nat /\ s \in Nat /\ s < e /\ e <= Len(t) + 1
  BY <1>1, <1>2, <1>4, KidFacts
<1>7. d \in Int /\ s + Len(w) = e + d
  BY <1>1, <1>3, <1>6
<1> QED  BY <1>1, <1>2, <1>3, <1>4, <1>5, <1>6, <1>7

\* The definitions say what they should.
LEMMA SplicedFacts ==
  ASSUME NEW t, NEW K, NEW ty, NEW s, NEW e, NEW w, NEW Kw, NEW d,
         Replaced(t, K, ty, s, e, w, Kw, d)
  PROVE  IsSpliced(t, K, s, e, w, Kw, d, Spliced(t, s, e, w), SplicedPlaces(K, s, e, Kw, Len(w)))
<1> DEFINE u == Spliced(t, s, e, w)
           M == SplicedPlaces(K, s, e, Kw, Len(w))
           L == Len(t)
           l == Len(w)
           U(q) == IF q < s
                   THEN IF t[q][1] = "s" /\ s < q + 1 + t[q][2] THEN Skip(t[q][2] + d) ELSE t[q]
                   ELSE IF q < s + l THEN w[q - (s - 1)] ELSE t[q - d]
           V(p, i) == IF p < s THEN (IF K[p][i] <= s THEN K[p][i] ELSE K[p][i] + d)
                      ELSE IF p < s + l THEN Kw[p - (s - 1)][i] + (s - 1) ELSE K[p - d][i] + d
<1>1. /\ t \in Seq(Lnodes) /\ w \in Seq(Lnodes) /\ K \in Places /\ Kw \in Places
      /\ L \in Nat \ {0} /\ l \in Nat \ {0} /\ s \in Nat /\ e \in Nat /\ d \in Int
      /\ 1 <= s /\ s < e /\ e <= L + 1 /\ d = l - (e - s) /\ s + l = e + d
  BY ReplacedFacts
<1>2. /\ \A q \in 1 .. L : t[q] \in Lnodes
      /\ \A q \in 1 .. l : w[q] \in Lnodes
  BY <1>1, SubtreeFacts
<1>3. u = [q \in 1 .. L + d |-> U(q)] /\ M = [p \in Nat |-> [i \in Nat |-> V(p, i)]]
  BY <1>1 DEF Spliced, SplicedPlaces
<1> HIDE DEF u, M, L, l
<1>4. \A q \in 1 .. L : \A n : t[q][1] = "s" => t[q][2] \in Int
  <2> TAKE q \in 1 .. L
  <2>1. t[q] \in {Node(f) : f \in Function} \/ t[q] \in {Skip(n) : n \in Int} \/ t[q] = ErcValue
    BY <1>2 DEF Lnodes
  <2> QED  BY <2>1 DEF Node, Skip, ErcValue
<1>5. \A q \in 1 .. L + d : U(q) \in Lnodes
  <2> TAKE q \in 1 .. L + d
  <2>1. CASE q < s
    <3>1. q \in 1 .. L
      BY <1>1, <2>1
    <3>2. t[q][1] = "s" => t[q][2] + d \in Int
      BY <1>1, <1>4, <3>1
    <3>3. t[q][1] = "s" => Skip(t[q][2] + d) \in Lnodes
      BY <3>2 DEF Lnodes
    <3> QED  BY <1>2, <2>1, <3>1, <3>3
  <2>2. CASE ~(q < s) /\ q < s + l
    <3>1. q - (s - 1) \in 1 .. l
      BY <1>1, <2>2
    <3> QED  BY <1>2, <2>2, <3>1
  <2>3. CASE ~(q < s) /\ ~(q < s + l)
    <3>1. q - d \in 1 .. L
      BY <1>1, <2>3
    <3> QED  BY <1>2, <2>3, <3>1
  <2> QED  BY <2>1, <2>2, <2>3
<1>6. u \in Seq(Lnodes) /\ Len(u) = L + d
  <2>1. L + d \in Nat
    BY <1>1
  <2>2. u \in [1 .. L + d -> Lnodes]
    BY <1>3, <1>5
  <2>3. u \in Seq(Lnodes)
    BY <2>1, <2>2, SeqDef
  <2>4. DOMAIN u = 1 .. L + d /\ DOMAIN u = 1 .. Len(u) /\ Len(u) \in Nat
    BY <2>2, <2>3, LenProperties
  <2> QED  BY <2>1, <2>3, <2>4
<1>7. \A p, i \in Nat : V(p, i) \in Int
  <2> TAKE p, i \in Nat
  <2>1. CASE p < s
    <3>1. K[p][i] \in Int
      BY <1>1 DEF Places
    <3> QED  BY <1>1, <2>1, <3>1
  <2>2. CASE ~(p < s) /\ p < s + l
    <3>1. p - (s - 1) \in Nat
      BY <1>1, <2>2
    <3>2. Kw[p - (s - 1)][i] \in Int
      BY <1>1, <3>1 DEF Places
    <3> QED  BY <1>1, <2>2, <3>2
  <2>3. CASE ~(p < s) /\ ~(p < s + l)
    <3>1. p - d \in Nat
      BY <1>1, <2>3
    <3>2. K[p - d][i] \in Int
      BY <1>1, <3>1 DEF Places
    <3> QED  BY <1>1, <2>3, <3>2
  <2> QED  BY <2>1, <2>2, <2>3
<1>8. M \in Places /\ \A p, i \in Nat : M[p][i] = V(p, i)
  <2>1. \A p \in Nat : M[p] = [i \in Nat |-> V(p, i)]
    BY <1>3
  <2>2. \A p, i \in Nat : M[p][i] = V(p, i)
    BY <2>1
  <2>3. M \in Places
    BY <1>3, <1>7 DEF Places
  <2> QED  BY <2>2, <2>3
<1>9. \A q \in 1 .. L + d : u[q] = U(q)
  BY <1>3
<1>10. ASSUME NEW q \in 1 .. s - 1
       PROVE  /\ t[q][1] # "s" => u[q] = t[q]
              /\ \A n \in Int : t[q] = Skip(n) => u[q] = IF s < q + 1 + n THEN Skip(n + d) ELSE t[q]
  <2>1. q \in 1 .. L + d /\ q < s
    BY <1>1
  <2>2. u[q] = IF t[q][1] = "s" /\ s < q + 1 + t[q][2] THEN Skip(t[q][2] + d) ELSE t[q]
    BY <1>9, <2>1
  <2>3. \A n \in Int : t[q] = Skip(n) => t[q][1] = "s" /\ t[q][2] = n
    BY DEF Skip
  <2> QED  BY <2>2, <2>3
<1>11. \A q \in 1 .. l : u[q + (s - 1)] = w[q]
  <2> TAKE q \in 1 .. l
  <2>1. /\ q + (s - 1) \in 1 .. L + d /\ ~(q + (s - 1) < s) /\ q + (s - 1) < s + l
        /\ (q + (s - 1)) - (s - 1) = q
    BY <1>1
  <2> QED  BY <1>9, <2>1
<1>12. \A q \in e .. L : u[q + d] = t[q]
  <2> TAKE q \in e .. L
  <2>1. /\ q + d \in 1 .. L + d /\ ~(q + d < s) /\ ~(q + d < s + l) /\ (q + d) - d = q
    BY <1>1
  <2> QED  BY <1>9, <2>1
<1>13. ASSUME NEW i \in Nat
       PROVE  /\ \A p \in Nat : p < s => M[p][i] = IF K[p][i] <= s THEN K[p][i] ELSE K[p][i] + d
              /\ \A p \in 1 .. l : M[p + (s - 1)][i] = Kw[p][i] + (s - 1)
              /\ \A p \in e .. L : M[p + d][i] = K[p][i] + d
  <2>1. \A p \in Nat : p < s => M[p][i] = IF K[p][i] <= s THEN K[p][i] ELSE K[p][i] + d
    BY <1>8
  <2>2. ASSUME NEW p \in 1 .. l PROVE M[p + (s - 1)][i] = Kw[p][i] + (s - 1)
    <3>1. /\ p + (s - 1) \in Nat /\ ~(p + (s - 1) < s) /\ p + (s - 1) < s + l
          /\ (p + (s - 1)) - (s - 1) = p
      BY <1>1
    <3> QED  BY <1>8, <3>1
  <2>3. ASSUME NEW p \in e .. L PROVE M[p + d][i] = K[p][i] + d
    <3>1. p + d \in Nat /\ ~(p + d < s) /\ ~(p + d < s + l) /\ (p + d) - d = p
      BY <1>1
    <3> QED  BY <1>8, <3>1
  <2> QED  BY <2>1, <2>2, <2>3
<1> QED  BY <1>6, <1>8, <1>10, <1>11, <1>12, <1>13 DEF IsSpliced, u, M, L, l

\* Where the nodes of u come from, and that they have their children.
NodeOf(u, M, p, l, end) ==
  p \in Subtrees(u) /\ u[p] = l /\ End(u, M, p) = end /\ Made(u, M, p, Arity(l))

\* The nodes of the replacement, and those behind the subtree that is replaced.
LEMMA SplicedMoved ==
  ASSUME NEW t, NEW K, NEW ty, NEW s, NEW e, NEW w, NEW Kw, NEW d, NEW u, NEW M,
         Replaced(t, K, ty, s, e, w, Kw, d), IsSpliced(t, K, s, e, w, Kw, d, u, M)
  PROVE  /\ \A p \in Subtrees(w) :
              NodeOf(u, M, p + (s - 1), w[p], End(w, Kw, p) + (s - 1))
         /\ \A p \in Subtrees(t) : p >= e => NodeOf(u, M, p + d, t[p], End(t, K, p) + d)
<1>1. /\ t \in Seq(Lnodes) /\ w \in Seq(Lnodes)
      /\ Grown(t, K, 1) /\ Grown(w, Kw, 1)
      /\ Len(t) \in Nat \ {0} /\ Len(w) \in Nat \ {0} /\ s \in Nat /\ e \in Nat /\ d \in Int
      /\ 1 <= s /\ s < e /\ e <= Len(t) + 1 /\ s + Len(w) = e + d
      /\ 1 \in Subtrees(w) /\ End(w, Kw, 1) = Len(w) + 1
  BY ReplacedFacts
<1>2. \A p \in Subtrees(t) : p \in Nat /\ 1 <= p /\ p <= Len(t)
  BY ReplacedFacts
<1>3. \A p \in Subtrees(w) : p \in Nat /\ 1 <= p /\ p <= Len(w)
  BY ReplacedFacts
<1>4. /\ u \in Seq(Lnodes) /\ Len(u) = Len(t) + d
      /\ \A q \in 1 .. Len(w) : u[q + (s - 1)] = w[q]
      /\ \A q \in e .. Len(t) : u[q + d] = t[q]
      /\ \A i \in Nat :
           /\ \A p \in 1 .. Len(w) : M[p + (s - 1)][i] = Kw[p][i] + (s - 1)
           /\ \A p \in e .. Len(t) : M[p + d][i] = K[p][i] + d
  BY DEF IsSpliced
<1>5. DOMAIN u = 1 .. Len(t) + d
  BY <1>4, SubtreeFacts
<1> DEFINE L == Len(t)
           l == Len(w)
           o == s - 1
<1>6. ASSUME NEW p \in Subtrees(w)
      PROVE  NodeOf(u, M, p + o, w[p], End(w, Kw, p) + o)
  <2>1. Moved(w, Kw, 1, u, M, o)
    <3>1. \A q \in 1 .. l : q + o \in 1 .. L + d
      BY <1>1
    <3>2. \A q \in 1 .. End(w, Kw, 1) - 1 : q \in 1 .. l
      BY <1>1
    <3>3. \A q \in Subtrees(w) : q \in 1 .. l /\ Arity(w[q]) \in Nat
      BY <1>1, <1>3, SubtreeFacts
    <3>4. \A q \in Subtrees(w) : \A i \in 1 .. Arity(w[q]) + 1 : i \in Nat
      BY <3>3
    <3> HIDE DEF l, L, o
    <3>5. \A q \in 1 .. End(w, Kw, 1) - 1 : q + o \in DOMAIN u /\ u[q + o] = w[q]
      BY <1>4, <1>5, <3>1, <3>2 DEF l, L, o
    <3>6. \A q \in Subtrees(w) : \A i \in 1 .. Arity(w[q]) + 1 : M[q + o][i] = Kw[q][i] + o
      BY <1>4, <3>3, <3>4 DEF l, o
    <3> QED  BY <3>5, <3>6 DEF Moved
  <2>2. p \in Within(w, Kw, 1) /\ o \in Int
    <3>1. \A q \in Subtrees(w) : 1 <= q /\ q < End(w, Kw, 1)
      BY <1>1, <1>3
    <3> QED  BY <1>1, <3>1 DEF Within
  <2> HIDE DEF o
  <2>3. /\ p + o \in Subtrees(u) /\ u[p + o] = w[p]
        /\ Made(u, M, p + o, Arity(u[p + o]))
        /\ End(u, M, p + o) = End(w, Kw, p) + o
    <3>1. Grown(w, Kw, 1) /\ 1 \in Subtrees(w) /\ 1 >= 1 /\ u \in Seq(Lnodes)
      BY <1>1, <1>4
    <3> QED  BY SMTT(30), <2>1, <2>2, <3>1, MovedWithin
  <2> QED  BY <2>3 DEF NodeOf
<1>7. ASSUME NEW p \in Subtrees(t), p >= e
      PROVE  NodeOf(u, M, p + d, t[p], End(t, K, p) + d)
  <2>1. End(t, K, p) \in Nat /\ End(t, K, p) <= L + 1 /\ p \in Nat
    BY <1>1, <1>2, KidFacts
  <2>2. \A q \in p .. End(t, K, p) - 1 : q \in e .. L /\ q + d \in 1 .. L + d
    BY <1>1, <1>7, <2>1
  <2>3. \A q \in p .. End(t, K, p) - 1 : q + d \in DOMAIN u /\ u[q + d] = t[q]
    <3> HIDE DEF L
    <3> QED  BY <1>4, <1>5, <2>2 DEF L
  <2>4. ASSUME NEW q \in Subtrees(t), p <= q, q < End(t, K, p), NEW i \in 1 .. Arity(t[q]) + 1
        PROVE  M[q + d][i] = K[q][i] + d
    <3>1. q \in Nat /\ Arity(t[q]) \in Nat
      BY <1>1, SubtreeFacts
    <3>2. q \in e .. L /\ i \in Nat
      BY <1>1, <1>7, <2>1, <2>4, <3>1
    <3> QED  BY <1>4, <3>2
  <2>5. Moved(t, K, p, u, M, d)
    BY <2>3, <2>4 DEF Moved
  <2>6. p >= 1
    BY <1>2
  <2>7. /\ p + d \in Subtrees(u) /\ u[p + d] = t[p]
        /\ Made(u, M, p + d, Arity(u[p + d]))
        /\ End(u, M, p + d) = End(t, K, p) + d
    BY SMTT(30), <1>1, <1>4, <2>5, <2>6, MovedFacts
  <2> QED  BY <2>7 DEF NodeOf
<1> QED  BY <1>6, <1>7

\* The nodes in front of the subtree that is replaced.
LEMMA SplicedBefore ==
  ASSUME NEW t, NEW K, NEW ty, NEW s, NEW e, NEW w, NEW Kw, NEW d, NEW u, NEW M,
         Replaced(t, K, ty, s, e, w, Kw, d), IsSpliced(t, K, s, e, w, Kw, d, u, M),
         NEW p \in Subtrees(t), p < s
  PROVE  NodeOf(u, M, p, t[p], IF End(t, K, p) <= s THEN End(t, K, p) ELSE End(t, K, p) + d)
<1> DEFINE n == Arity(t[p])
           P == K[p]
           psi(x) == IF x <= s THEN x ELSE x + d
<1>1. /\ t \in Seq(Lnodes) /\ w \in Seq(Lnodes)
      /\ Grown(t, K, 1) /\ Grown(w, Kw, 1)
      /\ Len(t) \in Nat \ {0} /\ Len(w) \in Nat \ {0} /\ s \in Nat /\ e \in Nat /\ d \in Int
      /\ 1 <= s /\ s < e /\ e <= Len(t) + 1 /\ s + Len(w) = e + d
      /\ s \in Subtrees(t) /\ e = End(t, K, s)
      /\ 1 \in Subtrees(w) /\ Fn(w[1]).ret = Fn(t[s]).ret /\ End(w, Kw, 1) = Len(w) + 1
  BY ReplacedFacts
<1>2. \A q \in Subtrees(t) : q \in Nat /\ 1 <= q /\ q <= Len(t) /\ IsFunction(t[q])
                             /\ Arity(t[q]) \in Nat
  BY <1>1, ReplacedFacts, SubtreeFacts
<1>3. /\ u \in Seq(Lnodes) /\ Len(u) = Len(t) + d
      /\ \A q \in 1 .. s - 1 :
           /\ t[q][1] # "s" => u[q] = t[q]
           /\ \A k \in Int : t[q] = Skip(k) => u[q] = IF s < q + 1 + k THEN Skip(k + d) ELSE t[q]
      /\ \A q \in e .. Len(t) : u[q + d] = t[q]
      /\ \A i \in Nat : \A q \in Nat : q < s => M[q][i] = psi(K[q][i])
  BY DEF IsSpliced
<1>4. DOMAIN u = 1 .. Len(t) + d
  BY <1>3, SubtreeFacts
<1>5. ASSUME NEW q \in Subtrees(t), q < s
      PROVE  q \in Subtrees(u) /\ u[q] = t[q] /\ End(u, M, q) = psi(End(t, K, q))
  <2>1. q \in 1 .. s - 1 /\ q \in Nat
    BY <1>1, <1>2, <1>5
  <2>2. t[q][1] # "s"
    <3>1. IsFunction(t[q])
      BY <1>2
    <3> QED  BY <3>1 DEF IsFunction
  <2>3. u[q] = t[q]
    BY <1>3, <2>1, <2>2
  <2>4. q \in Subtrees(u)
    <3>1. q \in 1 .. Len(t) + d
      BY <1>1, <2>1
    <3> QED  BY <1>2, <1>4, <2>3, <3>1 DEF Subtrees
  <2>5. Arity(t[q]) + 1 \in Nat
    BY <1>2
  <2> HIDE DEF psi
  <2>6. M[q][Arity(t[q]) + 1] = psi(K[q][Arity(t[q]) + 1])
    BY <1>3, <1>5, <2>1, <2>5
  <2> QED  BY <2>3, <2>4, <2>6 DEF End
<1>6. NodeOf(u, M, 1 + (s - 1), w[1], (Len(w) + 1) + (s - 1))
  BY <1>1, SplicedMoved
<1>7. s \in Subtrees(u) /\ Fn(u[s]).ret = Fn(t[s]).ret /\ End(u, M, s) = e + d
  <2>1. 1 + (s - 1) = s /\ (Len(w) + 1) + (s - 1) = e + d
    BY <1>1
  <2> QED  BY <1>1, <1>6, <2>1 DEF NodeOf
<1>8. \A q \in Subtrees(t) : q >= e =>
        q + d \in Subtrees(u) /\ u[q + d] = t[q] /\ End(u, M, q + d) = End(t, K, q) + d
  BY SplicedMoved DEF NodeOf
<1>9. /\ n \in Nat /\ p \in Nat /\ 1 <= p /\ \A i \in 1 .. n + 1 : P[i] \in Nat /\ M[p][i] = psi(P[i])
      /\ u[p] = t[p] /\ p \in Subtrees(u)
  <2>1. n \in Nat /\ p \in Nat /\ 1 <= p
    BY <1>2
  <2>2. \A i \in 1 .. n + 1 : i \in Nat /\ P[i] \in Nat
    <3>1. \A i \in 1 .. n + 1 : i \in Nat
      BY <2>1
    <3>2. \A i \in 1 .. n + 1 : P[i] \in Nat
      BY <1>1, <2>1, KidFacts
    <3> QED  BY <3>1, <3>2
  <2>3. \A i \in Nat : M[p][i] = psi(K[p][i])
    BY <1>3, <2>1
  <2> QED  BY <1>5, <2>1, <2>2, <2>3
<1>10. Made(t, K, p, n)
  BY <1>1, <1>9 DEF Grown
<1>11. /\ Fn(t[p]).erc => p + 1 \in DOMAIN u /\ u[p + 1] = ErcValue
       /\ P[1] <= s
  <2>1. P[1] = p + Step(t[p]) /\ (Fn(t[p]).erc => p + 1 \in DOMAIN t /\ t[p + 1] = ErcValue)
    BY <1>10 DEF Made
  <2>2. CASE Fn(t[p]).erc
    <3>1. p + 1 # s
      BY <1>2, <1>1, <2>1, <2>2, NoFunctions
    <3>2. p + 1 \in 1 .. s - 1 /\ p + 1 \in 1 .. Len(t) + d
      BY <1>1, <1>9, <3>1
    <3>3. t[p + 1][1] # "s"
      BY <2>1, <2>2 DEF ErcValue
    <3>4. u[p + 1] = ErcValue
      BY <1>3, <2>1, <2>2, <3>2, <3>3
    <3>5. Step(t[p]) = 2
      BY <2>2 DEF Step
    <3> HIDE DEF P
    <3>6. P[1] <= s
      BY <1>1, <1>9, <2>1, <3>2, <3>5
    <3> QED  BY <1>4, <3>2, <3>4, <3>6
  <2>3. CASE ~Fn(t[p]).erc
    <3>1. Step(t[p]) = 1
      BY <2>3 DEF Step
    <3> HIDE DEF P
    <3>2. P[1] <= s
      BY <1>1, <1>9, <2>1, <3>1
    <3> QED  BY <2>3, <3>2
  <2> QED  BY <2>2, <2>3
<1>12. M[p][1] = p + Step(t[p])
  <2>1. 1 \in 1 .. n + 1
    BY <1>9
  <2> QED  BY <1>9, <1>10, <1>11, <2>1 DEF Made
<1>13. ASSUME NEW i \in 1 .. n
       PROVE  LET b == Kid(u, M, p, i)
              IN /\ b \in Subtrees(u) /\ Fn(u[b]).ret = Fn(t[p]).args[i]
                 /\ M[p][i + 1] = End(u, M, b)
                 /\ Fn(t[p]).expr => u[M[p][i]] = Skip(M[p][i + 1] - b)
  <2> DEFINE c == Kid(t, K, p, i)
             b == Kid(u, M, p, i)
             g == Gap(t[p])
             f == Fn(t[p])
  <2>1. i \in 1 .. n + 1 /\ i + 1 \in 1 .. n + 1 /\ g \in {0, 1}
    BY <1>9 DEF Gap
  <2>2. /\ P[i] \in Nat /\ P[i + 1] \in Nat /\ M[p][i] = psi(P[i]) /\ M[p][i + 1] = psi(P[i + 1])
    BY <1>9, <2>1
  <2>0. Grown(t, K, 1) /\ p >= 1 /\ i \in 1 .. Arity(t[p])
    BY <1>1, <1>9
  <2>3. c \in Subtrees(t) /\ c \in Nat /\ c = P[i] + g /\ p < P[i] /\ P[i] <= c /\ c < P[i + 1]
    <3>1. c \in Subtrees(t) /\ c \in Nat /\ c = K[p][i] + Gap(t[p])
          /\ p < K[p][i] /\ K[p][i] <= c /\ c < K[p][i + 1]
      BY <2>0, KidFacts
    <3> QED  BY <3>1
  <2>4. /\ P[i + 1] = End(t, K, c) /\ Fn(t[c]).ret = f.args[i]
        /\ f.expr => t[P[i]] = Skip(P[i + 1] - c)
    <3>1. K[p][i + 1] = End(t, K, c) /\ Fn(t[c]).ret = Fn(t[p]).args[i]
      BY <2>0, KidFacts
    <3>2. Fn(t[p]).expr => t[K[p][i]] = Skip(K[p][i + 1] - c)
      BY <2>0, KidFacts
    <3> HIDE DEF c
    <3> QED  BY <3>1, <3>2
  <2>5. /\ P[i] <= s \/ P[i] >= e
        /\ P[i + 1] <= s \/ P[i + 1] >= e
        /\ P[i] <= s => c <= s
    BY <1>1, <1>9, <2>1, Nested
  <2>6. b = psi(P[i]) + g
    BY <1>9, <2>2 DEF Kid
  <2>7. f.expr => g = 1
    BY DEF Gap
  <2> HIDE DEF b, g, c
  <2>8. CASE P[i] <= s
    <3>1. b = c /\ M[p][i] = P[i] /\ c <= s
      BY <2>2, <2>3, <2>5, <2>6, <2>8
    <3>2. b \in Subtrees(u) /\ Fn(u[b]).ret = f.args[i] /\ psi(P[i + 1]) = End(u, M, b)
      <4>1. CASE c = s
        <5>1. P[i + 1] = e
          BY <1>1, <2>4, <4>1
        <5> HIDE DEF P
        <5>2. psi(P[i + 1]) = e + d
          BY <1>1, <5>1
        <5> QED  BY <1>7, <2>4, <3>1, <4>1, <5>2
      <4>2. CASE c # s
        <5>1. c < s
          BY SMTT(30), <1>1, <2>3, <3>1, <4>2
        <5>2. c \in Subtrees(u) /\ u[c] = t[c] /\ End(u, M, c) = psi(End(t, K, c))
          BY <1>5, <2>3, <5>1
        <5> HIDE DEF psi
        <5> QED  BY <2>4, <3>1, <5>2
      <4> QED  BY <4>1, <4>2
    <3>3. ASSUME f.expr PROVE u[P[i]] = Skip(psi(P[i + 1]) - c)
      <4>1. c = P[i] + 1 /\ t[P[i]] = Skip(P[i + 1] - c)
        BY <2>3, <2>4, <2>7, <3>3
      <4>2. P[i] \in 1 .. s - 1 /\ P[i + 1] - c \in Int
        <5> DEFINE x == P[i]
                   y == P[i + 1]
        <5>1. /\ x \in Nat /\ y \in Nat /\ p < x /\ p \in Nat /\ c \in Nat /\ c = x + 1
              /\ c <= s /\ s \in Nat
          BY <1>1, <1>9, <2>2, <2>3, <3>1, <4>1
        <5> HIDE DEF x, y
        <5>2. x \in 1 .. s - 1 /\ y - c \in Int
          BY <5>1
        <5> QED  BY <5>2 DEF x, y
      <4> HIDE DEF P
      <4>3. u[P[i]] = IF s < P[i] + 1 + (P[i + 1] - c) THEN Skip((P[i + 1] - c) + d) ELSE t[P[i]]
        BY <1>3, <4>1, <4>2
      <4>4. P[i] + 1 + (P[i + 1] - c) = P[i + 1]
        BY <2>2, <2>3, <4>1
      <4>5. CASE s < P[i + 1]
        <5>1. psi(P[i + 1]) - c = (P[i + 1] - c) + d
          BY SMTT(30), <1>1, <2>2, <2>3, <4>5
        <5> HIDE DEF psi
        <5> QED  BY <4>3, <4>4, <4>5, <5>1
      <4>6. CASE ~(s < P[i + 1])
        <5>1. psi(P[i + 1]) = P[i + 1]
          BY <1>1, <2>2, <4>6
        <5> HIDE DEF psi
        <5> QED  BY <4>1, <4>3, <4>4, <4>6, <5>1
      <4> QED  BY <4>5, <4>6
    <3> HIDE DEF psi, P
    <3>4. Fn(t[p]).expr => u[M[p][i]] = Skip(M[p][i + 1] - b)
      BY <2>2, <3>1, <3>3
    <3> QED  BY <2>2, <3>2, <3>4 DEF b
  <2>9. CASE ~(P[i] <= s)
    <3>1. P[i] >= e /\ c >= e /\ c < P[i + 1]
      BY SMTT(30), <1>1, <2>2, <2>3, <2>5, <2>9
    <3>2. b = c + d /\ M[p][i] = P[i] + d /\ M[p][i + 1] = P[i + 1] + d
      <4>1. /\ P[i] \in Nat /\ P[i + 1] \in Nat /\ c = P[i] + g /\ b = psi(P[i]) + g
            /\ M[p][i] = psi(P[i]) /\ M[p][i + 1] = psi(P[i + 1])
        BY <2>2, <2>3, <2>6
      <4> HIDE DEF P
      <4>2. ~(P[i + 1] <= s) /\ psi(P[i]) = P[i] + d
        BY SMTT(30), <1>1, <2>3, <2>9, <3>1, <4>1
      <4>3. psi(P[i + 1]) = P[i + 1] + d
        BY <4>2
      <4> HIDE DEF psi
      <4> QED  BY SMTT(30), <1>1, <2>1, <4>1, <4>2, <4>3
    <3>3. c + d \in Subtrees(u) /\ u[c + d] = t[c] /\ End(u, M, c + d) = P[i + 1] + d
      BY <1>8, <2>3, <2>4, <3>1
    <3>4. ASSUME f.expr PROVE u[P[i] + d] = Skip(P[i + 1] - c)
      <4>1. P[i] \in e .. Len(t)
        <5>1. c <= Len(t)
          BY <1>2, <2>3
        <5> HIDE DEF P
        <5> QED  BY SMTT(30), <1>1, <2>2, <2>3, <3>1, <5>1
      <4> QED  BY <1>3, <2>4, <3>4, <4>1
    <3>5. (P[i + 1] + d) - (c + d) = P[i + 1] - c
      <4>1. P[i + 1] \in Nat /\ c \in Nat
        BY <2>2, <2>3
      <4> HIDE DEF P, psi
      <4> QED  BY SMTT(30), <1>1, <4>1
    <3> HIDE DEF P
    <3> QED  BY <2>4, <3>2, <3>3, <3>4, <3>5 DEF b, P
  <2> QED  BY <2>8, <2>9
<1>14. Made(u, M, p, n)
  BY <1>9, <1>11, <1>12, <1>13 DEF Made
<1> HIDE DEF psi
<1>15. NodeOf(u, M, p, t[p], psi(End(t, K, p)))
  BY <1>5, <1>14 DEF NodeOf
<1> QED  BY <1>15 DEF psi

\* All of its nodes are of these three kinds: the new array is a tree of the type of
\* the old one.
LEMMA SplicedShape ==
  ASSUME NEW t, NEW K, NEW ty, NEW s, NEW e, NEW w, NEW Kw, NEW d, NEW u, NEW M,
         Replaced(t, K, ty, s, e, w, Kw, d), IsSpliced(t, K, s, e, w, Kw, d, u, M)
  PROVE  /\ Shape(u, M, ty)
         /\ \A p \in Subtrees(u) :
              \/ p \in Subtrees(t) /\ p < s
              \/ \E q \in Subtrees(w) : p = q + (s - 1)
              \/ \E q \in Subtrees(t) : q >= e /\ p = q + d
<1>1. /\ t \in Seq(Lnodes) /\ w \in Seq(Lnodes)
      /\ Len(t) \in Nat \ {0} /\ Len(w) \in Nat \ {0} /\ s \in Nat /\ e \in Nat /\ d \in Int
      /\ 1 <= s /\ s < e /\ e <= Len(t) + 1 /\ s + Len(w) = e + d
      /\ s \in Subtrees(t) /\ e = End(t, K, s)
      /\ 1 \in Subtrees(t) /\ Fn(t[1]).ret = ty /\ End(t, K, 1) = Len(t) + 1
      /\ 1 \in Subtrees(w) /\ Fn(w[1]).ret = Fn(t[s]).ret /\ End(w, Kw, 1) = Len(w) + 1
  BY ReplacedFacts
<1>2. /\ u \in Seq(Lnodes) /\ Len(u) = Len(t) + d /\ M \in Places
      /\ \A q \in 1 .. s - 1 :
           /\ t[q][1] # "s" => u[q] = t[q]
           /\ \A k \in Int : t[q] = Skip(k) => u[q] = IF s < q + 1 + k THEN Skip(k + d) ELSE t[q]
      /\ \A q \in 1 .. Len(w) : u[q + (s - 1)] = w[q]
      /\ \A q \in e .. Len(t) : u[q + d] = t[q]
  BY DEF IsSpliced
<1>3. DOMAIN u = 1 .. Len(t) + d /\ DOMAIN t = 1 .. Len(t) /\ DOMAIN w = 1 .. Len(w)
      /\ \A q \in 1 .. Len(t) : t[q] \in Lnodes
  BY <1>1, <1>2, SubtreeFacts
<1>4. ASSUME NEW p \in Subtrees(u)
      PROVE  \/ p \in Subtrees(t) /\ p < s
             \/ \E q \in Subtrees(w) : p = q + (s - 1)
             \/ \E q \in Subtrees(t) : q >= e /\ p = q + d
  <2>1. p \in 1 .. Len(t) + d /\ IsFunction(u[p])
    BY <1>3 DEF Subtrees
  <2>2. CASE p < s
    <3>1. p \in 1 .. s - 1 /\ p \in 1 .. Len(t)
      BY <1>1, <2>1, <2>2
    <3>2. IsFunction(t[p])
      <4>1. CASE t[p][1] # "s"
        BY <1>2, <2>1, <3>1, <4>1
      <4>2. CASE t[p][1] = "s"
        <5>1. t[p] \in {Node(f) : f \in Function} \/ t[p] \in {Skip(n) : n \in Int} \/ t[p] = ErcValue
          BY <1>3, <3>1 DEF Lnodes
        <5>2. PICK k \in Int : t[p] = Skip(k)
          BY <4>2, <5>1 DEF Node, ErcValue
        <5>3. u[p] = Skip(k + d) \/ u[p] = Skip(k)
          BY <1>2, <3>1, <5>2
        <5> QED  BY <2>1, <5>3, NoFunctions
      <4> QED  BY <4>1, <4>2
    <3> QED  BY <1>3, <2>2, <3>1, <3>2 DEF Subtrees
  <2>3. CASE ~(p < s) /\ p < s + Len(w)
    <3>1. p - (s - 1) \in 1 .. Len(w) /\ (p - (s - 1)) + (s - 1) = p
      BY <1>1, <2>1, <2>3
    <3>2. u[p] = w[p - (s - 1)]
      BY <1>2, <3>1
    <3>3. p - (s - 1) \in Subtrees(w)
      BY <1>3, <2>1, <3>1, <3>2 DEF Subtrees
    <3> QED  BY <3>1, <3>3
  <2>4. CASE ~(p < s) /\ ~(p < s + Len(w))
    <3>1. p - d \in e .. Len(t) /\ (p - d) + d = p /\ p - d \in 1 .. Len(t) /\ p - d >= e
      BY <1>1, <2>1, <2>4
    <3>2. u[p] = t[p - d]
      BY <1>2, <3>1
    <3>3. p - d \in Subtrees(t)
      BY <1>3, <2>1, <3>1, <3>2 DEF Subtrees
    <3> QED  BY <3>1, <3>3
  <2> QED  BY <2>2, <2>3, <2>4
<1>5. \A q \in Subtrees(w) : NodeOf(u, M, q + (s - 1), w[q], End(w, Kw, q) + (s - 1))
  BY SplicedMoved
<1>6. \A q \in Subtrees(t) : q >= e => NodeOf(u, M, q + d, t[q], End(t, K, q) + d)
  BY SplicedMoved
<1>7. \A q \in Subtrees(t) : q < s =>
        NodeOf(u, M, q, t[q], IF End(t, K, q) <= s THEN End(t, K, q) ELSE End(t, K, q) + d)
  BY SplicedBefore
<1>8. Grown(u, M, 1)
  <2>1. \A p \in Subtrees(u) : Made(u, M, p, Arity(u[p]))
    BY <1>4, <1>5, <1>6, <1>7 DEF NodeOf
  <2> QED  BY <1>2, <2>1 DEF Grown
<1>9. 1 \in Subtrees(u) /\ Fn(u[1]).ret = ty /\ End(u, M, 1) = Len(u) + 1
  <2>1. CASE s = 1
    <3>1. 1 + (s - 1) = 1 /\ Len(w) + 1 + (s - 1) = Len(t) + d + 1
      BY <1>1, <2>1
    <3>2. NodeOf(u, M, 1, w[1], Len(t) + d + 1)
      BY <1>1, <1>5, <3>1
    <3> QED  BY <1>1, <1>2, <2>1, <3>2 DEF NodeOf
  <2>2. CASE s # 1
    <3>1. 1 < s /\ ~(Len(t) + 1 <= s) /\ (Len(t) + 1) + d = Len(t) + d + 1
      BY <1>1, <2>2
    <3>2. NodeOf(u, M, 1, t[1], (Len(t) + 1) + d)
      BY <1>1, <1>7, <3>1
    <3> QED  BY <1>1, <1>2, <3>1, <3>2 DEF NodeOf
  <2> QED  BY <2>1, <2>2
<1> QED  BY <1>4, <1>8, <1>9 DEF Shape

-----------------------------------------------------------------------------
(* What copy_tree_replace_many makes *)

\* The parts of its definition.
AtIs(at, t, m, p) ==
  at = [i \in 1 .. Len(Fn(t[p]).args) + 1 |->
          IF i = 1 THEN p + 1 ELSE m[at[i - 1] + (IF Fn(t[p]).expr THEN 1 ELSE 0)].end]

At(t, p) == CHOOSE at : AtIs(at, t, Measure(t), p)

CopiesIs(k, t, p, copy) ==
  k = [i \in 0 .. Len(Fn(t[p]).args) |->
         IF i = 0 THEN <<t[p]>> \o (IF Fn(t[p]).erc THEN <<t[p + 1]>> ELSE <<>>)
         ELSE LET kid == copy[At(t, p)[i] + (IF Fn(t[p]).expr THEN 1 ELSE 0)]
              IN k[i - 1] \o (IF Fn(t[p]).expr THEN <<Skip(Len(kid))>> ELSE <<>>) \o kid]

Copies(t, p, copy) == CHOOSE k : CopiesIs(k, t, p, copy)

CopyIs(copy, t, s, w) ==
  copy = [p \in Subtrees(t) |->
            IF p = s THEN w ELSE Copies(t, p, copy)[Len(Fn(t[p]).args)]]

\* CopyTreeReplace is the copy of what is at 1.
LEMMA CopyParts ==
  \A t, s, w : CopyTreeReplace(t, s, w) = (CHOOSE copy : CopyIs(copy, t, s, w))[1]
BY DEF CopyTreeReplace, CopyIs, Copies, CopiesIs, At, AtIs

\* The places of the children.
LEMMA AtFacts ==
  ASSUME NEW t, NEW K, NEW ty, Shape(t, K, ty), NEW p \in Subtrees(t),
         NEW i \in 1 .. Arity(t[p])
  PROVE  At(t, p)[i] = K[p][i]
<1> DEFINE n == Arity(t[p])
           g == IF Fn(t[p]).expr THEN 1 ELSE 0
           m == Measure(t)
           P == K[p]
           h == [j \in 1 .. n + 1 |-> P[j]]
           at == At(t, p)
           S == {j \in 0 .. n : j = 0 \/ at[j] = P[j]}
<1>1. /\ t \in Seq(Lnodes) /\ Grown(t, K, 1) /\ p >= 1 /\ n \in Nat /\ p \in Nat
      /\ \A c \in Subtrees(t) : m[c].end = End(t, K, c)
  BY ShapeFacts, SubtreeFacts
<1>2. P[1] = p + 1
  <2>1. n # 0
    BY <1>1
  <2>2. ~Fn(t[p]).erc
    BY <1>1, <2>1, SubtreeFacts
  <2>3. Made(t, K, p, n)
    BY <1>1 DEF Grown
  <2> QED  BY <2>2, <2>3 DEF Made, Step
<1>3. \A j \in 1 .. n : m[P[j] + g].end = P[j + 1]
  <2> TAKE j \in 1 .. n
  <2> DEFINE c == Kid(t, K, p, j)
  <2>1. c \in Subtrees(t) /\ c = K[p][j] + Gap(t[p]) /\ K[p][j + 1] = End(t, K, c)
    BY SMTT(30), <1>1, KidFacts
  <2> QED  BY <1>1, <2>1 DEF Gap
<1>4. \A a : AtIs(a, t, m, p)
        <=> a = [j \in 1 .. n + 1 |-> IF j = 1 THEN p + 1 ELSE m[a[j - 1] + g].end]
  BY DEF AtIs, Arity
<1>5. \A j \in 1 .. n + 1 : j # 1 => j - 1 \in 1 .. n /\ j - 1 + 1 = j /\ j - 1 \in 1 .. n + 1
  BY <1>1
<1> HIDE DEF P, m, g, n
<1>6. AtIs(h, t, m, p)
  <2>1. \A j \in 1 .. n + 1 : h[j] = IF j = 1 THEN p + 1 ELSE m[h[j - 1] + g].end
    BY <1>2, <1>3, <1>5
  <2>2. h = [j \in 1 .. n + 1 |-> h[j]]
    OBVIOUS
  <2> HIDE DEF h
  <2> QED  BY <1>4, <2>1, <2>2
<1>7. AtIs(at, t, m, p)
  BY <1>6 DEF At, m
<1> HIDE DEF at, h
<1>8. \A j \in 1 .. n + 1 : at[j] = IF j = 1 THEN p + 1 ELSE m[at[j - 1] + g].end
  <2>1. at = [j \in 1 .. n + 1 |-> IF j = 1 THEN p + 1 ELSE m[at[j - 1] + g].end]
    BY <1>4, <1>7
  <2> QED  BY <2>1
<1>9. 0 .. n \subseteq S
  <2>1. 0 \in S
    BY <1>1
  <2>2. \A j \in 1 .. n : j - 1 \in S => j \in S
    <3> SUFFICES ASSUME NEW j \in 1 .. n, j - 1 \in S PROVE j \in S
      OBVIOUS
    <3>1. j \in 1 .. n + 1 /\ j \in 0 .. n
      BY <1>1
    <3>2. CASE j = 1
      BY <1>2, <1>8, <3>1, <3>2
    <3>3. CASE j # 1
      <4>1. j - 1 # 0 /\ j - 1 \in 1 .. n /\ j - 1 + 1 = j
        BY <1>1, <3>3
      <4>2. at[j - 1] = P[j - 1]
        BY <4>1
      <4> QED  BY <1>3, <1>8, <3>1, <3>3, <4>1, <4>2
    <3> QED  BY <3>2, <3>3
  <2> HIDE DEF S
  <2> QED  BY <1>1, <2>1, <2>2, Climb
<1>10. i \in 1 .. n /\ i \in 0 .. n /\ i # 0
  BY <1>1 DEF n
<1> QED  BY <1>9, <1>10 DEF at, P

\* Two pieces of an array, one behind the other.
LEMMA Joined ==
  ASSUME NEW u \in Seq(Lnodes), NEW a \in Nat, NEW b \in Nat, NEW c \in Nat,
         1 <= a, a <= b, b <= c, c <= Len(u) + 1
  PROVE  SubSeq(u, a, b - 1) \o SubSeq(u, b, c - 1) = SubSeq(u, a, c - 1)
<1> DEFINE A == SubSeq(u, a, b - 1)
           B == SubSeq(u, b, c - 1)
           C == SubSeq(u, a, c - 1)
           D == A \o B
<1>0. Len(u) \in Nat
  BY SubtreeFacts
<1>1. A \in Seq(Lnodes) /\ Len(A) = b - a /\ \A i \in 1 .. b - a : A[i] = u[a + i - 1]
  <2>1. a \in 1 .. Len(u) + 1 /\ b - 1 \in a - 1 .. Len(u) /\ (b - 1) - a + 1 = b - a
    BY <1>0
  <2>2. /\ A \in Seq(Lnodes) /\ Len(A) = (b - 1) - a + 1
        /\ \A i \in 1 .. (b - 1) - a + 1 : A[i] = u[a + i - 1]
    BY <2>1, Piece
  <2> HIDE DEF A
  <2> QED  BY <2>1, <2>2
<1>2. B \in Seq(Lnodes) /\ Len(B) = c - b /\ \A i \in 1 .. c - b : B[i] = u[b + i - 1]
  <2>1. b \in 1 .. Len(u) + 1 /\ c - 1 \in b - 1 .. Len(u) /\ (c - 1) - b + 1 = c - b
    BY <1>0
  <2>2. /\ B \in Seq(Lnodes) /\ Len(B) = (c - 1) - b + 1
        /\ \A i \in 1 .. (c - 1) - b + 1 : B[i] = u[b + i - 1]
    BY <2>1, Piece
  <2> HIDE DEF B
  <2> QED  BY <2>1, <2>2
<1>3. C \in Seq(Lnodes) /\ Len(C) = c - a /\ \A i \in 1 .. c - a : C[i] = u[a + i - 1]
  <2>1. a \in 1 .. Len(u) + 1 /\ c - 1 \in a - 1 .. Len(u) /\ (c - 1) - a + 1 = c - a
    BY <1>0
  <2>2. /\ C \in Seq(Lnodes) /\ Len(C) = (c - 1) - a + 1
        /\ \A i \in 1 .. (c - 1) - a + 1 : C[i] = u[a + i - 1]
    BY <2>1, Piece
  <2> HIDE DEF C
  <2> QED  BY <2>1, <2>2
<1> HIDE DEF A, B, C
<1>4. D \in Seq(Lnodes) /\ Len(D) = c - a
      /\ \A i \in 1 .. c - a : D[i] = IF i <= b - a THEN A[i] ELSE B[i - (b - a)]
  <2>1. D \in Seq(Lnodes) /\ Len(D) = Len(A) + Len(B)
        /\ \A i \in 1 .. Len(A) + Len(B) : D[i] = IF i <= Len(A) THEN A[i] ELSE B[i - Len(A)]
    BY <1>1, <1>2, ConcatProperties
  <2>2. (b - a) + (c - b) = c - a
    OBVIOUS
  <2> HIDE DEF D
  <2> QED  BY <1>1, <1>2, <2>1, <2>2
<1> HIDE DEF D
<1>5. \A i \in 1 .. c - a : D[i] = C[i]
  <2> TAKE i \in 1 .. c - a
  <2>1. CASE i <= b - a
    <3>1. i \in 1 .. b - a
      BY <2>1
    <3> QED  BY <1>1, <1>3, <1>4, <2>1, <3>1
  <2>2. CASE ~(i <= b - a)
    <3>1. i - (b - a) \in 1 .. c - b /\ b + (i - (b - a)) - 1 = a + i - 1
      BY <2>2
    <3> QED  BY <1>2, <1>3, <1>4, <2>2, <3>1
  <2> QED  BY <2>1, <2>2
<1>6. D = C
  <2>1. DOMAIN D = 1 .. c - a /\ DOMAIN C = 1 .. c - a
    BY <1>3, <1>4, LenProperties
  <2>2. D = [i \in 1 .. c - a |-> D[i]] /\ C = [i \in 1 .. c - a |-> C[i]]
    BY <1>3, <1>4, <2>1
  <2> QED  BY <1>5, <2>2
<1> QED  BY <1>6 DEF A, B, C, D

\* A piece of one lnode, and of none.
LEMMA OnePiece ==
  ASSUME NEW u \in Seq(Lnodes), NEW a \in 1 .. Len(u)
  PROVE  SubSeq(u, a, (a + 1) - 1) = <<u[a]>>
<1>1. Len(u) \in Nat /\ \A q \in 1 .. Len(u) : u[q] \in Lnodes
  BY SubtreeFacts
<1> DEFINE A == SubSeq(u, a, (a + 1) - 1)
<1>2. A \in Seq(Lnodes) /\ Len(A) = 1 /\ A[1] = u[a]
  <2>1. a \in 1 .. Len(u) + 1 /\ a \in a - 1 .. Len(u) /\ a - a + 1 = 1 /\ a + 1 - 1 = a
        /\ (a + 1) - 1 = a /\ 1 \in 1 .. 1
    BY <1>1
  <2>2. /\ SubSeq(u, a, a) \in Seq(Lnodes) /\ Len(SubSeq(u, a, a)) = a - a + 1
        /\ \A i \in 1 .. a - a + 1 : SubSeq(u, a, a)[i] = u[a + i - 1]
    BY <2>1, Piece
  <2> QED  BY <2>1, <2>2
<1> HIDE DEF A
<1>3. A = <<A[1]>>
  <2>1. DOMAIN A = 1 .. 1
    BY <1>2, LenProperties
  <2>2. A = [i \in 1 .. 1 |-> A[i]]
    BY <1>2, <2>1
  <2> DEFINE x == A[1]
  <2>3. A = [i \in 1 .. 1 |-> x]
    BY <2>2
  <2> HIDE DEF x
  <2>4. [i \in 1 .. 1 |-> x] = <<x>>
    OBVIOUS
  <2> QED  BY <2>3, <2>4 DEF x
<1> QED  BY <1>2, <1>3 DEF A

\* Where the children are copied to their places of u, their parent is too.
LEMMA CopiesFacts ==
  ASSUME NEW t, NEW K, NEW ty, Shape(t, K, ty), NEW p \in Subtrees(t),
         NEW u, NEW M, Grown(u, M, 1), NEW a \in Subtrees(u), u[a] = t[p],
         NEW copy,
         \A i \in 1 .. Arity(t[p]) :
           copy[Kid(t, K, p, i)] = SubSeq(u, Kid(u, M, a, i), End(u, M, Kid(u, M, a, i)) - 1)
  PROVE  Copies(t, p, copy)[Len(Fn(t[p]).args)] = SubSeq(u, a, End(u, M, a) - 1)
<1> DEFINE n == Arity(t[p])
           f == Fn(t[p])
           Q == M[a]
           k0 == <<t[p]>> \o (IF f.erc THEN <<t[p + 1]>> ELSE <<>>)
           Kid1(i, b) == LET kid == copy[At(t, p)[i] + (IF f.expr THEN 1 ELSE 0)]
                         IN b \o (IF f.expr THEN <<Skip(Len(kid))>> ELSE <<>>) \o kid
           W(i) == SubSeq(u, a, Q[i + 1] - 1)
           h == [i \in 0 .. n |-> W(i)]
           k == Copies(t, p, copy)
           S == {i \in 0 .. n : k[i] = W(i)}
<1>1. /\ t \in Seq(Lnodes) /\ Grown(t, K, 1) /\ u \in Seq(Lnodes) /\ Len(u) \in Nat
      /\ n \in Nat /\ Len(f.args) = n /\ Arity(u[a]) = n /\ p \in Nat /\ p >= 1
      /\ a >= 1 /\ a \in Nat /\ DOMAIN u = 1 .. Len(u) /\ a \in 1 .. Len(u)
  <2>1. t \in Seq(Lnodes) /\ Grown(t, K, 1) /\ u \in Seq(Lnodes)
    BY ShapeFacts DEF Grown
  <2> QED  BY <2>1, SubtreeFacts DEF Arity
<1>2. /\ \A i \in 1 .. n + 1 : Q[i] \in Nat /\ a < Q[i] /\ Q[i] <= Len(u) + 1
      /\ Q[1] = a + Step(u[a]) /\ Q[n + 1] = End(u, M, a)
  <2>1. \A i \in 1 .. n + 1 : Q[i] \in Nat /\ a < Q[i]
    BY ZenonT(40), <1>1, KidFacts
  <2>2. Q[1] = a + Step(u[a]) /\ Q[n + 1] = End(u, M, a) /\ End(u, M, a) <= Len(u) + 1
    <3>0. Grown(u, M, 1) /\ a \in Subtrees(u) /\ a >= 1
      BY <1>1
    <3>1. M[a][1] = a + Step(u[a]) /\ End(u, M, a) <= Len(u) + 1
      BY <3>0, KidFacts
    <3>2. Q[n + 1] = End(u, M, a)
      BY <1>1 DEF End
    <3> QED  BY <3>1, <3>2
  <2>3. \A i \in 1 .. n + 1 : Q[i] <= Q[n + 1]
    BY <1>1, <2>2, Order
  <2>4. n + 1 \in 1 .. n + 1
    BY <1>1
  <2>5. \A i \in 1 .. n + 1 : Q[i] <= Len(u) + 1
    <3> TAKE i \in 1 .. n + 1
    <3>1. Q[i] \in Nat /\ Q[n + 1] \in Nat /\ Q[i] <= Q[n + 1] /\ Q[n + 1] <= Len(u) + 1
      BY <2>1, <2>2, <2>3, <2>4
    <3> HIDE DEF Q, n
    <3> QED  BY <1>1, <3>1
  <2> QED  BY <2>1, <2>2, <2>5
<1>3. k0 = W(0)
  <2>0. Made(t, K, p, n) /\ Made(u, M, a, n)
    BY <1>1 DEF Grown
  <2>1. <<t[p]>> = SubSeq(u, a, (a + 1) - 1)
    BY <1>1, OnePiece
  <2>2. CASE f.erc
    <3>1. Q[1] = (a + 1) + 1
      <4>1. Step(u[a]) = 2
        BY <2>2 DEF Step
      <4> HIDE DEF Q
      <4> QED  BY <1>1, <1>2, <4>1
    <3>2. t[p + 1] = ErcValue /\ a + 1 \in 1 .. Len(u) /\ u[a + 1] = ErcValue
      BY <1>1, <2>0, <2>2 DEF Made
    <3>3. <<t[p + 1]>> = SubSeq(u, a + 1, ((a + 1) + 1) - 1)
      BY <1>1, <3>2, OnePiece
    <3>4. SubSeq(u, a, (a + 1) - 1) \o SubSeq(u, a + 1, ((a + 1) + 1) - 1)
            = SubSeq(u, a, ((a + 1) + 1) - 1)
      <4>1. a + 1 \in Nat /\ (a + 1) + 1 \in Nat /\ a <= a + 1 /\ a + 1 <= (a + 1) + 1
            /\ (a + 1) + 1 <= Len(u) + 1
        BY <1>1, <3>2
      <4> QED  BY <1>1, <4>1, Joined
    <3>5. k0 = <<t[p]>> \o <<t[p + 1]>>
      BY <2>2
    <3>6. W(0) = SubSeq(u, a, Q[1] - 1)
      <4>1. 0 + 1 = 1
        OBVIOUS
      <4> QED  BY <4>1
    <3> HIDE DEF k0, W
    <3> QED  BY <2>1, <3>1, <3>3, <3>4, <3>5, <3>6
  <2>3. CASE ~f.erc
    <3>1. Q[1] = a + 1
      BY <1>2, <2>3 DEF Step
    <3>2. k0 = <<t[p]>>
      <4>1. <<t[p]>> \o <<>> = <<t[p]>>
        <5>1. t[p] \in Lnodes
          BY <1>1, SubtreeFacts
        <5>2. <<t[p]>> \in Seq(Lnodes)
          BY <5>1
        <5> QED  BY <5>2, ConcatEmptySeq
      <4> QED  BY <2>3, <4>1
    <3>3. W(0) = SubSeq(u, a, Q[1] - 1)
      <4>1. 0 + 1 = 1
        OBVIOUS
      <4> QED  BY <4>1
    <3> HIDE DEF k0, W
    <3> QED  BY <2>1, <3>1, <3>2, <3>3
  <2> QED  BY <2>2, <2>3
<1>4. \A i \in 1 .. n : Kid1(i, W(i - 1)) = W(i)
  <2> TAKE i \in 1 .. n
  <2> DEFINE c == Kid(u, M, a, i)
             C == SubSeq(u, c, Q[i + 1] - 1)
             x == Q[i]
             z == Q[i + 1]
  <2>1. i \in 1 .. n + 1 /\ i + 1 \in 1 .. n + 1 /\ (i - 1) + 1 = i
    BY <1>1
  <2>2. /\ x \in Nat /\ z \in Nat /\ a < x /\ z <= Len(u) + 1
    BY <1>2, <2>1
  <2>3. /\ c \in Nat /\ c = x + Gap(u[a]) /\ x <= c /\ c < z /\ z = End(u, M, c)
        /\ Fn(u[a]).expr => u[x] = Skip(z - c)
    <3>1. i \in 1 .. Arity(u[a]) /\ Grown(u, M, 1) /\ a \in Subtrees(u) /\ a >= 1
      BY <1>1
    <3>2. /\ c \in Nat /\ c = M[a][i] + Gap(u[a]) /\ M[a][i] <= c /\ c < M[a][i + 1]
          /\ M[a][i + 1] = End(u, M, c)
      BY <3>1, KidFacts
    <3>3. Fn(u[a]).expr => u[M[a][i]] = Skip(M[a][i + 1] - c)
      BY <3>1, KidFacts
    <3> HIDE DEF c
    <3> QED  BY <3>2, <3>3
  <2>4. copy[At(t, p)[i] + (IF f.expr THEN 1 ELSE 0)] = C
    <3>1. At(t, p)[i] = K[p][i]
      BY AtFacts
    <3>2. K[p][i] + (IF f.expr THEN 1 ELSE 0) = Kid(t, K, p, i)
      BY DEF Kid, Gap
    <3>3. copy[Kid(t, K, p, i)] = SubSeq(u, c, End(u, M, c) - 1)
      OBVIOUS
    <3> HIDE DEF c
    <3> QED  BY <2>3, <3>1, <3>2, <3>3
  <2>5. Len(C) = z - c
    <3>1. c \in 1 .. Len(u) + 1 /\ z - 1 \in c - 1 .. Len(u) /\ (z - 1) - c + 1 = z - c
      <4> HIDE DEF c, x, z
      <4> QED  BY <1>1, <2>2, <2>3
    <3> HIDE DEF c, z
    <3>2. Len(SubSeq(u, c, z - 1)) = (z - 1) - c + 1
      BY <1>1, <3>1, Piece
    <3> QED  BY <3>1, <3>2 DEF z
  <2>6. W(i - 1) = SubSeq(u, a, x - 1) /\ W(i) = SubSeq(u, a, z - 1) /\ C = SubSeq(u, c, z - 1)
    BY <2>1
  <2>7. Kid1(i, W(i - 1)) = W(i - 1) \o (IF f.expr THEN <<Skip(z - c)>> ELSE <<>>) \o C
    <3> HIDE DEF W, C, c, z
    <3> QED  BY <2>4, <2>5
  <2> HIDE DEF W, C, x, z, c, Kid1
  <2>8. SubSeq(u, a, c - 1) \o SubSeq(u, c, z - 1) = SubSeq(u, a, z - 1)
    <3>1. /\ u \in Seq(Lnodes) /\ a \in Nat /\ c \in Nat /\ z \in Nat
          /\ 1 <= a /\ a <= c /\ c <= z /\ z <= Len(u) + 1
      BY <1>1, <2>2, <2>3
    <3> QED  BY <3>1, Joined
  <2>9. W(i - 1) \o (IF f.expr THEN <<Skip(z - c)>> ELSE <<>>) = SubSeq(u, a, c - 1)
    <3>1. CASE f.expr
      <4>1. c = x + 1 /\ u[x] = Skip(z - c) /\ x \in 1 .. Len(u)
        BY <1>1, <2>2, <2>3, <3>1 DEF Gap
      <4>2. SubSeq(u, x, (x + 1) - 1) = <<Skip(z - c)>>
        BY <1>1, <4>1, OnePiece
      <4>3. SubSeq(u, a, x - 1) \o SubSeq(u, x, c - 1) = SubSeq(u, a, c - 1)
        <5>1. /\ u \in Seq(Lnodes) /\ a \in Nat /\ x \in Nat /\ c \in Nat
              /\ 1 <= a /\ a <= x /\ x <= c /\ c <= Len(u) + 1
          BY <1>1, <2>2, <2>3
        <5> QED  BY <5>1, Joined
      <4> QED  BY <2>6, <3>1, <4>1, <4>2, <4>3
    <3>2. CASE ~f.expr
      <4>1. c = x
        BY <1>1, <2>2, <2>3, <3>2 DEF Gap
      <4>2. SubSeq(u, a, x - 1) \in Seq(Lnodes)
        <5>1. a \in 1 .. Len(u) + 1 /\ x - 1 \in a - 1 .. Len(u)
          BY <1>1, <2>2, <2>3
        <5> QED  BY <1>1, <5>1, Piece
      <4>3. SubSeq(u, a, x - 1) \o <<>> = SubSeq(u, a, x - 1)
        BY <4>2, ConcatEmptySeq
      <4> QED  BY <2>6, <3>2, <4>1, <4>3
    <3> QED  BY <3>1, <3>2
  <2> QED  BY <2>6, <2>7, <2>8, <2>9
<1>5. \A x : CopiesIs(x, t, p, copy)
        <=> x = [i \in 0 .. n |-> IF i = 0 THEN k0 ELSE Kid1(i, x[i - 1])]
  BY <1>1 DEF CopiesIs
<1>6. \A i \in 0 .. n : i # 0 => i \in 1 .. n /\ i - 1 \in 0 .. n
  BY <1>1
<1> HIDE DEF k0, Kid1, W, n
<1>7. CopiesIs(h, t, p, copy)
  <2>1. \A i \in 0 .. n : h[i] = IF i = 0 THEN k0 ELSE Kid1(i, h[i - 1])
    BY <1>3, <1>4, <1>6
  <2>2. h = [i \in 0 .. n |-> h[i]]
    OBVIOUS
  <2> HIDE DEF h
  <2> QED  BY <1>5, <2>1, <2>2
<1>8. CopiesIs(k, t, p, copy)
  BY <1>7 DEF Copies
<1> HIDE DEF k, h
<1>9. \A i \in 0 .. n : k[i] = IF i = 0 THEN k0 ELSE Kid1(i, k[i - 1])
  <2>1. k = [i \in 0 .. n |-> IF i = 0 THEN k0 ELSE Kid1(i, k[i - 1])]
    BY <1>5, <1>8
  <2> QED  BY <2>1
<1>10. 0 .. n \subseteq S
  <2>1. 0 \in S
    BY <1>1, <1>3, <1>9
  <2>2. \A i \in 1 .. n : i - 1 \in S => i \in S
    <3> TAKE i \in 1 .. n
    <3>1. i \in 0 .. n /\ i # 0
      BY <1>1
    <3> QED  BY <1>4, <1>9, <3>1
  <2> HIDE DEF S
  <2> QED  BY <1>1, <2>1, <2>2, Climb
<1>11. k[n] = W(n)
  <2>1. n \in 0 .. n
    BY <1>1
  <2> QED  BY <1>10, <2>1
<1> QED  BY <1>1, <1>2, <1>11 DEF k, W

\* The new place of a node that is not inside of what is replaced, and the copy of
\* each node.
NewPlace(s, d, p) == IF p <= s THEN p ELSE p + d

CopyAt(t, K, s, e, d, u, M, p) ==
  IF s < p /\ p < e THEN SubSeq(t, p, End(t, K, p) - 1)
  ELSE SubSeq(u, NewPlace(s, d, p), End(u, M, NewPlace(s, d, p)) - 1)

\* If its children are copied, a node is.
LEMMA CopyStep ==
  ASSUME NEW t, NEW K, NEW ty, NEW s, NEW e, NEW w, NEW Kw, NEW d, NEW u, NEW M,
         Replaced(t, K, ty, s, e, w, Kw, d), IsSpliced(t, K, s, e, w, Kw, d, u, M),
         NEW p \in Subtrees(t), NEW copy,
         \A i \in 1 .. Arity(t[p]) :
           copy[Kid(t, K, p, i)] = CopyAt(t, K, s, e, d, u, M, Kid(t, K, p, i))
  PROVE  (IF p = s THEN w ELSE Copies(t, p, copy)[Len(Fn(t[p]).args)])
           = CopyAt(t, K, s, e, d, u, M, p)
<1> DEFINE n == Arity(t[p])
           P == K[p]
<1>1. /\ t \in Seq(Lnodes) /\ w \in Seq(Lnodes) /\ Grown(t, K, 1)
      /\ Len(t) \in Nat \ {0} /\ Len(w) \in Nat \ {0} /\ s \in Nat /\ e \in Nat /\ d \in Int
      /\ 1 <= s /\ s < e /\ e <= Len(t) + 1 /\ s + Len(w) = e + d
      /\ s \in Subtrees(t) /\ e = End(t, K, s)
      /\ 1 \in Subtrees(w) /\ End(w, Kw, 1) = Len(w) + 1
      /\ p \in Nat /\ p >= 1 /\ p <= Len(t)
  BY ReplacedFacts
<1>2. Shape(t, K, ty) /\ Shape(u, M, ty) /\ Grown(u, M, 1) /\ n \in Nat
  <2>1. Shape(t, K, ty)
    BY DEF Replaced
  <2>2. Shape(u, M, ty)
    BY SplicedShape
  <2> QED  BY <1>1, <2>1, <2>2, SubtreeFacts DEF Shape
<1>3. /\ u \in Seq(Lnodes) /\ Len(u) = Len(t) + d
      /\ \A q \in 1 .. Len(w) : u[q + (s - 1)] = w[q]
      /\ \A i \in Nat :
           /\ \A q \in Nat : q < s => M[q][i] = IF K[q][i] <= s THEN K[q][i] ELSE K[q][i] + d
           /\ \A q \in e .. Len(t) : M[q + d][i] = K[q][i] + d
  BY DEF IsSpliced
<1>4. /\ End(t, K, p) \in Nat /\ End(t, K, p) <= Len(t) + 1
      /\ \A i \in 1 .. n :
        LET c == Kid(t, K, p, i)
        IN /\ c \in Subtrees(t) /\ c \in Nat /\ c = P[i] + Gap(t[p]) /\ Gap(t[p]) \in {0, 1}
           /\ p < P[i] /\ P[i] <= c /\ c < P[i + 1] /\ P[i + 1] <= End(t, K, p)
           /\ P[i] \in Nat /\ P[i + 1] \in Nat
           /\ i \in Nat /\ i \in 1 .. n + 1 /\ i + 1 \in 1 .. n + 1
  <2>0. Grown(t, K, 1) /\ p >= 1
    BY <1>1
  <2>1. End(t, K, p) \in Nat /\ End(t, K, p) <= Len(t) + 1
    BY <2>0, KidFacts
  <2>2. ASSUME NEW i \in 1 .. n
        PROVE  LET c == Kid(t, K, p, i)
               IN /\ c \in Subtrees(t) /\ c \in Nat /\ c = P[i] + Gap(t[p]) /\ Gap(t[p]) \in {0, 1}
                  /\ p < P[i] /\ P[i] <= c /\ c < P[i + 1] /\ P[i + 1] <= End(t, K, p)
                  /\ P[i] \in Nat /\ P[i + 1] \in Nat
                  /\ i \in Nat /\ i \in 1 .. n + 1 /\ i + 1 \in 1 .. n + 1
    <3>1. i \in Nat /\ i \in 1 .. n + 1 /\ i + 1 \in 1 .. n + 1
      BY <1>2
    <3> DEFINE c == Kid(t, K, p, i)
    <3>2. /\ c \in Subtrees(t) /\ c \in Nat /\ c = K[p][i] + Gap(t[p])
          /\ p < K[p][i] /\ K[p][i] <= c /\ c < K[p][i + 1] /\ K[p][i + 1] <= End(t, K, p)
      BY <2>0, KidFacts
    <3>3. P[i] \in Nat /\ P[i + 1] \in Nat
      BY <2>0, <3>1, KidFacts
    <3>4. Gap(t[p]) \in {0, 1}
      BY DEF Gap
    <3> HIDE DEF c
    <3> QED  BY <3>1, <3>2, <3>3, <3>4 DEF c
  <2> QED  BY <2>1, <2>2
<1>5. CASE s < p /\ p < e
  <2>1. End(t, K, p) <= e
    <3>1. s >= 1 /\ s < p /\ p < End(t, K, s)
      BY <1>1, <1>5
    <3> QED  BY <1>1, <3>1, Nested
  <2>2. \A i \in 1 .. n : copy[Kid(t, K, p, i)]
                            = SubSeq(t, Kid(t, K, p, i), End(t, K, Kid(t, K, p, i)) - 1)
    <3> TAKE i \in 1 .. n
    <3> DEFINE c == Kid(t, K, p, i)
               x == P[i]
               y == P[i + 1]
    <3>1. /\ c \in Nat /\ p < x /\ x <= c /\ c < y /\ y <= End(t, K, p) /\ x \in Nat /\ y \in Nat
      BY <1>4
    <3>2. copy[c] = CopyAt(t, K, s, e, d, u, M, c)
      OBVIOUS
    <3> HIDE DEF c, x, y
    <3>3. s < c /\ c < e
      BY <1>1, <1>4, <1>5, <2>1, <3>1
    <3>4. copy[c] = SubSeq(t, c, End(t, K, c) - 1)
      BY <3>2, <3>3 DEF CopyAt
    <3> QED  BY <3>4 DEF c
  <2>3. Copies(t, p, copy)[Len(Fn(t[p]).args)] = SubSeq(t, p, End(t, K, p) - 1)
    <3>1. Shape(t, K, ty) /\ Grown(t, K, 1)
      BY <1>1, <1>2
    <3> QED  BY <2>2, <3>1, CopiesFacts
  <2>4. p # s
    BY <1>1, <1>5
  <2> QED  BY <1>5, <2>3, <2>4 DEF CopyAt
<1>6. CASE p = s
  <2>1. NodeOf(u, M, 1 + (s - 1), w[1], (Len(w) + 1) + (s - 1))
    BY <1>1, SplicedMoved
  <2>2. 1 + (s - 1) = s /\ (Len(w) + 1) + (s - 1) = s + Len(w)
    BY <1>1
  <2>3. End(u, M, s) = s + Len(w)
    BY <2>1, <2>2 DEF NodeOf
  <2> DEFINE l == Len(w)
             L == Len(t)
             W == SubSeq(u, s, s + l - 1)
  <2>4. W \in Seq(Lnodes) /\ Len(W) = l /\ \A i \in 1 .. l : W[i] = u[s + i - 1]
    <3>1. /\ s \in 1 .. Len(u) + 1 /\ s + l - 1 \in s - 1 .. Len(u)
          /\ (s + l - 1) - s + 1 = l
      BY <1>1, <1>3
    <3>2. /\ W \in Seq(Lnodes) /\ Len(W) = (s + l - 1) - s + 1
          /\ \A i \in 1 .. (s + l - 1) - s + 1 : W[i] = u[s + i - 1]
      BY <1>3, <3>1, Piece
    <3> HIDE DEF W, l
    <3> QED  BY <3>1, <3>2
  <2>5. \A i \in 1 .. l : W[i] = w[i]
    <3> TAKE i \in 1 .. l
    <3>1. s + i - 1 = i + (s - 1)
      BY <1>1
    <3>2. W[i] = u[s + i - 1] /\ u[i + (s - 1)] = w[i]
      BY <1>3, <2>4
    <3> HIDE DEF W
    <3> QED  BY <3>1, <3>2
  <2> HIDE DEF W
  <2>6. W = w
    <3>1. DOMAIN W = 1 .. l /\ DOMAIN w = 1 .. l
      BY <1>1, <2>4, LenProperties
    <3>2. W = [i \in 1 .. l |-> W[i]] /\ w = [i \in 1 .. l |-> w[i]]
      BY <1>1, <2>4, <3>1
    <3> HIDE DEF l
    <3> QED  BY <2>5, <3>2
  <2>7. CopyAt(t, K, s, e, d, u, M, s) = W
    <3>1. NewPlace(s, d, s) = s /\ ~(s < s)
      BY <1>1 DEF NewPlace
    <3>2. CopyAt(t, K, s, e, d, u, M, s) = SubSeq(u, s, End(u, M, s) - 1)
      BY <3>1 DEF CopyAt
    <3>3. End(u, M, s) - 1 = s + l - 1
      BY <1>1, <2>3
    <3> QED  BY <3>2, <3>3 DEF W
  <2> QED  BY <1>6, <2>6, <2>7
<1>7. CASE p < s \/ p >= e
  <2> DEFINE a == NewPlace(s, d, p)
  <2>1. /\ a \in Subtrees(u) /\ u[a] = t[p] /\ ~(s < p /\ p < e) /\ p # s
        /\ p < s => a = p
        /\ p >= e => a = p + d /\ ~(p < s)
    <3>1. CASE p < s
      <4>1. a = p /\ ~(p >= e) /\ ~(s < p) /\ p # s
        BY <1>1, <3>1 DEF NewPlace
      <4>2. p \in Subtrees(u) /\ u[p] = t[p]
        BY <3>1, SplicedBefore DEF NodeOf
      <4> QED  BY <4>1, <4>2
    <3>2. CASE p >= e
      <4>1. a = p + d /\ ~(p < s) /\ ~(p < e) /\ p # s
        BY <1>1, <3>2 DEF NewPlace
      <4>2. p + d \in Subtrees(u) /\ u[p + d] = t[p]
        BY <3>2, SplicedMoved DEF NodeOf
      <4> QED  BY <4>1, <4>2
    <3> QED  BY <1>7, <3>1, <3>2
  <2> HIDE DEF a
  <2>2. \A i \in 1 .. n : /\ Kid(u, M, a, i) = NewPlace(s, d, Kid(t, K, p, i))
                          /\ ~(s < Kid(t, K, p, i) /\ Kid(t, K, p, i) < e)
    <3> TAKE i \in 1 .. n
    <3> DEFINE c == Kid(t, K, p, i)
               x == P[i]
               g == Gap(t[p])
    <3>1. /\ c \in Nat /\ c = x + g /\ p < x /\ x <= c /\ x \in Nat /\ i \in Nat /\ i \in 1 .. n + 1
          /\ g \in {0, 1}
      BY <1>4
    <3>2. Kid(u, M, a, i) = M[a][i] + g
      BY <2>1 DEF Kid
    <3>3. CASE p < s
      <4>1. (x <= s \/ x >= e) /\ (x <= s => c <= s)
        <5>1. Grown(t, K, 1) /\ p >= 1 /\ s \in Subtrees(t) /\ e = End(t, K, s)
          BY <1>1
        <5>2. (K[p][i] <= s \/ K[p][i] >= End(t, K, s)) /\ (K[p][i] <= s => c <= s)
          BY <3>1, <3>3, <5>1, Nested
        <5> QED  BY <5>1, <5>2
      <4>2. M[a][i] = IF x <= s THEN x ELSE x + d
        <5>1. a = p /\ p \in Nat /\ i \in Nat
          BY <1>1, <2>1, <3>1, <3>3
        <5>2. M[p][i] = IF K[p][i] <= s THEN K[p][i] ELSE K[p][i] + d
          BY <1>3, <3>3, <5>1
        <5> QED  BY <5>1, <5>2
      <4> HIDE DEF c, x, g, P, n
      <4> QED  BY <1>1, <3>1, <3>2, <4>1, <4>2 DEF NewPlace, c
    <3>4. CASE p >= e
      <4>1. p \in e .. Len(t)
        BY <1>1, <3>4
      <4>2. M[a][i] = x + d
        <5>1. a = p + d /\ i \in Nat
          BY <2>1, <3>1, <3>4
        <5>2. M[p + d][i] = K[p][i] + d
          BY <1>3, <4>1, <5>1
        <5> QED  BY <5>1, <5>2
      <4>3. c > s /\ c >= e
        <5>1. /\ c \in Nat /\ p < x /\ x <= c /\ x \in Nat /\ p \in Nat /\ p >= e
              /\ s < e /\ s \in Nat /\ e \in Nat
          BY <1>1, <3>1, <3>4
        <5> HIDE DEF c, x
        <5> QED  BY <5>1
      <4> HIDE DEF c, x, g, P, n
      <4> QED  BY <1>1, <3>1, <3>2, <4>2, <4>3 DEF NewPlace, c
    <3> QED  BY <1>7, <3>3, <3>4
  <2>3. \A i \in 1 .. n : copy[Kid(t, K, p, i)]
                            = SubSeq(u, Kid(u, M, a, i), End(u, M, Kid(u, M, a, i)) - 1)
    <3> TAKE i \in 1 .. n
    <3>1. copy[Kid(t, K, p, i)] = CopyAt(t, K, s, e, d, u, M, Kid(t, K, p, i))
      OBVIOUS
    <3> QED  BY <2>2, <3>1 DEF CopyAt
  <2>4. Copies(t, p, copy)[Len(Fn(t[p]).args)] = SubSeq(u, a, End(u, M, a) - 1)
    <3>1. Shape(t, K, ty) /\ Grown(u, M, 1) /\ a \in Subtrees(u) /\ u[a] = t[p]
      BY <1>2, <2>1
    <3> QED  BY <2>3, <3>1, CopiesFacts
  <2> QED  BY <2>1, <2>4 DEF CopyAt, a
<1>8. (s < p /\ p < e) \/ p = s \/ p < s \/ p >= e
  BY <1>1
<1> QED  BY <1>5, <1>6, <1>7, <1>8

\* The tree with one subtree replaced: the array in which the new subtree stands in the
\* place of the old one, which is a tree of the same type.
LEMMA ReplaceFacts ==
  ASSUME NEW t, NEW K, NEW ty, NEW s, NEW e, NEW w, NEW Kw, NEW d,
         Replaced(t, K, ty, s, e, w, Kw, d)
  PROVE  LET u == CopyTreeReplace(t, s, w)
             M == SplicedPlaces(K, s, e, Kw, Len(w))
         IN IsSpliced(t, K, s, e, w, Kw, d, u, M) /\ Shape(u, M, ty)
<1> DEFINE u == Spliced(t, s, e, w)
           M == SplicedPlaces(K, s, e, Kw, Len(w))
           C(p) == CopyAt(t, K, s, e, d, u, M, p)
           G(p, copy) == IF p = s THEN w ELSE Copies(t, p, copy)[Len(Fn(t[p]).args)]
           h == [p \in Subtrees(t) |-> C(p)]
           r == CHOOSE copy : CopyIs(copy, t, s, w)
           S == {p \in Subtrees(t) : r[p] = C(p)}
<1>1. IsSpliced(t, K, s, e, w, Kw, d, u, M)
  BY SplicedFacts
<1> HIDE DEF u, M
<1>2. Shape(u, M, ty)
  BY <1>1, SplicedShape
<1>3. /\ t \in Seq(Lnodes) /\ Grown(t, K, 1) /\ 1 \in Subtrees(t) /\ Len(t) \in Nat
      /\ s \in Nat /\ 1 <= s
      /\ \A p \in Subtrees(t) : p \in Nat /\ p <= Len(t) /\ 1 <= p
  BY ReplacedFacts
<1>4. \A p \in Subtrees(t) : \A i \in 1 .. Arity(t[p]) :
        Kid(t, K, p, i) \in Subtrees(t) /\ Kid(t, K, p, i) > p
  <2> TAKE p \in Subtrees(t)
  <2> TAKE i \in 1 .. Arity(t[p])
  <2>1. p >= 1 /\ p \in Nat
    BY <1>3
  <2> DEFINE c == Kid(t, K, p, i)
  <2>2. c \in Subtrees(t) /\ p < K[p][i] /\ K[p][i] <= c /\ c \in Nat
    BY <1>3, <2>1, KidFacts
  <2>3. i \in 1 .. Arity(t[p]) + 1
    BY <1>3, <2>1, KidFacts
  <2>4. K[p][i] \in Nat
    BY <1>3, <2>1, <2>3, KidFacts
  <2> HIDE DEF c
  <2>5. c > p
    BY <2>1, <2>2, <2>4
  <2> QED  BY <2>2, <2>5 DEF c
<1>5. ASSUME NEW p \in Subtrees(t), NEW copy,
             \A i \in 1 .. Arity(t[p]) : copy[Kid(t, K, p, i)] = C(Kid(t, K, p, i))
      PROVE  G(p, copy) = C(p)
  BY <1>1, <1>5, CopyStep
<1> HIDE DEF C, G
<1>6. \A copy : CopyIs(copy, t, s, w) <=> copy = [p \in Subtrees(t) |-> G(p, copy)]
  BY DEF CopyIs, G
<1>7. CopyIs(h, t, s, w)
  <2>1. \A p \in Subtrees(t) : h[p] = G(p, h)
    <3> TAKE p \in Subtrees(t)
    <3>1. \A i \in 1 .. Arity(t[p]) : h[Kid(t, K, p, i)] = C(Kid(t, K, p, i))
      BY <1>4
    <3>2. h[p] = C(p)
      OBVIOUS
    <3> HIDE DEF h
    <3> QED  BY <1>5, <3>1, <3>2
  <2>2. h = [p \in Subtrees(t) |-> h[p]]
    OBVIOUS
  <2> HIDE DEF h
  <2>3. h = [p \in Subtrees(t) |-> G(p, h)]
    BY <2>1, <2>2
  <2> QED  BY <1>6, <2>3
<1>8. CopyIs(r, t, s, w)
  <2> HIDE DEF h
  <2> QED  BY <1>7
<1> HIDE DEF r, h
<1>9. \A p \in Subtrees(t) : r[p] = G(p, r)
  <2>1. r = [p \in Subtrees(t) |-> G(p, r)]
    BY <1>6, <1>8
  <2> QED  BY <2>1
<1>10. Subtrees(t) \subseteq S
  <2>1. Subtrees(t) \in SUBSET Nat /\ Len(t) \in Nat /\ \A p \in Subtrees(t) : p <= Len(t)
    BY <1>3
  <2>2. ASSUME NEW p \in Subtrees(t), \A q \in Subtrees(t) : q > p => q \in S
        PROVE  p \in S
    <3>1. \A i \in 1 .. Arity(t[p]) : r[Kid(t, K, p, i)] = C(Kid(t, K, p, i))
      BY <1>4, <2>2
    <3>2. G(p, r) = C(p)
      BY <1>5, <3>1
    <3> QED  BY <1>9, <3>2
  <2> HIDE DEF S
  <2> QED  BY ZenonT(40), <2>1, <2>2, FromBehind
<1>11. CopyTreeReplace(t, s, w) = C(1)
  <2>1. CopyTreeReplace(t, s, w) = r[1]
    BY CopyParts DEF r
  <2> QED  BY <1>3, <1>10, <2>1
<1>12. C(1) = u
  <2>1. NewPlace(s, d, 1) = 1 /\ ~(s < 1)
    BY <1>3 DEF NewPlace
  <2>2. End(u, M, 1) = Len(u) + 1 /\ u \in Seq(Lnodes) /\ Len(u) \in Nat
    BY <1>2, SubtreeFacts DEF Shape, Grown
  <2>3. C(1) = SubSeq(u, 1, Len(u))
    <3>1. (Len(u) + 1) - 1 = Len(u)
      BY <2>2
    <3> QED  BY <2>1, <2>2, <3>1 DEF C, CopyAt
  <2> DEFINE V == SubSeq(u, 1, Len(u))
  <2>4. V \in Seq(Lnodes) /\ Len(V) = Len(u) /\ \A i \in 1 .. Len(u) : V[i] = u[i]
    <3>1. 1 \in 1 .. Len(u) + 1 /\ Len(u) \in 1 - 1 .. Len(u) /\ Len(u) - 1 + 1 = Len(u)
      BY <2>2
    <3>2. /\ V \in Seq(Lnodes) /\ Len(V) = Len(u) - 1 + 1
          /\ \A i \in 1 .. Len(u) - 1 + 1 : V[i] = u[1 + i - 1]
      BY <2>2, <3>1, Piece
    <3>3. \A i \in 1 .. Len(u) : 1 + i - 1 = i
      BY <2>2
    <3> HIDE DEF V
    <3> QED  BY <3>1, <3>2, <3>3
  <2> HIDE DEF V
  <2>5. V = u
    <3>1. DOMAIN V = 1 .. Len(u) /\ DOMAIN u = 1 .. Len(u)
      BY <2>2, <2>4, LenProperties
    <3>2. V = [i \in 1 .. Len(u) |-> V[i]] /\ u = [i \in 1 .. Len(u) |-> u[i]]
      BY <2>2, <2>4, <3>1
    <3> QED  BY <2>4, <3>2
  <2> QED  BY <2>3, <2>5 DEF V
<1> QED  BY <1>1, <1>2, <1>11, <1>12 DEF M

-----------------------------------------------------------------------------
(* What a replacement does to the counts *)

\* As many numbers, some way off.
LEMMA Shifted ==
  ASSUME NEW S \in SUBSET Int, IsFiniteSet(S), NEW o \in Int
  PROVE  /\ IsFiniteSet({x + o : x \in S})
         /\ Cardinality({x + o : x \in S}) = Cardinality(S)
<1> DEFINE T == {x + o : x \in S}
           f == [x \in S |-> x + o]
<1>1. f \in [S -> T] /\ \A y \in T : \E x \in S : f[x] = y
  OBVIOUS
<1>2. \A x, y \in S : f[x] = f[y] => x = y
  OBVIOUS
<1> HIDE DEF T, f
<1> QED  BY <1>1, <1>2, SameNumber DEF T

\* Where t has one of the functions of X.
Has(t, X) == {p \in Subtrees(t) : t[p] \in X}

\* They are counted in the new tree as if subtrees were numbers.
LEMMA CountReplaced ==
  ASSUME NEW t, NEW K, NEW ty, NEW s, NEW e, NEW w, NEW Kw, NEW d, NEW u, NEW M, NEW X,
         Replaced(t, K, ty, s, e, w, Kw, d), IsSpliced(t, K, s, e, w, Kw, d, u, M)
  PROVE  Cardinality(Has(u, X))
           = Cardinality(Has(t, X)) - Cardinality(Has(t, X) \cap Within(t, K, s))
             + Cardinality(Has(w, X))
<1> DEFINE T == Has(t, X)
           A == {p \in T : p < s}
           B == T \cap Within(t, K, s)
           C == {p \in T : p >= e}
           W == Has(w, X)
           A2 == {p + (s - 1) : p \in W}
           C2 == {p + d : p \in C}
<1>1. /\ t \in Seq(Lnodes) /\ w \in Seq(Lnodes)
      /\ Len(t) \in Nat \ {0} /\ Len(w) \in Nat \ {0} /\ s \in Nat /\ e \in Nat /\ d \in Int
      /\ 1 <= s /\ s < e /\ e <= Len(t) + 1 /\ s + Len(w) = e + d /\ e = End(t, K, s)
  BY ReplacedFacts
<1>2. /\ \A p \in Subtrees(t) : p \in Nat /\ 1 <= p
      /\ \A p \in Subtrees(w) : p \in Nat /\ 1 <= p /\ p <= Len(w)
  BY ReplacedFacts
<1>3. /\ \A p \in T : p \in Subtrees(t) /\ p \in Nat /\ t[p] \in X
      /\ \A p \in W : p \in Subtrees(w) /\ p \in Nat /\ w[p] \in X /\ 1 <= p /\ p <= Len(w)
  BY <1>2 DEF Has
<1>4. /\ IsFiniteSet(A) /\ IsFiniteSet(B) /\ IsFiniteSet(C) /\ IsFiniteSet(W)
      /\ Cardinality(A) \in Nat /\ Cardinality(B) \in Nat /\ Cardinality(C) \in Nat
      /\ Cardinality(W) \in Nat
  <2>1. /\ A \in SUBSET Subtrees(t) /\ B \in SUBSET Subtrees(t) /\ C \in SUBSET Subtrees(t)
        /\ W \in SUBSET Subtrees(w)
    BY DEF Has
  <2> HIDE DEF A, B, C, W
  <2> QED  BY <1>1, <2>1, Finite
<1>5. Cardinality(T) = Cardinality(A) + Cardinality(B) + Cardinality(C)
  <2>1. T = (A \cup B) \cup C
    BY <1>1, <1>3 DEF Within
  <2>2. A \cap B = {} /\ (A \cup B) \cap C = {}
    BY <1>1, <1>3 DEF Within
  <2> HIDE DEF A, B, C, T
  <2>3. IsFiniteSet(A \cup B) /\ Cardinality(A \cup B) = Cardinality(A) + Cardinality(B)
    BY <1>4, <2>2, TwoParts
  <2> QED  BY <1>4, <2>1, <2>2, <2>3, TwoParts
<1>6. /\ IsFiniteSet(A2) /\ Cardinality(A2) = Cardinality(W)
      /\ IsFiniteSet(C2) /\ Cardinality(C2) = Cardinality(C)
  <2>1. W \in SUBSET Int /\ C \in SUBSET Int /\ s - 1 \in Int
    BY <1>1, <1>3
  <2> HIDE DEF W, C
  <2> QED  BY <1>1, <1>4, <2>1, Shifted
<1>7. Has(u, X) = (A \cup A2) \cup C2
  <2>1. \A q \in Subtrees(w) : q + (s - 1) \in Subtrees(u) /\ u[q + (s - 1)] = w[q]
    BY SplicedMoved DEF NodeOf
  <2>2. \A q \in Subtrees(t) : q >= e => q + d \in Subtrees(u) /\ u[q + d] = t[q]
    BY SplicedMoved DEF NodeOf
  <2>3. \A q \in Subtrees(t) : q < s => q \in Subtrees(u) /\ u[q] = t[q]
    BY SplicedBefore DEF NodeOf
  <2>4. \A p \in Subtrees(u) :
          \/ p \in Subtrees(t) /\ p < s
          \/ \E q \in Subtrees(w) : p = q + (s - 1)
          \/ \E q \in Subtrees(t) : q >= e /\ p = q + d
    BY SplicedShape
  <2>5. ASSUME NEW p \in Has(u, X) PROVE p \in (A \cup A2) \cup C2
    <3>1. p \in Subtrees(u) /\ u[p] \in X
      BY DEF Has
    <3>2. CASE p \in Subtrees(t) /\ p < s
      BY <2>3, <3>1, <3>2 DEF Has
    <3>3. CASE \E q \in Subtrees(w) : p = q + (s - 1)
      BY <2>1, <3>1, <3>3 DEF Has
    <3>4. CASE \E q \in Subtrees(t) : q >= e /\ p = q + d
      BY <2>2, <3>1, <3>4 DEF Has
    <3> QED  BY <2>4, <3>1, <3>2, <3>3, <3>4
  <2>6. A \subseteq Has(u, X)
    BY <1>3, <2>3 DEF Has
  <2>7. A2 \subseteq Has(u, X)
    BY <1>3, <2>1 DEF Has
  <2>8. C2 \subseteq Has(u, X)
    BY <1>3, <2>2 DEF Has
  <2> HIDE DEF A, A2, C2
  <2> QED  BY <2>5, <2>6, <2>7, <2>8
<1>8. A \cap A2 = {} /\ (A \cup A2) \cap C2 = {}
  <2>1. \A p \in A2 : p >= s /\ p < s + Len(w) /\ p \in Int
    BY <1>1, <1>3
  <2>2. \A p \in C2 : p >= s + Len(w) /\ p \in Int
    BY <1>1, <1>3
  <2>3. \A p \in A : p < s /\ p \in Int
    BY <1>3
  <2> HIDE DEF A, A2, C2
  <2> QED  BY <1>1, <2>1, <2>2, <2>3
<1> HIDE DEF A, B, C, T, W, A2, C2
<1>9. IsFiniteSet(A \cup A2) /\ Cardinality(A \cup A2) = Cardinality(A) + Cardinality(W)
  BY SMTT(30), <1>4, <1>6, <1>8, TwoParts
<1>10. Cardinality((A \cup A2) \cup C2) = Cardinality(A) + Cardinality(W) + Cardinality(C)
  <2>1. IsFiniteSet(C2) /\ Cardinality(C2) = Cardinality(C)
    BY <1>6
  <2>2. Cardinality((A \cup A2) \cup C2) = Cardinality(A \cup A2) + Cardinality(C2)
    BY <1>8, <1>9, <2>1, TwoParts
  <2> QED  BY <1>9, <2>1, <2>2
<1>11. Cardinality(Has(u, X)) = Cardinality(T) - Cardinality(B) + Cardinality(W)
  BY <1>4, <1>5, <1>7, <1>10
<1> QED  BY <1>11 DEF T, B, W

\* The subtree as an array of its own has the functions that it has in the tree.
LEMMA CountSubtree ==
  ASSUME NEW t, NEW K, NEW ty, Shape(t, K, ty), NEW s \in Subtrees(t), NEW X
  PROVE  Cardinality(Has(SubtreeAt(t, s), X)) = Cardinality(Has(t, X) \cap Within(t, K, s))
<1> DEFINE w == SubtreeAt(t, s)
           e == End(t, K, s)
           B == Has(t, X) \cap Within(t, K, s)
<1>1. /\ t \in Seq(Lnodes) /\ Grown(t, K, 1) /\ DOMAIN t = 1 .. Len(t) /\ Len(t) \in Nat
      /\ s \in Nat /\ s >= 1 /\ \A p \in Subtrees(t) : p \in Nat
  BY ShapeFacts, SubtreeFacts
<1>2. e \in Nat /\ s < e /\ e <= Len(t) + 1
  BY <1>1, KidFacts
<1>3. Len(w) = e - s /\ \A q \in 1 .. e - s : w[q] = t[q + (s - 1)]
  BY SubtreeParsed
<1>4. DOMAIN w = 1 .. e - s
  <2>1. w \in Seq(Lnodes)
    <3>1. Parsed(w, Fn(t[s]).ret)
      BY SubtreeParsed
    <3> QED  BY <3>1, ShapeFacts DEF Parsed
  <2> QED  BY <1>3, <2>1, SubtreeFacts
<1> HIDE DEF w, e
<1>5. Has(w, X) = {p + (1 - s) : p \in B}
  <2>1. ASSUME NEW q \in Has(w, X) PROVE q \in {p + (1 - s) : p \in B}
    <3>1. q \in 1 .. e - s /\ IsFunction(w[q]) /\ w[q] \in X
      BY <1>4 DEF Has, Subtrees
    <3>2. q + (s - 1) \in 1 .. Len(t) /\ (q + (s - 1)) + (1 - s) = q
          /\ s <= q + (s - 1) /\ q + (s - 1) < e
      BY <1>1, <1>2, <3>1
    <3>3. q + (s - 1) \in B
      BY <1>1, <1>3, <3>1, <3>2 DEF Has, Subtrees, Within, e
    <3> QED  BY <3>2, <3>3
  <2>2. ASSUME NEW p \in B PROVE p + (1 - s) \in Has(w, X)
    <3>1. p \in Subtrees(t) /\ t[p] \in X /\ s <= p /\ p < e /\ p \in Nat /\ IsFunction(t[p])
      BY <1>1 DEF Has, Within, e, Subtrees
    <3>2. p + (1 - s) \in 1 .. e - s /\ (p + (1 - s)) + (s - 1) = p
      BY <1>1, <1>2, <3>1
    <3> QED  BY <1>3, <1>4, <3>1, <3>2 DEF Has, Subtrees
  <2> QED  BY <2>1, <2>2
<1>6. IsFiniteSet(B) /\ B \in SUBSET Int
  <2>1. B \in SUBSET Subtrees(t)
    BY DEF Has
  <2> HIDE DEF B
  <2> QED  BY <1>1, <2>1, Finite
<1> HIDE DEF B
<1>7. Cardinality({p + (1 - s) : p \in B}) = Cardinality(B)
  <2>1. 1 - s \in Int
    BY <1>1
  <2> QED  BY <1>6, <2>1, Shifted
<1> QED  BY <1>5, <1>7 DEF B, w

\* What a node of the new tree is inside of.
LEMMA AboveReplaced ==
  ASSUME NEW t, NEW K, NEW ty, NEW s, NEW e, NEW w, NEW Kw, NEW d, NEW u, NEW M,
         Replaced(t, K, ty, s, e, w, Kw, d), IsSpliced(t, K, s, e, w, Kw, d, u, M)
  PROVE  /\ \A q \in Subtrees(t) : q < s => Above(u, M, 1, q) = Above(t, K, 1, q)
         /\ \A q \in Subtrees(w) :
              Cardinality(Above(u, M, 1, q + (s - 1)))
                = Cardinality(Above(t, K, 1, s)) + Cardinality(Above(w, Kw, 1, q))
         /\ \A q \in Subtrees(t) : q >= e =>
              Cardinality(Above(u, M, 1, q + d)) = Cardinality(Above(t, K, 1, q))
<1>1. /\ t \in Seq(Lnodes) /\ w \in Seq(Lnodes) /\ Grown(t, K, 1) /\ Grown(w, Kw, 1)
      /\ Len(t) \in Nat \ {0} /\ Len(w) \in Nat \ {0} /\ s \in Nat /\ e \in Nat /\ d \in Int
      /\ 1 <= s /\ s < e /\ e <= Len(t) + 1 /\ s + Len(w) = e + d /\ e = End(t, K, s)
      /\ s \in Subtrees(t)
  BY ReplacedFacts
<1>2. \A p \in Subtrees(t) : /\ p \in Nat /\ 1 <= p /\ End(t, K, p) \in Nat /\ p < End(t, K, p)
                             /\ p < s => End(t, K, p) <= s \/ End(t, K, p) >= e
  <2> TAKE p \in Subtrees(t)
  <2>1. p \in Nat /\ 1 <= p
    BY ReplacedFacts
  <2>2. End(t, K, p) \in Nat /\ p < End(t, K, p)
    BY <1>1, <2>1, KidFacts
  <2>3. ASSUME p < s PROVE End(t, K, p) <= s \/ End(t, K, p) >= e
    <3>1. s < End(t, K, p) => End(t, K, s) <= End(t, K, p)
      BY <1>1, <2>1, <2>3, Nested
    <3> QED  BY <1>1, <2>2, <3>1
  <2> QED  BY <2>1, <2>2, <2>3
<1>3. \A p \in Subtrees(w) : /\ p \in Nat /\ 1 <= p /\ p <= Len(w)
                             /\ End(w, Kw, p) \in Nat /\ End(w, Kw, p) <= Len(w) + 1
  <2> TAKE p \in Subtrees(w)
  <2>1. p \in Nat /\ 1 <= p /\ p <= Len(w)
    BY ReplacedFacts
  <2> QED  BY <1>1, <2>1, KidFacts
<1>4. \A q \in Subtrees(w) : /\ q + (s - 1) \in Subtrees(u)
                             /\ End(u, M, q + (s - 1)) = End(w, Kw, q) + (s - 1)
  BY SplicedMoved DEF NodeOf
<1>5. \A q \in Subtrees(t) : q >= e => /\ q + d \in Subtrees(u)
                                       /\ End(u, M, q + d) = End(t, K, q) + d
  BY SplicedMoved DEF NodeOf
<1>6. \A q \in Subtrees(t) : q < s =>
        /\ q \in Subtrees(u)
        /\ End(u, M, q) = IF End(t, K, q) <= s THEN End(t, K, q) ELSE End(t, K, q) + d
  BY SplicedBefore DEF NodeOf
<1>7. \A p \in Subtrees(u) :
        \/ p \in Subtrees(t) /\ p < s
        \/ \E q \in Subtrees(w) : p = q + (s - 1)
        \/ \E q \in Subtrees(t) : q >= e /\ p = q + d
  BY SplicedShape
\* Nodes in front of the subtree, seen from any place.
<1>8. \A r \in Subtrees(t) : r < s =>
        /\ \A q \in Nat : q < s => (q < End(u, M, r) <=> q < End(t, K, r))
        /\ \A q \in Nat : s <= q /\ q < s + Len(w) => (q < End(u, M, r) <=> s < End(t, K, r))
        /\ \A q \in Nat : q >= e => (q + d < End(u, M, r) <=> q < End(t, K, r))
  <2> SUFFICES ASSUME NEW r \in Subtrees(t), r < s
               PROVE  /\ \A q \in Nat : q < s => (q < End(u, M, r) <=> q < End(t, K, r))
                      /\ \A q \in Nat : s <= q /\ q < s + Len(w)
                                          => (q < End(u, M, r) <=> s < End(t, K, r))
                      /\ \A q \in Nat : q >= e => (q + d < End(u, M, r) <=> q < End(t, K, r))
    OBVIOUS
  <2> DEFINE z == End(t, K, r)
             y == End(u, M, r)
             l == Len(w)
  <2>1. /\ z \in Nat /\ (z <= s \/ z >= e) /\ y = IF z <= s THEN z ELSE z + d
        /\ l \in Nat \ {0} /\ s + l = e + d /\ s < e /\ s \in Nat /\ e \in Nat /\ d \in Int
    BY <1>1, <1>2, <1>6
  <2> HIDE DEF z, y, l
  <2>2. CASE z <= s
    <3>1. y = z
      BY <2>1, <2>2
    <3> QED  BY <2>1, <2>2, <3>1 DEF z, y, l
  <2>3. CASE z >= e
    <3>1. y = z + d
      BY <2>1, <2>3
    <3> QED  BY <2>1, <2>3, <3>1 DEF z, y, l
  <2> QED  BY <2>1, <2>2, <2>3
<1>9. ASSUME NEW q \in Subtrees(t), q < s
      PROVE  Above(u, M, 1, q) = Above(t, K, 1, q)
  <2>1. ASSUME NEW r \in Above(u, M, 1, q) PROVE r \in Above(t, K, 1, q)
    <3>1. r \in Subtrees(u) /\ 1 <= r /\ r < q /\ q < End(u, M, r)
      BY DEF Above
    <3>2. r \in Subtrees(t) /\ r < s
      <4>1. \A x \in Subtrees(w) : ~(x + (s - 1) < q)
        BY <1>1, <1>2, <1>3, <1>9
      <4>2. \A x \in Subtrees(t) : x >= e => ~(x + d < q)
        BY <1>1, <1>2, <1>9
      <4> QED  BY <1>7, <3>1, <4>1, <4>2
    <3> QED  BY <1>2, <1>8, <1>9, <3>1, <3>2 DEF Above
  <2>2. ASSUME NEW r \in Above(t, K, 1, q) PROVE r \in Above(u, M, 1, q)
    <3>1. r \in Subtrees(t) /\ 1 <= r /\ r < q /\ q < End(t, K, r)
      BY DEF Above
    <3>2. r < s
      BY <1>1, <1>2, <1>9, <3>1
    <3> QED  BY <1>2, <1>6, <1>8, <1>9, <3>1, <3>2 DEF Above
  <2> QED  BY <2>1, <2>2
<1>10. ASSUME NEW q \in Subtrees(w)
       PROVE  Cardinality(Above(u, M, 1, q + (s - 1)))
                = Cardinality(Above(t, K, 1, s)) + Cardinality(Above(w, Kw, 1, q))
  <2> DEFINE A == Above(t, K, 1, s)
             W == Above(w, Kw, 1, q)
             W2 == {x + (s - 1) : x \in W}
             q2 == q + (s - 1)
  <2>1. q \in Nat /\ 1 <= q /\ q <= Len(w) /\ q2 \in Nat /\ s <= q2 /\ q2 < s + Len(w)
    BY <1>1, <1>3
  <2>2. /\ \A r \in A : r \in Subtrees(t) /\ r \in Nat /\ r < s /\ s < End(t, K, r) /\ 1 <= r
        /\ \A r \in W : r \in Subtrees(w) /\ r \in Nat /\ 1 <= r /\ r < q /\ q < End(w, Kw, r)
    BY <1>2, <1>3 DEF Above
  <2>3. ASSUME NEW r \in Above(u, M, 1, q2) PROVE r \in A \cup W2
    <3>1. r \in Subtrees(u) /\ r < q2 /\ q2 < End(u, M, r)
      BY DEF Above
    <3>2. CASE r \in Subtrees(t) /\ r < s
      <4>1. s < End(t, K, r)
        BY <1>8, <2>1, <3>1, <3>2
      <4> QED  BY <1>2, <3>2, <4>1 DEF Above
    <3>3. CASE \E x \in Subtrees(w) : r = x + (s - 1)
      <4>1. PICK x \in Subtrees(w) : r = x + (s - 1)
        BY <3>3
      <4>2. x \in Nat /\ 1 <= x /\ End(u, M, r) = End(w, Kw, x) + (s - 1) /\ End(w, Kw, x) \in Nat
        BY <1>3, <1>4, <4>1
      <4>3. x < q /\ q < End(w, Kw, x)
        BY <1>1, <2>1, <3>1, <4>1, <4>2
      <4>4. x \in W
        BY <4>2, <4>3 DEF Above
      <4> QED  BY <4>1, <4>4
    <3>4. CASE \E x \in Subtrees(t) : x >= e /\ r = x + d
      BY <1>1, <1>2, <2>1, <3>1, <3>4
    <3> QED  BY <1>7, <3>1, <3>2, <3>3, <3>4
  <2>4. ASSUME NEW r \in A PROVE r \in Above(u, M, 1, q2)
    <3>1. r \in Subtrees(t) /\ r \in Nat /\ r < s /\ s < End(t, K, r) /\ 1 <= r
      BY <2>2
    <3>2. r \in Subtrees(u) /\ q2 < End(u, M, r)
      BY <1>6, <1>8, <2>1, <3>1
    <3>3. r < q2
      BY <1>1, <2>1, <3>1
    <3> QED  BY <3>1, <3>2, <3>3 DEF Above
  <2>5. ASSUME NEW x \in W PROVE x + (s - 1) \in Above(u, M, 1, q2)
    <3>1. x \in Subtrees(w) /\ x \in Nat /\ 1 <= x /\ x < q /\ q < End(w, Kw, x)
      BY <2>2
    <3>2. /\ x + (s - 1) \in Subtrees(u) /\ End(u, M, x + (s - 1)) = End(w, Kw, x) + (s - 1)
          /\ End(w, Kw, x) \in Nat
      BY <1>3, <1>4, <3>1
    <3>3. 1 <= x + (s - 1) /\ x + (s - 1) < q2 /\ q2 < End(w, Kw, x) + (s - 1)
      BY <1>1, <2>1, <3>1, <3>2
    <3> QED  BY <3>2, <3>3 DEF Above
  <2>6. A \cap W2 = {}
    BY <1>1, <2>2
  <2>7. IsFiniteSet(A) /\ IsFiniteSet(W) /\ W \in SUBSET Int
    <3>1. A \in SUBSET Subtrees(t) /\ W \in SUBSET Subtrees(w)
      BY DEF Above
    <3>2. W \in SUBSET Int
      BY <2>2
    <3> HIDE DEF A, W
    <3> QED  BY <1>1, <3>1, <3>2, Finite
  <2>8. Above(u, M, 1, q2) = A \cup W2
    <3> HIDE DEF A, W, q2
    <3> QED  BY <2>3, <2>4, <2>5
  <2> HIDE DEF A, W
  <2>9. IsFiniteSet(W2) /\ Cardinality(W2) = Cardinality(W)
    <3>1. s - 1 \in Int
      BY <1>1
    <3> QED  BY <2>7, <3>1, Shifted
  <2> HIDE DEF W2
  <2>10. Cardinality(A \cup W2) = Cardinality(A) + Cardinality(W2)
    BY <2>6, <2>7, <2>9, TwoParts
  <2> QED  BY <2>8, <2>9, <2>10 DEF A, W
<1>11. ASSUME NEW q \in Subtrees(t), q >= e
       PROVE  Cardinality(Above(u, M, 1, q + d)) = Cardinality(Above(t, K, 1, q))
  <2> DEFINE A == Above(t, K, 1, q)
             B == Above(u, M, 1, q + d)
             f == [r \in A |-> IF r < s THEN r ELSE r + d]
  <2>1. q \in Nat
    BY <1>2
  <2>2. ASSUME NEW r \in A
        PROVE  /\ r \in Subtrees(t) /\ r \in Nat /\ 1 <= r /\ r < q /\ q < End(t, K, r)
               /\ r < s \/ r >= e
    <3>1. r \in Subtrees(t) /\ r \in Nat /\ 1 <= r /\ r < q /\ q < End(t, K, r) /\ End(t, K, r) \in Nat
      BY <1>2 DEF Above
    <3>2. CASE s < r /\ r < e
      <4>1. End(t, K, r) <= End(t, K, s)
        BY <1>1, <3>1, <3>2, Nested
      <4> QED  BY <1>1, <1>11, <2>1, <3>1, <4>1
    <3>3. CASE r = s
      BY <1>1, <1>11, <2>1, <3>1, <3>3
    <3> QED  BY <1>1, <3>1, <3>2, <3>3
  <2>3. f \in [A -> B]
    <3>1. ASSUME NEW r \in A PROVE f[r] \in B
      <4>1. /\ r \in Subtrees(t) /\ r \in Nat /\ 1 <= r /\ r < q /\ q < End(t, K, r)
            /\ r < s \/ r >= e
        BY <2>2
      <4>2. CASE r < s
        <5>1. r \in Subtrees(u) /\ q + d < End(u, M, r)
          BY <1>6, <1>8, <1>11, <2>1, <4>1, <4>2
        <5>2. r < q + d
          BY <1>1, <1>11, <2>1, <4>1, <4>2
        <5> QED  BY <4>1, <4>2, <5>1, <5>2 DEF Above
      <4>3. CASE r >= e
        <5>1. r + d \in Subtrees(u) /\ End(u, M, r + d) = End(t, K, r) + d /\ End(t, K, r) \in Nat
          BY <1>2, <1>5, <4>1, <4>3
        <5>2. r + d < q + d /\ q + d < End(t, K, r) + d /\ 1 <= r + d /\ ~(r < s)
          BY <1>1, <2>1, <4>1, <4>3, <5>1
        <5> QED  BY <5>1, <5>2 DEF Above
      <4> QED  BY <4>1, <4>2, <4>3
    <3> HIDE DEF A, B
    <3> QED  BY <3>1
  <2>4. \A x, y \in A : f[x] = f[y] => x = y
    <3> SUFFICES ASSUME NEW x \in A, NEW y \in A, f[x] = f[y] PROVE x = y
      OBVIOUS
    <3>1. x \in Nat /\ (x < s \/ x >= e) /\ y \in Nat /\ (y < s \/ y >= e)
      BY <2>2
    <3>2. /\ f[x] = IF x < s THEN x ELSE x + d
          /\ f[y] = IF y < s THEN y ELSE y + d
      OBVIOUS
    <3>3. s \in Nat /\ e \in Nat /\ d \in Int /\ e + d > s
      BY <1>1
    <3>4. x \in Nat /\ y \in Nat /\ f[x] = f[y] /\ (x < s \/ x >= e) /\ (y < s \/ y >= e)
      BY <3>1
    <3> HIDE DEF f, A
    <3>5. (IF x < s THEN x ELSE x + d) = (IF y < s THEN y ELSE y + d)
      BY <3>2, <3>4
    <3> QED  BY <3>3, <3>4, <3>5
  <2>5. ASSUME NEW y \in B PROVE \E x \in A : f[x] = y
    <3>1. y \in Subtrees(u) /\ y < q + d /\ q + d < End(u, M, y)
      BY DEF Above
    <3>2. CASE y \in Subtrees(t) /\ y < s
      <4>1. q < End(t, K, y) /\ y < q /\ 1 <= y
        BY <1>1, <1>2, <1>8, <1>11, <2>1, <3>1, <3>2
      <4>2. y \in A
        BY <3>2, <4>1 DEF Above
      <4> QED  BY <3>2, <4>2
    <3>3. CASE \E x \in Subtrees(w) : y = x + (s - 1)
      <4>1. PICK x \in Subtrees(w) : y = x + (s - 1)
        BY <3>3
      <4>2. End(u, M, y) = End(w, Kw, x) + (s - 1) /\ End(w, Kw, x) \in Nat
            /\ End(w, Kw, x) <= Len(w) + 1
        BY <1>3, <1>4, <4>1
      <4> QED  BY SMTT(30), <1>1, <1>11, <2>1, <3>1, <4>2
    <3>4. CASE \E x \in Subtrees(t) : x >= e /\ y = x + d
      <4>1. PICK x \in Subtrees(t) : x >= e /\ y = x + d
        BY <3>4
      <4>2. End(u, M, y) = End(t, K, x) + d /\ End(t, K, x) \in Nat /\ x \in Nat /\ 1 <= x
        BY <1>2, <1>5, <4>1
      <4>3. x < q /\ q < End(t, K, x) /\ ~(x < s)
        BY <1>1, <2>1, <3>1, <4>1, <4>2
      <4>4. x \in A
        BY <4>1, <4>2, <4>3 DEF Above
      <4> QED  BY <4>1, <4>3, <4>4
    <3> QED  BY <1>7, <3>1, <3>2, <3>3, <3>4
  <2>6. IsFiniteSet(A)
    <3>1. A \subseteq Subtrees(t)
      BY DEF Above
    <3>2. IsFiniteSet(Subtrees(t))
      <4>1. t \in Seq(Lnodes)
        BY <1>1
      <4> HIDE DEF A
      <4> QED  BY <4>1, Finite
    <3> HIDE DEF A
    <3> QED  BY <3>1, <3>2, FS_Subset
  <2> HIDE DEF A, B, f
  <2>7. Cardinality(B) = Cardinality(A)
    BY <2>3, <2>4, <2>5, <2>6, SameNumber
  <2> QED  BY <2>7 DEF A, B
<1> QED  BY <1>9, <1>10, <1>11

\* The operators foresee how large the new tree will be: the number of its nodes, and
\* a bound of its depth.
LEMMA ForeseenSize ==
  ASSUME NEW t, NEW K, NEW ty, NEW s, NEW e, NEW w, NEW Kw, NEW d,
         Replaced(t, K, ty, s, e, w, Kw, d)
  PROVE  LET u == CopyTreeReplace(t, s, w)
         IN /\ TreeNodes(u) = TreeNodes(t) - Measure(t)[s].nodes + TreeNodes(w)
            /\ \A m \in Int : TreeDepth(t) <= m /\ DepthToSubtree(t, s) + TreeDepth(w) <= m
                                => TreeDepth(u) <= m
<1> DEFINE u == CopyTreeReplace(t, s, w)
           M == SplicedPlaces(K, s, e, Kw, Len(w))
           Nodes == {Node(f) : f \in Function}
<1>1. IsSpliced(t, K, s, e, w, Kw, d, u, M) /\ Shape(u, M, ty)
  BY ReplaceFacts
<1> HIDE DEF u, M
<1>2. Shape(t, K, ty) /\ s \in Subtrees(t) /\ Shape(w, Kw, Fn(t[s]).ret)
  BY DEF Replaced
<1>3. TreeNodes(u) = TreeNodes(t) - Measure(t)[s].nodes + TreeNodes(w)
  <2>1. \A x \in Seq(Lnodes) : Has(x, Nodes) = Subtrees(x)
    <3> TAKE x \in Seq(Lnodes)
    <3>1. \A p \in Subtrees(x) : x[p] \in Nodes
      BY SubtreeFacts, LnodeFacts
    <3> QED  BY <3>1 DEF Has
  <2>2. /\ u \in Seq(Lnodes) /\ t \in Seq(Lnodes) /\ w \in Seq(Lnodes)
        /\ TreeNodes(u) = Cardinality(Subtrees(u)) /\ TreeNodes(t) = Cardinality(Subtrees(t))
        /\ TreeNodes(w) = Cardinality(Subtrees(w))
    BY <1>1, <1>2, ShapeFacts
  <2>3. Measure(t)[s].nodes = Cardinality(Within(t, K, s))
    BY <1>2, ShapeFacts
  <2>4. Subtrees(t) \cap Within(t, K, s) = Within(t, K, s)
    BY DEF Within
  <2> HIDE DEF Nodes
  <2>5. Cardinality(Has(u, Nodes))
          = Cardinality(Has(t, Nodes)) - Cardinality(Has(t, Nodes) \cap Within(t, K, s))
            + Cardinality(Has(w, Nodes))
    BY <1>1, CountReplaced
  <2> QED  BY <2>1, <2>2, <2>3, <2>4, <2>5
<1>4. ASSUME NEW m \in Int, TreeDepth(t) <= m, DepthToSubtree(t, s) + TreeDepth(w) <= m
      PROVE  TreeDepth(u) <= m
  <2>1. /\ TreeDepth(u) = Max(Depths(u, M, 1)) /\ Within(u, M, 1) = Subtrees(u)
        /\ Grown(u, M, 1) /\ 1 \in Subtrees(u)
    BY <1>1, ShapeFacts
  <2>2. /\ TreeDepth(t) = Max(Depths(t, K, 1)) /\ Within(t, K, 1) = Subtrees(t)
        /\ Grown(t, K, 1) /\ 1 \in Subtrees(t) /\ DepthToSubtree(t, s) = Cardinality(Above(t, K, 1, s))
    BY <1>2, ShapeFacts
  <2>3. /\ TreeDepth(w) = Max(Depths(w, Kw, 1)) /\ Within(w, Kw, 1) = Subtrees(w)
        /\ Grown(w, Kw, 1) /\ 1 \in Subtrees(w)
    BY <1>2, ShapeFacts
  <2>4. PICK q \in Subtrees(u) : TreeDepth(u) = Cardinality(Above(u, M, 1, q))
    <3>1. Max(Depths(u, M, 1)) \in Depths(u, M, 1)
      <4>1. u \in Seq(Lnodes)
        BY <1>1, ShapeFacts
      <4> QED  BY <2>1, <4>1, DepthFacts
    <3> QED  BY <2>1, <3>1 DEF Depths
  <2>5. \A x \in Subtrees(t) : /\ Cardinality(Above(t, K, 1, x)) \in Nat
                               /\ Cardinality(Above(t, K, 1, x)) <= TreeDepth(t)
                               /\ TreeDepth(t) \in Nat
    BY <2>2, DepthFacts
  <2>6. \A x \in Subtrees(w) : /\ Cardinality(Above(w, Kw, 1, x)) \in Nat
                               /\ Cardinality(Above(w, Kw, 1, x)) <= TreeDepth(w)
                               /\ TreeDepth(w) \in Nat
    BY <2>3, DepthFacts
  <2>7. \/ q \in Subtrees(t) /\ q < s
        \/ \E x \in Subtrees(w) : q = x + (s - 1)
        \/ \E x \in Subtrees(t) : x >= e /\ q = x + d
    BY <1>1, SplicedShape
  <2>8. CASE q \in Subtrees(t) /\ q < s
    <3>1. Above(u, M, 1, q) = Above(t, K, 1, q)
      BY <1>1, <2>8, AboveReplaced
    <3> QED  BY <1>4, <2>4, <2>5, <2>8, <3>1
  <2>9. CASE \E x \in Subtrees(w) : q = x + (s - 1)
    <3>1. PICK x \in Subtrees(w) : q = x + (s - 1)
      BY <2>9
    <3>2. Cardinality(Above(u, M, 1, q))
            = Cardinality(Above(t, K, 1, s)) + Cardinality(Above(w, Kw, 1, x))
      BY <1>1, <3>1, AboveReplaced
    <3>3. Cardinality(Above(t, K, 1, s)) \in Nat
      BY <1>2, <2>5
    <3> QED  BY <1>4, <2>2, <2>4, <2>6, <3>1, <3>2, <3>3
  <2>10. CASE \E x \in Subtrees(t) : x >= e /\ q = x + d
    <3>1. PICK x \in Subtrees(t) : x >= e /\ q = x + d
      BY <2>10
    <3>2. Cardinality(Above(u, M, 1, q)) = Cardinality(Above(t, K, 1, x))
      BY <1>1, <3>1, AboveReplaced
    <3> QED  BY <1>4, <2>4, <2>5, <3>1, <3>2
  <2> QED  BY <2>7, <2>8, <2>9, <2>10
<1> QED  BY <1>3, <1>4 DEF u

\* A copy of a tree with one subtree replaced by another tree of the same type is a
\* tree of the type it had, and the operators foresee its size before they make it:
\* exactly its number of nodes, and a bound of its depth (crossovr.c, mutate.c).
THEOREM ReplacementForeseen ==
  ASSUME NEW t, NEW ty, Parsed(t, ty), NEW s \in Subtrees(t),
         NEW w, Parsed(w, Fn(t[s]).ret)
  PROVE  LET u == CopyTreeReplace(t, s, w)
         IN /\ Parsed(u, ty)
            /\ TreeNodes(u) = TreeNodes(t) - Measure(t)[s].nodes + TreeNodes(w)
            /\ \A m \in Int : TreeDepth(t) <= m /\ DepthToSubtree(t, s) + TreeDepth(w) <= m
                                => TreeDepth(u) <= m
<1>1. PICK K : Shape(t, K, ty)
  BY DEF Parsed
<1>2. PICK Kw : Shape(w, Kw, Fn(t[s]).ret)
  BY DEF Parsed
<1> DEFINE e == End(t, K, s)
           d == Len(w) - (e - s)
<1>3. Replaced(t, K, ty, s, e, w, Kw, d)
  BY <1>1, <1>2 DEF Replaced
<1> HIDE DEF e, d
<1>4. Parsed(CopyTreeReplace(t, s, w), ty)
  BY <1>3, ReplaceFacts DEF Parsed
<1> QED  BY <1>3, <1>4, ForeseenSize

-----------------------------------------------------------------------------
(* What a tree is evaluated to *)

\* The parts of evaluate_tree and of the reference definition.
EvalKidsIs(k, e, t, p) ==
  k = [i \in 1 .. Len(Fn(t[p]).args) |->
         LET at == IF i = 1 THEN p + 1 ELSE k[i - 1].end
         IN IF Fn(t[p]).expr
            THEN [value |-> e[at + 1].value, end |-> at + t[at][2] + 1]
            ELSE e[at]]

EvalKids(e, t, p) == CHOOSE k : EvalKidsIs(k, e, t, p)

EvalAt(e, t, p) ==
  [value |-> Code(t[p][2], [i \in 1 .. Len(Fn(t[p]).args) |-> EvalKids(e, t, p)[i].value]),
   end |-> IF Len(Fn(t[p]).args) > 0 THEN EvalKids(e, t, p)[Len(Fn(t[p]).args)].end
           ELSE p + 1 + (IF Fn(t[p]).erc THEN 1 ELSE 0)]

EvalIs(e, t) == e = [p \in Subtrees(t) |-> EvalAt(e, t, p)]

PlaceIs(k, m, t, p) ==
  k = [i \in DOMAIN Fn(t[p]).args |->
         (IF Fn(t[p]).expr THEN 1 ELSE 0) + IF i = 1 THEN p + 1 ELSE m[k[i - 1]].end]

Place(t, p) == CHOOSE k : PlaceIs(k, Measure(t), t, p)

MeaningIs(o, t) ==
  o = [p \in Subtrees(t) |->
         Code(t[p][2], [i \in DOMAIN Fn(t[p]).args |-> o[Place(t, p)[i]]])]

\* The definitions are made of these parts.
LEMMA EvalParts ==
  /\ \A t : EvaluateTree(t) = (CHOOSE e : EvalIs(e, t))[1].value
  /\ \A t : Meaning(t) = (CHOOSE o : MeaningIs(o, t))[1]
<1>1. \A t : EvaluateTree(t) = (CHOOSE e : EvalIs(e, t))[1].value
  BY DEF EvaluateTree, EvalIs, EvalAt, EvalKids, EvalKidsIs
<1>2. \A t : Meaning(t) = (CHOOSE o : MeaningIs(o, t))[1]
  BY DEF Meaning, MeaningIs, Place, PlaceIs
<1> QED  BY <1>1, <1>2

\* The reference definition looks for the children where they are.
LEMMA PlaceFacts ==
  ASSUME NEW t, NEW K, NEW ty, Shape(t, K, ty), NEW p \in Subtrees(t),
         NEW i \in 1 .. Arity(t[p])
  PROVE  Place(t, p)[i] = Kid(t, K, p, i)
<1> DEFINE n == Arity(t[p])
           g == IF Fn(t[p]).expr THEN 1 ELSE 0
           m == Measure(t)
           C(j) == Kid(t, K, p, j)
           h == [j \in 1 .. n |-> C(j)]
           k == Place(t, p)
           S == {j \in 0 .. n : j = 0 \/ k[j] = C(j)}
<1>1. /\ t \in Seq(Lnodes) /\ Grown(t, K, 1) /\ p >= 1 /\ n \in Nat /\ p \in Nat
      /\ \A c \in Subtrees(t) : m[c].end = End(t, K, c)
      /\ Fn(t[p]).erc => n = 0
  BY ShapeFacts, SubtreeFacts
<1>2. DOMAIN Fn(t[p]).args = 1 .. n
  <2>1. t[p] \in Lnodes /\ IsFunction(t[p])
    BY <1>1, SubtreeFacts
  <2>2. Fn(t[p]).args \in Seq(Types)
    BY <2>1, LnodeFacts
  <2> QED  BY <2>2, LenProperties DEF Arity
<1>3. n # 0 => C(1) = g + (p + 1)
  <2> SUFFICES ASSUME n # 0 PROVE C(1) = g + (p + 1)
    OBVIOUS
  <2>1. K[p][1] = p + Step(t[p])
    BY <1>1, KidFacts
  <2>2. Step(t[p]) = 1
    BY <1>1 DEF Step
  <2> QED  BY <1>1, <2>1, <2>2 DEF Kid, Gap
<1>4. \A j \in 1 .. n : j # 1 => C(j) = g + m[C(j - 1)].end
  <2> SUFFICES ASSUME NEW j \in 1 .. n, j # 1 PROVE C(j) = g + m[C(j - 1)].end
    OBVIOUS
  <2>1. j - 1 \in 1 .. n /\ (j - 1) + 1 = j
    BY <1>1
  <2> DEFINE l == j - 1
             c == Kid(t, K, p, l)
  <2> HIDE DEF l
  <2>2. l \in 1 .. n /\ l + 1 = j
    BY <2>1 DEF l
  <2>3. c \in Subtrees(t) /\ K[p][l + 1] = End(t, K, c) /\ K[p][l + 1] \in Nat
    <3>0. Grown(t, K, 1) /\ p >= 1 /\ l \in 1 .. Arity(t[p])
      BY <1>1, <2>2
    <3>1. c \in Subtrees(t) /\ K[p][l + 1] = End(t, K, c)
      BY SMTT(30), <3>0, KidFacts
    <3>2. l + 1 \in 1 .. n + 1
      BY <1>1, <2>2
    <3>3. K[p][l + 1] \in Nat
      BY <1>1, <3>2, KidFacts
    <3> QED  BY <3>1, <3>3
  <2>4. m[c].end = K[p][j]
    BY <1>1, <2>2, <2>3
  <2>5. C(j) = K[p][j] + g /\ K[p][j] \in Nat
    BY <2>2, <2>3 DEF Kid, Gap
  <2> HIDE DEF c, m, g
  <2>6. C(j) = g + m[c].end
    BY <2>4, <2>5 DEF g
  <2> QED  BY <2>6 DEF c, l
<1>5. \A x : PlaceIs(x, m, t, p)
        <=> x = [j \in 1 .. n |-> g + IF j = 1 THEN p + 1 ELSE m[x[j - 1]].end]
  BY <1>2 DEF PlaceIs
<1>6. \A j \in 1 .. n : j # 1 => j - 1 \in 1 .. n /\ j - 1 # 0
  BY <1>1
<1> HIDE DEF m, g, n, C
<1>7. PlaceIs(h, m, t, p)
  <2>1. \A j \in 1 .. n : h[j] = g + IF j = 1 THEN p + 1 ELSE m[h[j - 1]].end
    <3> TAKE j \in 1 .. n
    <3>1. n # 0
      BY <1>1
    <3>2. CASE j = 1
      BY <1>3, <3>1, <3>2
    <3>3. CASE j # 1
      <4>1. h[j] = C(j) /\ h[j - 1] = C(j - 1)
        BY <1>6, <3>3
      <4> QED  BY <1>4, <3>3, <4>1
    <3> QED  BY <3>2, <3>3
  <2>2. h = [j \in 1 .. n |-> h[j]]
    OBVIOUS
  <2> HIDE DEF h
  <2> QED  BY <1>5, <2>1, <2>2
<1>8. PlaceIs(k, m, t, p)
  BY <1>7 DEF Place, m
<1> HIDE DEF k, h
<1>9. \A j \in 1 .. n : k[j] = g + IF j = 1 THEN p + 1 ELSE m[k[j - 1]].end
  <2>1. k = [j \in 1 .. n |-> g + IF j = 1 THEN p + 1 ELSE m[k[j - 1]].end]
    BY <1>5, <1>8
  <2> QED  BY <2>1
<1>10. 0 .. n \subseteq S
  <2>1. 0 \in S
    BY <1>1
  <2>2. \A j \in 1 .. n : j - 1 \in S => j \in S
    <3> SUFFICES ASSUME NEW j \in 1 .. n, j - 1 \in S PROVE j \in S
      OBVIOUS
    <3>1. j \in 0 .. n /\ n # 0
      BY <1>1
    <3>2. CASE j = 1
      BY <1>3, <1>9, <3>1, <3>2
    <3>3. CASE j # 1
      <4>1. k[j - 1] = C(j - 1)
        BY <1>6, <3>3
      <4> QED  BY <1>4, <1>9, <3>1, <3>3, <4>1
    <3> QED  BY <3>2, <3>3
  <2> HIDE DEF S
  <2> QED  BY <1>1, <2>1, <2>2, Climb
<1>11. i \in 1 .. n /\ i \in 0 .. n /\ i # 0
  BY <1>1 DEF n
<1> QED  BY <1>10, <1>11 DEF k, C

\* What is made of a node and of what its children stand for.
ValueAt(o, t, K, p) ==
  Code(t[p][2], [i \in 1 .. Arity(t[p]) |-> o[Kid(t, K, p, i)]])

\* A tree stands for something: its values are found from the last node on.
LEMMA ValuesExist ==
  ASSUME NEW t, NEW K, Grown(t, K, 1)
  PROVE  \E o : o = [p \in Subtrees(t) |-> ValueAt(o, t, K, p)]
<1> DEFINE From(n) == {p \in Subtrees(t) : p > Len(t) - n}
           Good(o, n) == o = [p \in From(n) |-> ValueAt(o, t, K, p)]
           S == {n \in 0 .. Len(t) : \E o : Good(o, n)}
<1>1. /\ Len(t) \in Nat /\ \A p \in Subtrees(t) : p \in Nat /\ p >= 1 /\ p <= Len(t)
      /\ \A p \in Subtrees(t) : \A i \in 1 .. Arity(t[p]) :
           Kid(t, K, p, i) \in Subtrees(t) /\ Kid(t, K, p, i) > p
  <2>1. t \in Seq(Lnodes)
    BY DEF Grown
  <2>2. Len(t) \in Nat /\ \A p \in Subtrees(t) : p \in Nat /\ p >= 1 /\ p <= Len(t)
    BY <2>1, SubtreeFacts
  <2>3. ASSUME NEW p \in Subtrees(t), NEW i \in 1 .. Arity(t[p])
        PROVE  Kid(t, K, p, i) \in Subtrees(t) /\ Kid(t, K, p, i) > p
    <3>1. p >= 1
      BY <2>2
    <3> DEFINE c == Kid(t, K, p, i)
    <3>2. c \in Subtrees(t) /\ c \in Nat /\ p < K[p][i] /\ K[p][i] <= c
      BY <3>1, KidFacts
    <3>3. p \in Nat /\ Arity(t[p]) \in Nat
      BY <2>2, <3>1, KidFacts
    <3>4. i \in 1 .. Arity(t[p]) + 1
      BY <3>3
    <3>5. K[p][i] \in Nat
      BY <3>1, <3>4, KidFacts
    <3> HIDE DEF c
    <3>6. c > p
      BY <3>2, <3>3, <3>5
    <3> QED  BY <3>2, <3>6 DEF c
  <2> QED  BY <2>2, <2>3
<1>2. 0 \in S
  <2> DEFINE o == [p \in {} |-> 0]
  <2>1. From(0) = {}
    BY <1>1
  <2>2. Good(o, 0)
    BY <2>1
  <2>3. \E x : Good(x, 0)
    <3> HIDE DEF o
    <3> QED  BY <2>2
  <2>4. 0 \in 0 .. Len(t)
    BY <1>1
  <2> HIDE DEF Good
  <2> QED  BY <2>3, <2>4
<1>3. \A n \in 1 .. Len(t) : n - 1 \in S => n \in S
  <2> SUFFICES ASSUME NEW n \in 1 .. Len(t), n - 1 \in S PROVE n \in S
    OBVIOUS
  <2>1. PICK o : Good(o, n - 1)
    OBVIOUS
  <2> DEFINE V(p) == ValueAt(o, t, K, p)
             a == [p \in From(n) |-> V(p)]
  <2>2. \A p \in From(n) : \A i \in 1 .. Arity(t[p]) : Kid(t, K, p, i) \in From(n - 1)
    <3> TAKE p \in From(n)
    <3> TAKE i \in 1 .. Arity(t[p])
    <3>1. p \in Subtrees(t) /\ p > Len(t) - n
      OBVIOUS
    <3>2. Kid(t, K, p, i) \in Subtrees(t) /\ Kid(t, K, p, i) > p
      BY <1>1, <3>1
    <3>3. Kid(t, K, p, i) \in Nat /\ p \in Nat
      BY <1>1, <3>1, <3>2
    <3>4. Kid(t, K, p, i) > Len(t) - (n - 1)
      BY <1>1, <3>1, <3>2, <3>3
    <3> QED  BY <3>2, <3>4
  <2>3. From(n - 1) \subseteq From(n)
    BY <1>1
  <2>4. \A p \in From(n - 1) : o[p] = V(p)
    <3>1. \A p \in From(n - 1) : [q \in From(n - 1) |-> V(q)][p] = V(p)
      OBVIOUS
    <3> HIDE DEF V, From
    <3>2. o = [q \in From(n - 1) |-> V(q)]
      BY <2>1 DEF V
    <3> QED  BY <3>1, <3>2
  <2>5. \A p \in From(n - 1) : a[p] = o[p]
    BY <2>3, <2>4
  <2>6. \A p \in From(n) : ValueAt(a, t, K, p) = V(p)
    <3> TAKE p \in From(n)
    <3>1. \A i \in 1 .. Arity(t[p]) : a[Kid(t, K, p, i)] = o[Kid(t, K, p, i)]
      BY <2>2, <2>5
    <3> HIDE DEF a
    <3>2. [i \in 1 .. Arity(t[p]) |-> a[Kid(t, K, p, i)]]
            = [i \in 1 .. Arity(t[p]) |-> o[Kid(t, K, p, i)]]
      BY <3>1
    <3> QED  BY <3>2 DEF ValueAt
  <2>7. Good(a, n)
    <3>1. \A p \in From(n) : a[p] = ValueAt(a, t, K, p)
      BY <2>6
    <3>2. a = [p \in From(n) |-> a[p]]
      OBVIOUS
    <3> HIDE DEF a, From
    <3> QED  BY <3>1, <3>2
  <2>8. n \in 0 .. Len(t)
    BY <1>1
  <2> QED  BY <2>7, <2>8
<1>4. Len(t) \in S
  <2>1. Len(t) \in 0 .. Len(t)
    BY <1>1
  <2> HIDE DEF S
  <2> QED  BY <1>1, <1>2, <1>3, <2>1, Climb
<1>5. From(Len(t)) = Subtrees(t)
  BY <1>1
<1> QED  BY <1>4, <1>5

\* The children of a function are evaluated one behind the other.
LEMMA EvalKidsFacts ==
  ASSUME NEW t, NEW K, NEW ty, Shape(t, K, ty), NEW o, NEW e, NEW p \in Subtrees(t),
         \A i \in 1 .. Arity(t[p]) :
           e[Kid(t, K, p, i)]
             = [value |-> o[Kid(t, K, p, i)], end |-> End(t, K, Kid(t, K, p, i))]
  PROVE  EvalAt(e, t, p) = [value |-> ValueAt(o, t, K, p), end |-> End(t, K, p)]
<1> DEFINE n == Arity(t[p])
           P == K[p]
           C(j) == Kid(t, K, p, j)
           V(j) == [value |-> o[C(j)], end |-> P[j + 1]]
           F(j, at) == IF Fn(t[p]).expr
                       THEN [value |-> e[at + 1].value, end |-> at + t[at][2] + 1]
                       ELSE e[at]
           h == [j \in 1 .. n |-> V(j)]
           k == EvalKids(e, t, p)
           S == {j \in 0 .. n : j = 0 \/ k[j] = V(j)}
<1>1. /\ t \in Seq(Lnodes) /\ Grown(t, K, 1) /\ p >= 1 /\ n \in Nat /\ p \in Nat
      /\ Fn(t[p]).erc => n = 0
  BY ShapeFacts, SubtreeFacts
<1>2. P[1] = p + Step(t[p]) /\ (n = 0 => End(t, K, p) = p + Step(t[p]))
  BY <1>1, KidFacts
<1>3. n # 0 => P[1] = p + 1
  BY <1>1, <1>2 DEF Step
<1>4. \A j \in 1 .. n : F(j, P[j]) = V(j)
  <2> TAKE j \in 1 .. n
  <2> DEFINE c == Kid(t, K, p, j)
             x == K[p][j]
             y == K[p][j + 1]
  <2>1. /\ c \in Nat /\ c = K[p][j] + Gap(t[p]) /\ K[p][j + 1] = End(t, K, c)
        /\ Fn(t[p]).expr => t[K[p][j]] = Skip(K[p][j + 1] - c)
    BY <1>1, KidFacts
  <2>2. j \in 1 .. n + 1 /\ j + 1 \in 1 .. n + 1
    BY <1>1
  <2>3. x \in Nat /\ y \in Nat
    BY <1>1, <2>2, KidFacts
  <2>4. e[c] = [value |-> o[c], end |-> y]
    BY <2>1
  <2>5. V(j) = [value |-> o[c], end |-> y]
    OBVIOUS
  <2> HIDE DEF c, x, y, V
  <2>6. CASE Fn(t[p]).expr
    <3>1. c = x + 1 /\ t[x] = Skip(y - c)
      BY <2>1, <2>6 DEF Gap, x, y
    <3>2. t[x][2] = y - c
      BY <3>1 DEF Skip
    <3>3. x + t[x][2] + 1 = y
      BY <2>1, <2>3, <3>1, <3>2
    <3>4. F(j, x) = [value |-> e[x + 1].value, end |-> x + t[x][2] + 1]
      BY <2>6
    <3>5. e[x + 1].value = o[c]
      BY <2>4, <3>1
    <3> QED  BY <2>5, <3>3, <3>4, <3>5 DEF x
  <2>7. CASE ~Fn(t[p]).expr
    <3>1. c = x
      BY <2>1, <2>3, <2>7 DEF Gap, x
    <3> QED  BY <2>4, <2>5, <2>7, <3>1 DEF x
  <2> QED  BY <2>6, <2>7
<1>5. \A a : EvalKidsIs(a, e, t, p)
        <=> a = [j \in 1 .. n |-> F(j, IF j = 1 THEN p + 1 ELSE a[j - 1].end)]
  BY DEF EvalKidsIs, Arity
<1>6. \A j \in 1 .. n : /\ j # 1 => j - 1 \in 1 .. n /\ j - 1 # 0 /\ V(j - 1).end = P[j]
                        /\ n # 0 /\ j \in 0 .. n
  BY <1>1
<1> HIDE DEF n, F, V
<1>7. EvalKidsIs(h, e, t, p)
  <2>1. \A j \in 1 .. n : h[j] = F(j, IF j = 1 THEN p + 1 ELSE h[j - 1].end)
    <3> TAKE j \in 1 .. n
    <3>1. CASE j = 1
      BY <1>3, <1>4, <1>6, <3>1
    <3>2. CASE j # 1
      <4>1. h[j - 1] = V(j - 1) /\ V(j - 1).end = P[j]
        BY <1>6, <3>2
      <4> QED  BY <1>4, <3>2, <4>1
    <3> QED  BY <3>1, <3>2
  <2>2. h = [j \in 1 .. n |-> h[j]]
    OBVIOUS
  <2> HIDE DEF h
  <2> QED  BY <1>5, <2>1, <2>2
<1>8. EvalKidsIs(k, e, t, p)
  BY <1>7 DEF EvalKids
<1> HIDE DEF k, h
<1>9. \A j \in 1 .. n : k[j] = F(j, IF j = 1 THEN p + 1 ELSE k[j - 1].end)
  <2>1. k = [j \in 1 .. n |-> F(j, IF j = 1 THEN p + 1 ELSE k[j - 1].end)]
    BY <1>5, <1>8
  <2> QED  BY <2>1
<1>10. 0 .. n \subseteq S
  <2>1. 0 \in S
    BY <1>1
  <2>2. \A j \in 1 .. n : j - 1 \in S => j \in S
    <3> SUFFICES ASSUME NEW j \in 1 .. n, j - 1 \in S PROVE j \in S
      OBVIOUS
    <3>1. CASE j = 1
      BY <1>3, <1>4, <1>6, <1>9, <3>1
    <3>2. CASE j # 1
      <4>1. k[j - 1] = V(j - 1) /\ V(j - 1).end = P[j]
        BY <1>6, <3>2
      <4> QED  BY <1>4, <1>6, <1>9, <3>2, <4>1
    <3> QED  BY <3>1, <3>2
  <2> HIDE DEF S
  <2> QED  BY <1>1, <2>1, <2>2, Climb
<1>11. \A j \in 1 .. n : k[j] = V(j)
  <2> TAKE j \in 1 .. n
  <2>1. j \in 0 .. n /\ j # 0
    BY <1>1
  <2> QED  BY <1>10, <2>1
<1>12. [i \in 1 .. n |-> k[i].value] = [i \in 1 .. n |-> o[C(i)]]
  <2>1. \A i \in 1 .. n : k[i].value = o[C(i)]
    <3> HIDE DEF C
    <3>1. \A i \in 1 .. n : V(i).value = o[C(i)]
      BY DEF V
    <3> QED  BY <1>11, <3>1
  <2> HIDE DEF C
  <2> QED  BY <2>1
<1>13. (IF n > 0 THEN k[n].end ELSE p + 1 + (IF Fn(t[p]).erc THEN 1 ELSE 0)) = End(t, K, p)
  <2>1. CASE n > 0
    <3>1. n \in 1 .. n
      BY <1>1, <2>1
    <3>2. k[n] = V(n)
      BY <1>11, <3>1
    <3> QED  BY <2>1, <3>2 DEF V, End, n
  <2>2. CASE ~(n > 0)
    <3>1. n = 0
      BY <1>1, <2>2
    <3> QED  BY <1>1, <1>2, <3>1 DEF Step
  <2> QED  BY <2>1, <2>2
<1>14. EvalAt(e, t, p)
         = [value |-> Code(t[p][2], [i \in 1 .. n |-> k[i].value]),
            end |-> IF n > 0 THEN k[n].end ELSE p + 1 + (IF Fn(t[p]).erc THEN 1 ELSE 0)]
  BY DEF EvalAt, k, n, Arity
<1>15. ValueAt(o, t, K, p) = Code(t[p][2], [i \in 1 .. n |-> o[C(i)]])
  BY DEF ValueAt, n
<1> HIDE DEF C
<1> QED  BY <1>12, <1>13, <1>14, <1>15

\* Evaluation follows the skip nodes and the ends of the children, and makes of the
\* array just what the tree in it stands for.
THEOREM EvaluateMeaning ==
  ASSUME NEW t, NEW ty, Parsed(t, ty)
  PROVE  EvaluateTree(t) = Meaning(t)
<1>0. PICK K : Shape(t, K, ty)
  BY DEF Parsed
<1> DEFINE o == CHOOSE x : MeaningIs(x, t)
           e == CHOOSE x : EvalIs(x, t)
           V(p) == [value |-> o[p], end |-> End(t, K, p)]
           h == [p \in Subtrees(t) |-> V(p)]
           S == {p \in Subtrees(t) : e[p] = V(p)}
<1>1. /\ t \in Seq(Lnodes) /\ Grown(t, K, 1) /\ 1 \in Subtrees(t) /\ Len(t) \in Nat
      /\ Subtrees(t) \in SUBSET Nat /\ \A p \in Subtrees(t) : p >= 1 /\ p <= Len(t)
  <2>1. t \in Seq(Lnodes) /\ Grown(t, K, 1) /\ 1 \in Subtrees(t)
    BY <1>0, ShapeFacts
  <2> QED  BY <2>1, SubtreeFacts
<1>2. \A p \in Subtrees(t) : \A i \in 1 .. Arity(t[p]) :
        Kid(t, K, p, i) \in Subtrees(t) /\ Kid(t, K, p, i) > p
  <2> SUFFICES ASSUME NEW p \in Subtrees(t), NEW i \in 1 .. Arity(t[p])
               PROVE  Kid(t, K, p, i) \in Subtrees(t) /\ Kid(t, K, p, i) > p
    OBVIOUS
  <2> DEFINE c == Kid(t, K, p, i)
             x == K[p][i]
  <2>1. c \in Subtrees(t) /\ c \in Nat /\ p < x /\ x <= c
    BY <1>1, KidFacts
  <2>2. p \in Nat /\ Arity(t[p]) \in Nat
    BY <1>1, KidFacts
  <2>3. i \in 1 .. Arity(t[p]) + 1
    BY <2>2
  <2>4. x \in Nat
    BY <1>1, <2>3, KidFacts
  <2> HIDE DEF c, x
  <2>5. c > p
    BY <2>1, <2>2, <2>4
  <2> QED  BY <2>1, <2>5 DEF c
<1>3. \A p \in Subtrees(t) : DOMAIN Fn(t[p]).args = 1 .. Arity(t[p])
  <2> TAKE p \in Subtrees(t)
  <2>1. t[p] \in Lnodes /\ IsFunction(t[p])
    BY <1>1, SubtreeFacts
  <2>2. Fn(t[p]).args \in Seq(Types)
    BY <2>1, LnodeFacts
  <2> QED  BY <2>2, LenProperties DEF Arity
<1>4. \A x : MeaningIs(x, t) <=> x = [p \in Subtrees(t) |-> ValueAt(x, t, K, p)]
  <2> TAKE x
  <2> DEFINE L(p) == Code(t[p][2], [i \in DOMAIN Fn(t[p]).args |-> x[Place(t, p)[i]]])
             R(p) == ValueAt(x, t, K, p)
  <2>1. \A p \in Subtrees(t) : L(p) = R(p)
    <3> TAKE p \in Subtrees(t)
    <3>1. \A i \in 1 .. Arity(t[p]) : Place(t, p)[i] = Kid(t, K, p, i)
      BY <1>0, PlaceFacts
    <3>2. [i \in 1 .. Arity(t[p]) |-> x[Place(t, p)[i]]]
            = [i \in 1 .. Arity(t[p]) |-> x[Kid(t, K, p, i)]]
      BY <3>1
    <3> QED  BY <1>3, <3>2 DEF ValueAt
  <2> HIDE DEF L, R
  <2>2. [p \in Subtrees(t) |-> L(p)] = [p \in Subtrees(t) |-> R(p)]
    BY <2>1
  <2>3. MeaningIs(x, t) <=> x = [p \in Subtrees(t) |-> L(p)]
    BY DEF MeaningIs, L
  <2> QED  BY <2>2, <2>3 DEF R
<1>5. \A p \in Subtrees(t) : o[p] = ValueAt(o, t, K, p)
  <2>1. \E x : MeaningIs(x, t)
    BY <1>1, <1>4, ValuesExist
  <2>2. MeaningIs(o, t)
    BY <2>1
  <2> HIDE DEF o
  <2>3. o = [p \in Subtrees(t) |-> ValueAt(o, t, K, p)]
    BY <1>4, <2>2
  <2> QED  BY <2>3
<1> HIDE DEF o
<1>6. \A x : \A p \in Subtrees(t) :
        (\A i \in 1 .. Arity(t[p]) : x[Kid(t, K, p, i)] = V(Kid(t, K, p, i)))
        => EvalAt(x, t, p) = V(p)
  <2> SUFFICES ASSUME NEW x, NEW p \in Subtrees(t),
                      \A i \in 1 .. Arity(t[p]) : x[Kid(t, K, p, i)] = V(Kid(t, K, p, i))
               PROVE  EvalAt(x, t, p) = V(p)
    OBVIOUS
  <2>1. EvalAt(x, t, p) = [value |-> ValueAt(o, t, K, p), end |-> End(t, K, p)]
    BY <1>0, EvalKidsFacts
  <2> QED  BY <1>5, <2>1
<1> HIDE DEF V
<1>7. EvalIs(h, t)
  <2>1. \A p \in Subtrees(t) : EvalAt(h, t, p) = V(p)
    <3> TAKE p \in Subtrees(t)
    <3>1. \A i \in 1 .. Arity(t[p]) : h[Kid(t, K, p, i)] = V(Kid(t, K, p, i))
      BY <1>2
    <3> HIDE DEF h
    <3> QED  BY <1>6, <3>1
  <2>2. \A p \in Subtrees(t) : h[p] = EvalAt(h, t, p)
    BY <2>1
  <2>3. h = [p \in Subtrees(t) |-> h[p]]
    OBVIOUS
  <2> HIDE DEF h
  <2> QED  BY <2>2, <2>3 DEF EvalIs
<1>8. EvalIs(e, t)
  BY <1>7
<1> HIDE DEF e, h
<1>9. \A p \in Subtrees(t) : e[p] = EvalAt(e, t, p)
  BY <1>8 DEF EvalIs
<1>10. Subtrees(t) \subseteq S
  <2>1. \A p \in Subtrees(t) : (\A r \in Subtrees(t) : r > p => r \in S) => p \in S
    <3> SUFFICES ASSUME NEW p \in Subtrees(t), \A r \in Subtrees(t) : r > p => r \in S
                 PROVE  p \in S
      OBVIOUS
    <3>1. \A i \in 1 .. Arity(t[p]) : e[Kid(t, K, p, i)] = V(Kid(t, K, p, i))
      BY <1>2
    <3>2. EvalAt(e, t, p) = V(p)
      BY <1>6, <3>1
    <3> QED  BY <1>9, <3>2
  <2> HIDE DEF S
  <2> QED  BY ZenonT(40), <1>1, <2>1, FromBehind
<1>11. e[1].value = o[1]
  <2>1. e[1] = V(1)
    BY <1>1, <1>10
  <2> QED  BY <2>1 DEF V
<1> QED  BY <1>11, EvalParts DEF e, o

-----------------------------------------------------------------------------
(* What the generators make *)

\* h begins with a, and F says what follows the previous value: as it is written in a
\* definition.
Recurs(h, n, a, F) == h = [i \in 0 .. n |-> IF i = 0 THEN a ELSE F[<<i, h[i - 1]>>]]

\* A definition by what follows from the previous value has a solution, and what
\* every step keeps holds of all its values.
LEMMA Iterated ==
  ASSUME NEW n \in Nat, NEW M, NEW a \in M, NEW F \in [(1 .. n) \X M -> M]
  PROVE  \E h : Recurs(h, n, a, F) /\ \A i \in 0 .. n : h[i] \in M
<1>1. \E h : Recurs(h, n, a, F) /\ \A i \in 0 .. n : h[i] \in M
  <2>1. PICK h : Iterates(h, n, M, a, F)
    BY Iteration
  <2>2. h = [i \in 0 .. n |-> h[i]]
    BY <2>1 DEF Iterates
  <2>3. \A i \in 0 .. n : h[i] = IF i = 0 THEN a ELSE F[<<i, h[i - 1]>>]
    <3> TAKE i \in 0 .. n
    <3>1. i # 0 => i \in 1 .. n
      OBVIOUS
    <3> QED  BY <2>1, <3>1 DEF Iterates
  <2>4. Recurs(h, n, a, F)
    BY <2>2, <2>3 DEF Recurs
  <2>5. \A i \in 0 .. n : h[i] \in M
    BY <2>1 DEF Iterates
  <2> QED  BY <2>4, <2>5
<1> QED  BY <1>1

\* The first i children of f are in place, and nothing is behind them.
Rooted(t, K, f, i) ==
  /\ t \in Seq(Lnodes) /\ K \in Places /\ Len(t) >= 1 /\ t[1] = Node(f)
  /\ Grown(t, K, 2)
  /\ Made(t, K, 1, i) /\ \A j \in 1 .. i : Kid(t, K, 1, j) >= 2
  /\ K[1][i + 1] = Len(t) + 1

\* The lnode in front of a child.
Front(f, k) == IF Info[f].expr THEN <<Skip(Len(k))>> ELSE <<>>

\* One more child.
LEMMA OneMoreKid ==
  ASSUME NEW f \in Function, ~Info[f].erc, NEW t, NEW K, NEW i \in Nat, i < Len(Info[f].args),
         Rooted(t, K, f, i), NEW k, NEW Kk, Shape(k, Kk, Info[f].args[i + 1])
  PROVE  \E M : Rooted(t \o Front(f, k) \o k, M, f, i + 1)
<1> DEFINE L == Len(t)
           l == Len(k)
           g == IF Info[f].expr THEN 1 ELSE 0
           o == L + g
           u == t \o Front(f, k) \o k
           M == [p \in Nat |-> [j \in Nat |->
                   IF p = 1 THEN (IF j <= i + 1 THEN K[1][j] ELSE o + l + 1)
                   ELSE IF p <= L THEN K[p][j]
                   ELSE IF p > o THEN Kk[p - o][j] + o ELSE 0]]
<1>1. /\ t \in Seq(Lnodes) /\ K \in Places /\ L \in Nat /\ L >= 1 /\ t[1] = Node(f)
      /\ Grown(t, K, 2) /\ Made(t, K, 1, i) /\ K[1][i + 1] = L + 1
      /\ \A j \in 1 .. i : Kid(t, K, 1, j) >= 2
  BY LenProperties DEF Rooted
<1>2. /\ k \in Seq(Lnodes) /\ Kk \in Places /\ l \in Nat \ {0} /\ Grown(k, Kk, 1)
      /\ 1 \in Subtrees(k) /\ Fn(k[1]).ret = Info[f].args[i + 1] /\ End(k, Kk, 1) = l + 1
  BY ShapeFacts
<1>3. Fn(t[1]) = Info[f] /\ IsFunction(t[1]) /\ Gap(t[1]) = g /\ Step(t[1]) = 1
  BY <1>1 DEF Fn, Node, IsFunction, Gap, Step
<1>4. g \in {0, 1} /\ o \in Nat
  <2>1. g \in {0, 1}
    OBVIOUS
  <2> HIDE DEF g
  <2> QED  BY <1>1, <2>1
<1>5. /\ u \in Seq(Lnodes) /\ Len(u) = o + l
      /\ \A q \in 1 .. L : u[q] = t[q]
      /\ g = 1 => u[L + 1] = Skip(l)
      /\ \A q \in 1 .. l : u[q + o] = k[q]
  <2> DEFINE s == Front(f, k)
             v == t \o s
  <2>1. s \in Seq(Lnodes) /\ Len(s) = g /\ (g = 1 => s[1] = Skip(l))
    <3>1. Skip(l) \in Lnodes
      BY <1>2 DEF Lnodes
    <3>2. CASE Info[f].expr
      BY <3>1, <3>2 DEF Front
    <3>3. CASE ~Info[f].expr
      BY <3>3 DEF Front
    <3> QED  BY <3>2, <3>3
  <2> HIDE DEF s
  <2>2. v \in Seq(Lnodes) /\ Len(v) = L + Len(s)
        /\ \A q \in 1 .. L + Len(s) : v[q] = IF q <= L THEN t[q] ELSE s[q - L]
    BY <1>1, <2>1, ConcatProperties
  <2> HIDE DEF v, g
  <2>3. u = v \o k
    BY DEF v, s
  <2> HIDE DEF u
  <2>4. u \in Seq(Lnodes) /\ Len(u) = Len(v) + l
        /\ \A q \in 1 .. Len(v) + l : u[q] = IF q <= Len(v) THEN v[q] ELSE k[q - Len(v)]
    BY <1>2, <2>2, <2>3, ConcatProperties
  <2>5. Len(v) = o
    BY <2>1, <2>2
  <2>6. \A q \in 1 .. L : u[q] = t[q]
    <3> TAKE q \in 1 .. L
    <3>1. q \in 1 .. o + l /\ q <= o /\ q \in 1 .. L + Len(s) /\ q <= L
      BY SMTT(30), <1>1, <1>2, <1>4, <2>1
    <3> QED  BY <2>2, <2>4, <2>5, <3>1
  <2>7. g = 1 => u[L + 1] = Skip(l)
    <3> SUFFICES ASSUME g = 1 PROVE u[L + 1] = Skip(l)
      OBVIOUS
    <3>1. L + 1 \in 1 .. o + l /\ L + 1 <= o /\ L + 1 \in 1 .. L + Len(s) /\ ~(L + 1 <= L)
          /\ (L + 1) - L = 1
      BY <1>1, <1>2, <1>4, <2>1
    <3> QED  BY <2>1, <2>2, <2>4, <2>5, <3>1
  <2>8. \A q \in 1 .. l : u[q + o] = k[q]
    <3> TAKE q \in 1 .. l
    <3>1. q + o \in 1 .. o + l /\ ~(q + o <= o) /\ (q + o) - o = q
      BY <1>2, <1>4
    <3> HIDE DEF o
    <3> QED  BY <2>4, <2>5, <3>1
  <2> QED  BY <2>4, <2>5, <2>6, <2>7, <2>8
<1>6. M \in Places
  <2>1. \A p, j \in Nat : K[p][j] \in Int /\ Kk[p][j] \in Int
    BY <1>1, <1>2 DEF Places
  <2>2. \A p \in Nat : p > o => p - o \in Nat
    BY <1>4
  <2> HIDE DEF o, g
  <2>3. \A p, j \in Nat :
          (IF p = 1 THEN (IF j <= i + 1 THEN K[1][j] ELSE o + l + 1)
           ELSE IF p <= L THEN K[p][j]
           ELSE IF p > o THEN Kk[p - o][j] + o ELSE 0) \in Int
    <3> TAKE p, j \in Nat
    <3>1. K[1][j] \in Int /\ K[p][j] \in Int /\ o \in Int /\ l \in Int
      BY <1>2, <1>4, <2>1
    <3>2. p > o => Kk[p - o][j] \in Int
      BY <2>1, <2>2
    <3> QED  BY <3>1, <3>2
  <2> QED  BY <2>3 DEF Places
<1>7. \A j \in Nat :
        /\ M[1][j] = IF j <= i + 1 THEN K[1][j] ELSE o + l + 1
        /\ \A p \in 2 .. L : M[p][j] = K[p][j]
        /\ \A p \in 1 .. l : M[p + o][j] = Kk[p][j] + o
  <2> HIDE DEF o, g
  <2> TAKE j \in Nat
  <2>1. M[1][j] = IF j <= i + 1 THEN K[1][j] ELSE o + l + 1
    OBVIOUS
  <2>2. \A p \in 2 .. L : M[p][j] = K[p][j]
    <3> TAKE p \in 2 .. L
    <3>1. p \in Nat /\ p # 1 /\ p <= L
      BY <1>1
    <3> QED  BY <3>1
  <2>3. \A p \in 1 .. l : M[p + o][j] = Kk[p][j] + o
    <3> TAKE p \in 1 .. l
    <3>1. p + o \in Nat /\ p + o # 1 /\ ~(p + o <= L) /\ p + o > o /\ (p + o) - o = p
      <4>1. o >= L /\ L >= 1 /\ p >= 1 /\ p \in Nat
        BY <1>1, <1>2, <1>4 DEF o
      <4> QED  BY <1>1, <1>4, <4>1
    <3> DEFINE r == p + o
    <3> HIDE DEF r
    <3>2. r \in Nat /\ r # 1 /\ ~(r <= L) /\ r > o /\ r - o = p
      BY <3>1 DEF r
    <3>3. M[r][j] = Kk[r - o][j] + o
      BY <3>2
    <3> QED  BY <3>2, <3>3 DEF r
  <2> QED  BY <2>1, <2>2, <2>3
<1> HIDE DEF M, u
<1>8. \A p \in Subtrees(t) : p >= 2 =>
        /\ p \in Subtrees(u) /\ u[p] = t[p] /\ Made(u, M, p, Arity(u[p]))
        /\ End(u, M, p) = End(t, K, p) /\ p <= L
  <2> SUFFICES ASSUME NEW p \in Subtrees(t), p >= 2
               PROVE  /\ p \in Subtrees(u) /\ u[p] = t[p] /\ Made(u, M, p, Arity(u[p]))
                      /\ End(u, M, p) = End(t, K, p) /\ p <= L
    OBVIOUS
  <2>1. p \in Nat /\ End(t, K, p) \in Nat /\ End(t, K, p) <= L + 1 /\ p <= L
    <3>1. p \in Nat /\ p <= L
      BY <1>1, SubtreeFacts
    <3> QED  BY <1>1, <3>1, KidFacts
  <2>2. Moved(t, K, p, u, M, 0)
    <3>1. \A q \in p .. End(t, K, p) - 1 : q + 0 \in DOMAIN u /\ u[q + 0] = t[q]
      <4> TAKE q \in p .. End(t, K, p) - 1
      <4>1. q \in 1 .. L /\ q + 0 = q /\ q \in 1 .. o + l
        BY <1>1, <1>2, <1>4, <2>1
      <4> QED  BY <1>5, <4>1, LenProperties
    <3>2. ASSUME NEW q \in Subtrees(t), p <= q, q < End(t, K, p), NEW j \in 1 .. Arity(t[q]) + 1
          PROVE  M[q + 0][j] = K[q][j] + 0
      <4>1. q \in 1 .. L /\ Arity(t[q]) \in Nat
        BY <1>1, SubtreeFacts
      <4>2. q + 0 = q /\ q \in 2 .. L /\ j \in Nat
        BY <2>1, <3>2, <4>1
      <4>3. K[q][j] \in Int
        BY <1>1, <4>2 DEF Places
      <4> QED  BY <1>7, <4>2, <4>3
    <3> QED  BY <3>1, <3>2 DEF Moved
  <2>3. /\ p + 0 \in Subtrees(u) /\ u[p + 0] = t[p]
        /\ Made(u, M, p + 0, Arity(u[p + 0]))
        /\ End(u, M, p + 0) = End(t, K, p) + 0
    BY <1>1, <1>5, <2>2, MovedFacts
  <2>4. p + 0 = p /\ End(t, K, p) + 0 = End(t, K, p)
    BY <2>1
  <2> QED  BY <2>1, <2>3, <2>4
<1>9. \A p \in Subtrees(k) :
        /\ p + o \in Subtrees(u) /\ u[p + o] = k[p] /\ Made(u, M, p + o, Arity(u[p + o]))
        /\ End(u, M, p + o) = End(k, Kk, p) + o
  <2> TAKE p \in Subtrees(k)
  <2>0. p >= 1
    BY <1>2, SubtreeFacts
  <2>1. p \in Nat /\ End(k, Kk, p) \in Nat /\ End(k, Kk, p) <= l + 1
    BY <1>2, <2>0, KidFacts
  <2>2. Moved(k, Kk, p, u, M, o)
    <3>1. \A q \in p .. End(k, Kk, p) - 1 : q + o \in DOMAIN u /\ u[q + o] = k[q]
      <4> TAKE q \in p .. End(k, Kk, p) - 1
      <4>1. q \in 1 .. l /\ q + o \in 1 .. o + l
        BY <1>2, <1>4, <2>0, <2>1
      <4> QED  BY <1>5, <4>1, LenProperties
    <3>2. ASSUME NEW q \in Subtrees(k), p <= q, q < End(k, Kk, p), NEW j \in 1 .. Arity(k[q]) + 1
          PROVE  M[q + o][j] = Kk[q][j] + o
      <4>1. q \in 1 .. l /\ Arity(k[q]) \in Nat
        BY <1>2, SubtreeFacts
      <4>2. j \in Nat
        BY <4>1
      <4> QED  BY <1>7, <4>1, <4>2
    <3> QED  BY <3>1, <3>2 DEF Moved
  <2>3. o \in Int
    BY <1>4
  <2> HIDE DEF o
  <2> QED  BY <1>2, <1>5, <2>0, <2>2, <2>3, MovedFacts
<1>10. \A p \in Subtrees(u) : \/ p = 1
                              \/ p \in Subtrees(t) /\ p >= 2
                              \/ \E q \in Subtrees(k) : p = q + o
  <2> TAKE p \in Subtrees(u)
  <2>1. p \in 1 .. o + l /\ IsFunction(u[p])
    BY <1>5, SubtreeFacts
  <2>2. CASE p <= L
    <3>1. p \in 1 .. L /\ p \in DOMAIN t
      BY <1>1, <2>1, <2>2, LenProperties
    <3>2. p \in Subtrees(t)
      BY <1>5, <2>1, <3>1 DEF Subtrees
    <3> QED  BY <3>1, <3>2
  <2>3. CASE p > L /\ p <= o
    <3>1. g = 1 /\ p = L + 1
      BY <1>1, <1>4, <2>1, <2>3
    <3> QED  BY <1>5, <2>1, <3>1, NoFunctions
  <2>4. CASE p > o
    <3>1. p - o \in 1 .. l /\ (p - o) + o = p
      BY <1>2, <1>4, <2>1, <2>4
    <3>2. p - o \in DOMAIN k /\ k[p - o] = u[p]
      BY <1>2, <1>5, <3>1, LenProperties
    <3>3. p - o \in Subtrees(k)
      BY <2>1, <3>2 DEF Subtrees
    <3> QED  BY <3>1, <3>3
  <2> QED  BY <1>1, <1>4, <2>1, <2>2, <2>3, <2>4
<1>11. Grown(u, M, 2)
  <2>1. \A p \in Subtrees(u) : p >= 2 => Made(u, M, p, Arity(u[p]))
    <3> SUFFICES ASSUME NEW p \in Subtrees(u), p >= 2 PROVE Made(u, M, p, Arity(u[p]))
      OBVIOUS
    <3>1. p # 1
      OBVIOUS
    <3> QED  BY <1>8, <1>9, <1>10, <3>1
  <2> QED  BY <1>5, <1>6, <2>1 DEF Grown
<1>12. u[1] = t[1] /\ Fn(u[1]) = Info[f] /\ Gap(u[1]) = g /\ Step(u[1]) = 1
  <2>1. 1 \in 1 .. L
    BY <1>1
  <2>2. u[1] = t[1]
    BY <1>5, <2>1
  <2> QED  BY <1>3, <2>2
<1>13. ASSUME NEW j \in 1 .. i + 1
       PROVE  /\ Kid(u, M, 1, j) \in Subtrees(u) /\ Kid(u, M, 1, j) >= 2
              /\ Fn(u[Kid(u, M, 1, j)]).ret = Fn(u[1]).args[j]
              /\ M[1][j + 1] = End(u, M, Kid(u, M, 1, j))
              /\ Fn(u[1]).expr => u[M[1][j]] = Skip(M[1][j + 1] - Kid(u, M, 1, j))
  <2>1. j \in Nat /\ j + 1 \in Nat /\ M[1][j] = K[1][j]
    BY <1>7
  <2>2. CASE j <= i
    <3> DEFINE c == Kid(t, K, 1, j)
    <3>1. /\ j \in 1 .. i /\ M[1][j + 1] = K[1][j + 1] /\ Kid(u, M, 1, j) = c
      BY <1>3, <1>7, <1>12, <2>1, <2>2 DEF Kid
    <3>2. /\ c \in Subtrees(t) /\ c >= 2 /\ Fn(t[c]).ret = Fn(t[1]).args[j]
          /\ K[1][j + 1] = End(t, K, c)
          /\ Fn(t[1]).expr => t[K[1][j]] = Skip(K[1][j + 1] - c)
      BY <1>1, <3>1 DEF Made
    <3>3. c \in Subtrees(u) /\ u[c] = t[c] /\ End(u, M, c) = End(t, K, c) /\ c <= L /\ c \in Nat
      <4>1. c \in Nat
        BY <1>1, <3>2, SubtreeFacts
      <4> HIDE DEF c
      <4> QED  BY <1>8, <3>2, <4>1
    <3>4. Fn(u[1]).expr => u[K[1][j]] = t[K[1][j]]
      <4> SUFFICES ASSUME Fn(u[1]).expr PROVE u[K[1][j]] = t[K[1][j]]
        OBVIOUS
      <4>1. c = K[1][j] + 1 /\ K[1][j] \in Int
        BY <1>1, <1>3, <1>12, <2>1 DEF Kid, Gap, Places
      <4> HIDE DEF c
      <4>2. K[1][j] \in 1 .. L
        BY SMTT(30), <1>1, <3>2, <3>3, <4>1
      <4> QED  BY <1>5, <4>2
    <3> HIDE DEF c
    <3> QED  BY <1>12, <2>1, <3>1, <3>2, <3>3, <3>4
  <2>3. CASE ~(j <= i)
    <3>1. j = i + 1 /\ ~(j + 1 <= i + 1)
      BY <2>3
    <3>2. M[1][j] = L + 1 /\ M[1][j + 1] = o + l + 1
      BY <1>1, <1>7, <2>1, <3>1
    <3>3. Kid(u, M, 1, j) = 1 + o
      BY <1>1, <1>4, <1>12, <3>2 DEF Kid
    <3>4. 1 + o \in Subtrees(u) /\ u[1 + o] = k[1] /\ End(u, M, 1 + o) = (l + 1) + o
      BY <1>2, <1>9
    <3>5. 1 + o >= 2 /\ (l + 1) + o = o + l + 1 /\ (o + l + 1) - (1 + o) = l
      <4>1. o \in Nat /\ o >= 1 /\ l \in Nat
        BY <1>1, <1>2, <1>4
      <4> HIDE DEF o, l
      <4> QED  BY <4>1
    <3>6. Fn(u[1]).expr => u[L + 1] = Skip(l)
      BY <1>5, <1>12
    <3> HIDE DEF o, L, l, g
    <3> QED  BY <1>2, <1>12, <3>1, <3>2, <3>3, <3>4, <3>5, <3>6
  <2> QED  BY <2>2, <2>3
<1>4b. M[1][1] = 1 + Step(u[1])
  <2>1. K[1][1] = 1 + Step(t[1])
    BY <1>1 DEF Made
  <2>2. M[1][1] = K[1][1]
    BY <1>7
  <2> QED  BY <1>12, <2>1, <2>2
<1>15. Made(u, M, 1, i + 1)
  BY <1>12, <1>13, <1>4b DEF Made
<1>16. M[1][(i + 1) + 1] = Len(u) + 1 /\ Len(u) >= 1
  <2>1. (i + 1) + 1 \in Nat /\ ~((i + 1) + 1 <= i + 1)
    OBVIOUS
  <2>2. M[1][(i + 1) + 1] = o + l + 1
    BY <1>7, <2>1
  <2> QED  BY <1>1, <1>2, <1>4, <1>5, <2>2
<1>17. Rooted(u, M, f, i + 1)
  BY <1>1, <1>5, <1>6, <1>11, <1>12, <1>13, <1>15, <1>16 DEF Rooted
<1> QED  BY <1>17 DEF u

\* The definition of TreesWith.
WithIs(h, f, kids) ==
  h = [i \in 0 .. Len(kids) |->
         IF i = 0 THEN {<<Node(f)>>}
         ELSE {t \o (IF Info[f].expr THEN <<Skip(Len(k))>> ELSE <<>>) \o k :
                 t \in h[i - 1], k \in kids[i]}]

\* Trees under a common root make one tree.
LEMMA TreesWithFacts ==
  ASSUME NEW f \in Function, Info[f].args # <<>>, NEW kids \in Seq(SUBSET Seq(Lnodes)),
         Len(kids) = Len(Info[f].args),
         \A i \in 1 .. Len(kids) : \A k \in kids[i] : Parsed(k, Info[f].args[i])
  PROVE  \A t \in TreesWith(f, kids) : t \in Seq(Lnodes) /\ Parsed(t, Info[f].ret)
<1> DEFINE n == Len(kids)
           T == SUBSET Seq(Lnodes)
           a == {<<Node(f)>>}
           Grow(i, s) == {t \o Front(f, k) \o k : t \in s, k \in kids[i]}
           F == [x \in (1 .. n) \X T |-> Grow(x[1], x[2])]
           h == CHOOSE x : WithIs(x, f, kids)
           S == {i \in 0 .. n : \A t \in h[i] : \E K : Rooted(t, K, f, i)}
<1>1. n \in Nat /\ \A i \in 1 .. n : kids[i] \in T
  BY LenProperties, ElementOfSeq
<1>2. ~Info[f].erc
  BY TreesAssumption
<1>3. Node(f) \in Lnodes /\ <<Node(f)>> \in Seq(Lnodes) /\ a \in T
  <2>1. Node(f) \in Lnodes
    BY DEF Lnodes
  <2> QED  BY <2>1
<1> DEFINE From(u, i, s) == \E t \in s, k \in kids[i] : u = t \o Front(f, k) \o k
<1>4b. \A i, s : \A u \in Grow(i, s) : From(u, i, s)
  OBVIOUS
<1> HIDE DEF From
<1>4. ASSUME NEW i \in 1 .. n, NEW s \in T PROVE Grow(i, s) \in T
  <2>0. ASSUME NEW u \in Grow(i, s) PROVE u \in Seq(Lnodes)
   <3>0. PICK t \in s, k \in kids[i] : u = t \o Front(f, k) \o k
     <4> HIDE DEF Grow
     <4>1. From(u, i, s)
       BY <1>4b
     <4> QED  BY <4>1 DEF From
   <3>1. t \in Seq(Lnodes) /\ k \in Seq(Lnodes) /\ Len(k) \in Nat
     BY <1>1, LenProperties
   <3>2. Skip(Len(k)) \in Lnodes
     BY <3>1 DEF Lnodes
   <3>3. Front(f, k) \in Seq(Lnodes)
     BY <3>2 DEF Front
   <3>4. t \o Front(f, k) \o k \in Seq(Lnodes)
     BY <3>1, <3>3
   <3> QED  BY <3>0, <3>4
  <2> HIDE DEF Grow
  <2> QED  BY <2>0
<1>5. F \in [(1 .. n) \X T -> T]
  <2> HIDE DEF Grow, T
  <2>1. \A x \in (1 .. n) \X T : Grow(x[1], x[2]) \in T
    <3> TAKE x \in (1 .. n) \X T
    <3>1. x[1] \in 1 .. n /\ x[2] \in T
      OBVIOUS
    <3> QED  BY <1>4, <3>1
  <2> QED  BY <2>1
<1>6. \A x : WithIs(x, f, kids)
        <=> x = [i \in 0 .. n |-> IF i = 0 THEN a ELSE Grow(i, x[i - 1])]
  BY DEF WithIs, Front
<1> HIDE DEF Grow, a, n
<1>7. \E x : WithIs(x, f, kids)
  <2> HIDE DEF T
  <2>0. \A i \in 1 .. n : \A s \in T : <<i, s>> \in (1 .. n) \X T /\ F[<<i, s>>] = Grow(i, s)
    OBVIOUS
  <2> HIDE DEF F
  <2>1. PICK x : Recurs(x, n, a, F) /\ \A i \in 0 .. n : x[i] \in T
    BY <1>1, <1>3, <1>5, Iterated
  <2>2. \A i \in 0 .. n : x[i] \in T
    BY <2>1
  <2>3. \A i \in 0 .. n : x[i] = IF i = 0 THEN a ELSE F[<<i, x[i - 1]>>]
    BY <2>1 DEF Recurs
  <2>4. \A i \in 0 .. n : x[i] = IF i = 0 THEN a ELSE Grow(i, x[i - 1])
    <3> TAKE i \in 0 .. n
    <3>1. CASE i = 0
      BY <2>3, <3>1
    <3>2. CASE i # 0
      <4>1. i \in 1 .. n /\ i - 1 \in 0 .. n
        BY <1>1, <3>2
      <4>2. F[<<i, x[i - 1]>>] = Grow(i, x[i - 1])
        BY <2>0, <2>2, <4>1
      <4> QED  BY <2>3, <3>2, <4>2
    <3> QED  BY <3>1, <3>2
  <2>5. x = [i \in 0 .. n |-> x[i]]
    <3>1. DOMAIN x = 0 .. n /\ x = [i \in DOMAIN x |-> x[i]]
      BY <2>1 DEF Recurs
    <3> QED  BY <3>1
  <2>6. x = [i \in 0 .. n |-> IF i = 0 THEN a ELSE Grow(i, x[i - 1])]
    BY <2>4, <2>5
  <2> QED  BY <1>6, <2>6
<1>8. TreesWith(f, kids) = h[n]
  BY DEF TreesWith, WithIs, n
<1>9. \A i \in 0 .. n : h[i] = IF i = 0 THEN a ELSE Grow(i, h[i - 1])
  <2>1. WithIs(h, f, kids)
    BY <1>7
  <2> HIDE DEF h
  <2>2. h = [i \in 0 .. n |-> IF i = 0 THEN a ELSE Grow(i, h[i - 1])]
    BY <1>6, <2>1
  <2> QED  BY <2>2
<1> HIDE DEF h, F
<1>10. \E K : Rooted(<<Node(f)>>, K, f, 0)
  <2> DEFINE t == <<Node(f)>>
             K == [p \in Nat |-> [j \in Nat |-> 2]]
  <2>1. K \in Places /\ K[1][1] = 2
    BY DEF Places
  <2>2. t \in Seq(Lnodes) /\ Len(t) = 1 /\ t[1] = Node(f)
    BY <1>3
  <2>3. Subtrees(t) \subseteq 1 .. 1
    BY <2>2, SubtreeFacts
  <2> HIDE DEF K, t
  <2>4. Grown(t, K, 2)
    <3>1. \A p \in Subtrees(t) : ~(p >= 2)
      BY <2>3
    <3> QED  BY <2>1, <2>2, <3>1 DEF Grown
  <2>5. Fn(t[1]) = Info[f]
    BY <2>2 DEF Fn, Node
  <2>6. Made(t, K, 1, 0)
    BY <1>2, <2>1, <2>5 DEF Made, Step
  <2>7. Rooted(t, K, f, 0)
    BY <2>1, <2>2, <2>4, <2>6 DEF Rooted
  <2> QED  BY <2>7 DEF t
<1>11. 0 .. n \subseteq S
  <2>1. 0 \in S
    <3>1. 0 \in 0 .. n
      BY <1>1
    <3>2. \A t \in h[0] : \E K : Rooted(t, K, f, 0)
      BY <1>9, <1>10, <3>1 DEF a
    <3> QED  BY <3>1, <3>2
  <2>2. \A i \in 1 .. n : i - 1 \in S => i \in S
    <3> SUFFICES ASSUME NEW i \in 1 .. n, i - 1 \in S PROVE i \in S
      OBVIOUS
    <3> DEFINE j == i - 1
    <3>0. j \in Nat /\ j + 1 = i /\ j < n /\ i \in 0 .. n /\ i # 0 /\ j \in S
      BY <1>1
    <3> HIDE DEF j
    <3>1. h[i] = Grow(i, h[j])
      BY <1>9, <3>0 DEF j
    <3>2. ASSUME NEW t \in h[j], NEW k \in kids[i]
          PROVE  \E M : Rooted(t \o Front(f, k) \o k, M, f, i)
      <4>1. PICK K : Rooted(t, K, f, j)
        BY <3>0
      <4>2. i \in 1 .. Len(kids)
        BY DEF n
      <4>3. PICK Kk : Shape(k, Kk, Info[f].args[i])
        BY <4>2 DEF Parsed
      <4>4. Shape(k, Kk, Info[f].args[j + 1]) /\ j < Len(Info[f].args)
        BY <3>0, <4>3 DEF n
      <4> HIDE DEF S
      <4>5. \E M : Rooted(t \o Front(f, k) \o k, M, f, j + 1)
        BY <1>2, <3>0, <4>1, <4>4, OneMoreKid
      <4> QED  BY <3>0, <4>5
    <3>3. \A u \in h[i] : \E M : Rooted(u, M, f, i)
      <4> TAKE u \in h[i]
      <4>1. u \in Grow(i, h[j])
        BY <3>1
      <4>2. PICK t \in h[j], k \in kids[i] : u = t \o Front(f, k) \o k
        <5> HIDE DEF S, T
        <5>1. From(u, i, h[j])
          BY <1>4b, <4>1
        <5> QED  BY <5>1 DEF From
      <4> QED  BY <3>2, <4>2
    <3> QED  BY <3>0, <3>3
  <2> HIDE DEF S
  <2> QED  BY <1>1, <2>1, <2>2, Climb
<1>12. ASSUME NEW t \in h[n] PROVE t \in Seq(Lnodes) /\ Parsed(t, Info[f].ret)
  <2>1. n \in 0 .. n
    BY <1>1
  <2>2. PICK K : Rooted(t, K, f, n)
    BY <1>11, <1>12, <2>1
  <2>3. /\ t \in Seq(Lnodes) /\ K \in Places /\ Len(t) >= 1 /\ t[1] = Node(f) /\ Grown(t, K, 2)
        /\ Made(t, K, 1, n) /\ K[1][n + 1] = Len(t) + 1
    BY <2>2 DEF Rooted
  <2>4. Fn(t[1]) = Info[f] /\ IsFunction(t[1]) /\ Arity(t[1]) = n
    BY <2>3 DEF Fn, Node, IsFunction, Arity, n
  <2>5. 1 \in Subtrees(t)
    <3>1. 1 \in DOMAIN t
      BY <2>3, LenProperties
    <3> QED  BY <2>4, <3>1 DEF Subtrees
  <2>6. Grown(t, K, 1)
    <3> SUFFICES ASSUME NEW p \in Subtrees(t), p >= 1 PROVE Made(t, K, p, Arity(t[p]))
      BY <2>3 DEF Grown
    <3>1. p \in Nat
      BY <2>3, SubtreeFacts
    <3>2. p = 1 \/ p >= 2
      BY <3>1
    <3> QED  BY <2>3, <2>4, <3>2 DEF Grown
  <2>7. Shape(t, K, Info[f].ret)
    BY <2>3, <2>4, <2>5, <2>6 DEF Shape, End
  <2> QED  BY <2>3, <2>7 DEF Parsed
<1> QED  BY <1>8, <1>12

\* A terminal is a tree, with the constant of an ERC behind it.
LEMMA TerminalFacts ==
  ASSUME NEW set \in SUBSET Function, NEW ty
  PROVE  \A t \in TerminalTrees(set, ty) : t \in Seq(Lnodes) /\ Parsed(t, ty)
<1> SUFFICES ASSUME NEW f \in TerminalsOf(set, ty)
             PROVE  LET t == <<Node(f)>> \o (IF Info[f].erc THEN <<ErcValue>> ELSE <<>>)
                    IN t \in Seq(Lnodes) /\ Parsed(t, ty)
  BY DEF TerminalTrees
<1> DEFINE c == IF Info[f].erc THEN <<ErcValue>> ELSE <<>>
           l == IF Info[f].erc THEN 2 ELSE 1
           t == <<Node(f)>> \o c
           K == [p \in Nat |-> [j \in Nat |-> l + 1]]
<1>1. f \in Function /\ Info[f].ret = ty /\ Info[f].args = <<>>
  BY DEF TerminalsOf
<1>2. Node(f) \in Lnodes /\ ErcValue \in Lnodes
  BY <1>1 DEF Lnodes
<1>3. t \in Seq(Lnodes) /\ Len(t) = l /\ t[1] = Node(f) /\ (Info[f].erc => t[2] = ErcValue)
  <2> DEFINE r == <<Node(f)>>
  <2>1. r \in Seq(Lnodes) /\ Len(r) = 1 /\ r[1] = Node(f)
    BY <1>2
  <2>2. /\ c \in Seq(Lnodes) /\ Len(c) = l - 1 /\ l - 1 \in {0, 1}
        /\ Info[f].erc => c[1] = ErcValue /\ l = 2
    BY <1>2
  <2>3. t = r \o c
    OBVIOUS
  <2> HIDE DEF t, r, c, l
  <2>4. /\ t \in Seq(Lnodes) /\ Len(t) = Len(r) + Len(c)
        /\ \A q \in 1 .. Len(r) + Len(c) : t[q] = IF q <= Len(r) THEN r[q] ELSE c[q - Len(r)]
    BY <2>1, <2>2, <2>3, ConcatProperties
  <2>5. Len(r) + Len(c) = l /\ 1 \in 1 .. l /\ 1 <= Len(r)
    BY <2>1, <2>2
  <2>6. Info[f].erc => 2 \in 1 .. l /\ ~(2 <= Len(r)) /\ 2 - Len(r) = 1
    BY <2>1, <2>2
  <2> QED  BY <2>1, <2>2, <2>4, <2>5, <2>6
<1>4. l \in {1, 2} /\ K \in Places /\ K[1][1] = l + 1
  BY DEF Places
<1>5. Fn(t[1]) = Info[f] /\ IsFunction(t[1]) /\ Arity(t[1]) = 0 /\ Step(t[1]) = l
  <2>1. Fn(t[1]) = Info[f] /\ IsFunction(t[1])
    BY <1>3 DEF Fn, Node, IsFunction
  <2> HIDE DEF t
  <2>2. Arity(t[1]) = 0
    BY <1>1, <2>1 DEF Arity
  <2>3. Step(t[1]) = l
    BY <2>1 DEF Step
  <2> QED  BY <2>1, <2>2, <2>3
<1> HIDE DEF K, t
<1>6. Subtrees(t) = {1} /\ DOMAIN t = 1 .. l
  <2>1. DOMAIN t = 1 .. l
    BY <1>3, LenProperties
  <2>2. Info[f].erc => ~IsFunction(t[2])
    BY <1>3, NoFunctions
  <2>3. \A p \in 1 .. l : p = 1 \/ (p = 2 /\ Info[f].erc)
    <3>1. l = 1 \/ (l = 2 /\ Info[f].erc)
      BY DEF l
    <3> HIDE DEF l
    <3> QED  BY <3>1
  <2>4. 1 \in 1 .. l
    BY <1>4
  <2> HIDE DEF l
  <2> QED  BY <1>5, <2>1, <2>2, <2>3, <2>4 DEF Subtrees
<1>7. Made(t, K, 1, 0)
  <2>1. Info[f].erc => 2 \in DOMAIN t
    BY <1>6
  <2>2. K[1][1] = 1 + l
    BY <1>4
  <2> HIDE DEF l
  <2> QED  BY <1>3, <1>5, <2>1, <2>2 DEF Made
<1>8. Shape(t, K, ty)
  <2>1. Grown(t, K, 1)
    BY <1>3, <1>4, <1>5, <1>6, <1>7 DEF Grown
  <2>2. End(t, K, 1) = Len(t) + 1
    BY <1>3, <1>4, <1>5 DEF End
  <2> QED  BY <1>1, <1>5, <1>6, <2>1, <2>2 DEF Shape
<1> QED  BY <1>3, <1>8 DEF Parsed, t

\* Sets of trees, one per type, and what a function makes of them.
Forests == {g \in [Types -> SUBSET Seq(Lnodes)] : \A r \in Types : \A t \in g[r] : Parsed(t, r)}

Grafted(set, r, g) ==
  UNION {TreesWith(f, [i \in DOMAIN Info[f].args |-> g[Info[f].args[i]]]) :
           f \in FunctionsOf(set, r)}

\* Functions over trees of the right types are trees of theirs.
LEMMA GraftedFacts ==
  ASSUME NEW set \in SUBSET Function, NEW g \in Forests, NEW r
  PROVE  \A t \in Grafted(set, r, g) : t \in Seq(Lnodes) /\ Parsed(t, r)
<1> SUFFICES ASSUME NEW f \in FunctionsOf(set, r),
                    NEW t \in TreesWith(f, [i \in DOMAIN Info[f].args |-> g[Info[f].args[i]]])
             PROVE  t \in Seq(Lnodes) /\ Parsed(t, r)
  BY DEF Grafted
<1> DEFINE A == Info[f].args
           kids == [i \in DOMAIN A |-> g[A[i]]]
           T == SUBSET Seq(Lnodes)
<1>1. f \in Function /\ Info[f].ret = r /\ A # <<>>
  BY DEF FunctionsOf
<1>2. A \in Seq(Types) /\ Len(A) \in Nat /\ DOMAIN A = 1 .. Len(A)
  BY <1>1, TreesAssumption, LenProperties
<1>3. \A i \in 1 .. Len(A) : A[i] \in Types
  BY <1>2, ElementOfSeq
<1>4. g \in [Types -> T] /\ \A y \in Types : \A k \in g[y] : Parsed(k, y)
  BY DEF Forests
<1> HIDE DEF A, T
<1>5. kids \in [1 .. Len(A) -> T]
  BY <1>2, <1>3, <1>4
<1>6. kids \in Seq(T) /\ Len(kids) = Len(A)
  <2> HIDE DEF kids
  <2>1. kids \in Seq(T)
    BY <1>2, <1>5, IsASeq
  <2>2. DOMAIN kids = 1 .. Len(A)
    BY <1>5
  <2> QED  BY <1>2, <2>1, <2>2, LenProperties
<1>7. \A i \in 1 .. Len(kids) : \A k \in kids[i] : Parsed(k, A[i])
  <2> TAKE i \in 1 .. Len(kids)
  <2>1. i \in 1 .. Len(A)
    BY <1>6
  <2>2. kids[i] = g[A[i]]
    BY <1>2, <2>1
  <2> HIDE DEF kids
  <2> QED  BY <1>3, <1>4, <2>1, <2>2
<1>8. t \in TreesWith(f, kids)
  BY DEF A
<1> HIDE DEF kids
<1> QED  BY <1>1, <1>6, <1>7, <1>8, TreesWithFacts DEF A, T

\* The definitions of full and grown trees.
FullIs(h, set, depth) ==
  h = [d \in 0 .. depth |->
        [r \in Types |->
           IF d = 0 THEN TerminalTrees(set, r)
           ELSE UNION {TreesWith(f, [i \in DOMAIN Info[f].args |->
                                       h[d - 1][Info[f].args[i]]]) :
                         f \in FunctionsOf(set, r)}]]

GrowIs(h, set, depth) ==
  h = [d \in 0 .. depth |->
        [r \in Types |->
           TerminalTrees(set, r) \cup
           IF d = 0 THEN {}
           ELSE UNION {TreesWith(f, [i \in DOMAIN Info[f].args |->
                                       h[d - 1][Info[f].args[i]]]) :
                         f \in FunctionsOf(set, r)}]]

\* The generators are functions of the depth, then of the type.
LEMMA GeneratorParts ==
  /\ \A set, depth, ty : FullTrees(set, depth, ty) = (CHOOSE h : FullIs(h, set, depth))[depth][ty]
  /\ \A set, depth, ty : GrowTrees(set, depth, ty) = (CHOOSE h : GrowIs(h, set, depth))[depth][ty]
<1>1. \A set, depth, ty :
        FullTrees(set, depth, ty) = (CHOOSE h : FullIs(h, set, depth))[depth][ty]
  BY DEF FullTrees, FullIs
<1>2. \A set, depth, ty :
        GrowTrees(set, depth, ty) = (CHOOSE h : GrowIs(h, set, depth))[depth][ty]
  BY DEF GrowTrees, GrowIs
<1> QED  BY <1>1, <1>2

\* What both of them do from one depth to the next, with terminals or without.
Leaves(set) == [r \in Types |-> TerminalTrees(set, r)]
Deeper(set, g, also) ==
  [r \in Types |-> (IF also THEN TerminalTrees(set, r) ELSE {}) \cup Grafted(set, r, g)]

Levels(h, set, depth, also) ==
  h = [d \in 0 .. depth |-> IF d = 0 THEN Leaves(set) ELSE Deeper(set, h[d - 1], also)]

\* From depth to depth there are trees only.
LEMMA LevelFacts ==
  ASSUME NEW set \in SUBSET Function, NEW depth \in Nat, NEW also \in BOOLEAN
  PROVE  /\ \E h : Levels(h, set, depth, also)
         /\ \A h : Levels(h, set, depth, also) => \A d \in 0 .. depth : h[d] \in Forests
<1> DEFINE D(g) == Deeper(set, g, also)
           F == [x \in (1 .. depth) \X Forests |-> D(x[2])]
           a == Leaves(set)
<1>1. a \in Forests
  <2>1. \A r \in Types : \A t \in TerminalTrees(set, r) : t \in Seq(Lnodes) /\ Parsed(t, r)
    BY TerminalFacts
  <2>2. a = [r \in Types |-> TerminalTrees(set, r)]
    BY DEF Leaves
  <2> HIDE DEF a
  <2>3. a \in [Types -> SUBSET Seq(Lnodes)]
    BY <2>1, <2>2
  <2> QED  BY <2>1, <2>2, <2>3 DEF Forests
<1>2. ASSUME NEW g \in Forests PROVE D(g) \in Forests
  <2> DEFINE R(r) == (IF also THEN TerminalTrees(set, r) ELSE {}) \cup Grafted(set, r, g)
             h == [r \in Types |-> R(r)]
  <2>1. \A r \in Types : \A t \in R(r) : t \in Seq(Lnodes) /\ Parsed(t, r)
    BY TerminalFacts, GraftedFacts
  <2>2. D(g) = h
    BY DEF Deeper
  <2> HIDE DEF R
  <2>3. h \in [Types -> SUBSET Seq(Lnodes)]
    BY <2>1
  <2>4. h \in Forests
    BY <2>1, <2>3 DEF Forests
  <2> QED  BY <2>2, <2>4
<1> HIDE DEF D, a
<1>3. F \in [(1 .. depth) \X Forests -> Forests]
  <2>1. \A x \in (1 .. depth) \X Forests : D(x[2]) \in Forests
    <3> TAKE x \in (1 .. depth) \X Forests
    <3>1. x[2] \in Forests
      OBVIOUS
    <3> QED  BY <1>2, <3>1
  <2> QED  BY <2>1
<1>4. \A h : Levels(h, set, depth, also)
        <=> h = [d \in 0 .. depth |-> IF d = 0 THEN a ELSE D(h[d - 1])]
  BY DEF Levels, D, a
<1>5. \E h : Levels(h, set, depth, also)
  <2>0. \A i \in 1 .. depth : \A s \in Forests : F[<<i, s>>] = D(s)
    OBVIOUS
  <2> HIDE DEF F
  <2>1. PICK x : Recurs(x, depth, a, F) /\ \A i \in 0 .. depth : x[i] \in Forests
    BY <1>1, <1>3, Iterated
  <2>2. \A i \in 0 .. depth : x[i] = IF i = 0 THEN a ELSE F[<<i, x[i - 1]>>]
    BY <2>1 DEF Recurs
  <2>3. \A i \in 0 .. depth : x[i] = IF i = 0 THEN a ELSE D(x[i - 1])
    <3> TAKE i \in 0 .. depth
    <3>1. CASE i = 0
      BY <2>2, <3>1
    <3>2. CASE i # 0
      <4>1. i \in 1 .. depth /\ i - 1 \in 0 .. depth
        BY <3>2
      <4>2. F[<<i, x[i - 1]>>] = D(x[i - 1])
        BY <2>0, <2>1, <4>1
      <4> QED  BY <2>2, <3>2, <4>2
    <3> QED  BY <3>1, <3>2
  <2>4. DOMAIN x = 0 .. depth /\ x = [i \in DOMAIN x |-> x[i]]
    BY <2>1 DEF Recurs
  <2>5. x = [d \in 0 .. depth |-> IF d = 0 THEN a ELSE D(x[d - 1])]
    BY <2>3, <2>4
  <2> QED  BY <1>4, <2>5
<1>6. ASSUME NEW h, Levels(h, set, depth, also)
      PROVE  \A d \in 0 .. depth : h[d] \in Forests
  <2> DEFINE S == {d \in 0 .. depth : h[d] \in Forests}
  <2>0. \A d \in 0 .. depth : h[d] = IF d = 0 THEN a ELSE D(h[d - 1])
    <3>1. h = [d \in 0 .. depth |-> IF d = 0 THEN a ELSE D(h[d - 1])]
      BY <1>4, <1>6
    <3> QED  BY <3>1
  <2>1. 0 \in S
    <3>1. 0 \in 0 .. depth
      OBVIOUS
    <3> QED  BY <1>1, <2>0, <3>1
  <2>2. \A d \in 1 .. depth : d - 1 \in S => d \in S
    <3> SUFFICES ASSUME NEW d \in 1 .. depth, d - 1 \in S PROVE d \in S
      OBVIOUS
    <3>1. d \in 0 .. depth /\ d # 0
      OBVIOUS
    <3>2. D(h[d - 1]) \in Forests
      BY <1>2
    <3> QED  BY <2>0, <3>1, <3>2
  <2> HIDE DEF S
  <2>3. 0 .. depth \subseteq S
    BY <2>1, <2>2, Climb
  <2> QED  BY <2>3 DEF S
<1> QED  BY <1>5, <1>6

\* Whatever the generators make, full or grown, is a tree of the type they are asked
\* for (generate_random_full_tree, generate_random_grow_tree).
THEOREM GeneratedTreesParse ==
  ASSUME NEW set \in SUBSET Function, NEW method, NEW depth \in Nat, NEW ty \in Types
  PROVE  \A t \in GeneratedTrees(set, method, depth, ty) : t \in Seq(Lnodes) /\ Parsed(t, ty)
<1>1. \A h : FullIs(h, set, depth) <=> Levels(h, set, depth, FALSE)
  <2> TAKE h
  <2> DEFINE A(d) == [r \in Types |->
                       IF d = 0 THEN TerminalTrees(set, r)
                       ELSE UNION {TreesWith(f, [i \in DOMAIN Info[f].args |->
                                                   h[d - 1][Info[f].args[i]]]) :
                                     f \in FunctionsOf(set, r)}]
             B(d) == IF d = 0 THEN Leaves(set) ELSE Deeper(set, h[d - 1], FALSE)
  <2>1. \A d \in 0 .. depth : A(d) = B(d)
    <3> TAKE d \in 0 .. depth
    <3> DEFINE G(r) == Grafted(set, r, h[d - 1])
    <3>1. A(d) = [r \in Types |-> IF d = 0 THEN TerminalTrees(set, r) ELSE G(r)]
      BY DEF Grafted
    <3>2. B(d) = IF d = 0 THEN [r \in Types |-> TerminalTrees(set, r)]
                 ELSE [r \in Types |-> {} \cup G(r)]
      BY DEF Leaves, Deeper
    <3> HIDE DEF A, B, G
    <3>3. \A r \in Types : {} \cup G(r) = G(r)
      OBVIOUS
    <3>4. CASE d = 0
      BY <3>1, <3>2, <3>4
    <3>5. CASE d # 0
      BY <3>1, <3>2, <3>3, <3>5
    <3> QED  BY <3>4, <3>5
  <2>2. FullIs(h, set, depth) <=> h = [d \in 0 .. depth |-> A(d)]
    BY DEF FullIs
  <2>3. Levels(h, set, depth, FALSE) <=> h = [d \in 0 .. depth |-> B(d)]
    BY DEF Levels
  <2> HIDE DEF A, B
  <2>4. [d \in 0 .. depth |-> A(d)] = [d \in 0 .. depth |-> B(d)]
    BY <2>1
  <2> QED  BY <2>2, <2>3, <2>4
<1>2. \A h : GrowIs(h, set, depth) <=> Levels(h, set, depth, TRUE)
  <2> TAKE h
  <2> DEFINE A(d) == [r \in Types |->
                       TerminalTrees(set, r) \cup
                       IF d = 0 THEN {}
                       ELSE UNION {TreesWith(f, [i \in DOMAIN Info[f].args |->
                                                   h[d - 1][Info[f].args[i]]]) :
                                     f \in FunctionsOf(set, r)}]
             B(d) == IF d = 0 THEN Leaves(set) ELSE Deeper(set, h[d - 1], TRUE)
  <2>1. \A d \in 0 .. depth : A(d) = B(d)
    <3> TAKE d \in 0 .. depth
    <3> DEFINE G(r) == Grafted(set, r, h[d - 1])
               L(r) == TerminalTrees(set, r)
    <3>1. A(d) = [r \in Types |-> L(r) \cup IF d = 0 THEN {} ELSE G(r)]
      BY DEF Grafted
    <3>2. B(d) = IF d = 0 THEN [r \in Types |-> L(r)] ELSE [r \in Types |-> L(r) \cup G(r)]
      BY DEF Leaves, Deeper
    <3> HIDE DEF A, B, G, L
    <3>3. \A r \in Types : L(r) \cup {} = L(r)
      OBVIOUS
    <3>4. CASE d = 0
      BY <3>1, <3>2, <3>3, <3>4
    <3>5. CASE d # 0
      BY <3>1, <3>2, <3>5
    <3> QED  BY <3>4, <3>5
  <2>2. GrowIs(h, set, depth) <=> h = [d \in 0 .. depth |-> A(d)]
    BY DEF GrowIs
  <2>3. Levels(h, set, depth, TRUE) <=> h = [d \in 0 .. depth |-> B(d)]
    BY DEF Levels
  <2> HIDE DEF A, B
  <2>4. [d \in 0 .. depth |-> A(d)] = [d \in 0 .. depth |-> B(d)]
    BY <2>1
  <2> QED  BY <2>2, <2>3, <2>4
<1>3. \A t \in FullTrees(set, depth, ty) : t \in Seq(Lnodes) /\ Parsed(t, ty)
  <2> DEFINE h == CHOOSE x : FullIs(x, set, depth)
  <2>1. Levels(h, set, depth, FALSE)
    <3>1. \E x : Levels(x, set, depth, FALSE)
      BY LevelFacts
    <3>2. \E x : FullIs(x, set, depth)
      BY <1>1, <3>1
    <3>3. FullIs(h, set, depth)
      BY <3>2
    <3> HIDE DEF h
    <3> QED  BY <1>1, <3>3
  <2>2. FullTrees(set, depth, ty) = h[depth][ty]
    BY GeneratorParts
  <2> HIDE DEF h
  <2>3. depth \in 0 .. depth
    OBVIOUS
  <2>4. h[depth] \in Forests
    BY <2>1, <2>3, LevelFacts
  <2>5. h[depth] \in [Types -> SUBSET Seq(Lnodes)] /\ \A t \in h[depth][ty] : Parsed(t, ty)
    BY <2>4 DEF Forests
  <2> QED  BY <2>2, <2>5
<1>4. \A t \in GrowTrees(set, depth, ty) : t \in Seq(Lnodes) /\ Parsed(t, ty)
  <2> DEFINE h == CHOOSE x : GrowIs(x, set, depth)
  <2>1. Levels(h, set, depth, TRUE)
    <3>1. \E x : Levels(x, set, depth, TRUE)
      BY LevelFacts
    <3>2. \E x : GrowIs(x, set, depth)
      BY <1>2, <3>1
    <3>3. GrowIs(h, set, depth)
      BY <3>2
    <3> HIDE DEF h
    <3> QED  BY <1>2, <3>3
  <2>2. GrowTrees(set, depth, ty) = h[depth][ty]
    BY GeneratorParts
  <2> HIDE DEF h
  <2>3. depth \in 0 .. depth
    OBVIOUS
  <2>4. h[depth] \in Forests
    BY <2>1, <2>3, LevelFacts
  <2>5. h[depth] \in [Types -> SUBSET Seq(Lnodes)] /\ \A t \in h[depth][ty] : Parsed(t, ty)
    BY <2>4 DEF Forests
  <2> QED  BY <2>2, <2>5
<1> QED  BY <1>3, <1>4 DEF GeneratedTrees
=============================================================================
