---------------------------- MODULE SavedProofs ----------------------------
(***************************************************************************)
(* What the operators of SavedIndividuals return: the list of copies stays *)
(* whole when copies are saved or collected, and the best lists keep their *)
(* length and their order.                                                 *)
(***************************************************************************)
EXTENDS SavedIndividuals, CountingProofs

Injective(seq) == \A i, j \in DOMAIN seq : seq[i] = seq[j] => i = j

\* The linked list is whole, as SavedListWhole of GpRun has it.
Whole(s) ==
  /\ s.list \in Seq(Address) /\ Injective(s.list)
  /\ s.tail = IF s.list = <<>> THEN Dummy ELSE s.list[Len(s.list)]
  /\ s.count = Len(s.list)

\* A list of copies, each of them in C.
ListOf(C) ==
  [list : Seq(Address), tail : Address \cup {Dummy}, count : Nat,
   refcount : [Address -> Int], ind : [Address -> C]]

-----------------------------------------------------------------------------
(* Sequences *)

\* What is in a sequence.
LEMMA EntriesOf ==
  ASSUME NEW X, NEW seq \in Seq(X)
  PROVE  /\ \A x : x \in Range(seq) <=> \E i \in 1 .. Len(seq) : seq[i] = x
         /\ Range(seq) \subseteq X
         /\ Len(seq) \in Nat /\ DOMAIN seq = 1 .. Len(seq)
<1>1. Len(seq) \in Nat /\ DOMAIN seq = 1 .. Len(seq)
  BY LenProperties
<1>2. \A i \in 1 .. Len(seq) : seq[i] \in X
  BY ElementOfSeq
<1> QED  BY <1>1, <1>2 DEF Range

\* A sequence without repetition has as many values as positions.
LEMMA SizeOfRange ==
  ASSUME NEW X, NEW seq \in Seq(X), Injective(seq)
  PROVE  IsFiniteSet(Range(seq)) /\ Cardinality(Range(seq)) = Len(seq)
<1>1. /\ \A x : x \in Range(seq) <=> \E i \in 1 .. Len(seq) : seq[i] = x
      /\ Len(seq) \in Nat /\ DOMAIN seq = 1 .. Len(seq)
  BY EntriesOf
<1>2. IsFiniteSet(1 .. Len(seq)) /\ Cardinality(1 .. Len(seq)) = Len(seq)
  BY <1>1, FS_Interval
<1>3. seq \in [1 .. Len(seq) -> Range(seq)]
  BY <1>1, LenProperties
<1>4. \A x, y \in 1 .. Len(seq) : seq[x] = seq[y] => x = y
  BY <1>1 DEF Injective
<1>5. \A y \in Range(seq) : \E x \in 1 .. Len(seq) : seq[x] = y
  BY <1>1
<1> QED  BY <1>2, <1>3, <1>4, <1>5, SameNumber

-----------------------------------------------------------------------------
(* The linked list *)

\* saved_tail is the last node: what is saved goes behind all the others.
LEMMA TailIsLast ==
  ASSUME NEW s, Whole(s)
  PROVE  SubSeq(s.list, 1, TailPosition(s)) = s.list
<1>1. s.list \in Seq(Address) /\ Len(s.list) \in Nat /\ DOMAIN s.list = 1 .. Len(s.list)
  BY EntriesOf DEF Whole
<1>2. TailPosition(s) = Len(s.list)
  <2>1. CASE s.list = <<>>
    BY <2>1 DEF Whole, TailPosition
  <2>2. CASE s.list # <<>>
    <3>0. Len(s.list) \in Nat \ {0}
      BY <1>1, <2>2, EmptySeq
    <3>1. Len(s.list) \in DOMAIN s.list
      BY <1>1, <3>0
    <3>2. s.tail = s.list[Len(s.list)] /\ s.tail # Dummy
      <4>1. s.list[Len(s.list)] \in Address
        BY <1>1, <3>1, ElementOfSeq
      <4>2. s.tail = s.list[Len(s.list)]
        BY <2>2 DEF Whole
      <4> QED  BY <4>1, <4>2 DEF Address, Dummy
    <3>3. \A i \in DOMAIN s.list : s.list[i] = s.tail <=> i = Len(s.list)
      BY <3>1, <3>2 DEF Whole, Injective
    <3> QED  BY <3>1, <3>2, <3>3 DEF TailPosition
  <2> QED  BY <2>1, <2>2
<1> QED  BY <1>1, <1>2, SubSeqFull

\* malloc returns addresses that nothing uses, if there are enough.
LEMMA FreshFacts ==
  ASSUME NEW s, s.list \in Seq(Address), NEW n \in Nat, Cardinality(Unused(s)) >= n
  PROVE  /\ Fresh(s, n) \in Seq(Address) /\ Len(Fresh(s, n)) = n
         /\ DOMAIN Fresh(s, n) = 1 .. n
         /\ Injective(Fresh(s, n))
         /\ Range(Fresh(s, n)) \cap Range(s.list) = {}
<1> DEFINE U == Unused(s)
           c == Cardinality(U)
<1>1. IsFiniteSet(U) /\ U \subseteq Address
  <2>1. IsFiniteSet(Address)
    BY SavedAssumption, FS_Interval DEF Address, SavedAssumption
  <2> QED  BY <2>1, FS_Subset DEF Unused
<1> HIDE DEF U
<1>2. c \in Nat /\ ExistsBijection(1 .. c, U)
  BY <1>1, FS_CardinalityType
<1> HIDE DEF c
<1>3. PICK b \in Bijection(1 .. c, U) : TRUE
  BY <1>2 DEF ExistsBijection
<1>4. b \in [1 .. c -> U] /\ \A x, y \in 1 .. c : b[x] = b[y] => x = y
  BY <1>3, Fun_BijectionProperties
<1> DEFINE f == [i \in 1 .. n |-> b[i]]
<1>5. f \in Injection(1 .. n, U)
  <2>1. \A i \in 1 .. n : i \in 1 .. c
    BY <1>2 DEF c, U
  <2>2. f \in [1 .. n -> U] /\ \A x, y \in 1 .. n : f[x] = f[y] => x = y
    BY <1>4, <2>1
  <2> HIDE DEF f, U
  <2> QED  BY <2>2, Fun_IsInj
<1>6. Fresh(s, n) \in Injection(1 .. n, U)
  <2> HIDE DEF f
  <2> QED  BY <1>5 DEF Fresh, U
<1>7. Fresh(s, n) \in [1 .. n -> U]
      /\ \A x, y \in 1 .. n : Fresh(s, n)[x] = Fresh(s, n)[y] => x = y
  BY <1>6, Fun_InjectionProperties
<1>8. Fresh(s, n) \in Seq(Address) /\ Len(Fresh(s, n)) = n /\ DOMAIN Fresh(s, n) = 1 .. n
  <2>1. Fresh(s, n) \in [1 .. n -> Address]
    BY <1>1, <1>7
  <2>2. Fresh(s, n) \in Seq(Address)
    BY <2>1, SeqDef
  <2> QED  BY <2>1, <2>2, LenProperties
<1>9. Injective(Fresh(s, n))
  BY <1>7, <1>8 DEF Injective
<1>10. Range(Fresh(s, n)) \subseteq U
  BY <1>7, <1>8 DEF Range
<1> QED  BY <1>8, <1>9, <1>10 DEF Unused, U

\* Copies that are saved: the list stays whole and nothing else changes.
LEMMA SaveFacts ==
  ASSUME NEW C, NEW s \in ListOf(C), Whole(s),
         NEW new \in Seq(Address), Len(new) > 0, Injective(new),
         Range(new) \cap Range(s.list) = {},
         NEW copies, \A i \in 1 .. Len(new) : copies[i] \in C
  PROVE  LET t == Save(s, copies, new)
         IN /\ t \in ListOf(C) /\ Whole(t)
            /\ Range(t.list) = Range(s.list) \cup Range(new)
            /\ \A a \in Address :
                 IF a \in Range(new) THEN t.refcount[a] = 1
                 ELSE t.refcount[a] = s.refcount[a] /\ t.ind[a] = s.ind[a]
            /\ \A i \in 1 .. Len(new) : t.ind[new[i]] = copies[i]
<1> DEFINE t == Save(s, copies, new)
<1>1. /\ \A x : x \in Range(new) <=> \E i \in 1 .. Len(new) : new[i] = x
      /\ Len(new) \in Nat \ {0} /\ DOMAIN new = 1 .. Len(new)
      /\ Range(new) \subseteq Address
  BY EntriesOf
<1>2. /\ s.list \in Seq(Address) /\ Len(s.list) \in Nat /\ DOMAIN s.list = 1 .. Len(s.list)
      /\ \A x : x \in Range(s.list) <=> \E i \in 1 .. Len(s.list) : s.list[i] = x
  BY EntriesOf DEF Whole
<1>3. /\ t.list = s.list \o new /\ t.tail = new[Len(new)] /\ t.count = s.count + Len(new)
      /\ t.refcount = [a \in Address |-> IF a \in Range(new) THEN 1 ELSE s.refcount[a]]
      /\ t.ind = [a \in Address |-> IF a \in Range(new)
                                    THEN copies[CHOOSE i \in DOMAIN new : new[i] = a]
                                    ELSE s.ind[a]]
      /\ t = [list |-> t.list, tail |-> t.tail, count |-> t.count,
              refcount |-> t.refcount, ind |-> t.ind]
  BY TailIsLast DEF Save
<1>4. /\ t.list \in Seq(Address) /\ Len(t.list) = Len(s.list) + Len(new)
      /\ DOMAIN t.list = 1 .. Len(s.list) + Len(new)
      /\ \A i \in 1 .. Len(s.list) + Len(new) :
           t.list[i] = IF i <= Len(s.list) THEN s.list[i] ELSE new[i - Len(s.list)]
  <2>1. /\ t.list \in Seq(Address) /\ Len(t.list) = Len(s.list) + Len(new)
        /\ \A i \in 1 .. Len(s.list) + Len(new) :
             t.list[i] = IF i <= Len(s.list) THEN s.list[i] ELSE new[i - Len(s.list)]
    BY <1>2, <1>3, ConcatProperties
  <2> QED  BY <2>1, LenProperties
<1>5. Range(t.list) = Range(s.list) \cup Range(new)
  BY <1>2, <1>3, RangeConcatenation
<1>6. \A a \in Range(new) : \E i \in 1 .. Len(new) :
        new[i] = a /\ (CHOOSE j \in DOMAIN new : new[j] = a) = i
  BY <1>1 DEF Injective
<1>7. \A i \in 1 .. Len(new) : new[i] \in Range(new) /\ t.ind[new[i]] = copies[i]
  <2> TAKE i \in 1 .. Len(new)
  <2>1. new[i] \in Range(new) /\ new[i] \in Address
    BY <1>1
  <2>2. (CHOOSE j \in DOMAIN new : new[j] = new[i]) = i
    BY <1>1 DEF Injective
  <2> HIDE DEF t
  <2> QED  BY <1>3, <2>1, <2>2
<1>8. t.ind \in [Address -> C] /\ t.refcount \in [Address -> Int]
  <2>1. s.ind \in [Address -> C] /\ s.refcount \in [Address -> Int]
    BY DEF ListOf
  <2>2. \A a \in Address : t.ind[a] \in C
    <3> TAKE a \in Address
    <3>1. CASE a \in Range(new)
      BY <1>1, <1>7, <3>1
    <3>2. CASE a \notin Range(new)
      <4>1. t.ind[a] = s.ind[a]
        BY <1>3, <3>2
      <4> QED  BY <2>1, <4>1
    <3> QED  BY <3>1, <3>2
  <2>3. t.ind \in [Address -> C]
    <3>1. DOMAIN t.ind = Address /\ t.ind = [a \in Address |-> t.ind[a]]
      BY <1>3
    <3> HIDE DEF t
    <3> QED  BY <2>2, <3>1
  <2>4. t.refcount \in [Address -> Int]
    BY <1>3, <2>1
  <2> QED  BY <2>3, <2>4
<1>9. t.tail \in Address /\ t.count \in Nat
  BY <1>1, <1>2, <1>3 DEF Whole
<1> HIDE DEF t
<1>10. t \in ListOf(C)
  BY <1>3, <1>4, <1>8, <1>9 DEF ListOf
<1>11. Injective(t.list)
  <2> SUFFICES ASSUME NEW i \in 1 .. Len(s.list) + Len(new),
                      NEW j \in 1 .. Len(s.list) + Len(new),
                      t.list[i] = t.list[j]
               PROVE  i = j
    BY <1>4 DEF Injective
  <2>1. CASE i <= Len(s.list) /\ j <= Len(s.list)
    <3>1. i \in DOMAIN s.list /\ j \in DOMAIN s.list /\ s.list[i] = s.list[j]
      BY <1>2, <1>4, <2>1
    <3> QED  BY <3>1 DEF Whole, Injective
  <2>2. CASE ~(i <= Len(s.list)) /\ ~(j <= Len(s.list))
    <3>1. /\ i - Len(s.list) \in DOMAIN new /\ j - Len(s.list) \in DOMAIN new
          /\ new[i - Len(s.list)] = new[j - Len(s.list)]
      BY <1>1, <1>2, <1>4, <2>2
    <3>2. i - Len(s.list) = j - Len(s.list)
      BY <3>1 DEF Injective
    <3> QED  BY <1>2, <3>2
  <2>3. CASE i <= Len(s.list) /\ ~(j <= Len(s.list))
    <3>1. i \in 1 .. Len(s.list) /\ j - Len(s.list) \in 1 .. Len(new)
      BY <1>1, <1>2, <2>3
    <3>2. s.list[i] = new[j - Len(s.list)]
      BY <1>4, <2>3
    <3>3. s.list[i] \in Range(s.list) /\ new[j - Len(s.list)] \in Range(new)
      BY <1>1, <1>2, <3>1
    <3> QED  BY <3>2, <3>3
  <2>4. CASE ~(i <= Len(s.list)) /\ j <= Len(s.list)
    <3>1. j \in 1 .. Len(s.list) /\ i - Len(s.list) \in 1 .. Len(new)
      BY <1>1, <1>2, <2>4
    <3>2. s.list[j] = new[i - Len(s.list)]
      BY <1>4, <2>4
    <3>3. s.list[j] \in Range(s.list) /\ new[i - Len(s.list)] \in Range(new)
      BY <1>1, <1>2, <3>1
    <3> QED  BY <3>2, <3>3
  <2> QED  BY <2>1, <2>2, <2>3, <2>4
<1>12. Whole(t)
  <2>1. t.list # <<>>
    BY <1>1, <1>2, <1>4
  <2>2. t.list[Len(t.list)] = new[Len(new)]
    <3>1. /\ Len(t.list) \in 1 .. Len(s.list) + Len(new) /\ ~(Len(t.list) <= Len(s.list))
          /\ Len(t.list) - Len(s.list) = Len(new)
      BY <1>1, <1>2, <1>4
    <3> QED  BY <1>4, <3>1
  <2>3. t.count = Len(t.list)
    BY <1>3, <1>4 DEF Whole
  <2> QED  BY <1>3, <1>4, <1>11, <2>1, <2>2, <2>3 DEF Whole
<1>13. \A a \in Address :
         IF a \in Range(new) THEN t.refcount[a] = 1
         ELSE t.refcount[a] = s.refcount[a] /\ t.ind[a] = s.ind[a]
  BY <1>3
<1> QED  BY <1>5, <1>7, <1>10, <1>12, <1>13 DEF t

\* The entries at some positions, in their order.
LEMMA AtFacts ==
  ASSUME NEW X, NEW seq \in Seq(X), NEW S \in SUBSET (1 .. Len(seq))
  PROVE  /\ Cardinality(S) \in Nat
         /\ At(seq, S) \in Seq(X) /\ Len(At(seq, S)) = Cardinality(S)
         /\ \A x : x \in Range(At(seq, S)) <=> \E i \in S : seq[i] = x
         /\ Injective(seq) => Injective(At(seq, S))
<1> DEFINE c(n) == CHOOSE i \in S : Cardinality({j \in S : j < i}) = n - 1
           N == Cardinality(S)
<1>1. /\ \A x : x \in Range(seq) <=> \E i \in 1 .. Len(seq) : seq[i] = x
      /\ Len(seq) \in Nat /\ DOMAIN seq = 1 .. Len(seq)
      /\ \A i \in 1 .. Len(seq) : seq[i] \in X
  BY EntriesOf, ElementOfSeq
<1>2. IsFiniteSet(S) /\ S \in SUBSET Nat
  <2>1. IsFiniteSet(1 .. Len(seq))
    BY <1>1, FS_Interval
  <2>2. IsFiniteSet(S)
    BY <2>1, FS_Subset
  <2>3. \A i \in 1 .. Len(seq) : i \in Nat
    OBVIOUS
  <2> QED  BY <2>2, <2>3
<1>3. /\ N \in Nat
      /\ \A i, k \in S : i < k => Rank(S, i) < Rank(S, k)
      /\ \A i \in S : Rank(S, i) \in 0 .. N - 1
      /\ \A n \in 1 .. N : \E i \in S : Rank(S, i) = n - 1
  BY <1>2, Ranks
<1>4. \A i, k \in S : Rank(S, i) = Rank(S, k) => i = k
  <2> SUFFICES ASSUME NEW i \in S, NEW k \in S, Rank(S, i) = Rank(S, k), i # k PROVE FALSE
    OBVIOUS
  <2>1. i < k \/ k < i
    BY <1>2
  <2>2. Rank(S, i) \in Nat /\ Rank(S, k) \in Nat
    BY <1>3
  <2> QED  BY <1>3, <2>1, <2>2
<1>5. \A n \in 1 .. N : c(n) \in S /\ Rank(S, c(n)) = n - 1
  <2> TAKE n \in 1 .. N
  <2>1. \E i \in S : Cardinality({j \in S : j < i}) = n - 1
    BY <1>3 DEF Rank
  <2>2. c(n) \in S /\ Cardinality({j \in S : j < c(n)}) = n - 1
    BY <2>1
  <2> QED  BY <2>2 DEF Rank
<1>6. At(seq, S) = [n \in 1 .. N |-> seq[c(n)]]
  BY DEF At
<1> HIDE DEF c, N
<1>7. At(seq, S) \in Seq(X) /\ Len(At(seq, S)) = N /\ DOMAIN At(seq, S) = 1 .. N
  <2>1. At(seq, S) \in [1 .. N -> X]
    BY <1>1, <1>5, <1>6
  <2>2. At(seq, S) \in Seq(X)
    BY <1>3, <2>1, SeqDef
  <2> QED  BY <1>3, <2>1, <2>2, LenProperties
<1>8. \A n \in 1 .. N : At(seq, S)[n] = seq[c(n)]
  BY <1>6
<1>9. \A i \in S : \E n \in 1 .. N : c(n) = i
  <2> TAKE i \in S
  <2> DEFINE n == Rank(S, i) + 1
  <2>1. n \in 1 .. N /\ n - 1 = Rank(S, i)
    BY <1>3
  <2> HIDE DEF n
  <2>2. c(n) \in S /\ Rank(S, c(n)) = n - 1
    BY <1>5, <2>1
  <2>3. Rank(S, c(n)) = Rank(S, i)
    BY <2>1, <2>2
  <2>4. c(n) = i
    BY <1>4, <2>2, <2>3
  <2> QED  BY <2>1, <2>4
<1>10. \A x : x \in Range(At(seq, S)) <=> \E i \in S : seq[i] = x
  <2>1. \A x : x \in Range(At(seq, S)) <=> \E n \in 1 .. N : At(seq, S)[n] = x
    BY <1>7 DEF Range
  <2> QED  BY <1>5, <1>8, <1>9, <2>1
<1>11. ASSUME Injective(seq) PROVE Injective(At(seq, S))
  <2> SUFFICES ASSUME NEW m \in 1 .. N, NEW n \in 1 .. N, seq[c(m)] = seq[c(n)]
               PROVE  m = n
    BY <1>7, <1>8 DEF Injective
  <2>1. c(m) = c(n)
    BY <1>1, <1>5, <1>11 DEF Injective
  <2>2. m - 1 = n - 1
    BY <1>5, <2>1
  <2> QED  BY <1>3, <2>2
<1> QED  BY <1>3, <1>7, <1>10, <1>11 DEF N

\* A collection takes the unreferenced copies off the list, and nothing else.
LEMMA GcFacts ==
  ASSUME NEW C, NEW s \in ListOf(C), Whole(s), Nobody \in C
  PROVE  LET t == SavedIndividualGc(s)
         IN /\ t \in ListOf(C) /\ Whole(t)
            /\ Range(t.list) = Range(s.list) \ Unreferenced(s)
            /\ t.refcount = s.refcount
            /\ \A a \in Range(t.list) : t.ind[a] = s.ind[a]
<1> DEFINE t == SavedIndividualGc(s)
           D == 1 .. Len(s.list)
           S == {i \in D : s.refcount[s.list[i]] # 0}
           Gone == {i \in D : s.refcount[s.list[i]] = 0}
<1>1. /\ s.list \in Seq(Address) /\ Len(s.list) \in Nat /\ DOMAIN s.list = D
      /\ Range(s.list) \subseteq Address
      /\ \A x : x \in Range(s.list) <=> \E i \in D : s.list[i] = x
      /\ \A i \in D : s.list[i] \in Address
  BY EntriesOf, ElementOfSeq DEF Whole
<1>2. /\ t.list = Referenced(s, s.list)
      /\ t.tail = TailAfterGc(s)
      /\ t.count = s.count - Cardinality(Unreferenced(s))
      /\ t.refcount = s.refcount
      /\ t.ind = [a \in Address |-> IF a \in Unreferenced(s) THEN Nobody ELSE s.ind[a]]
      /\ t = [list |-> t.list, tail |-> t.tail, count |-> t.count,
              refcount |-> t.refcount, ind |-> t.ind]
  BY DEF SavedIndividualGc
<1>3. t.list = At(s.list, S)
  BY <1>1, <1>2 DEF Referenced
<1> HIDE DEF t
<1>4. /\ Cardinality(S) \in Nat
      /\ t.list \in Seq(Address) /\ Len(t.list) = Cardinality(S)
      /\ \A x : x \in Range(t.list) <=> \E i \in S : s.list[i] = x
      /\ Injective(t.list)
  <2>1. S \in SUBSET (1 .. Len(s.list)) /\ Injective(s.list)
    BY DEF Whole
  <2> HIDE DEF S, D
  <2>2. /\ Cardinality(S) \in Nat
        /\ At(s.list, S) \in Seq(Address) /\ Len(At(s.list, S)) = Cardinality(S)
        /\ \A x : x \in Range(At(s.list, S)) <=> \E i \in S : s.list[i] = x
        /\ Injective(s.list) => Injective(At(s.list, S))
    BY <1>1, <2>1, AtFacts
  <2> QED  BY <1>3, <2>1, <2>2
<1>5. Range(t.list) = Range(s.list) \ Unreferenced(s)
  <2>1. \A x : x \in Unreferenced(s) <=> x \in Range(s.list) /\ s.refcount[x] = 0
    BY DEF Unreferenced
  <2>2. \A x \in Range(t.list) : x \in Range(s.list) /\ s.refcount[x] # 0
    BY <1>1, <1>4
  <2>3. \A x \in Range(s.list) : s.refcount[x] # 0 => x \in Range(t.list)
    BY <1>1, <1>4
  <2> QED  BY <2>1, <2>2, <2>3
<1>6. t.tail = IF t.list = <<>> THEN Dummy ELSE t.list[Len(t.list)]
  BY <1>2, TailIsLast DEF TailAfterGc
<1>7. t.count = Len(t.list)
  <2>1. IsFiniteSet(D) /\ Cardinality(D) = Len(s.list)
    BY <1>1, FS_Interval
  <2>2. IsFiniteSet(S) /\ IsFiniteSet(Gone)
    <3>1. S \in SUBSET D /\ Gone \in SUBSET D
      OBVIOUS
    <3> HIDE DEF S, Gone
    <3> QED  BY <2>1, <3>1, FS_Subset
  <2>3. S \cup Gone = D /\ S \cap Gone = {}
    OBVIOUS
  <2>4. Cardinality(D) = Cardinality(S) + Cardinality(Gone)
    <3> HIDE DEF S, Gone, D
    <3> QED  BY <2>2, <2>3, TwoParts
  <2>5. Cardinality(Unreferenced(s)) = Cardinality(Gone)
    <3> DEFINE f == [i \in Gone |-> s.list[i]]
    <3>1. f \in [Gone -> Unreferenced(s)]
      BY <1>1 DEF Unreferenced
    <3>2. \A x, y \in Gone : f[x] = f[y] => x = y
      BY <1>1 DEF Whole, Injective
    <3>3. \A y \in Unreferenced(s) : \E x \in Gone : f[x] = y
      BY <1>1 DEF Unreferenced
    <3> HIDE DEF f, Gone
    <3> QED  BY <2>2, <3>1, <3>2, <3>3, SameNumber
  <2>6. s.count = Len(s.list)
    BY DEF Whole
  <2>7. Cardinality(Gone) \in Nat
    BY <2>2, FS_CardinalityType
  <2> QED  BY SMTT(30), <1>2, <1>4, <2>1, <2>4, <2>5, <2>6, <2>7
<1>8. Whole(t)
  BY <1>4, <1>6, <1>7 DEF Whole
<1>9. t.tail \in Address \cup {Dummy}
  <2>1. CASE t.list = <<>>
    BY <1>6, <2>1
  <2>2. CASE t.list # <<>>
    <3>1. Len(t.list) \in Nat \ {0}
      BY <1>4, <2>2, EmptySeq
    <3>2. Len(t.list) \in 1 .. Len(t.list)
      BY <3>1
    <3>3. t.list[Len(t.list)] \in Address
      BY <1>4, <3>2, ElementOfSeq
    <3> QED  BY <1>6, <2>2, <3>3
  <2> QED  BY <2>1, <2>2
<1>10. t.ind \in [Address -> C] /\ t.refcount \in [Address -> Int]
  <2>1. s.ind \in [Address -> C] /\ s.refcount \in [Address -> Int]
    BY DEF ListOf
  <2>2. \A a \in Address : (IF a \in Unreferenced(s) THEN Nobody ELSE s.ind[a]) \in C
    BY <2>1
  <2> QED  BY <1>2, <2>1, <2>2
<1>11. t.count \in Nat
  BY <1>4, <1>7
<1>12. t \in ListOf(C)
  BY <1>2, <1>4, <1>9, <1>10, <1>11 DEF ListOf
<1>13. \A a \in Range(t.list) : t.ind[a] = s.ind[a]
  <2>1. \A a \in Range(t.list) : a \in Address /\ a \notin Unreferenced(s)
    BY <1>1, <1>5
  <2> QED  BY <1>2, <2>1
<1> QED  BY <1>2, <1>5, <1>8, <1>12, <1>13 DEF t

-----------------------------------------------------------------------------
(* Best lists *)

\* A list points at an address as often as it is an entry.
LEMMA OccurrencesFacts ==
  ASSUME NEW X, NEW best \in Seq(X), NEW a
  PROVE  /\ Occurrences(best, a) \in Nat
         /\ a \notin Range(best) => Occurrences(best, a) = 0
         /\ Injective(best) /\ a \in Range(best) => Occurrences(best, a) = 1
<1> DEFINE S == {j \in DOMAIN best : best[j] = a}
<1>1. /\ Len(best) \in Nat /\ DOMAIN best = 1 .. Len(best)
      /\ \A x : x \in Range(best) <=> \E i \in 1 .. Len(best) : best[i] = x
  BY EntriesOf
<1>2. IsFiniteSet(S) /\ Cardinality(S) \in Nat
  <2>1. IsFiniteSet(1 .. Len(best)) /\ S \subseteq 1 .. Len(best)
    BY <1>1, FS_Interval
  <2> HIDE DEF S
  <2>2. IsFiniteSet(S)
    BY <2>1, FS_Subset
  <2> QED  BY <2>2, FS_CardinalityType
<1>3. ASSUME a \notin Range(best) PROVE Cardinality(S) = 0
  <2>1. S = {}
    BY <1>1, <1>3
  <2> QED  BY <2>1, FS_EmptySet
<1>4. ASSUME Injective(best), a \in Range(best) PROVE Cardinality(S) = 1
  <2>1. PICK i \in 1 .. Len(best) : best[i] = a
    BY <1>1, <1>4
  <2>2. S = {i}
    BY <1>1, <1>4, <2>1 DEF Injective
  <2> HIDE DEF S
  <2> QED  BY <2>2, FS_Singleton
<1> QED  BY <1>2, <1>3, <1>4 DEF Occurrences

\* An empty best list, that of a record not filled yet, points at nothing.
LEMMA NoOccurrences == \A a : Occurrences(<<>>, a) = 0
<1> SUFFICES ASSUME NEW a PROVE Occurrences(<<>>, a) = 0
  OBVIOUS
<1>1. {j \in DOMAIN <<>> : <<>>[j] = a} = {}
  OBVIOUS
<1> QED  BY <1>1, FS_EmptySet DEF Occurrences

\* Counting a best list in, or out again, changes reference counts only.
LEMMA ReferenceFacts ==
  ASSUME NEW C, NEW s \in ListOf(C), NEW best \in Seq(Address), NEW n \in {1, -1}
  PROVE  LET t == Reference(s, best, n)
         IN /\ t \in ListOf(C) /\ (Whole(s) => Whole(t))
            /\ t.list = s.list /\ t.ind = s.ind
            /\ \A a \in Address :
                 IF n = 1 THEN t.refcount[a] = s.refcount[a] + Occurrences(best, a)
                 ELSE t.refcount[a] = s.refcount[a] - Occurrences(best, a)
<1> DEFINE t == Reference(s, best, n)
<1>1. /\ s = [list |-> s.list, tail |-> s.tail, count |-> s.count,
              refcount |-> s.refcount, ind |-> s.ind]
      /\ s.list \in Seq(Address) /\ s.tail \in Address \cup {Dummy} /\ s.count \in Nat
      /\ s.refcount \in [Address -> Int] /\ s.ind \in [Address -> C]
  BY DEF ListOf
<1>2. /\ t.list = s.list /\ t.tail = s.tail /\ t.count = s.count /\ t.ind = s.ind
      /\ t.refcount = [a \in Address |-> s.refcount[a] + n * Occurrences(best, a)]
      /\ t = [list |-> t.list, tail |-> t.tail, count |-> t.count,
              refcount |-> t.refcount, ind |-> t.ind]
  <2> DEFINE r == [a \in Address |-> s.refcount[a] + n * Occurrences(best, a)]
  <2>1. t = [s EXCEPT !.refcount = r]
    BY DEF Reference
  <2> HIDE DEF r, t
  <2>2. t = [list |-> s.list, tail |-> s.tail, count |-> s.count,
             refcount |-> r, ind |-> s.ind]
    BY <1>1, <2>1
  <2>3. /\ t.list = s.list /\ t.tail = s.tail /\ t.count = s.count /\ t.ind = s.ind
        /\ t.refcount = r
    BY <2>2
  <2> QED  BY <2>2, <2>3 DEF r
<1>3. \A a \in Address : Occurrences(best, a) \in Nat /\ s.refcount[a] \in Int
  BY <1>1, OccurrencesFacts
<1>4. \A a \in Address :
        IF n = 1 THEN t.refcount[a] = s.refcount[a] + Occurrences(best, a)
        ELSE t.refcount[a] = s.refcount[a] - Occurrences(best, a)
  <2> SUFFICES ASSUME NEW a \in Address
               PROVE  s.refcount[a] + n * Occurrences(best, a)
                      = IF n = 1 THEN s.refcount[a] + Occurrences(best, a)
                        ELSE s.refcount[a] - Occurrences(best, a)
    BY <1>2
  <2>1. CASE n = 1
    BY <1>3, <2>1
  <2>2. CASE n = -1
    BY <1>3, <2>2
  <2> QED  BY <2>1, <2>2
<1>5. t.refcount \in [Address -> Int]
  <2>1. \A a \in Address : t.refcount[a] \in Int
    BY <1>3, <1>4
  <2>2. t.refcount = [a \in Address |-> t.refcount[a]]
    BY <1>2
  <2> HIDE DEF t
  <2> QED  BY <2>1, <2>2
<1> HIDE DEF t
<1>6. t \in ListOf(C)
  BY <1>1, <1>2, <1>5 DEF ListOf
<1>7. Whole(s) => Whole(t)
  BY <1>2 DEF Whole
<1> QED  BY <1>2, <1>4, <1>6, <1>7 DEF t

\* m is the merge turn by turn: how many entries of both lists have been taken,
\* and what they are.
Merges(s, total, n, X, m) ==
  /\ m \in [0 .. BestN -> [j : Nat, k : Nat, out : Seq(X)]]
  /\ m[0] = [j |-> 0, k |-> 0, out |-> <<>>]
  /\ \A i \in 1 .. BestN : m[i] = MergeTurn(s, total, n, m[i - 1])
  /\ \A i \in 0 .. BestN : m[i].j + m[i].k = i /\ Len(m[i].out) = i
  /\ Merge(s, total, n) = m[BestN].out

\* The merge takes as many entries as the lists have, from both of them, and
\* the fitter of the two first ones first.
LEMMA MergeFacts ==
  ASSUME SavedAssumption, NEW s, NEW X, NEW total \in Seq(X), NEW n \in Seq(X),
         Len(total) = BestN, Len(n) = BestN
  PROVE  /\ Merge(s, total, n) \in Seq(X) /\ Len(Merge(s, total, n)) = BestN
         /\ Merge(s, total, n)[1] = IF TakesNew(s, total, n, 0, 0) THEN n[1] ELSE total[1]
         /\ \E m : Merges(s, total, n, X, m)
<1> DEFINE M == [j : Nat, k : Nat, out : Seq(X)]
           a == [j |-> 0, k |-> 0, out |-> <<>>]
           first == IF TakesNew(s, total, n, 0, 0) THEN n[1] ELSE total[1]
           Turn(p) == MergeTurn(s, total, n, p)
           Good(i, p) == /\ p \in M /\ p.j + p.k = i /\ Len(p.out) = i
                         /\ i > 0 => p.out[1] = first
           Eqn(m) == m = [i \in 0 .. BestN |-> IF i = 0 THEN a ELSE Turn(m[i - 1])]
<1>1. BestN \in Nat \ {0}
  BY DEF SavedAssumption
<1>2. \A i \in 1 .. BestN : total[i] \in X /\ n[i] \in X
  BY ElementOfSeq
<1>3. Good(0, a)
  BY EmptySeq
<1>4. ASSUME NEW i \in 1 .. BestN, NEW p, Good(i - 1, p) PROVE Good(i, Turn(p))
  <2>1. /\ p \in M /\ p.j \in Nat /\ p.k \in Nat /\ p.out \in Seq(X)
        /\ p.j + 1 \in 1 .. BestN /\ p.k + 1 \in 1 .. BestN
        /\ Len(p.out) = i - 1 /\ p.j + p.k = i - 1
    BY <1>1, <1>4
  <2> DEFINE x == IF TakesNew(s, total, n, p.j, p.k) THEN n[p.k + 1] ELSE total[p.j + 1]
  <2>2. x \in X
    BY <1>2, <2>1
  <2>3. /\ Append(p.out, x) \in Seq(X) /\ Len(Append(p.out, x)) = i
        /\ \A l \in 1 .. i - 1 : Append(p.out, x)[l] = p.out[l]
        /\ Append(p.out, x)[i] = x
    <3> HIDE DEF x
    <3>1. /\ Append(p.out, x) \in Seq(X) /\ Len(Append(p.out, x)) = Len(p.out) + 1
          /\ \A l \in 1 .. Len(p.out) : Append(p.out, x)[l] = p.out[l]
          /\ Append(p.out, x)[Len(p.out) + 1] = x
      BY <2>1, <2>2, AppendProperties
    <3> QED  BY <2>1, <3>1
  <2>4. Turn(p) = IF TakesNew(s, total, n, p.j, p.k)
                  THEN [j |-> p.j, k |-> p.k + 1, out |-> Append(p.out, x)]
                  ELSE [j |-> p.j + 1, k |-> p.k, out |-> Append(p.out, x)]
    <3> HIDE DEF M
    <3>1. p = [j |-> p.j, k |-> p.k, out |-> p.out]
      BY <2>1 DEF M
    <3>2. CASE TakesNew(s, total, n, p.j, p.k)
      <4>1. Turn(p) = [p EXCEPT !.k = p.k + 1, !.out = Append(p.out, n[p.k + 1])]
        BY <3>2 DEF MergeTurn
      <4>2. Turn(p) = [j |-> p.j, k |-> p.k + 1, out |-> Append(p.out, n[p.k + 1])]
        BY <3>1, <4>1
      <4> QED  BY <3>2, <4>2
    <3>3. CASE ~TakesNew(s, total, n, p.j, p.k)
      <4>1. Turn(p) = [p EXCEPT !.j = p.j + 1, !.out = Append(p.out, total[p.j + 1])]
        BY <3>3 DEF MergeTurn
      <4>2. Turn(p) = [j |-> p.j + 1, k |-> p.k, out |-> Append(p.out, total[p.j + 1])]
        BY <3>1, <4>1
      <4> QED  BY <3>3, <4>2
    <3> QED  BY <3>2, <3>3
  <2>5. Append(p.out, x)[1] = first
    <3>1. CASE i = 1
      <4>1. p.j = 0 /\ p.k = 0
        BY <2>1, <3>1
      <4> QED  BY <2>3, <3>1, <4>1
    <3>2. CASE i # 1
      <4>1. 1 \in 1 .. i - 1 /\ i - 1 > 0
        BY <3>2
      <4>2. p.out[1] = first
        BY <1>4, <4>1
      <4> QED  BY <2>3, <4>1, <4>2
    <3> QED  BY <3>1, <3>2
  <2> HIDE DEF x, first
  <2>6. Turn(p) \in M /\ Turn(p).j + Turn(p).k = i /\ Turn(p).out = Append(p.out, x)
    BY <2>1, <2>3, <2>4
  <2> QED  BY <2>3, <2>5, <2>6
<1> HIDE DEF Turn
<1>5. \E m : Eqn(m)
  <2> DEFINE F == [q \in (1 .. BestN) \X M |-> IF Turn(q[2]) \in M THEN Turn(q[2]) ELSE a]
  <2>1. a \in M /\ F \in [(1 .. BestN) \X M -> M]
    BY <1>3
  <2>2. \A i \in 1 .. BestN, p \in M : F[<<i, p>>] = IF Turn(p) \in M THEN Turn(p) ELSE a
    OBVIOUS
  <2> HIDE DEF F, M, Good, a
  <2>31. PICK f : Iterates(f, BestN, M, a, F)
    <3>1. BestN \in Nat
      BY <1>1
    <3> QED  BY <2>1, <3>1, Iteration
  <2>3. /\ f \in [0 .. BestN -> M] /\ f[0] = a
        /\ \A i \in 1 .. BestN : f[i] = F[<<i, f[i - 1]>>]
    BY <2>31 DEF Iterates
  <2> DEFINE S == {i \in 0 .. BestN : Good(i, f[i])}
  <2>4. 0 \in S
    BY <1>1, <1>3, <2>3
  <2>5. \A i \in 1 .. BestN : i - 1 \in S => f[i] = Turn(f[i - 1]) /\ i \in S
    <3> SUFFICES ASSUME NEW i \in 1 .. BestN, Good(i - 1, f[i - 1])
                 PROVE  f[i] = Turn(f[i - 1]) /\ Good(i, f[i])
      BY <1>1
    <3>1. Good(i, Turn(f[i - 1]))
      BY <1>4
    <3>2. Turn(f[i - 1]) \in M /\ f[i - 1] \in M
      BY <3>1 DEF Good
    <3>3. f[i] = Turn(f[i - 1])
      BY <2>2, <2>3, <3>2
    <3> QED  BY <3>1, <3>3
  <2>6. 0 .. BestN \subseteq S
    <3> HIDE DEF S
    <3> QED  BY <1>1, <2>4, <2>5, Climb
  <2>7. \A i \in 1 .. BestN : f[i] = Turn(f[i - 1])
    <3> TAKE i \in 1 .. BestN
    <3>1. i - 1 \in 0 .. BestN
      OBVIOUS
    <3> HIDE DEF S
    <3> QED  BY <2>5, <2>6, <3>1
  <2>8. Eqn(f)
    <3>1. \A i \in 0 .. BestN : f[i] = IF i = 0 THEN a ELSE Turn(f[i - 1])
      BY <2>3, <2>7
    <3> QED  BY <2>3, <3>1
  <2> QED  BY <2>8
<1> DEFINE m == CHOOSE g : Eqn(g)
<1>6. Eqn(m)
  BY <1>5
<1>7. Merge(s, total, n) = m[BestN].out
  BY DEF Merge, Turn
<1> HIDE DEF m
<1> DEFINE S == {i \in 0 .. BestN : Good(i, m[i])}
<1>8. 0 \in S
  BY <1>1, <1>3, <1>6
<1>9. \A i \in 1 .. BestN : i - 1 \in S => i \in S
  <2> SUFFICES ASSUME NEW i \in 1 .. BestN, Good(i - 1, m[i - 1]) PROVE Good(i, m[i])
    <3> HIDE DEF Good
    <3> QED  BY <1>1
  <2>1. Good(i, Turn(m[i - 1]))
    BY <1>4
  <2>2. m[i] = Turn(m[i - 1])
    BY <1>6
  <2> HIDE DEF Good
  <2> QED  BY <2>1, <2>2
<1>10. 0 .. BestN \subseteq S
  <2> HIDE DEF S
  <2> QED  BY <1>1, <1>8, <1>9, Climb
<1>11. \A i \in 0 .. BestN : Good(i, m[i])
  <2> HIDE DEF Good
  <2> QED  BY <1>10
<1>12. Merges(s, total, n, X, m)
  <2>1. \A i \in 1 .. BestN : m[i] = Turn(m[i - 1])
    BY <1>6
  <2>2. m \in [0 .. BestN -> M]
    BY <1>6, <1>11
  <2>3. m[0] = a
    BY <1>1, <1>6
  <2> QED  BY <1>7, <1>11, <2>1, <2>2, <2>3 DEF Merges, Turn
<1>13. BestN \in 0 .. BestN
  BY <1>1
<1> QED  BY <1>1, <1>7, <1>11, <1>12, <1>13

\* A crowd: how many of it reach a number.
Crowd(A) == A \in [Nat -> Nat]

\* The k-th entry of a decreasing row a is the k-th best of a crowd of which A[f]
\* reach f.
RowRanks(a, A, N) == \A k \in 1 .. N, f \in Nat : a[k] >= f <=> A[f] >= k

\* Such a row falls.
LEMMA RowFalls ==
  ASSUME NEW N \in Nat, NEW a \in [1 .. N -> Nat], NEW A, Crowd(A), RowRanks(a, A, N),
         NEW k \in 1 .. N, NEW l \in 1 .. N, k <= l
  PROVE  a[k] >= a[l]
<1>1. a[l] \in Nat /\ a[l] >= a[l]
  OBVIOUS
<1>2. A[a[l]] >= l
  BY <1>1 DEF RowRanks
<1>3. A[a[l]] >= k
  <2>1. A[a[l]] \in Nat
    BY <1>1 DEF Crowd
  <2> QED  BY <1>2, <2>1
<1> QED  BY <1>1, <1>3 DEF RowRanks

\* j entries of a and k of b have been taken from two such rows, and none that
\* is left is better than one that was taken: the next best one of both crowds
\* is the better one of the first entries that are left.
LEMMA NextTaken ==
  ASSUME NEW N \in Nat, NEW a \in [1 .. N -> Nat], NEW b \in [1 .. N -> Nat],
         NEW A, NEW B, Crowd(A), Crowd(B), RowRanks(a, A, N), RowRanks(b, B, N),
         NEW j \in Nat, NEW k \in Nat, j < N, k < N,
         j > 0 => a[j] >= b[k + 1], a[j + 1] <= b[k + 1]
  PROVE  /\ \A f \in Nat : b[k + 1] >= f <=> A[f] + B[f] >= j + k + 1
         /\ j > 0 /\ k + 1 < N => a[j] >= b[k + 2]
<1>1. j + 1 \in 1 .. N /\ k + 1 \in 1 .. N /\ a[j + 1] \in Nat /\ b[k + 1] \in Nat
  OBVIOUS
<1>2. ASSUME NEW f \in Nat PROVE b[k + 1] >= f <=> A[f] + B[f] >= j + k + 1
  <2>1. A[f] \in Nat /\ B[f] \in Nat
    BY DEF Crowd
  <2>2. /\ a[j + 1] >= f <=> A[f] >= j + 1
        /\ b[k + 1] >= f <=> B[f] >= k + 1
    BY <1>1 DEF RowRanks
  <2>3. b[k + 1] >= f => A[f] >= j
    <3>1. CASE j = 0
      BY <2>1, <3>1
    <3>2. CASE j # 0
      <4>1. j \in 1 .. N /\ a[j] \in Nat
        BY <3>2
      <4>2. a[j] >= f <=> A[f] >= j
        BY <4>1 DEF RowRanks
      <4> QED  BY <1>1, <3>2, <4>1, <4>2
    <3> QED  BY <3>1, <3>2
  <2> DEFINE x == a[j + 1]
             y == b[k + 1]
  <2>4. x \in Nat /\ y \in Nat /\ x <= y
    BY <1>1
  <2>5. CASE y >= f
    <3>1. A[f] >= j /\ B[f] >= k + 1
      BY <2>2, <2>3, <2>5
    <3> QED  BY SMTT(30), <2>1, <2>5, <3>1
  <2>6. CASE ~(y >= f)
    <3>1. ~(x >= f)
      <4> HIDE DEF x, y
      <4> QED  BY <2>4, <2>6
    <3>2. ~(A[f] >= j + 1) /\ ~(B[f] >= k + 1)
      BY <2>2, <2>6, <3>1
    <3> QED  BY <2>1, <2>6, <3>2
  <2> QED  BY <2>5, <2>6
<1>3. ASSUME j > 0, k + 1 < N PROVE a[j] >= b[k + 2]
  <2>1. k + 2 \in 1 .. N /\ k + 1 <= k + 2 /\ j \in 1 .. N
    BY <1>3
  <2>2. b[k + 1] >= b[k + 2]
    BY <1>1, <2>1, RowFalls
  <2>3. b[k + 2] \in Nat /\ a[j] \in Nat
    BY <2>1
  <2>4. a[j] >= b[k + 1]
    BY <1>3
  <2> DEFINE x == a[j]
             y == b[k + 1]
             z == b[k + 2]
  <2> HIDE DEF x, y, z
  <2>5. x \in Nat /\ y \in Nat /\ z \in Nat /\ x >= y /\ y >= z
    BY <1>1, <2>2, <2>3, <2>4 DEF x, y, z
  <2>6. x >= z
    BY <2>5
  <2> QED  BY <2>6 DEF x, z
<1> QED  BY <1>2, <1>3

\* The fitness of the copies that a best list points at.
Row(s, best) == [k \in 1 .. BestN |-> Fit(s, best[k])]

\* Two crowds together.
Both(A, B) == [f \in Nat |-> A[f] + B[f]]

\* The merge of the best of two crowds has the best of both together.
LEMMA MergeRanks ==
  ASSUME SavedAssumption, NEW s, NEW X, NEW total \in Seq(X), NEW n \in Seq(X),
         Len(total) = BestN, Len(n) = BestN, \A x \in X : Fit(s, x) \in Nat,
         NEW A, NEW B, Crowd(A), Crowd(B),
         RowRanks(Row(s, total), A, BestN), RowRanks(Row(s, n), B, BestN)
  PROVE  RowRanks(Row(s, Merge(s, total, n)), Both(A, B), BestN)
<1> DEFINE a == Row(s, total)
           b == Row(s, n)
<1>1. BestN \in Nat \ {0}
  BY DEF SavedAssumption
<1>2. \A i \in 1 .. BestN : total[i] \in X /\ n[i] \in X
  BY ElementOfSeq
<1>3. /\ a \in [1 .. BestN -> Nat] /\ b \in [1 .. BestN -> Nat]
      /\ \A i \in 1 .. BestN : a[i] = Fit(s, total[i]) /\ b[i] = Fit(s, n[i])
  BY <1>2 DEF Row
<1>4. PICK m : Merges(s, total, n, X, m)
  BY MergeFacts
<1>5. /\ m \in [0 .. BestN -> [j : Nat, k : Nat, out : Seq(X)]]
      /\ m[0] = [j |-> 0, k |-> 0, out |-> <<>>]
      /\ \A i \in 1 .. BestN : m[i] = MergeTurn(s, total, n, m[i - 1])
      /\ \A i \in 0 .. BestN : m[i].j + m[i].k = i /\ Len(m[i].out) = i
      /\ Merge(s, total, n) = m[BestN].out
  BY <1>4 DEF Merges
<1> HIDE DEF a, b
<1> DEFINE Good(i) ==
      /\ \A l \in 1 .. i, f \in Nat : Fit(s, m[i].out[l]) >= f <=> A[f] + B[f] >= l
      /\ m[i].j > 0 /\ m[i].k < BestN => a[m[i].j] >= b[m[i].k + 1]
      /\ m[i].k > 0 /\ m[i].j < BestN => b[m[i].k] >= a[m[i].j + 1]
<1>6. Good(0)
  BY <1>5
<1>7. ASSUME NEW i \in 1 .. BestN, Good(i - 1) PROVE Good(i)
  <2>1. PICK j \in Nat, k \in Nat, out \in Seq(X) :
          m[i - 1] = [j |-> j, k |-> k, out |-> out] /\ j + k = i - 1 /\ Len(out) = i - 1
    <3>1. /\ m[i - 1] \in [j : Nat, k : Nat, out : Seq(X)]
          /\ m[i - 1].j + m[i - 1].k = i - 1 /\ Len(m[i - 1].out) = i - 1
      <4>1. i - 1 \in 0 .. BestN
        BY <1>1
      <4> QED  BY <1>5, <4>1
    <3>2. m[i - 1] = [j |-> m[i - 1].j, k |-> m[i - 1].k, out |-> m[i - 1].out]
      BY <3>1
    <3> QED  BY <3>1, <3>2
  <2>2. /\ j < BestN /\ k < BestN /\ j + 1 \in 1 .. BestN /\ k + 1 \in 1 .. BestN
        /\ i = j + k + 1 /\ i = k + j + 1
    <3>1. j + k = i - 1
      BY <2>1
    <3>2. i \in 1 .. BestN /\ BestN \in Nat
      BY <1>1
    <3> QED  BY <3>1, <3>2
  <2>3. /\ \A l \in 1 .. i - 1, f \in Nat : Fit(s, out[l]) >= f <=> A[f] + B[f] >= l
        /\ j > 0 => a[j] >= b[k + 1]
        /\ k > 0 => b[k] >= a[j + 1]
    BY <1>7, <2>1, <2>2
  <2>4. m[i] = MergeTurn(s, total, n, [j |-> j, k |-> k, out |-> out])
    BY <1>5, <2>1
  <2>5. /\ a[j + 1] = Fit(s, total[j + 1]) /\ b[k + 1] = Fit(s, n[k + 1])
        /\ a[j + 1] \in Nat /\ b[k + 1] \in Nat
        /\ total[j + 1] \in X /\ n[k + 1] \in X
    BY <1>2, <1>3, <2>2
  <2>6. TakesNew(s, total, n, j, k) <=> a[j + 1] < b[k + 1]
    BY <2>5 DEF TakesNew
  <2>60. BestN \in Nat /\ RowRanks(a, A, BestN) /\ RowRanks(b, B, BestN)
    BY <1>1 DEF a, b
  <2>7. ASSUME NEW x \in X, m[i].out = Append(out, x),
               \A f \in Nat : Fit(s, x) >= f <=> A[f] + B[f] >= i
        PROVE  \A l \in 1 .. i, f \in Nat : Fit(s, m[i].out[l]) >= f <=> A[f] + B[f] >= l
    <3>1. /\ \A l \in 1 .. i - 1 : m[i].out[l] = out[l]
          /\ m[i].out[i] = x
      <4>1. /\ \A l \in 1 .. Len(out) : Append(out, x)[l] = out[l]
            /\ Append(out, x)[Len(out) + 1] = x
        BY <2>1, <2>7, AppendProperties
      <4>2. Len(out) = i - 1 /\ i - 1 + 1 = i
        BY <2>1
      <4> QED  BY <2>7, <4>1, <4>2
    <3> TAKE l \in 1 .. i, f \in Nat
    <3>2. CASE l = i
      BY <2>7, <3>1, <3>2
    <3>3. CASE l # i
      <4>1. l \in 1 .. i - 1
        BY <3>3
      <4> QED  BY <2>3, <3>1, <4>1
    <3> QED  BY <3>2, <3>3
  <2>8. CASE TakesNew(s, total, n, j, k)
    <3>1. m[i] = [j |-> j, k |-> k + 1, out |-> Append(out, n[k + 1])]
      BY <2>4, <2>8 DEF MergeTurn
    <3>2. a[j + 1] < b[k + 1]
      BY <2>6, <2>8
    <3>3. /\ \A f \in Nat : b[k + 1] >= f <=> A[f] + B[f] >= j + k + 1
          /\ j > 0 /\ k + 1 < BestN => a[j] >= b[k + 2]
      <4>1. a[j + 1] <= b[k + 1]
        BY <2>5, <3>2
      <4> QED  BY <1>3, <2>2, <2>3, <2>60, <4>1, NextTaken
    <3>4. \A f \in Nat : Fit(s, n[k + 1]) >= f <=> A[f] + B[f] >= i
      BY <2>2, <2>5, <3>3
    <3>5. \A l \in 1 .. i, f \in Nat : Fit(s, m[i].out[l]) >= f <=> A[f] + B[f] >= l
      <4>1. m[i].out = Append(out, n[k + 1]) /\ n[k + 1] \in X
        BY <2>5, <3>1
      <4> QED  BY <2>7, <3>4, <4>1
    <3>6. m[i].j = j /\ m[i].k = k + 1 /\ k + 1 + 1 = k + 2
      BY <3>1
    <3>7. b[k + 1] >= a[j + 1]
      BY <2>5, <3>2
    <3> QED  BY <3>3, <3>5, <3>6, <3>7
  <2>9. CASE ~TakesNew(s, total, n, j, k)
    <3>1. m[i] = [j |-> j + 1, k |-> k, out |-> Append(out, total[j + 1])]
      BY <2>4, <2>9 DEF MergeTurn
    <3>2. b[k + 1] <= a[j + 1]
      BY <2>5, <2>6, <2>9
    <3>3. /\ \A f \in Nat : a[j + 1] >= f <=> B[f] + A[f] >= k + j + 1
          /\ k > 0 /\ j + 1 < BestN => b[k] >= a[j + 2]
      BY <1>3, <2>2, <2>3, <2>60, <3>2, NextTaken
    <3>4. \A f \in Nat : Fit(s, total[j + 1]) >= f <=> A[f] + B[f] >= i
      <4>1. \A f \in Nat : A[f] + B[f] = B[f] + A[f]
        BY DEF Crowd
      <4> QED  BY <2>2, <2>5, <3>3, <4>1
    <3>5. \A l \in 1 .. i, f \in Nat : Fit(s, m[i].out[l]) >= f <=> A[f] + B[f] >= l
      <4>1. m[i].out = Append(out, total[j + 1]) /\ total[j + 1] \in X
        BY <2>5, <3>1
      <4> QED  BY <2>7, <3>4, <4>1
    <3>6. m[i].k = k /\ m[i].j = j + 1 /\ j + 1 + 1 = j + 2
      BY <3>1
    <3>7. a[j + 1] >= b[k + 1]
      BY <2>5, <3>2
    <3> QED  BY <3>3, <3>5, <3>6, <3>7
  <2> QED  BY <2>8, <2>9
<1> DEFINE S == {i \in 0 .. BestN : Good(i)}
<1>8. BestN \in S
  <2> HIDE DEF Good
  <2>1. 0 \in S
    BY <1>1, <1>6
  <2>2. \A i \in 1 .. BestN : i - 1 \in S => i \in S
    BY <1>1, <1>7
  <2>3. 0 .. BestN \subseteq S
    <3> HIDE DEF S
    <3> QED  BY <1>1, <2>1, <2>2, Climb
  <2> QED  BY <1>1, <2>3
<1>9. \A l \in 1 .. BestN, f \in Nat :
        Fit(s, Merge(s, total, n)[l]) >= f <=> A[f] + B[f] >= l
  BY <1>5, <1>8
<1> QED  BY <1>9 DEF RowRanks, Row, Both

\* The lesser of two numbers.
LEMMA SmallerOf ==
  ASSUME NEW a \in Nat, NEW b \in Nat
  PROVE  Min({a, b}) = IF a <= b THEN a ELSE b
<1> DEFINE m == IF a <= b THEN a ELSE b
<1>1. m \in {a, b} /\ \A y \in {a, b} : m <= y
  OBVIOUS
<1>2. \A x \in {a, b} : (\A y \in {a, b} : x <= y) => x = m
  OBVIOUS
<1> HIDE DEF m
<1>3. (CHOOSE x \in {a, b} : \A y \in {a, b} : x <= y) = m
  BY <1>1, <1>2
<1> QED  BY <1>3 DEF Min, m

\* The individuals of a population have natural fitness values.
Rated(pop) == \A k \in Slot : pop[k].fit \in Nat

\* Slot i stands behind the first ahead entries, the last of which is fitter
\* than it and none of the others is.
Inserted(top, pop, i, t, ahead) ==
  /\ \A k \in 1 .. Len(t) : t[k] = IF k <= ahead THEN top[k]
                                   ELSE IF k = ahead + 1 THEN i ELSE top[k - 1]
  /\ \A j \in ahead + 1 .. Len(top) : pop[top[j]].fit <= pop[i].fit
  /\ ahead > 0 => pop[top[ahead]].fit > pop[i].fit

\* Slot i is put into a best list behind all that are fitter.
LEMMA InsertTopFacts ==
  ASSUME SavedAssumption, NEW pop, Rated(pop), NEW i \in Slot,
         NEW top \in Seq(Slot), Len(top) > 0, Len(top) <= BestN
  PROVE  LET t == InsertTop(top, pop, i)
         IN /\ t \in Seq(Slot)
            /\ Len(t) = IF Len(top) < BestN THEN Len(top) + 1 ELSE BestN
            /\ \A k \in 1 .. Len(t) : t[k] = i \/ \E j \in 1 .. Len(top) : t[k] = top[j]
            /\ \/ t[1] = i /\ \A j \in 1 .. Len(top) : pop[top[j]].fit <= pop[i].fit
               \/ t[1] = top[1] /\ \E j \in 1 .. Len(top) : pop[top[j]].fit > pop[i].fit
            /\ \E ahead \in 0 .. Len(top) : Inserted(top, pop, i, t, ahead)
<1> DEFINE t == InsertTop(top, pop, i)
           Fitter == {j \in DOMAIN top : pop[top[j]].fit > pop[i].fit}
           ahead == Max({0} \cup Fitter)
           left == SubSeq(top, 1, ahead)
           right == SubSeq(top, ahead + 1, Len(top))
           all == left \o <<i>> \o right
<1>1. /\ Len(top) \in Nat \ {0} /\ DOMAIN top = 1 .. Len(top) /\ BestN \in Nat \ {0}
      /\ \A j \in 1 .. Len(top) : top[j] \in Slot
  BY EntriesOf, ElementOfSeq DEF SavedAssumption
<1>2. ahead \in {0} \cup Fitter /\ \A j \in {0} \cup Fitter : ahead >= j
  <2> DEFINE S == {0} \cup Fitter
  <2>1. S \in SUBSET Nat /\ S # {} /\ \A x \in S : x <= Len(top)
    BY <1>1
  <2> HIDE DEF S
  <2>2. \E x \in S : \A y \in S : x >= y
    BY <1>1, <2>1, GreatestNumber
  <2>3. Max(S) \in S /\ \A y \in S : Max(S) >= y
    BY <2>2 DEF Max
  <2> QED  BY <2>3 DEF S
<1>3. ahead \in 0 .. Len(top)
  <2>1. {0} \cup Fitter \subseteq 0 .. Len(top)
    BY <1>1
  <2> HIDE DEF ahead, Fitter
  <2> QED  BY <1>2, <2>1
<1> HIDE DEF ahead
<1>4. /\ left \in Seq(Slot) /\ Len(left) = ahead
      /\ \A k \in 1 .. ahead : left[k] = top[k]
  <2>1. \A k \in 1 .. ahead : top[k] \in Slot
    BY <1>1, <1>3
  <2>2. 1 \in Int /\ ahead \in Int
    BY <1>3
  <2>3. /\ left \in Seq(Slot) /\ Len(left) = IF 1 <= ahead THEN ahead - 1 + 1 ELSE 0
        /\ \A k \in 1 .. ahead - 1 + 1 : left[k] = top[1 + k - 1]
    BY <2>1, <2>2, SubSeqProperties
  <2>4. ahead - 1 + 1 = ahead /\ \A k \in 1 .. ahead : 1 + k - 1 = k
    BY <1>3
  <2>5. Len(left) = ahead
    BY <1>3, <2>3, <2>4
  <2> HIDE DEF left
  <2> QED  BY <2>3, <2>4, <2>5
<1>5. /\ right \in Seq(Slot) /\ Len(right) = Len(top) - ahead
      /\ \A k \in 1 .. Len(top) - ahead : right[k] = top[ahead + k]
  <2>1. \A k \in ahead + 1 .. Len(top) : top[k] \in Slot
    BY <1>1, <1>3
  <2>2. ahead + 1 \in Int /\ Len(top) \in Int
    BY <1>1, <1>3
  <2>3. /\ right \in Seq(Slot)
        /\ Len(right) = IF ahead + 1 <= Len(top) THEN Len(top) - (ahead + 1) + 1 ELSE 0
        /\ \A k \in 1 .. Len(top) - (ahead + 1) + 1 : right[k] = top[ahead + 1 + k - 1]
    BY <2>1, <2>2, SubSeqProperties
  <2>4. /\ Len(top) - (ahead + 1) + 1 = Len(top) - ahead
        /\ \A k \in 1 .. Len(top) - ahead : ahead + 1 + k - 1 = ahead + k
    BY <1>1, <1>3
  <2>5. Len(right) = Len(top) - ahead
    <3> HIDE DEF right
    <3>1. CASE ahead + 1 <= Len(top)
      BY <2>3, <2>4, <3>1
    <3>2. CASE ~(ahead + 1 <= Len(top))
      <4>0. ahead \in Int /\ Len(top) \in Int /\ ahead <= Len(top)
        BY <1>1, <1>3
      <4>1. Len(top) - ahead = 0
        BY <3>2, <4>0
      <4> QED  BY <2>3, <3>2, <4>1
    <3> QED  BY <3>1, <3>2
  <2> HIDE DEF right
  <2> QED  BY <2>3, <2>4, <2>5
<1> HIDE DEF left, right
<1>6. /\ all \in Seq(Slot) /\ Len(all) = Len(top) + 1
      /\ \A k \in 1 .. Len(top) + 1 :
           all[k] = IF k <= ahead THEN top[k] ELSE IF k = ahead + 1 THEN i ELSE top[k - 1]
  <2> DEFINE mid == left \o <<i>>
  <2>1. <<i>> \in Seq(Slot) /\ Len(<<i>>) = 1 /\ <<i>>[1] = i
    OBVIOUS
  <2>2. /\ mid \in Seq(Slot) /\ Len(mid) = ahead + 1
        /\ \A k \in 1 .. ahead + 1 : mid[k] = IF k <= ahead THEN left[k] ELSE <<i>>[k - ahead]
    BY <1>4, <2>1, ConcatProperties
  <2>3. mid[ahead + 1] = i /\ \A k \in 1 .. ahead : mid[k] = top[k]
    <3>1. ahead + 1 \in 1 .. ahead + 1 /\ ~(ahead + 1 <= ahead) /\ ahead + 1 - ahead = 1
      BY <1>3
    <3>2. \A k \in 1 .. ahead : k \in 1 .. ahead + 1 /\ k <= ahead
      BY <1>3
    <3> HIDE DEF mid
    <3> QED  BY <1>4, <2>1, <2>2, <3>1, <3>2
  <2> HIDE DEF mid
  <2>4. /\ mid \o right \in Seq(Slot)
        /\ Len(mid \o right) = Len(mid) + Len(right)
        /\ \A k \in 1 .. Len(mid) + Len(right) :
             (mid \o right)[k] = IF k <= Len(mid) THEN mid[k] ELSE right[k - Len(mid)]
    BY <1>5, <2>2, ConcatProperties
  <2>5. Len(mid) + Len(right) = Len(top) + 1
    BY <1>1, <1>3, <1>5, <2>2
  <2>6. ASSUME NEW k \in 1 .. Len(top) + 1
        PROVE  (mid \o right)[k] = IF k <= ahead THEN top[k]
                                   ELSE IF k = ahead + 1 THEN i ELSE top[k - 1]
    <3>1. (mid \o right)[k] = IF k <= ahead + 1 THEN mid[k] ELSE right[k - (ahead + 1)]
      BY <2>2, <2>4, <2>5
    <3>2. CASE k <= ahead
      BY <1>3, <2>3, <3>1, <3>2
    <3>3. CASE k = ahead + 1
      BY <1>3, <2>3, <3>1, <3>3
    <3>4. CASE k > ahead + 1
      <4>1. k - (ahead + 1) \in 1 .. Len(top) - ahead /\ ahead + (k - (ahead + 1)) = k - 1
        BY <1>1, <1>3, <3>4
      <4>2. right[k - (ahead + 1)] = top[k - 1]
        BY <1>5, <4>1
      <4> QED  BY <1>3, <3>1, <3>4, <4>2
    <3>5. k <= ahead \/ k = ahead + 1 \/ k > ahead + 1
      BY <1>1, <1>3
    <3> QED  BY <3>2, <3>3, <3>4, <3>5
  <2>7. all = mid \o right
    BY DEF mid
  <2> QED  BY <2>4, <2>5, <2>6, <2>7
<1> HIDE DEF all
<1> DEFINE N == IF Len(top) < BestN THEN Len(top) + 1 ELSE BestN
<1>7. t = SubSeq(all, 1, N)
  <2>1. t = SubSeq(all, 1, Min({BestN, Len(all)}))
    BY DEF InsertTop, all, left, right, ahead
  <2>2. Min({BestN, Len(all)}) = IF BestN <= Len(all) THEN BestN ELSE Len(all)
    BY <1>1, <1>6, SmallerOf
  <2>3. Min({BestN, Len(all)}) = N
    BY <1>1, <1>6, <2>2
  <2> QED  BY <2>1, <2>3
<1>8. N \in 1 .. Len(top) + 1
  BY <1>1
<1> HIDE DEF N, t
<1>9. t \in Seq(Slot) /\ Len(t) = N /\ \A k \in 1 .. N : t[k] = all[k]
  <2>1. \A k \in 1 .. N : all[k] \in Slot
    BY <1>1, <1>6, <1>8, ElementOfSeq
  <2>2. 1 \in Int /\ N \in Int
    BY <1>1, <1>8
  <2>3. /\ t \in Seq(Slot) /\ Len(t) = IF 1 <= N THEN N - 1 + 1 ELSE 0
        /\ \A k \in 1 .. N - 1 + 1 : t[k] = all[1 + k - 1]
    BY <1>7, <2>1, <2>2, SubSeqProperties
  <2>4. N - 1 + 1 = N /\ 1 <= N /\ \A k \in 1 .. N : 1 + k - 1 = k
    BY <1>1, <1>8
  <2> QED  BY <2>3, <2>4
<1>10. \A k \in 1 .. Len(t) : t[k] = i \/ \E j \in 1 .. Len(top) : t[k] = top[j]
  <2> SUFFICES ASSUME NEW k \in 1 .. N
               PROVE  t[k] = i \/ \E j \in 1 .. Len(top) : t[k] = top[j]
    BY <1>9
  <2>1. k \in 1 .. Len(top) + 1 /\ t[k] = all[k]
    BY <1>1, <1>8, <1>9
  <2>2. CASE k <= ahead
    <3>1. k \in 1 .. Len(top) /\ t[k] = top[k]
      BY <1>1, <1>3, <1>6, <2>1, <2>2
    <3> QED  BY <3>1
  <2>3. CASE k = ahead + 1
    BY <1>3, <1>6, <2>1, <2>3
  <2>4. CASE k > ahead + 1
    <3>1. k - 1 \in 1 .. Len(top) /\ t[k] = top[k - 1]
      BY <1>1, <1>3, <1>6, <2>1, <2>4
    <3> QED  BY <3>1
  <2> QED  BY <1>3, <2>1, <2>2, <2>3, <2>4
<1>11. t[1] = all[1]
  BY <1>1, <1>8, <1>9
<1>20. Inserted(top, pop, i, t, ahead)
  <2>1. \A k \in 1 .. Len(t) : t[k] = IF k <= ahead THEN top[k]
                                     ELSE IF k = ahead + 1 THEN i ELSE top[k - 1]
    BY <1>1, <1>6, <1>8, <1>9
  <2>2. \A j \in ahead + 1 .. Len(top) : pop[top[j]].fit <= pop[i].fit
    <3> TAKE j \in ahead + 1 .. Len(top)
    <3>1. j \in 1 .. Len(top) /\ ~(ahead >= j)
      BY <1>1, <1>3
    <3>2. j \notin Fitter
      BY <1>2, <3>1
    <3>3. pop[top[j]].fit \in Nat /\ pop[i].fit \in Nat
      BY <1>1, <3>1 DEF Rated
    <3> QED  BY <1>1, <3>1, <3>2, <3>3
  <2>3. ahead > 0 => pop[top[ahead]].fit > pop[i].fit
    BY <1>2, <1>3
  <2> QED  BY <2>1, <2>2, <2>3 DEF Inserted
<1>12. CASE ahead = 0
  <2>1. t[1] = i
    BY <1>1, <1>6, <1>11, <1>12
  <2>2. \A j \in 1 .. Len(top) : pop[top[j]].fit <= pop[i].fit
    <3> TAKE j \in 1 .. Len(top)
    <3>1. j \notin Fitter
      BY <1>2, <1>12
    <3>2. pop[top[j]].fit \in Nat /\ pop[i].fit \in Nat
      BY <1>1 DEF Rated
    <3> QED  BY <1>1, <3>1, <3>2
  <2> QED  BY <1>3, <1>9, <1>10, <1>20, <2>1, <2>2 DEF t, N
<1>13. CASE ahead # 0
  <2>1. t[1] = top[1]
    BY <1>1, <1>3, <1>6, <1>11, <1>13
  <2>2. \E j \in 1 .. Len(top) : pop[top[j]].fit > pop[i].fit
    BY <1>1, <1>2, <1>13
  <2> QED  BY <1>3, <1>9, <1>10, <1>20, <2>1, <2>2 DEF t, N
<1> QED  BY <1>12, <1>13

\* How many members of a set of individuals reach a fitness.
Reached(pop, S, f) == Cardinality({k \in S : pop[k].fit >= f})

\* A best list t of the slots 1 .. i: its k-th entry is the k-th fittest of them,
\* that is, it reaches whatever fitness k of them reach, and no other.
TopRanks(pop, t, i) ==
  \A k \in 1 .. Len(t), f \in Nat : pop[t[k]].fit >= f <=> Reached(pop, 1 .. i, f) >= k

\* A best list of the first slots is one of them and the next slot, after it has
\* been put in.
LEMMA InsertTopRanks ==
  ASSUME SavedAssumption, NEW pop, Rated(pop), NEW i \in Slot, i # 1,
         NEW top \in Seq(Slot), Len(top) = IF i - 1 < BestN THEN i - 1 ELSE BestN,
         TopRanks(pop, top, i - 1)
  PROVE  TopRanks(pop, InsertTop(top, pop, i), i)
<1> DEFINE t == InsertTop(top, pop, i)
           m == Len(top)
           R(f) == Reached(pop, 1 .. i - 1, f)
<1>1. /\ BestN \in Nat \ {0} /\ i \in Nat /\ i - 1 \in Nat \ {0} /\ m \in Nat \ {0}
      /\ m <= BestN /\ m <= i - 1 /\ m < BestN => m = i - 1
      /\ \A k \in 1 .. i - 1 : k \in Slot
  BY DEF SavedAssumption, Slot
<1>2. /\ Len(t) = IF m < BestN THEN m + 1 ELSE BestN
      /\ \E ahead \in 0 .. m : Inserted(top, pop, i, t, ahead)
  BY <1>1, InsertTopFacts
<1>3. PICK ahead \in 0 .. m : Inserted(top, pop, i, t, ahead)
  BY <1>2
<1>4. /\ \A k \in 1 .. Len(t) : t[k] = IF k <= ahead THEN top[k]
                                       ELSE IF k = ahead + 1 THEN i ELSE top[k - 1]
      /\ \A j \in ahead + 1 .. m : pop[top[j]].fit <= pop[i].fit
      /\ ahead > 0 => pop[top[ahead]].fit > pop[i].fit
  BY <1>3 DEF Inserted
<1>5. /\ pop[i].fit \in Nat
      /\ \A j \in 1 .. m : pop[top[j]].fit \in Nat
  <2>1. \A j \in 1 .. m : top[j] \in Slot
    BY ElementOfSeq
  <2> QED  BY <2>1 DEF Rated
<1>6. ASSUME NEW f \in Nat
      PROVE  /\ R(f) \in Nat /\ R(f) <= i - 1
             /\ Reached(pop, 1 .. i, f) = IF pop[i].fit >= f THEN R(f) + 1 ELSE R(f)
  <2> DEFINE A == {k \in 1 .. i - 1 : pop[k].fit >= f}
             B == {k \in 1 .. i : pop[k].fit >= f}
  <2>1. IsFiniteSet(1 .. i - 1) /\ Cardinality(1 .. i - 1) = i - 1
    BY <1>1, FS_Interval
  <2>2. IsFiniteSet(A) /\ Cardinality(A) <= i - 1 /\ Cardinality(A) \in Nat
    BY <2>1, FS_Subset, FS_CardinalityType
  <2>3. \A k : k \in 1 .. i <=> k \in 1 .. i - 1 \/ k = i
    BY <1>1
  <2>4. i \notin A
    BY <1>1
  <2>5. CASE pop[i].fit >= f
    <3>1. B = A \cup {i}
      BY <2>3, <2>5
    <3> HIDE DEF A, B
    <3>2. Cardinality(B) = Cardinality(A) + 1
      BY <2>2, <2>4, <3>1, FS_AddElement
    <3> QED  BY <2>2, <2>5, <3>2 DEF Reached, A, B
  <2>6. CASE ~(pop[i].fit >= f)
    <3>1. B = A
      BY <2>3, <2>6
    <3> QED  BY <2>2, <2>6, <3>1 DEF Reached
  <2> QED  BY <2>5, <2>6
<1>7. \A k \in 1 .. m, f \in Nat : pop[top[k]].fit >= f <=> R(f) >= k
  BY DEF TopRanks
<1> HIDE DEF t, m, R
<1> SUFFICES ASSUME NEW k \in 1 .. Len(t), NEW f \in Nat
             PROVE  pop[t[k]].fit >= f <=> Reached(pop, 1 .. i, f) >= k
  BY DEF TopRanks, t
<1>8. k \in 1 .. m + 1 /\ k <= BestN
  BY <1>1, <1>2
<1>81. /\ R(f) \in Nat /\ R(f) <= i - 1 /\ k \in Nat \ {0} /\ ahead \in Nat
       /\ Reached(pop, 1 .. i, f) = IF pop[i].fit >= f THEN R(f) + 1 ELSE R(f)
  <2>1. k \in Nat \ {0} /\ ahead \in Nat
    BY <1>1, <1>8
  <2> QED  BY <1>6, <2>1
<1>9. CASE k <= ahead
  <2>1. t[k] = top[k] /\ k \in 1 .. m /\ ahead \in 1 .. m
    BY <1>1, <1>4, <1>8, <1>9
  <2>2. pop[t[k]].fit >= f <=> R(f) >= k
    BY <1>1, <1>8, <1>7, <2>1
  <2>3. CASE pop[i].fit >= f
    <3>1. pop[top[ahead]].fit >= f
      BY <1>1, <1>8, <1>4, <1>5, <2>1, <2>3
    <3>2. R(f) >= ahead
      BY <1>1, <1>8, <1>7, <2>1, <3>1
    <3> QED  BY <1>1, <1>8, <1>81, <1>9, <2>2, <2>3, <3>2
  <2>4. CASE ~(pop[i].fit >= f)
    BY <1>1, <1>8, <1>81, <2>2, <2>4
  <2> QED  BY <2>3, <2>4
<1>10. CASE k = ahead + 1
  <2>1. t[k] = i
    BY <1>1, <1>8, <1>4, <1>10
  <2>2. CASE pop[i].fit >= f
    <3>1. R(f) >= ahead
      <4>1. CASE ahead = 0
        BY <1>1, <1>8, <1>81, <4>1
      <4>2. CASE ahead # 0
        <5>1. ahead \in 1 .. m /\ pop[top[ahead]].fit >= f
          BY <1>8, <1>1, <1>4, <1>5, <2>2, <4>2
        <5> QED  BY <1>1, <1>8, <1>7, <5>1
      <4> QED  BY <4>1, <4>2
    <3> QED  BY <1>1, <1>8, <1>81, <1>10, <2>1, <2>2, <3>1
  <2>3. CASE ~(pop[i].fit >= f)
    <3>1. ~(R(f) >= k)
      <4>1. CASE ahead = m
        BY <1>1, <1>81, <1>8, <1>10, <4>1
      <4>2. CASE ahead # m
        <5>1. k \in 1 .. m /\ pop[top[k]].fit <= pop[i].fit
          BY <1>8, <1>1, <1>4, <1>10, <4>2
        <5>2. ~(pop[top[k]].fit >= f)
          BY <1>1, <1>8, <1>5, <2>3, <5>1
        <5> QED  BY <1>1, <1>8, <1>7, <5>1, <5>2
      <4> QED  BY <4>1, <4>2
    <3> QED  BY <1>1, <1>8, <1>81, <2>1, <2>3, <3>1
  <2> QED  BY <2>2, <2>3
<1>11. CASE k > ahead + 1
  <2>1. t[k] = top[k - 1] /\ k - 1 \in 1 .. m /\ k - 1 \in ahead + 1 .. m
    BY <1>1, <1>4, <1>8, <1>11
  <2>2. pop[t[k]].fit >= f <=> R(f) >= k - 1
    BY <1>1, <1>8, <1>7, <2>1
  <2>3. CASE pop[i].fit >= f
    BY <1>1, <1>8, <1>81, <2>2, <2>3
  <2>4. CASE ~(pop[i].fit >= f)
    <3>1. ~(pop[t[k]].fit >= f)
      BY SMTT(30), <1>1, <1>8, <1>4, <1>5, <2>1, <2>4
    <3> QED  BY <1>1, <1>8, <1>81, <2>2, <2>4, <3>1
  <2> QED  BY <2>3, <2>4
<1> QED  BY <1>8, <1>9, <1>10, <1>11

\* The best list of a population is full, it is a best list of all slots, and
\* its first entry is a best individual of the population.
LEMMA TopSlotsFacts ==
  ASSUME SavedAssumption, NEW pop, Rated(pop)
  PROVE  /\ TopSlots(pop) \in Seq(Slot) /\ Len(TopSlots(pop)) = BestN
         /\ \A k \in Slot : pop[k].fit <= pop[TopSlots(pop)[1]].fit
         /\ TopRanks(pop, TopSlots(pop), PopSize)
<1> DEFINE M == Seq(Slot)
           a == <<1>>
           Turn(i, t) == InsertTop(t, pop, i)
           Good(i, t) == /\ t \in M /\ Len(t) = IF i < BestN THEN i ELSE BestN
                         /\ \A k \in 1 .. Len(t) : t[k] \in 1 .. i
                         /\ \A k \in 1 .. i : pop[k].fit <= pop[t[1]].fit
                         /\ TopRanks(pop, t, i)
           Eqn(m) == m = [i \in Slot |-> IF i = 1 THEN a ELSE Turn(i, m[i - 1])]
           n == PopSize - 1
<1>1. /\ BestN \in Nat \ {0} /\ PopSize \in Nat \ {0} /\ BestN <= PopSize
      /\ n \in Nat /\ \A i \in Slot : i \in 1 .. PopSize /\ i - 1 \in 0 .. n
  BY DEF SavedAssumption, Slot
<1>2. \A k \in Slot : pop[k].fit \in Nat
  BY DEF Rated
<1>3. Good(1, a)
  <2>1. 1 \in Slot
    BY <1>1 DEF Slot
  <2>2. a \in Seq(Slot) /\ Len(a) = 1 /\ a[1] = 1
    BY <2>1
  <2>3. (IF 1 < BestN THEN 1 ELSE BestN) = 1
    BY <1>1
  <2>4. pop[1].fit <= pop[1].fit
    BY <1>2, <2>1
  <2> HIDE DEF a
  <2>5. \A k \in 1 .. Len(a) : a[k] \in 1 .. 1
    BY <2>2
  <2>6. \A k \in 1 .. 1 : pop[k].fit <= pop[a[1]].fit
    BY <2>2, <2>4
  <2>7. TopRanks(pop, a, 1)
    <3> SUFFICES ASSUME NEW f \in Nat
                 PROVE  pop[1].fit >= f <=> Reached(pop, 1 .. 1, f) >= 1
      BY <2>2 DEF TopRanks
    <3>1. CASE pop[1].fit >= f
      <4>1. {k \in 1 .. 1 : pop[k].fit >= f} = {1}
        BY <3>1
      <4>2. Cardinality({1}) = 1
        BY FS_Singleton
      <4> QED  BY <3>1, <4>1, <4>2 DEF Reached
    <3>2. CASE ~(pop[1].fit >= f)
      <4>1. {k \in 1 .. 1 : pop[k].fit >= f} = {}
        BY <3>2
      <4>2. Cardinality({}) = 0
        BY FS_EmptySet
      <4> QED  BY <3>2, <4>1, <4>2 DEF Reached
    <3> QED  BY <3>1, <3>2
  <2> QED  BY <2>2, <2>3, <2>5, <2>6, <2>7
<1>4. ASSUME NEW i \in Slot, i # 1, NEW t, Good(i - 1, t) PROVE Good(i, Turn(i, t))
  <2>1. /\ i \in Nat /\ i - 1 \in Nat \ {0} /\ i - 1 <= PopSize
        /\ \A k \in 1 .. i - 1 : k \in Slot
    BY <1>1, <1>4 DEF Slot
  <2>2. t \in Seq(Slot) /\ Len(t) \in Nat /\ Len(t) > 0 /\ Len(t) <= BestN
    BY <1>1, <1>4, <2>1
  <2> DEFINE u == Turn(i, t)
  <2>3. /\ u \in Seq(Slot)
        /\ Len(u) = IF Len(t) < BestN THEN Len(t) + 1 ELSE BestN
        /\ \A k \in 1 .. Len(u) : u[k] = i \/ \E j \in 1 .. Len(t) : u[k] = t[j]
        /\ \/ u[1] = i /\ \A j \in 1 .. Len(t) : pop[t[j]].fit <= pop[i].fit
           \/ u[1] = t[1] /\ \E j \in 1 .. Len(t) : pop[t[j]].fit > pop[i].fit
    BY <2>2, InsertTopFacts
  <2> HIDE DEF u
  <2>4. Len(u) = IF i < BestN THEN i ELSE BestN
    BY <1>1, <1>4, <2>1, <2>2, <2>3
  <2>5. \A k \in 1 .. Len(u) : u[k] \in 1 .. i
    <3>1. \A j \in 1 .. Len(t) : t[j] \in 1 .. i
      BY <1>4, <2>1
    <3>2. i \in 1 .. i
      BY <2>1
    <3> QED  BY <2>3, <3>1, <3>2
  <2>6. \A k \in 1 .. i : pop[k].fit <= pop[u[1]].fit
    <3>1. /\ 1 \in 1 .. Len(t) /\ t[1] \in 1 .. i - 1 /\ t[1] \in Slot
          /\ \A j \in 1 .. Len(t) : t[j] \in 1 .. i - 1
      BY <1>4, <2>1, <2>2
    <3>2. \A k \in 1 .. i : k \in 1 .. i - 1 \/ k = i
      BY <2>1
    <3>3. pop[i].fit \in Nat /\ pop[t[1]].fit \in Nat /\ \A k \in 1 .. i - 1 : pop[k].fit \in Nat
      BY <1>2, <2>1, <3>1
    <3>4. \A k \in 1 .. i - 1 : pop[k].fit <= pop[t[1]].fit
      BY <1>4
    <3>5. CASE u[1] = i /\ pop[t[1]].fit <= pop[i].fit
      <4>1. \A k \in 1 .. i - 1 : pop[k].fit <= pop[i].fit
        BY <3>3, <3>4, <3>5
      <4>2. pop[i].fit <= pop[i].fit
        BY <3>3
      <4> QED  BY <3>2, <3>5, <4>1, <4>2
    <3>6. CASE u[1] = t[1] /\ \E j \in 1 .. Len(t) : pop[t[j]].fit > pop[i].fit
      <4>1. PICK j \in 1 .. Len(t) : pop[t[j]].fit > pop[i].fit
        BY <3>6
      <4>2. pop[t[j]].fit <= pop[t[1]].fit /\ pop[t[j]].fit \in Nat
        BY <3>1, <3>3, <3>4
      <4>3. pop[i].fit <= pop[t[1]].fit
        BY <3>3, <4>1, <4>2
      <4> QED  BY <3>2, <3>4, <3>6, <4>3
    <3> QED  BY <2>3, <3>1, <3>5, <3>6
  <2>7. TopRanks(pop, u, i)
    BY <1>4, InsertTopRanks DEF u
  <2> QED  BY <2>3, <2>4, <2>5, <2>6, <2>7 DEF u
<1> HIDE DEF Turn
<1>5. \E m : Eqn(m)
  <2> DEFINE F == [q \in (1 .. n) \X M |->
                    IF Turn(q[1] + 1, q[2]) \in M THEN Turn(q[1] + 1, q[2]) ELSE a]
  <2>1. a \in M /\ F \in [(1 .. n) \X M -> M]
    BY <1>3
  <2>2. \A i \in 1 .. n, p \in M :
          F[<<i, p>>] = IF Turn(i + 1, p) \in M THEN Turn(i + 1, p) ELSE a
    OBVIOUS
  <2> HIDE DEF F, M, Good, a, n
  <2>31. PICK f : Iterates(f, n, M, a, F)
    BY <1>1, <2>1, Iteration
  <2>3. /\ f \in [0 .. n -> M] /\ f[0] = a
        /\ \A i \in 1 .. n : f[i] = F[<<i, f[i - 1]>>]
    BY <2>31 DEF Iterates
  <2> DEFINE S == {i \in 0 .. n : Good(i + 1, f[i])}
  <2>4. 0 \in S
    BY <1>1, <1>3, <2>3
  <2>5. \A i \in 1 .. n : i - 1 \in S => f[i] = Turn(i + 1, f[i - 1]) /\ i \in S
    <3> SUFFICES ASSUME NEW i \in 1 .. n, Good(i - 1 + 1, f[i - 1])
                 PROVE  f[i] = Turn(i + 1, f[i - 1]) /\ Good(i + 1, f[i])
      BY <1>1
    <3>0. /\ i + 1 \in Slot /\ i + 1 # 1 /\ i + 1 - 1 = i - 1 + 1
      BY <1>1 DEF Slot, n
    <3>1. Good(i + 1, Turn(i + 1, f[i - 1]))
      BY <1>4, <3>0
    <3>2. Turn(i + 1, f[i - 1]) \in M /\ f[i - 1] \in M
      BY <3>1 DEF Good
    <3>3. f[i] = Turn(i + 1, f[i - 1])
      BY <2>2, <2>3, <3>2
    <3> QED  BY <3>1, <3>3
  <2>6. 0 .. n \subseteq S
    <3> HIDE DEF S
    <3> QED  BY <1>1, <2>4, <2>5, Climb
  <2>7. \A i \in 1 .. n : f[i] = Turn(i + 1, f[i - 1])
    <3> TAKE i \in 1 .. n
    <3>1. i - 1 \in 0 .. n
      BY <1>1
    <3> HIDE DEF S
    <3> QED  BY <2>5, <2>6, <3>1
  <2> DEFINE m == [i \in Slot |-> f[i - 1]]
  <2>8. \A i \in Slot : m[i] = IF i = 1 THEN a ELSE Turn(i, m[i - 1])
    <3> TAKE i \in Slot
    <3>1. CASE i = 1
      BY <2>3, <3>1
    <3>2. CASE i # 1
      <4>1. i - 1 \in 1 .. n /\ i - 1 \in Slot /\ i - 1 + 1 = i
        BY <1>1, <3>2 DEF Slot, n
      <4>2. f[i - 1] = Turn(i, f[i - 1 - 1])
        <5>1. f[i - 1] = Turn(i - 1 + 1, f[i - 1 - 1])
          BY <2>7, <4>1
        <5> QED  BY <4>1, <5>1
      <4>3. m[i] = f[i - 1] /\ m[i - 1] = f[i - 1 - 1]
        BY <4>1
      <4> HIDE DEF m
      <4> QED  BY <3>2, <4>2, <4>3
    <3> QED  BY <3>1, <3>2
  <2>9. Eqn(m)
    <3>1. m = [i \in Slot |-> m[i]]
      OBVIOUS
    <3> HIDE DEF m
    <3> QED  BY <2>8, <3>1
  <2> QED  BY <2>9
<1> DEFINE m == CHOOSE g : Eqn(g)
<1>6. Eqn(m)
  BY <1>5
<1>7. TopSlots(pop) = m[PopSize]
  BY DEF TopSlots, Turn
<1> HIDE DEF m
<1> DEFINE S == {i \in 0 .. n : Good(i + 1, m[i + 1])}
<1>8. 0 \in S
  <2>1. 1 \in Slot /\ 0 + 1 = 1
    BY <1>1 DEF Slot
  <2>2. m[1] = a
    BY <1>6, <2>1
  <2>3. Good(0 + 1, m[0 + 1])
    <3> HIDE DEF Good, a
    <3> QED  BY <1>3, <2>1, <2>2
  <2> HIDE DEF Good
  <2> QED  BY <1>1, <2>3
<1>9. \A i \in 1 .. n : i - 1 \in S => i \in S
  <2> SUFFICES ASSUME NEW i \in 1 .. n, Good(i - 1 + 1, m[i - 1 + 1])
               PROVE  Good(i + 1, m[i + 1])
    <3> HIDE DEF Good
    <3> QED  BY <1>1
  <2>1. i + 1 \in Slot /\ i + 1 # 1 /\ i + 1 - 1 = i - 1 + 1 /\ i - 1 + 1 = i
    BY <1>1 DEF Slot
  <2> HIDE DEF Good
  <2>2. Good(i + 1, Turn(i + 1, m[i]))
    BY <1>4, <2>1
  <2>3. m[i + 1] = Turn(i + 1, m[i])
    BY <1>6, <2>1
  <2> QED  BY <2>2, <2>3
<1>10. n \in S
  <2>1. 0 .. n \subseteq S
    <3> HIDE DEF S, n
    <3> QED  BY <1>1, <1>8, <1>9, Climb
  <2>2. n \in 0 .. n
    BY <1>1
  <2> HIDE DEF S, n
  <2> QED  BY <2>1, <2>2
<1>11. Good(PopSize, m[PopSize])
  <2>1. n + 1 = PopSize
    BY <1>1
  <2> HIDE DEF n, Good
  <2> QED  BY <1>10, <2>1
<1> QED  BY <1>1, <1>7, <1>11 DEF Slot

\* The individual of the header is as fit as the first one of the best list.
LEMMA BestSlotFacts ==
  ASSUME SavedAssumption, NEW pop, Rated(pop)
  PROVE  /\ BestSlot(pop) \in Slot
         /\ pop[BestSlot(pop)].fit = pop[TopSlots(pop)[1]].fit
         /\ \A k \in Slot : pop[k].fit <= pop[BestSlot(pop)].fit
<1> DEFINE B == {i \in Slot : \A k \in Slot : pop[k].fit <= pop[i].fit}
           first == TopSlots(pop)[1]
<1>1. first \in Slot /\ \A k \in Slot : pop[k].fit <= pop[first].fit
  <2>1. /\ TopSlots(pop) \in Seq(Slot) /\ Len(TopSlots(pop)) = BestN
        /\ \A k \in Slot : pop[k].fit <= pop[TopSlots(pop)[1]].fit
    BY TopSlotsFacts
  <2>2. 1 \in 1 .. BestN
    BY DEF SavedAssumption
  <2> QED  BY <2>1, <2>2, ElementOfSeq
<1> HIDE DEF first
<1>2. B \in SUBSET Nat /\ B # {}
  BY <1>1 DEF Slot
<1> HIDE DEF B
<1>3. \E x \in B : \A y \in B : x <= y
  BY <1>2, LeastNumber
<1>4. BestSlot(pop) \in B
  <2>1. BestSlot(pop) = CHOOSE x \in B : \A y \in B : x <= y
    BY DEF BestSlot, B, Min
  <2> QED  BY <1>3, <2>1
<1>5. BestSlot(pop) \in Slot /\ \A k \in Slot : pop[k].fit <= pop[BestSlot(pop)].fit
  BY <1>4 DEF B
<1>6. pop[BestSlot(pop)].fit <= pop[first].fit /\ pop[first].fit <= pop[BestSlot(pop)].fit
  BY <1>1, <1>5
<1>7. pop[BestSlot(pop)].fit \in Nat /\ pop[first].fit \in Nat
  BY <1>1, <1>5 DEF Rated
<1>8. pop[BestSlot(pop)].fit = pop[first].fit
  BY <1>6, <1>7
<1> QED  BY <1>5, <1>8 DEF first

=============================================================================
