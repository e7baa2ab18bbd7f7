--------------------------- MODULE RiceAppProofs ---------------------------
(***************************************************************************)
(* The data of a GP process, proved for any file, any size of the training *)
(* set, any individuals, any number of generations and of resumptions.     *)
(***************************************************************************)
EXTENDS RiceApp, SequenceTheorems, FiniteSetTheorems, FunctionTheorems, TLAPS

-----------------------------------------------------------------------------
(* Sequences. *)

\* What drawing a record does to the set that it is drawn for.
LEMMA AppendRange ==
  ASSUME NEW S, NEW s \in Seq(S), NEW e \in S
  PROVE  /\ Append(s, e) \in Seq(S)
         /\ Len(Append(s, e)) = Len(s) + 1
         /\ Range(Append(s, e)) = Range(s) \cup {e}
<1> DEFINE t == Append(s, e)
<1>1. /\ t \in Seq(S) /\ Len(t) = Len(s) + 1
      /\ \A i \in 1 .. Len(s) : t[i] = s[i]
      /\ t[Len(s) + 1] = e
  BY AppendProperties
<1>2. Range(t) = {t[i] : i \in 1 .. Len(t)} /\ Range(s) = {s[i] : i \in 1 .. Len(s)}
  BY <1>1, RangeEquality
<1>3. 1 .. Len(t) = (1 .. Len(s)) \cup {Len(s) + 1}
  BY <1>1, LenProperties
<1> HIDE DEF t
<1>4. Range(t) = Range(s) \cup {e}
  BY <1>1, <1>2, <1>3
<1> QED  BY <1>1, <1>4 DEF t

\* A shuffling round takes just the one entry away.
LEMMA WithoutFacts ==
  ASSUME NEW S, NEW s \in Seq(S), NEW pos \in DOMAIN s
  PROVE  /\ Without(s, pos) \in Seq(S)
         /\ Len(Without(s, pos)) = Len(s) - 1
         /\ Range(s) \subseteq Range(Without(s, pos)) \cup {s[pos]}
<1> DEFINE n == Len(s)
           t == [s EXCEPT ![pos] = s[n]]
           w == SubSeq(t, 1, n - 1)
<1>1. n \in Nat /\ DOMAIN s = 1 .. n /\ pos \in 1 .. n /\ s[n] \in S
  BY LenProperties, ElementOfSeq
<1>2. /\ t \in Seq(S) /\ Len(t) = n
      /\ \A i \in 1 .. n : t[i] = IF i = pos THEN s[n] ELSE s[i]
  BY <1>1, ExceptSeq
<1> HIDE DEF n, t
<1>3. \A i \in 1 .. n - 1 : t[i] \in S
  BY <1>1, <1>2, ElementOfSeq
<1>4. /\ w \in Seq(S)
      /\ Len(w) = IF 1 <= n - 1 THEN n - 1 - 1 + 1 ELSE 0
      /\ \A i \in 1 .. n - 1 - 1 + 1 : w[i] = t[1 + i - 1]
  BY <1>1, <1>3, SubSeqProperties
<1>5. Len(w) = n - 1 /\ \A i \in 1 .. n - 1 : w[i] = t[i]
  BY <1>1, <1>4
<1> HIDE DEF w
<1>6. Range(w) = {w[i] : i \in 1 .. n - 1} /\ Range(s) = {s[i] : i \in 1 .. n}
  BY <1>4, <1>5, RangeEquality DEF n
<1>7. ASSUME NEW i \in 1 .. n, i # pos
      PROVE  s[i] \in Range(w)
  <2>1. CASE i = n
    <3>1. pos \in 1 .. n - 1 /\ w[pos] = s[n]
      BY <1>1, <1>2, <1>5, <1>7, <2>1
    <3> QED  BY <1>6, <2>1, <3>1
  <2>2. CASE i # n
    <3>1. i \in 1 .. n - 1 /\ w[i] = s[i]
      BY <1>1, <1>2, <1>5, <1>7, <2>2
    <3> QED  BY <1>6, <3>1
  <2> QED  BY <2>1, <2>2
<1>8. Range(s) \subseteq Range(w) \cup {s[pos]}
  BY <1>6, <1>7
<1> QED  BY <1>4, <1>5, <1>8 DEF Without, w, t, n

\* What a cursor has not reached.
LEMMA RestFacts ==
  ASSUME NEW S, NEW d \in Seq(S), NEW l \in Nat, l <= Len(d)
  PROVE  /\ SubSeq(d, l + 1, Len(d)) \in Seq(S)
         /\ Len(SubSeq(d, l + 1, Len(d))) = Len(d) - l
         /\ Range(SubSeq(d, l + 1, Len(d))) = {d[i] : i \in l + 1 .. Len(d)}
<1> DEFINE n == Len(d)
           r == SubSeq(d, l + 1, n)
<1>1. n \in Nat /\ \A i \in 1 .. n : d[i] \in S
  BY LenProperties, ElementOfSeq
<1>2. \A i \in l + 1 .. n : d[i] \in S
  BY <1>1
<1> HIDE DEF n
<1>3. /\ r \in Seq(S)
      /\ Len(r) = IF l + 1 <= n THEN n - (l + 1) + 1 ELSE 0
      /\ \A i \in 1 .. n - (l + 1) + 1 : r[i] = d[l + 1 + i - 1]
  BY <1>1, <1>2, SubSeqProperties
<1> HIDE DEF r
<1>4. Len(r) = n - l /\ \A i \in 1 .. n - l : r[i] = d[l + i]
  <2>1. l <= n
    BY DEF n
  <2>2. Len(r) = n - l
    BY <1>1, <1>3, <2>1
  <2>3. ASSUME NEW i \in 1 .. n - l
        PROVE  r[i] = d[l + i]
    <3>1. l + 1 + i - 1 = l + i /\ i \in 1 .. n - (l + 1) + 1
      BY <1>1, <2>3
    <3> QED  BY <1>3, <3>1
  <2> QED  BY <2>2, <2>3
<1>5. Range(r) = {r[i] : i \in 1 .. n - l}
  BY <1>3, <1>4, RangeEquality
<1>6. Range(r) = {d[i] : i \in l + 1 .. n}
  <2>1. ASSUME NEW i \in l + 1 .. n
        PROVE  d[i] \in Range(r)
    <3>1. i - l \in 1 .. n - l /\ l + (i - l) = i
      BY <1>1, <2>1
    <3>2. r[i - l] = d[i]
      BY <1>4, <3>1
    <3> QED  BY <1>5, <3>1, <3>2
  <2>2. ASSUME NEW i \in 1 .. n - l
        PROVE  r[i] \in {d[j] : j \in l + 1 .. n}
    <3>1. l + i \in l + 1 .. n
      BY <1>1, <2>2
    <3> QED  BY <1>4, <3>1
  <2> QED  BY <1>5, <2>1, <2>2
<1> QED  BY <1>3, <1>4, <1>6 DEF r, n

-----------------------------------------------------------------------------
(* The inductive invariant. *)

\* A cursor never leaves the records of its class.
LoaderTypeOK ==
  /\ read \in [Class -> Seq(Records)] /\ data \in [Class -> Seq(Records)]
  /\ last \in [Class -> Nat] /\ \A c \in Class : last[c] <= Len(data[c])
  /\ train_set \in Seq(Records) /\ test_set \in Seq(Records)

\* Every record is somewhere ...
Somewhere(r) ==
  \/ r \in Range(train_set) \/ r \in Range(test_set)
  \/ \E c \in Class : r \in Range(Rest(c)) \/ r \in Range(read[c])

NoneLost == \A r \in Records : Somewhere(r)

\* ... and there are as many places as there are records, so that none is in two.
NotDrawn(c) == Left(c) + Len(read[c])

Places == Len(train_set) + Len(test_set) + NotDrawn("C") + NotDrawn("O")

NoneTwice == Places = Cardinality(Records)

LoaderInv == LoaderTypeOK /\ NoneLost /\ NoneTwice

Scored == {"evaluate", "newbest", "testing", "report", "end", "term"}

\* A process that did not resume has the cases of its training set in every
\* column from the first generation on, and the hits of its best are of them.
OwnCases ==
  /\ resumes = 0 /\ pc \in Scored =>
       cases = [k \in Column |-> train_set] /\ Len(train_set) = FitnessCases
  /\ pc \in {"newbest", "testing", "report", "term"} =>
       resumes = 0 /\ best.hits = Hits(best.ind)
  /\ pc = "term" => best.hits = FitnessCases

\* A process that did resume has no column 7, and so finds no new best.
ResumedCases ==
  /\ ckpt # NoCheckpoint => DOMAIN ckpt.cases = {0, 1}
  /\ resumes \in Nat
  /\ resumes > 0 => cases[7] = Null /\ pc # "train"

\* Shuffling, training and testing come one after the other.
InTurn ==
  /\ pc # "load" => Loaded
  /\ pc = "load" => train_set = <<>>
  /\ pc \in {"load", "train"} => test_set = <<>>

IInv == LoaderInv /\ OwnCases /\ ResumedCases /\ InTurn

-----------------------------------------------------------------------------
(* The loader. *)

\* As many records of a class as there are lines of it.
LEMMA RangeCounts ==
  ASSUME NEW S, NEW s \in Seq(S), IsInjective(s)
  PROVE  IsFiniteSet(Range(s)) /\ Cardinality(Range(s)) = Len(s)
<1>1. Len(s) \in Nat /\ s \in [1 .. Len(s) -> S] /\ DOMAIN s = 1 .. Len(s)
  BY LenProperties
<1>2. s \in Surjection(1 .. Len(s), Range(s)) /\ s \in [1 .. Len(s) -> Range(s)]
  BY <1>1, Fun_RangeProperties, Fun_SurjectionProperties
<1>3. \A a, b \in 1 .. Len(s) : s[a] = s[b] => a = b
  BY <1>1 DEF IsInjective
<1>4. s \in Injection(1 .. Len(s), Range(s))
  BY <1>2, <1>3, Fun_IsInj
<1>5. IsFiniteSet(1 .. Len(s)) /\ Cardinality(1 .. Len(s)) = Len(s)
  BY <1>1, FS_Interval
<1> QED  BY <1>2, <1>4, <1>5, FS_Surjection

\* The file has as many records as lines.
LEMMA RecordsCount ==
  /\ IsFiniteSet(Records)
  /\ Cardinality(Records) = Len(Cammeo) + Len(Osmancik)
<1> DEFINE C == Range(Cammeo)
           O == Range(Osmancik)
<1>1. /\ IsFiniteSet(C) /\ Cardinality(C) = Len(Cammeo)
      /\ IsFiniteSet(O) /\ Cardinality(O) = Len(Osmancik)
      /\ C \cap O = {}
      /\ Len(Cammeo) \in Nat /\ Len(Osmancik) \in Nat
  BY LoaderAssumption, RangeCounts, LenProperties
<1> HIDE DEF C, O
<1>2. /\ IsFiniteSet(C \cup O)
      /\ Cardinality(C \cup O) = Cardinality(C) + Cardinality(O) - Cardinality(C \cap O)
  BY <1>1, FS_Union
<1>3. Cardinality(C \cap O) = 0
  BY <1>1, FS_EmptySet
<1> QED  BY <1>1, <1>2, <1>3 DEF Records, C, O

\* Both classes of the file hold records.
LEMMA FileType == Cammeo \in Seq(Records) /\ Osmancik \in Seq(Records)
BY LoaderAssumption, SeqMonotonic DEF Records

\* Before the first shuffle.
LEMMA LoaderStarts == LoaderInit => LoaderInv
<1> SUFFICES ASSUME LoaderInit PROVE LoaderInv
  OBVIOUS
<1> USE DEF LoaderInit, Class
<1>1. LoaderTypeOK
  BY FileType, EmptySeq DEF LoaderTypeOK, File
<1>2. read["C"] = Cammeo /\ read["O"] = Osmancik
  BY DEF File
<1>3. NoneLost
  BY <1>2 DEF NoneLost, Somewhere, Records
<1>4. Left("C") = 0 /\ Left("O") = 0 /\ Len(train_set) = 0 /\ Len(test_set) = 0
  BY EmptySeq DEF Left
<1>5. Len(Cammeo) \in Nat /\ Len(Osmancik) \in Nat
  BY FileType, LenProperties
<1>6. NoneTwice
  BY <1>2, <1>4, <1>5, RecordsCount DEF NoneTwice, Places, NotDrawn
<1> QED  BY <1>1, <1>3, <1>6 DEF LoaderInv

\* A resumed process reads the file again.
LEMMA LoaderRestarts == Reload => LoaderInv'
<1>1. Reload => LoaderInit'
  BY DEF Reload, LoaderInit
<1> QED  BY <1>1, LoaderStarts, PTL

\* What the cursor of a class has not reached, in terms of the class's array.
LEMMA RestRange ==
  ASSUME LoaderTypeOK, NEW c \in Class
  PROVE  /\ Rest(c) \in Seq(Records) /\ Len(Rest(c)) = Left(c) /\ Left(c) \in Nat
         /\ Range(Rest(c)) = {data[c][i] : i \in last[c] + 1 .. Len(data[c])}
<1>1. data[c] \in Seq(Records) /\ last[c] \in Nat /\ last[c] <= Len(data[c])
  BY DEF LoaderTypeOK
<1>2. Len(data[c]) \in Nat
  BY <1>1, LenProperties
<1> QED  BY <1>1, <1>2, RestFacts DEF Rest, Left

\* One record moves from what was read to the shuffled data.
LEMMA RandomizeInv ==
  ASSUME LoaderInv, NEW c \in Class, Randomize(c)
  PROVE  LoaderInv'
<1>1. PICK pos \in DOMAIN read[c] :
        /\ data' = [data EXCEPT ![c] = Append(@, read[c][pos])]
        /\ read' = [read EXCEPT ![c] = Without(@, pos)]
  BY DEF Randomize
<1> DEFINE e == read[c][pos]
           a == Append(data[c], e)
<1>2. UNCHANGED <<last, train_set, test_set>>
  BY DEF Randomize
<1>3. /\ read[c] \in Seq(Records) /\ data[c] \in Seq(Records)
      /\ last[c] \in Nat /\ last[c] <= Len(data[c])
      /\ Len(read[c]) \in Nat /\ Len(data[c]) \in Nat
  BY LenProperties DEF LoaderInv, LoaderTypeOK
<1>4. e \in Records
  BY <1>3, ElementOfSeq, LenProperties
<1>5. /\ a \in Seq(Records)
      /\ Len(a) = Len(data[c]) + 1
      /\ \A i \in 1 .. Len(data[c]) : a[i] = data[c][i]
      /\ a[Len(data[c]) + 1] = e
  BY <1>3, <1>4, AppendProperties
<1>6. /\ Without(read[c], pos) \in Seq(Records)
      /\ Len(Without(read[c], pos)) = Len(read[c]) - 1
      /\ Range(read[c]) \subseteq Range(Without(read[c], pos)) \cup {e}
  BY <1>3, WithoutFacts
<1> HIDE DEF a, e
<1>7. /\ read'[c] = Without(read[c], pos) /\ data'[c] = a
      /\ \A d \in Class \ {c} : read'[d] = read[d] /\ data'[d] = data[d]
  BY <1>1 DEF LoaderInv, LoaderTypeOK, a, e
<1>8. LoaderTypeOK'
  <2>1. read' \in [Class -> Seq(Records)] /\ data' \in [Class -> Seq(Records)]
    BY <1>1, <1>5, <1>6 DEF LoaderInv, LoaderTypeOK, a, e
  <2>2. \A d \in Class : last[d] <= Len(data'[d])
    <3>1. last[c] <= Len(data[c]) + 1
      BY <1>3
    <3> QED  BY <1>5, <1>7, <3>1 DEF LoaderInv, LoaderTypeOK
  <2> QED  BY <1>2, <2>1, <2>2 DEF LoaderInv, LoaderTypeOK
<1>9. Range(Rest(c)') = Range(Rest(c)) \cup {e}
  <2>1. Range(Rest(c)) = {data[c][i] : i \in last[c] + 1 .. Len(data[c])}
    BY RestRange DEF LoaderInv
  <2>2. Rest(c)' = SubSeq(a, last[c] + 1, Len(a))
    BY <1>2, <1>7 DEF Rest
  <2>3. Range(Rest(c)') = {a[i] : i \in last[c] + 1 .. Len(a)}
    <3>1. last[c] <= Len(a)
      BY <1>3, <1>5
    <3> QED  BY <1>3, <1>5, <2>2, <3>1, RestFacts
  <2>4. last[c] + 1 .. Len(data[c]) + 1 = (last[c] + 1 .. Len(data[c])) \cup {Len(data[c]) + 1}
    BY <1>3
  <2>5. \A i \in last[c] + 1 .. Len(data[c]) : a[i] = data[c][i]
    BY <1>3, <1>5
  <2> QED  BY <1>5, <2>1, <2>3, <2>4, <2>5
<1>10. \A d \in Class \ {c} : Rest(d)' = Rest(d)
  BY <1>2, <1>7 DEF Rest
<1>11. NoneLost'
  <2> SUFFICES ASSUME NEW r \in Records PROVE Somewhere(r)'
    BY DEF NoneLost
  <2>1. Somewhere(r)
    BY DEF LoaderInv, NoneLost
  <2>2. CASE r \in Range(train_set) \/ r \in Range(test_set)
    BY <1>2, <2>2 DEF Somewhere
  <2>3. CASE \E d \in Class : r \in Range(Rest(d)) \/ r \in Range(read[d])
    <3>1. PICK d \in Class : r \in Range(Rest(d)) \/ r \in Range(read[d])
      BY <2>3
    <3>2. CASE d # c
      BY <1>7, <1>10, <3>1, <3>2 DEF Somewhere
    <3>3. CASE d = c
      <4>1. r \in Range(Rest(c)') \/ r \in Range(read'[c])
        BY <1>6, <1>7, <1>9, <3>1, <3>3
      <4> QED  BY <4>1 DEF Somewhere
    <3> QED  BY <3>2, <3>3
  <2> QED  BY <2>1, <2>2, <2>3 DEF Somewhere
<1>12. NoneTwice'
  <2>1. NotDrawn(c)' = NotDrawn(c)
    <3>1. Len(read'[c]) = Len(read[c]) - 1 /\ Left(c)' = Left(c) + 1
      <4>1. Len(read'[c]) = Len(read[c]) - 1
        BY <1>6, <1>7
      <4>2. Len(data'[c]) = Len(data[c]) + 1
        BY <1>5, <1>7
      <4>3. Left(c)' = Len(data'[c]) - last'[c] /\ last' = last
        BY <1>2 DEF Left
      <4>4. Left(c)' = Left(c) + 1
        BY <1>3, <4>2, <4>3 DEF Left
      <4> QED  BY <4>1, <4>4
    <3>2. Left(c) \in Nat
      BY RestRange DEF LoaderInv
    <3> QED  BY <1>3, <3>1, <3>2 DEF NotDrawn
  <2>2. \A d \in Class \ {c} : NotDrawn(d)' = NotDrawn(d)
    BY <1>2, <1>7 DEF Left, NotDrawn
  <2>3. NotDrawn("C")' = NotDrawn("C") /\ NotDrawn("O")' = NotDrawn("O")
    BY <2>1, <2>2 DEF Class
  <2>4. Places' = Places
    BY <1>2, <2>3 DEF Places
  <2> QED  BY <2>4 DEF LoaderInv, NoneTwice
<1> QED  BY <1>8, <1>11, <1>12 DEF LoaderInv

\* What is left of a class is a number.
LEMMA NotDrawnType == LoaderTypeOK => \A c \in Class : NotDrawn(c) \in Int
<1> SUFFICES ASSUME LoaderTypeOK, NEW c \in Class PROVE NotDrawn(c) \in Int
  OBVIOUS
<1>1. Left(c) \in Int /\ Len(read[c]) \in Int
  BY RestRange, LenProperties DEF LoaderTypeOK
<1> QED  BY <1>1 DEF NotDrawn

\* A record that is handed out leaves its class: nothing else does.
LEMMA HandOutFacts ==
  ASSUME LoaderInv, NEW c \in Class, Left(c) > 0, HandOut(c), UNCHANGED <<read, data>>
  PROVE  /\ NextOf(c) \in Records
         /\ last' \in [Class -> Nat] /\ \A d \in Class : last'[d] <= Len(data'[d])
         /\ \A d \in Class : Range(Rest(d)) \subseteq Range(Rest(d)') \cup {NextOf(c)}
         /\ NotDrawn("C")' + NotDrawn("O")' = NotDrawn("C") + NotDrawn("O") - 1
<1>1. /\ data[c] \in Seq(Records) /\ last[c] \in Nat /\ Len(data[c]) \in Nat
      /\ last[c] + 1 <= Len(data[c])
  BY LenProperties DEF LoaderInv, LoaderTypeOK, Left
<1>2. NextOf(c) \in Records
  <2>1. last[c] + 1 \in 1 .. Len(data[c])
    BY <1>1
  <2> QED  BY <1>1, <2>1, ElementOfSeq DEF NextOf
<1>3. /\ last' \in [Class -> Nat] /\ last'[c] = last[c] + 1
      /\ \A d \in Class \ {c} : last'[d] = last[d]
  BY <1>1 DEF LoaderInv, LoaderTypeOK, HandOut
<1>4. \A d \in Class : last'[d] <= Len(data'[d])
  BY <1>1, <1>3 DEF LoaderInv, LoaderTypeOK
<1>5. \A d \in Class \ {c} : Rest(d)' = Rest(d) /\ NotDrawn(d)' = NotDrawn(d)
  BY <1>3 DEF Rest, NotDrawn, Left
<1>6. Range(Rest(c)) = Range(Rest(c)') \cup {NextOf(c)}
  <2>1. Range(Rest(c)) = {data[c][i] : i \in last[c] + 1 .. Len(data[c])}
    BY RestRange DEF LoaderInv
  <2> DEFINE l == last[c] + 1
  <2>2. Rest(c)' = SubSeq(data[c], l + 1, Len(data[c])) /\ l \in Nat /\ l <= Len(data[c])
    BY <1>1, <1>3 DEF Rest
  <2> HIDE DEF l
  <2>3. Range(SubSeq(data[c], l + 1, Len(data[c]))) = {data[c][i] : i \in l + 1 .. Len(data[c])}
    BY <1>1, <2>2, RestFacts
  <2>4. Range(Rest(c)') = {data[c][i] : i \in last[c] + 1 + 1 .. Len(data[c])}
    BY <2>2, <2>3 DEF l
  <2>5. last[c] + 1 .. Len(data[c]) = {last[c] + 1} \cup (last[c] + 1 + 1 .. Len(data[c]))
    BY <1>1
  <2> QED  BY <2>1, <2>4, <2>5 DEF NextOf
<1>7. NotDrawn(c)' = NotDrawn(c) - 1
  <2>1. Left(c)' = Left(c) - 1
    BY <1>1, <1>3 DEF Left
  <2>2. Left(c) \in Int /\ Len(read[c]) \in Int
    BY RestRange, LenProperties DEF LoaderInv, LoaderTypeOK
  <2> QED  BY <2>1, <2>2 DEF NotDrawn
<1>8. \A d \in Class : NotDrawn(d) \in Int
  BY NotDrawnType DEF LoaderInv
<1>9. \A d \in Class : Range(Rest(d)) \subseteq Range(Rest(d)') \cup {NextOf(c)}
  BY <1>5, <1>6
<1>10. NotDrawn("C")' + NotDrawn("O")' = NotDrawn("C") + NotDrawn("O") - 1
  <2>1. CASE c = "C"
    BY <1>5, <1>7, <1>8, <2>1 DEF Class
  <2>2. CASE c = "O"
    BY <1>5, <1>7, <1>8, <2>2 DEF Class
  <2> QED  BY <2>1, <2>2 DEF Class
<1> QED  BY <1>2, <1>3, <1>4, <1>9, <1>10

\* One record goes into the training set.
LEMMA DrawTrainingInv ==
  ASSUME LoaderInv, NEW c \in Class, DrawTraining(c)
  PROVE  LoaderInv'
<1>1. /\ train_set' = Append(train_set, NextOf(c)) /\ HandOut(c)
      /\ UNCHANGED <<read, data, test_set>>
  BY DEF DrawTraining
<1>2. Left(c) > 0
  BY RestRange DEF DrawTraining, UsedUp, LoaderInv
<1>3. /\ NextOf(c) \in Records
      /\ last' \in [Class -> Nat] /\ \A d \in Class : last'[d] <= Len(data'[d])
      /\ \A d \in Class : Range(Rest(d)) \subseteq Range(Rest(d)') \cup {NextOf(c)}
      /\ NotDrawn("C")' + NotDrawn("O")' = NotDrawn("C") + NotDrawn("O") - 1
  BY <1>1, <1>2, HandOutFacts
<1>4. /\ train_set' \in Seq(Records) /\ Len(train_set') = Len(train_set) + 1
      /\ Range(train_set') = Range(train_set) \cup {NextOf(c)}
  BY <1>1, <1>3, AppendRange DEF LoaderInv, LoaderTypeOK
<1>5. LoaderTypeOK'
  BY <1>1, <1>3, <1>4 DEF LoaderInv, LoaderTypeOK
<1>6. NoneLost'
  BY <1>1, <1>3, <1>4 DEF LoaderInv, NoneLost, Somewhere
<1>7. \A d \in Class : NotDrawn(d) \in Int /\ NotDrawn(d)' \in Int
  <2>1. \A d \in Class : Len(read'[d]) \in Nat /\ Len(data'[d]) \in Nat /\ last'[d] \in Nat
    BY <1>5, LenProperties DEF LoaderTypeOK
  <2> QED  BY <2>1, NotDrawnType DEF LoaderInv, NotDrawn, Left
<1>8. Len(train_set) \in Nat /\ Len(test_set) \in Nat
  BY LenProperties DEF LoaderInv, LoaderTypeOK
<1>9. Places' = Places
  <2>1. NotDrawn("C") \in Int /\ NotDrawn("O") \in Int
    BY <1>7 DEF Class
  <2>2. NotDrawn("C")' \in Int /\ NotDrawn("O")' \in Int
    BY <1>7 DEF Class
  <2>3. Len(train_set') = Len(train_set) + 1 /\ Len(test_set') = Len(test_set)
    BY <1>1, <1>4
  <2>4. NotDrawn("C")' + NotDrawn("O")' = NotDrawn("C") + NotDrawn("O") - 1
    BY <1>3
  <2> QED  BY SMTT(30), <1>8, <2>1, <2>2, <2>3, <2>4 DEF Places
<1> QED  BY <1>5, <1>6, <1>9 DEF LoaderInv, NoneTwice

\* One record goes into the testing set.
LEMMA DrawTestingInv ==
  ASSUME LoaderInv, NEW c \in Class, DrawTesting(c)
  PROVE  LoaderInv'
<1>1. /\ test_set' = Append(test_set, NextOf(c)) /\ HandOut(c) /\ Left(c) > 0
      /\ UNCHANGED <<read, data, train_set>>
  BY DEF DrawTesting
<1>2. /\ NextOf(c) \in Records
      /\ last' \in [Class -> Nat] /\ \A d \in Class : last'[d] <= Len(data'[d])
      /\ \A d \in Class : Range(Rest(d)) \subseteq Range(Rest(d)') \cup {NextOf(c)}
      /\ NotDrawn("C")' + NotDrawn("O")' = NotDrawn("C") + NotDrawn("O") - 1
  BY <1>1, HandOutFacts
<1>3. /\ test_set' \in Seq(Records) /\ Len(test_set') = Len(test_set) + 1
      /\ Range(test_set') = Range(test_set) \cup {NextOf(c)}
  BY <1>1, <1>2, AppendRange DEF LoaderInv, LoaderTypeOK
<1>4. LoaderTypeOK'
  BY <1>1, <1>2, <1>3 DEF LoaderInv, LoaderTypeOK
<1>5. NoneLost'
  BY <1>1, <1>2, <1>3 DEF LoaderInv, NoneLost, Somewhere
<1>6. \A d \in Class : NotDrawn(d) \in Int /\ NotDrawn(d)' \in Int
  <2>1. \A d \in Class : Len(read'[d]) \in Nat /\ Len(data'[d]) \in Nat /\ last'[d] \in Nat
    BY <1>4, LenProperties DEF LoaderTypeOK
  <2> QED  BY <2>1, NotDrawnType DEF LoaderInv, NotDrawn, Left
<1>7. Len(train_set) \in Nat /\ Len(test_set) \in Nat
  BY LenProperties DEF LoaderInv, LoaderTypeOK
<1>8. Places' = Places
  <2>1. NotDrawn("C") \in Int /\ NotDrawn("O") \in Int
    BY <1>6 DEF Class
  <2>2. NotDrawn("C")' \in Int /\ NotDrawn("O")' \in Int
    BY <1>6 DEF Class
  <2>3. Len(test_set') = Len(test_set) + 1 /\ Len(train_set') = Len(train_set)
    BY <1>1, <1>3
  <2>4. NotDrawn("C")' + NotDrawn("O")' = NotDrawn("C") + NotDrawn("O") - 1
    BY <1>2
  <2> QED  BY SMTT(30), <1>7, <2>1, <2>2, <2>3, <2>4 DEF Places
<1> QED  BY <1>4, <1>5, <1>8 DEF LoaderInv, NoneTwice

\* As many places as records, and a record in every one of them: each is in one.
LEMMA LoaderInvImplies == LoaderInv => EveryRecordOnce
<1> SUFFICES ASSUME LoaderInv PROVE EveryRecordOnce
  OBVIOUS
<1> DEFINE s2 == train_set \o test_set
           s3 == s2 \o Rest("C")
           s4 == s3 \o Rest("O")
           s5 == s4 \o read["C"]
           s6 == s5 \o read["O"]
<1> HIDE DEF s2, s3, s4, s5, s6
<1>1. /\ train_set \in Seq(Records) /\ test_set \in Seq(Records)
      /\ read["C"] \in Seq(Records) /\ read["O"] \in Seq(Records)
  BY DEF LoaderInv, LoaderTypeOK, Class
<1>2. /\ Rest("C") \in Seq(Records) /\ Len(Rest("C")) = Left("C")
      /\ Rest("O") \in Seq(Records) /\ Len(Rest("O")) = Left("O")
  BY RestRange DEF LoaderInv, Class
<1>3. /\ s2 \in Seq(Records) /\ Len(s2) = Len(train_set) + Len(test_set)
      /\ Range(s2) = Range(train_set) \cup Range(test_set)
  <2>1. s2 \in Seq(Records) /\ Len(s2) = Len(train_set) + Len(test_set)
    BY <1>1, ConcatProperties DEF s2
  <2>2. Range(s2) = Range(train_set) \cup Range(test_set)
    BY <1>1, RangeConcatenation DEF s2
  <2> QED  BY <2>1, <2>2
<1>4. /\ s3 \in Seq(Records) /\ Len(s3) = Len(s2) + Len(Rest("C"))
      /\ Range(s3) = Range(s2) \cup Range(Rest("C"))
  <2>1. s3 \in Seq(Records) /\ Len(s3) = Len(s2) + Len(Rest("C"))
    BY <1>2, <1>3, ConcatProperties DEF s3
  <2>2. Range(s3) = Range(s2) \cup Range(Rest("C"))
    BY <1>2, <1>3, RangeConcatenation DEF s3
  <2> QED  BY <2>1, <2>2
<1>5. /\ s4 \in Seq(Records) /\ Len(s4) = Len(s3) + Len(Rest("O"))
      /\ Range(s4) = Range(s3) \cup Range(Rest("O"))
  <2>1. s4 \in Seq(Records) /\ Len(s4) = Len(s3) + Len(Rest("O"))
    BY <1>2, <1>4, ConcatProperties DEF s4
  <2>2. Range(s4) = Range(s3) \cup Range(Rest("O"))
    BY <1>2, <1>4, RangeConcatenation DEF s4
  <2> QED  BY <2>1, <2>2
<1>6. /\ s5 \in Seq(Records) /\ Len(s5) = Len(s4) + Len(read["C"])
      /\ Range(s5) = Range(s4) \cup Range(read["C"])
  <2>1. s5 \in Seq(Records) /\ Len(s5) = Len(s4) + Len(read["C"])
    <3>1. s4 \in Seq(Records) /\ read["C"] \in Seq(Records)
      BY <1>1, <1>5
    <3> QED  BY <3>1, ConcatProperties DEF s5
  <2>2. Range(s5) = Range(s4) \cup Range(read["C"])
    BY <1>1, <1>5, RangeConcatenation DEF s5
  <2> QED  BY <2>1, <2>2
<1>7. /\ s6 \in Seq(Records) /\ Len(s6) = Len(s5) + Len(read["O"])
      /\ Range(s6) = Range(s5) \cup Range(read["O"])
  <2>1. s6 \in Seq(Records) /\ Len(s6) = Len(s5) + Len(read["O"])
    BY <1>1, <1>6, ConcatProperties DEF s6
  <2>2. Range(s6) = Range(s5) \cup Range(read["O"])
    BY <1>1, <1>6, RangeConcatenation DEF s6
  <2> QED  BY <2>1, <2>2
<1>8. Len(s6) = Len(train_set) + Len(test_set) + Left("C") + Left("O")
                   + Len(read["C"]) + Len(read["O"])
  BY <1>2, <1>3, <1>4, <1>5, <1>6, <1>7
<1>9. Range(s6) = Range(train_set) \cup Range(test_set) \cup Range(Rest("C"))
                    \cup Range(Rest("O")) \cup Range(read["C"]) \cup Range(read["O"])
  BY <1>3, <1>4, <1>5, <1>6, <1>7
<1>10. Len(s6) = Cardinality(Records)
  <2>1. Places = Len(train_set) + Len(test_set) + (Left("C") + Len(read["C"]))
                   + (Left("O") + Len(read["O"]))
    BY DEF Places, NotDrawn
  <2>2. /\ Len(train_set) \in Nat /\ Len(test_set) \in Nat
        /\ Len(read["C"]) \in Nat /\ Len(read["O"]) \in Nat
    BY <1>1, LenProperties
  <2>3. Left("C") \in Nat /\ Left("O") \in Nat
    BY RestRange DEF LoaderInv, Class
  <2>4. Len(s6) = Places
    <3> DEFINE a == Len(train_set)
               b == Len(test_set)
               p == Left("C")
               q == Left("O")
               v == Len(read["C"])
               w == Len(read["O"])
    <3>1. Len(s6) = a + b + p + q + v + w /\ Places = a + b + (p + v) + (q + w)
      BY <1>8, <2>1
    <3>2. a \in Nat /\ b \in Nat /\ p \in Nat /\ q \in Nat /\ v \in Nat /\ w \in Nat
      BY <2>2, <2>3
    <3> HIDE DEF a, b, p, q, v, w
    <3> QED  BY <3>1, <3>2
  <2> QED  BY <2>4 DEF LoaderInv, NoneTwice
<1>11. Range(s6) = Records
  <2>1. Records \subseteq Range(s6)
    BY <1>9 DEF LoaderInv, NoneLost, Somewhere, Class
  <2> QED  BY <1>7, <2>1, RangeOfSeq
<1>12. IsInjective(s6)
  <2>1. Len(s6) \in Nat /\ s6 \in [1 .. Len(s6) -> Records] /\ DOMAIN s6 = 1 .. Len(s6)
    BY <1>7, LenProperties
  <2>2. s6 \in Surjection(1 .. Len(s6), Records)
    BY <1>11, <2>1, Fun_RangeProperties
  <2>3. IsFiniteSet(1 .. Len(s6)) /\ Cardinality(1 .. Len(s6)) = Len(s6)
    BY <2>1, FS_Interval
  <2>4. s6 \in Injection(1 .. Len(s6), Records)
    BY <1>10, <2>2, <2>3, FS_SurjSameCardinalityImpliesInj
  <2>5. \A a, b \in 1 .. Len(s6) : s6[a] = s6[b] => a = b
    BY <2>4, Fun_InjectionProperties
  <2> QED  BY <2>1, <2>5 DEF IsInjective
<1>13. Everywhere = s6
  BY DEF Everywhere, s2, s3, s4, s5, s6
<1> QED  BY <1>11, <1>12, <1>13 DEF EveryRecordOnce

-----------------------------------------------------------------------------
(* The process. *)

\* Every step keeps count of the records.
LEMMA LoaderStep == LoaderInv /\ [Next]_vars => LoaderInv'
<1> SUFFICES ASSUME LoaderInv, [Next]_vars PROVE LoaderInv'
  OBVIOUS
<1>1. CASE UNCHANGED loaderVars
  BY <1>1 DEF loaderVars, LoaderInv, LoaderTypeOK, NoneLost, Somewhere, Rest, NoneTwice,
              Places, NotDrawn, Left
<1>2. CASE Load
  BY <1>2, RandomizeInv DEF Load
<1>3. CASE Train
  BY <1>3, DrawTrainingInv DEF Train
<1>4. CASE Test
  BY <1>4, DrawTestingInv DEF Test
<1>5. CASE Resume
  BY <1>5, LoaderRestarts DEF Resume
<1>6. CASE UNCHANGED vars
  BY <1>1, <1>6 DEF vars
<1> QED
  BY <1>1, <1>2, <1>3, <1>4, <1>5, <1>6
  DEF Next, LoadDone, TrainFails, FillCases, Evaluate, NewBest, TestDone, Report,
      EndOfGeneration

\* Shuffling, training and testing stay in order.
LEMMA InTurnStep == InTurn /\ [Next]_vars => InTurn'
<1> SUFFICES ASSUME InTurn, [Next]_vars PROVE InTurn'
  OBVIOUS
<1> USE DEF InTurn, Loaded
<1>1. CASE Load
  BY <1>1 DEF Load, Randomize, appVars
<1>2. CASE LoadDone
  BY <1>2 DEF LoadDone, loaderVars
<1>3. CASE Train
  BY <1>3 DEF Train, DrawTraining, appVars
<1>4. CASE TrainFails
  BY <1>4 DEF TrainFails, loaderVars
<1>5. CASE FillCases
  BY <1>5 DEF FillCases, loaderVars
<1>6. CASE Evaluate
  BY <1>6 DEF Evaluate, loaderVars
<1>7. CASE NewBest
  BY <1>7 DEF NewBest, loaderVars
<1>8. CASE Test
  BY <1>8 DEF Test, DrawTesting, appVars
<1>9. CASE TestDone
  BY <1>9 DEF TestDone, loaderVars
<1>10. CASE Report
  BY <1>10 DEF Report, loaderVars
<1>11. CASE EndOfGeneration
  BY <1>11 DEF EndOfGeneration, loaderVars
<1>12. CASE Resume
  BY <1>12 DEF Resume, Reload
<1>13. CASE UNCHANGED vars
  BY <1>13 DEF vars, loaderVars, appVars
<1> QED
  BY <1>1, <1>2, <1>3, <1>4, <1>5, <1>6, <1>7, <1>8, <1>9, <1>10, <1>11, <1>12, <1>13
  DEF Next

\* Evaluate finds a new best only with cases in every column: not after a resumption.
LEMMA CasesStep ==
  OwnCases /\ ResumedCases /\ [Next]_vars => OwnCases' /\ ResumedCases'
<1> SUFFICES ASSUME OwnCases, ResumedCases, [Next]_vars
             PROVE  OwnCases' /\ ResumedCases'
  OBVIOUS
<1> USE DEF OwnCases, ResumedCases, Scored
<1>1. CASE Load
  BY <1>1 DEF Load, Randomize, appVars
<1>2. CASE LoadDone
  BY <1>2 DEF LoadDone, loaderVars
<1>3. CASE Train
  BY <1>3 DEF Train, DrawTraining, appVars
<1>4. CASE TrainFails
  BY <1>4 DEF TrainFails, loaderVars
<1>5. CASE FillCases
  BY <1>5 DEF FillCases, loaderVars
<1>6. CASE Evaluate
  <2>1. /\ pc = "evaluate" /\ pc' \in {"newbest", "end", "crashed"}
        /\ UNCHANGED <<train_set, cases, ckpt, resumes>>
    BY <1>6 DEF Evaluate, loaderVars
  <2>2. ASSUME pc' = "newbest"
        PROVE  resumes = 0 /\ best'.hits = Hits(best'.ind)
    <3>1. PICK ind : best' = [ind |-> ind, hits |-> Hits(ind)]
      BY <1>6, <2>2 DEF Evaluate
    <3>2. \A k \in Column : cases[k] # Null
      BY <1>6, <2>2 DEF Evaluate
    <3>3. resumes = 0
      BY <3>2 DEF Column
    <3> QED  BY <3>1, <3>3
  <2>3. ResumedCases'
    BY <2>1
  <2>4. OwnCases'
    BY <2>1, <2>2 DEF Hits
  <2> QED  BY <2>3, <2>4
<1>7. CASE NewBest
  BY <1>7 DEF NewBest, loaderVars, Hits
<1>8. CASE Test
  BY <1>8 DEF Test, DrawTesting, appVars, Hits
<1>9. CASE TestDone
  BY <1>9 DEF TestDone, loaderVars, Hits
<1>10. CASE Report
  BY <1>10 DEF Report, loaderVars, Hits
<1>11. CASE EndOfGeneration
  BY <1>11 DEF EndOfGeneration, loaderVars
<1>12. CASE Resume
  BY <1>12 DEF Resume, Column
<1>13. CASE UNCHANGED vars
  BY <1>13 DEF vars, loaderVars, appVars, Hits
<1> QED
  BY <1>1, <1>2, <1>3, <1>4, <1>5, <1>6, <1>7, <1>8, <1>9, <1>10, <1>11, <1>12, <1>13
  DEF Next

\* Together with the cases and the hits, of all behaviours.
LEMMA InvariantHolds == Spec => []IInv
<1>1. Init => IInv
  <2> SUFFICES ASSUME Init PROVE IInv
    OBVIOUS
  <2>1. LoaderInv
    BY LoaderStarts DEF Init
  <2>2. OwnCases /\ ResumedCases /\ InTurn
    BY DEF Init, LoaderInit, OwnCases, ResumedCases, InTurn, Scored, NoCheckpoint
  <2> QED  BY <2>1, <2>2 DEF IInv
<1>2. IInv /\ [Next]_vars => IInv'
  BY LoaderStep, CasesStep, InTurnStep DEF IInv
<1> QED  BY <1>1, <1>2, PTL DEF Spec

-----------------------------------------------------------------------------
(* What follows. *)

\* Every record is in just one place: to be shuffled, to be handed out, in the
\* training set or in the testing set (vec_randomizer, getTrainingSet, getTestingSet).
THEOREM RecordsOnce == Spec => []EveryRecordOnce
BY InvariantHolds, LoaderInvImplies, PTL DEF IInv

\* As many hits as cases: every case is one.
LEMMA AllHits ==
  ASSUME NEW n \in Nat, NEW S \in SUBSET (1 .. n), Cardinality(S) = n
  PROVE  S = 1 .. n
<1>1. IsFiniteSet(1 .. n) /\ Cardinality(1 .. n) = n
  BY FS_Interval
<1> QED  BY <1>1, FS_Subset

\* The application ends a run (app_end_of_evaluation) only for an individual that
\* is right about all of its training set, in whatever process.
THEOREM PerfectRuns == Spec => []PerfectMeansPerfect
<1>1. IInv => PerfectMeansPerfect
  <2> SUFFICES ASSUME IInv, pc = "term", NEW i \in DOMAIN train_set
               PROVE  (train_set[i] \in best.ind) = (train_set[i] \in Range(Cammeo))
    BY DEF PerfectMeansPerfect
  <2>1. /\ cases = [k \in Column |-> train_set] /\ Len(train_set) = FitnessCases
        /\ Hits(best.ind) = FitnessCases
    BY DEF IInv, OwnCases, Scored
  <2>2. i \in 1 .. FitnessCases
    BY <2>1, LenProperties DEF IInv, LoaderInv, LoaderTypeOK
  <2>3. {j \in 1 .. FitnessCases : Hit(best.ind, cases[0][j], cases[7][j])} = 1 .. FitnessCases
    BY <2>1, LoaderAssumption, AllHits DEF Hits
  <2>4. Hit(best.ind, cases[0][i], cases[7][i])
    BY <2>2, <2>3
  <2>5. cases[0] = train_set /\ cases[7] = train_set
    BY <2>1 DEF Column
  <2> QED  BY <2>4, <2>5 DEF Hit
<1> QED  BY <1>1, InvariantHolds, PTL

\* The beginning of a sequence without repetitions has none.
LEMMA PrefixInjective ==
  ASSUME NEW S, NEW s \in Seq(S), NEW t \in Seq(S), IsInjective(s \o t)
  PROVE  IsInjective(s)
<1> DEFINE u == s \o t
<1>1. /\ u \in Seq(S) /\ Len(u) = Len(s) + Len(t)
      /\ \A i \in 1 .. Len(s) : u[i] = s[i]
      /\ Len(s) \in Nat /\ Len(t) \in Nat
      /\ DOMAIN u = 1 .. Len(u) /\ DOMAIN s = 1 .. Len(s)
  BY ConcatProperties, LenProperties
<1>2. \A a, b \in DOMAIN u : u[a] = u[b] => a = b
  BY DEF IsInjective
<1> HIDE DEF u
<1>3. DOMAIN s \subseteq DOMAIN u
  BY <1>1
<1> QED  BY <1>1, <1>2, <1>3 DEF IsInjective

SizeIsExact == Cardinality(Range(train_set)) = Len(train_set)

\* What was drawn was drawn once.
LEMMA DrawnApart ==
  ASSUME EveryRecordOnce, LoaderInv
  PROVE  /\ Cardinality(Range(train_set)) = Len(train_set)
         /\ Range(train_set) \cap Range(test_set) = {}
<1> DEFINE s2 == train_set \o test_set
           s3 == s2 \o Rest("C")
           s4 == s3 \o Rest("O")
           s5 == s4 \o read["C"]
           s6 == s5 \o read["O"]
<1> HIDE DEF s2, s3, s4, s5, s6
<1>1. /\ train_set \in Seq(Records) /\ test_set \in Seq(Records)
      /\ read["C"] \in Seq(Records) /\ read["O"] \in Seq(Records)
      /\ Rest("C") \in Seq(Records) /\ Rest("O") \in Seq(Records)
  BY RestRange DEF LoaderInv, LoaderTypeOK, Class
<1>2. s2 \in Seq(Records)
  BY <1>1, ConcatProperties DEF s2
<1>3. s3 \in Seq(Records)
  BY <1>1, <1>2, ConcatProperties DEF s3
<1>4. s4 \in Seq(Records)
  BY <1>1, <1>3, ConcatProperties DEF s4
<1>5. s5 \in Seq(Records)
  BY <1>1, <1>4, ConcatProperties DEF s5
<1>6. IsInjective(s6)
  BY DEF EveryRecordOnce, Everywhere, s2, s3, s4, s5, s6
<1>7. IsInjective(s5)
  BY <1>1, <1>5, <1>6, PrefixInjective DEF s6
<1>8. IsInjective(s4)
  BY <1>1, <1>4, <1>7, PrefixInjective DEF s5
<1>9. IsInjective(s3)
  BY <1>1, <1>3, <1>8, PrefixInjective DEF s4
<1>10. IsInjective(s2)
  BY <1>1, <1>2, <1>9, PrefixInjective DEF s3
<1>11. Cardinality(Range(train_set)) = Len(train_set)
  BY <1>1, <1>10, PrefixInjective, RangeCounts DEF s2
<1>12. Range(train_set) \cap Range(test_set) = {}
  <2> SUFFICES ASSUME NEW i \in DOMAIN train_set, NEW j \in DOMAIN test_set,
                      train_set[i] = test_set[j]
               PROVE  FALSE
    BY DEF Range
  <2> DEFINE n == Len(train_set)
             m == Len(test_set)
  <2>1. n \in Nat /\ m \in Nat /\ i \in 1 .. n /\ j \in 1 .. m
    BY <1>1, LenProperties
  <2>2. /\ Len(s2) = n + m
        /\ \A k \in 1 .. n + m : s2[k] = IF k <= n THEN train_set[k] ELSE test_set[k - n]
    BY <1>1, ConcatProperties DEF s2
  <2>3. DOMAIN s2 = 1 .. n + m
    BY <1>2, <2>2, LenProperties
  <2> HIDE DEF n, m
  <2>4. i \in 1 .. n + m /\ n + j \in 1 .. n + m /\ i # n + j
        /\ i <= n /\ ~(n + j <= n) /\ n + j - n = j
    BY <2>1
  <2>5. s2[i] = train_set[i] /\ s2[n + j] = test_set[j]
    BY <1>1, <2>1 DEF s2, n, m
  <2> QED  BY <1>10, <2>3, <2>4, <2>5 DEF IsInjective
<1> QED  BY <1>11, <1>12

\* The training set has as many records as entries.
LEMMA TrainingSetSize == IInv /\ EveryRecordOnce => SizeIsExact
BY DrawnApart DEF IInv, SizeIsExact

\* Once nothing is left to draw, the testing set is all that was not trained on.
LEMMA TheRestIsTested ==
  ASSUME EveryRecordOnce, LoaderInv, Loaded, AllHandedOut
  PROVE  Range(test_set) = Records \ Range(train_set)
<1>1. \A c \in Class : Range(Rest(c)) = {} /\ Range(read[c]) = {}
  <2> SUFFICES ASSUME NEW c \in Class
               PROVE  Range(Rest(c)) = {} /\ Range(read[c]) = {}
    OBVIOUS
  <2>1. /\ Range(Rest(c)) = {data[c][i] : i \in last[c] + 1 .. Len(data[c])}
        /\ last[c] \in Nat /\ Len(data[c]) \in Nat
    BY RestRange, LenProperties DEF LoaderInv, LoaderTypeOK
  <2>2. Len(data[c]) - last[c] <= 0
    BY DEF AllHandedOut, Left
  <2>3. last[c] + 1 .. Len(data[c]) = {}
    BY <2>1, <2>2
  <2>4. Range(<<>>) = {}
    BY DEF Range
  <2> QED  BY <2>1, <2>3, <2>4 DEF Loaded
<1>2. Records \subseteq Range(train_set) \cup Range(test_set)
  BY <1>1 DEF LoaderInv, NoneLost, Somewhere
<1>3. Range(test_set) \subseteq Records
  BY RangeOfSeq DEF LoaderInv, LoaderTypeOK
<1> QED  BY <1>2, <1>3, DrawnApart

\* Both modules mean the same by the size of a set.
LEMMA SameCardinality == \A S : SplitOf!Cardinality(S) = Cardinality(S)
BY DEF SplitOf!Cardinality, Cardinality, SplitOf!IsFiniteSet, IsFiniteSet

\* Every step of a process chooses a set, starts anew, or changes neither set.
LEMMA SplitStep ==
  IInv /\ EveryRecordOnce /\ IInv' /\ EveryRecordOnce' /\ [Next]_vars
    => [SplitOf!Next]_<<TrainingChosen, TestingChosen>>
<1> SUFFICES ASSUME IInv, EveryRecordOnce, IInv', EveryRecordOnce', [Next]_vars
             PROVE  SplitOf!Next \/ UNCHANGED <<TrainingChosen, TestingChosen>>
  OBVIOUS
<1> USE DEF TrainingChosen, TestingChosen
<1>1. CASE UNCHANGED <<train_set, test_set>> /\ (pc = "testing" <=> pc' = "testing")
  BY <1>1
<1>2. CASE Load
  BY <1>1, <1>2 DEF Load, Randomize, appVars
<1>3. CASE LoadDone \/ TrainFails \/ FillCases \/ Evaluate \/ Report \/ EndOfGeneration
  BY <1>1, <1>3 DEF LoadDone, TrainFails, FillCases, Evaluate, Report, EndOfGeneration,
                    loaderVars
<1>4. CASE NewBest
  BY <1>1, <1>4 DEF NewBest, loaderVars
<1>5. CASE Train
  <2>1. /\ pc = "train" /\ pc' = "train" /\ test_set = <<>> /\ test_set' = <<>>
        /\ Len(train_set) < FitnessCases
    BY <1>5 DEF Train, DrawTraining, appVars, IInv, InTurn
  <2>2. TrainingChosen = {} /\ TestingChosen = {} /\ TestingChosen' = {}
    BY <2>1, LoaderAssumption, LenProperties DEF IInv, LoaderInv, LoaderTypeOK
  <2>3. CASE Len(train_set') = FitnessCases
    <3>1. Cardinality(Range(train_set')) = Len(train_set')
      <4>1. SizeIsExact'
        BY TrainingSetSize, PTL
      <4> QED  BY <4>1 DEF SizeIsExact
    <3>2. Range(train_set') \subseteq Records
      <4>1. train_set' \in Seq(Records)
        BY DEF IInv, LoaderInv, LoaderTypeOK
      <4> QED  BY <4>1, RangeOfSeq
    <3>3. SplitOf!ChooseTraining
      <4>1. TrainingChosen' = Range(train_set')
        BY <2>3
      <4>2. TrainingChosen' \in {s \in SUBSET Records : Cardinality(s) = FitnessCases}
        BY <2>3, <3>1, <3>2, <4>1
      <4>3. UNCHANGED TestingChosen
        BY <2>2
      <4> HIDE DEF TrainingChosen, TestingChosen
      <4> QED  BY <2>2, <4>2, <4>3, SameCardinality DEF SplitOf!ChooseTraining
    <3> QED  BY <3>3 DEF SplitOf!Next
  <2>4. CASE Len(train_set') # FitnessCases
    BY <2>2, <2>4
  <2> QED  BY <2>3, <2>4
<1>6. CASE Test
  <2>1. pc = "testing" /\ pc' = "testing" /\ UNCHANGED train_set
    BY <1>6 DEF Test, DrawTesting, appVars
  <2> QED  BY <2>1
<1>7. CASE TestDone
  <2>1. /\ pc = "testing" /\ pc' = "report" /\ AllHandedOut /\ Loaded
        /\ UNCHANGED <<train_set, test_set>>
    BY <1>7 DEF TestDone, loaderVars, IInv, InTurn
  <2>2. Len(train_set) = FitnessCases
    BY <2>1 DEF IInv, OwnCases, Scored
  <2>3. TrainingChosen = Range(train_set) /\ TrainingChosen # {}
    <3>1. Cardinality(Range(train_set)) # 0
      BY <2>2, DrawnApart, LoaderAssumption DEF IInv
    <3> QED  BY <2>2, <3>1, FS_EmptySet
  <2>4. Range(test_set) = Records \ Range(train_set)
    BY <2>1, TheRestIsTested DEF IInv
  <2>5. CASE test_set # <<>>
    <3>1. SplitOf!ChooseTesting
      BY <2>1, <2>2, <2>3, <2>4, <2>5 DEF SplitOf!ChooseTesting
    <3> QED  BY <3>1 DEF SplitOf!Next
  <2>6. CASE test_set = <<>>
    BY <2>1, <2>6
  <2> QED  BY <2>5, <2>6
<1>8. CASE Resume
  <2>1. train_set' = <<>> /\ test_set' = <<>>
    BY <1>8 DEF Resume, Reload
  <2>2. SplitOf!Restart
    BY <2>1, LoaderAssumption, EmptySeq DEF SplitOf!Restart
  <2> QED  BY <2>2 DEF SplitOf!Next
<1>9. CASE UNCHANGED vars
  BY <1>1, <1>9 DEF vars, loaderVars, appVars
<1> QED
  BY <1>2, <1>3, <1>4, <1>5, <1>6, <1>7, <1>8, <1>9 DEF Next

\* The process implements Split: it chooses its training set once, all the rest is its
\* testing set, and both stay as they are until another process starts.
THEOREM SplitImplemented == Spec => ImplementsSplit
<1>1. Init => SplitOf!Init
  BY LoaderAssumption, EmptySeq
  DEF Init, LoaderInit, SplitOf!Init, TrainingChosen, TestingChosen
<1> QED  BY <1>1, SplitStep, InvariantHolds, RecordsOnce, PTL
         DEF Spec, ImplementsSplit, SplitOf!Spec
=============================================================================
