----------------------------- MODULE GpRunProofs -----------------------------
(***************************************************************************)
(* The statistics, the saved individuals and the constants of a run stay   *)
(* consistent, for every number and size of the subpopulations, every best *)
(* list, exchange table, checkpoint interval, crash and restart.  The      *)
(* second half proves that the run implements BestOfRun.  That argument    *)
(* counts a crowd: a best list is right when its entry k reaches exactly   *)
(* the fitness values that at least k individuals reach.                   *)
(***************************************************************************)
EXTENDS GpRun, SavedProofs

Copy == [fit : Fitness \cup {0}, nodes : Nodes \cup {0}, erc : SUBSET Erc,
         gen : 0 .. MaxGen, pop : 0 .. NumSubpops]

\* A record of statistics is empty, or covers somebody and has a full best list.
Record == {r \in Stats : r.size > 0 /\ Len(r.best) = BestN} \cup {NoStats}

\* The entries are on the list; the header is that of the first entry.
Listed(s, r) == Range(r.best) \subseteq Range(s.list)
Headed(s, r) ==
  r.size # -1 => LET first == s.ind[r.best[1]]
                 IN /\ r.bestfit = first.fit
                    /\ r.bestgen = first.gen
                    /\ r.bestpop = first.pop

-----------------------------------------------------------------------------
(* Records and the pointers they hold *)

\* What the assumptions say of the constants.
LEMMA Constants ==
  /\ SavedAssumption /\ RunAssumption
  /\ NumSubpops \in Nat \ {0} /\ MaxGen \in Nat \ {0} /\ MaxSaved \in Nat
  /\ BestN \in Nat \ {0} /\ PopSize \in Nat \ {0} /\ BestN <= PopSize
  /\ IsFiniteSet(Subpop) /\ IsFiniteSet(Slot) /\ IsFiniteSet(Address)
  /\ IsFiniteSet(StatIndex) /\ IsFiniteSet(1 .. BestN)
  /\ 0 \in StatIndex /\ \A i \in Subpop : i \in StatIndex /\ i # 0
  /\ Fitness \cup {0} \subseteq Nat
<1>1. /\ NumSubpops \in Nat \ {0} /\ MaxGen \in Nat \ {0} /\ MaxSaved \in Nat
      /\ BestN \in Nat \ {0} /\ PopSize \in Nat \ {0} /\ BestN <= PopSize
  BY SavedAssumption, RunAssumption DEF SavedAssumption, RunAssumption
<1>2. /\ IsFiniteSet(Subpop) /\ IsFiniteSet(Slot) /\ IsFiniteSet(Address)
      /\ IsFiniteSet(StatIndex) /\ IsFiniteSet(1 .. BestN)
  BY <1>1, FS_Interval DEF Subpop, Slot, Address, StatIndex
<1>3. Fitness \cup {0} \subseteq Nat
  BY RunAssumption DEF RunAssumption
<1>4. 0 \in StatIndex /\ \A i \in Subpop : i \in StatIndex /\ i # 0
  BY <1>1 DEF Subpop, StatIndex
<1> QED  BY SavedAssumption, RunAssumption, <1>1, <1>2, <1>3, <1>4

\* The fields of a record, and what an empty one looks like.
LEMMA RecordFacts ==
  ASSUME NEW r \in Record
  PROVE  /\ r \in Stats /\ r.best \in Seq(Address) /\ r.size \in Int
         /\ r.bestfit \in Nat /\ r.bestgen \in 0 .. MaxGen
         /\ r.size = -1 <=> r = NoStats
         /\ r = NoStats => r.best = <<>>
         /\ r # NoStats => Len(r.best) = BestN /\ r.size > 0
         /\ DOMAIN r.best \subseteq 1 .. BestN
<1>1. CASE r = NoStats
  <2>1. /\ NoStats.size = -1 /\ NoStats.best = <<>> /\ NoStats.bestfit = 0
        /\ NoStats.bestgen = 0
    BY DEF NoStats
  <2>2. NoStats \in Stats
    <3>1. 0 \in 0 .. MaxGen /\ 0 \in 0 .. NumSubpops /\ -1 \in Int
      BY Constants
    <3>2. <<>> \in Seq(Address)
      BY EmptySeq
    <3> QED  BY <3>1, <3>2 DEF NoStats, Stats
  <2>3. DOMAIN NoStats.best = {}
    BY <2>1
  <2> QED  BY <1>1, <2>1, <2>2, <2>3 DEF Stats
<1>2. CASE r # NoStats
  <2>1. r \in Stats /\ r.size > 0 /\ Len(r.best) = BestN
    BY <1>2 DEF Record
  <2>2. r.best \in Seq(Address) /\ r.size \in Int /\ r.size # -1
    BY <2>1 DEF Stats
  <2>3. r.bestfit \in Nat /\ r.bestgen \in 0 .. MaxGen
    BY <2>1, Constants DEF Stats
  <2>4. DOMAIN r.best = 1 .. BestN
    BY <2>1, <2>2, EntriesOf
  <2> QED  BY <1>2, <2>1, <2>2, <2>3, <2>4
<1> QED  BY <1>1, <1>2

\* A record that covers somebody has a best individual.
LEMMA FullRecord ==
  ASSUME NEW r \in Record, r.size # -1
  PROVE  /\ r # NoStats /\ Len(r.best) = BestN /\ r.size > 0
         /\ 1 \in 1 .. BestN /\ r.best[1] \in Range(r.best) /\ r.best[1] \in Address
<1>1. r # NoStats /\ Len(r.best) = BestN /\ r.size > 0 /\ r.best \in Seq(Address)
  BY RecordFacts
<1>2. 1 \in 1 .. BestN
  BY Constants
<1>3. r.best[1] \in Range(r.best) /\ Range(r.best) \subseteq Address
  BY <1>1, <1>2, EntriesOf
<1> QED  BY <1>1, <1>2, <1>3

\* Two sets of records differ in one of them only.
SameButRecord(st, tt, i) == \A j \in StatIndex : j # i => tt[j] = st[j]

\* Replacing one record changes the number of pointers to a by its own ones.
LEMMA PointersOfRow ==
  ASSUME NEW st \in [StatIndex -> Record], NEW tt \in [StatIndex -> Record],
         NEW i \in StatIndex, SameButRecord(st, tt, i), NEW a
  PROVE  /\ Pointers(st, a) \in Nat /\ Pointers(tt, a) \in Nat
         /\ Pointers(tt, a)
            = Pointers(st, a) - Occurrences(st[i].best, a) + Occurrences(tt[i].best, a)
<1> DEFINE K == 1 .. BestN
           r == tt[i]
           A == {p \in StatIndex \X K :
                   p[2] \in DOMAIN st[p[1]].best /\ st[p[1]].best[p[2]] = a}
           B == {p \in StatIndex \X K :
                   p[2] \in DOMAIN tt[p[1]].best /\ tt[p[1]].best[p[2]] = a}
           P == {j \in DOMAIN st[i].best : st[i].best[j] = a}
           Q == {j \in DOMAIN r.best : r.best[j] = a}
<1>1. r \in Record /\ \A j \in StatIndex : j # i => tt[j] = st[j]
  BY DEF SameButRecord
<1>2. \A p \in StatIndex \X K : p[1] # i => (p \in A <=> p \in B)
  BY <1>1
<1>3. P \subseteq K /\ Q \subseteq K
  <2>1. DOMAIN st[i].best \subseteq K /\ DOMAIN r.best \subseteq K
    BY RecordFacts
  <2> QED  BY <2>1
<1>4. \A k \in K : k \in P <=> <<i, k>> \in A
  OBVIOUS
<1>5. \A k \in K : k \in Q <=> <<i, k>> \in B
  BY <1>1
<1>6. A \subseteq StatIndex \X K /\ B \subseteq StatIndex \X K
  OBVIOUS
<1>7. /\ Pointers(st, a) = Cardinality(A) /\ Pointers(tt, a) = Cardinality(B)
      /\ Occurrences(st[i].best, a) = Cardinality(P)
      /\ Occurrences(r.best, a) = Cardinality(Q)
  BY DEF Pointers, Occurrences
<1>8. IsFiniteSet(StatIndex) /\ IsFiniteSet(K)
  BY Constants
<1> HIDE DEF K, A, B, P, Q
<1>9. /\ Cardinality(A) \in Nat /\ Cardinality(B) \in Nat
      /\ Cardinality(B) = Cardinality(A) - Cardinality(P) + Cardinality(Q)
  <2>1. SameButRow(A, B, i, StatIndex, K)
    BY <1>2, <1>6 DEF SameButRow
  <2>2. RowOf(P, A, i, K) /\ RowOf(Q, B, i, K)
    BY <1>3, <1>4, <1>5 DEF RowOf
  <2> QED  BY <1>8, <2>1, <2>2, RowReplaced
<1> QED  BY <1>7, <1>9

\* No pointers to a, no entry a.
LEMMA PointersOfNone ==
  ASSUME NEW st \in [StatIndex -> Record], NEW a
  PROVE  Pointers(st, a) = 0 <=> \A i \in StatIndex : a \notin Range(st[i].best)
<1> DEFINE A == {p \in StatIndex \X (1 .. BestN) :
                   p[2] \in DOMAIN st[p[1]].best /\ st[p[1]].best[p[2]] = a}
<1>1. IsFiniteSet(A)
  <2>1. A \subseteq StatIndex \X (1 .. BestN)
    OBVIOUS
  <2> HIDE DEF A
  <2> QED  BY <2>1, Constants, FS_Product, FS_Subset
<1>2. \A i \in StatIndex : DOMAIN st[i].best \subseteq 1 .. BestN
  BY RecordFacts
<1>3. A = {} <=> \A i \in StatIndex : a \notin Range(st[i].best)
  <2>1. ASSUME NEW p \in A PROVE st[p[1]].best[p[2]] \in Range(st[p[1]].best)
    BY DEF Range
  <2>2. ASSUME NEW i \in StatIndex, a \in Range(st[i].best) PROVE A # {}
    <3>1. PICK j \in DOMAIN st[i].best : st[i].best[j] = a
      BY <2>2 DEF Range
    <3>2. <<i, j>> \in A
      BY <1>2, <3>1
    <3> QED  BY <3>2
  <2>3. \A p \in A : p[1] \in StatIndex /\ st[p[1]].best[p[2]] = a
    OBVIOUS
  <2> HIDE DEF A
  <2> QED  BY <2>1, <2>2, <2>3
<1> HIDE DEF A
<1>4. Pointers(st, a) = Cardinality(A)
  BY DEF Pointers, A
<1> QED  BY <1>1, <1>3, <1>4, FS_EmptySet

\* Freed records point at nothing, and nothing is claimed of them.
LEMMA NoRecordsFacts ==
  /\ NoStats \in Record /\ NoRecords \in [StatIndex -> Record]
  /\ \A a : Pointers(NoRecords, a) = 0
  /\ \A s : Listed(s, NoStats) /\ Headed(s, NoStats)
<1>1. NoStats \in Record
  BY DEF Record
<1>2. NoRecords \in [StatIndex -> Record] /\ \A i \in StatIndex : NoRecords[i] = NoStats
  BY <1>1 DEF NoRecords
<1>3. Range(NoStats.best) = {} /\ NoStats.size = -1
  BY DEF NoStats, Range
<1>4. \A a : Pointers(NoRecords, a) = 0
  BY <1>2, <1>3, PointersOfNone
<1> QED  BY <1>1, <1>2, <1>3, <1>4 DEF Listed, Headed

\* The entries of two best lists, as the first ones compare.
LEMMA FirstEntries ==
  ASSUME NEW s \in ListOf(Copy), NEW r \in Record, r.size # -1, Headed(s, r)
  PROVE  /\ r.bestfit = Fit(s, r.best[1]) /\ r.bestgen = s.ind[r.best[1]].gen
         /\ r.bestpop = s.ind[r.best[1]].pop
         /\ r.bestfit \in Nat /\ r.bestgen \in Nat
<1>1. r.bestfit \in Nat /\ r.bestgen \in Nat
  BY RecordFacts
<1> QED  BY <1>1 DEF Headed, Fit

\* r is h with another size and another best list.
Updated(r, h, x, b) == r = [h EXCEPT !.size = x, !.best = b]

\* The fields of a record after its size and its best list are replaced.
LEMMA StatsUpdated ==
  ASSUME NEW h \in Stats, NEW x \in Int, NEW b \in Seq(Address),
         NEW r, Updated(r, h, x, b)
  PROVE  /\ r.size = x /\ r.best = b /\ r.bestfit = h.bestfit
         /\ r.bestgen = h.bestgen /\ r.bestpop = h.bestpop
         /\ r \in Stats
  BY DEF Stats, Updated

\* accumulate_pop_stats moves the references over from the old best list to
\* the merged one, whose head is the fitter of the two heads; the header and
\* the answer "changed" follow.
LEMMA AccumulateFacts ==
  ASSUME NEW s \in ListOf(Copy), Whole(s), NEW total \in Record, NEW n \in Record,
         n.size # -1, Listed(s, total), Listed(s, n), Headed(s, total), Headed(s, n)
  PROVE  LET acc == Accumulate(s, total, n)
             better == total = NoStats \/ n.bestfit > total.bestfit
         IN /\ acc.saved \in ListOf(Copy) /\ Whole(acc.saved)
            /\ acc.saved.list = s.list /\ acc.saved.ind = s.ind
            /\ \A a \in Address :
                 acc.saved.refcount[a] = s.refcount[a] - Occurrences(total.best, a)
                                         + Occurrences(acc.stats.best, a)
            /\ acc.stats \in Record /\ acc.stats.size # -1
            /\ Listed(s, acc.stats) /\ Headed(s, acc.stats)
            /\ acc.changed = better
            /\ acc.stats.best[1] = IF better THEN n.best[1] ELSE total.best[1]
            /\ acc.stats.bestfit = IF better THEN n.bestfit ELSE total.bestfit
            /\ acc.stats.bestgen = IF better THEN n.bestgen ELSE total.bestgen
<1> DEFINE acc == Accumulate(s, total, n)
           better == total = NoStats \/ n.bestfit > total.bestfit
<1>1. /\ n.best \in Seq(Address) /\ total.best \in Seq(Address) /\ Len(n.best) = BestN
      /\ n.size \in Int /\ n.size > 0
      /\ n.bestfit \in Nat /\ total.bestfit \in Nat /\ s \in ListOf(Copy)
      /\ total.size = -1 <=> total = NoStats
  BY RecordFacts, FullRecord
<1>2. CASE total = NoStats
  <2>1. acc = [stats |-> n, changed |-> TRUE, saved |-> Reference(s, n.best, 1)]
    BY <1>1, <1>2 DEF Accumulate
  <2>2. /\ acc.stats = n /\ acc.changed = TRUE /\ acc.saved = Reference(s, n.best, 1)
        /\ better = TRUE
    BY <1>2, <2>1
  <2> HIDE DEF acc, better
  <2>3. LET t == Reference(s, n.best, 1)
        IN /\ t \in ListOf(Copy) /\ Whole(t) /\ t.list = s.list /\ t.ind = s.ind
           /\ \A a \in Address : t.refcount[a] = s.refcount[a] + Occurrences(n.best, a)
    BY <1>1, ReferenceFacts
  <2>4. \A a \in Address : /\ Occurrences(total.best, a) = 0 /\ s.refcount[a] \in Int
                           /\ Occurrences(n.best, a) \in Nat
    BY <1>1, <1>2, RecordFacts, NoOccurrences, OccurrencesFacts DEF ListOf
  <2>5. \A a \in Address :
          acc.saved.refcount[a] = s.refcount[a] - Occurrences(total.best, a)
                                  + Occurrences(acc.stats.best, a)
    BY <2>2, <2>3, <2>4
  <2> QED  BY <2>2, <2>3, <2>5 DEF acc, better
<1>3. CASE total # NoStats
  <2> DEFINE best == Merge(s, total.best, n.best)
             header == IF FitterHeader(total, n) THEN n ELSE total
             takes == TakesNew(s, total.best, n.best, 0, 0)
             rec == [header EXCEPT !.size = total.size + n.size, !.best = best]
             s1 == Reference(s, total.best, -1)
             s2 == Reference(s1, best, 1)
  <2>1. acc = [stats |-> rec, changed |-> FitterHeader(total, n) \/ takes, saved |-> s2]
    BY <1>1, <1>3 DEF Accumulate
  <2>2. /\ acc.stats = rec /\ acc.changed = (FitterHeader(total, n) \/ takes)
        /\ acc.saved = s2
    BY <2>1
  <2>3. /\ total.size # -1 /\ total.size \in Int /\ total.size > 0
        /\ Len(total.best) = BestN /\ total \in Stats /\ n \in Stats
    BY <1>1, <1>3, RecordFacts
  <2>4. FitterHeader(total, n) = better
    BY <1>3 DEF FitterHeader
  <2>5. takes = better
    <3>1. total.bestfit = Fit(s, total.best[1]) /\ n.bestfit = Fit(s, n.best[1])
      BY <2>3, FirstEntries
    <3>2. takes <=> Fit(s, total.best[1]) < Fit(s, n.best[1])
      BY DEF TakesNew
    <3>3. takes <=> total.bestfit < n.bestfit
      BY <3>1, <3>2
    <3>4. (total.bestfit < n.bestfit) <=> (n.bestfit > total.bestfit)
      BY <1>1
    <3>5. takes \in BOOLEAN
      BY DEF TakesNew
    <3> HIDE DEF takes
    <3> QED  BY <1>3, <3>3, <3>4, <3>5
  <2>6. /\ Listed(s, total) /\ Listed(s, n)
        /\ total.best \in Seq(Range(total.best) \cup Range(n.best))
        /\ n.best \in Seq(Range(total.best) \cup Range(n.best))
    <3> DEFINE X == Range(total.best) \cup Range(n.best)
    <3>1. \A i \in 1 .. Len(total.best) : total.best[i] \in X
      BY <1>1, EntriesOf
    <3>2. \A i \in 1 .. Len(n.best) : n.best[i] \in X
      BY <1>1, EntriesOf
    <3>3. /\ total.best \in [1 .. Len(total.best) -> X] /\ Len(total.best) \in Nat
          /\ n.best \in [1 .. Len(n.best) -> X] /\ Len(n.best) \in Nat
      BY <1>1, <3>1, <3>2, LenProperties
    <3> HIDE DEF X
    <3>4. total.best \in Seq(X) /\ n.best \in Seq(X)
      BY <3>3, SeqDef
    <3> QED  BY <3>4 DEF X
  <2>7. /\ best \in Seq(Range(total.best) \cup Range(n.best)) /\ Len(best) = BestN
        /\ best[1] = IF takes THEN n.best[1] ELSE total.best[1]
    BY <1>1, <2>3, <2>6, Constants, MergeFacts
  <2> HIDE DEF best, takes, s1, s2
  <2>8. Range(best) \subseteq Range(total.best) \cup Range(n.best)
    BY <2>7, EntriesOf
  <2>9. best \in Seq(Address)
    <3>1. Range(total.best) \subseteq Address /\ Range(n.best) \subseteq Address
      BY <1>1, EntriesOf
    <3>2. \A i \in 1 .. Len(best) : best[i] \in Address
      BY <2>7, <3>1, ElementOfSeq
    <3>3. best \in [1 .. Len(best) -> Address] /\ Len(best) \in Nat
      BY <2>7, <3>2, LenProperties
    <3> QED  BY <3>3, SeqDef
  <2>10. /\ s1 \in ListOf(Copy) /\ Whole(s1) /\ s1.list = s.list /\ s1.ind = s.ind
         /\ \A a \in Address : s1.refcount[a] = s.refcount[a] - Occurrences(total.best, a)
    <3>1. -1 \in {1, -1} /\ -1 # 1
      OBVIOUS
    <3>2. LET t == Reference(s, total.best, -1)
          IN /\ t \in ListOf(Copy) /\ Whole(t) /\ t.list = s.list /\ t.ind = s.ind
             /\ \A a \in Address :
                  IF -1 = 1 THEN t.refcount[a] = s.refcount[a] + Occurrences(total.best, a)
                  ELSE t.refcount[a] = s.refcount[a] - Occurrences(total.best, a)
      BY <1>1, <3>1, ReferenceFacts
    <3> QED  BY <3>1, <3>2 DEF s1
  <2>11. /\ s2 \in ListOf(Copy) /\ Whole(s2) /\ s2.list = s1.list /\ s2.ind = s1.ind
         /\ \A a \in Address : s2.refcount[a] = s1.refcount[a] + Occurrences(best, a)
    BY <2>9, <2>10, ReferenceFacts DEF s2
  <2>12. /\ header \in Stats
         /\ header.bestfit = IF better THEN n.bestfit ELSE total.bestfit
         /\ header.bestgen = IF better THEN n.bestgen ELSE total.bestgen
         /\ header.bestpop = IF better THEN n.bestpop ELSE total.bestpop
    BY <2>3, <2>4
  <2> HIDE DEF header
  <2>15. total.size + n.size \in Int /\ total.size + n.size > 0 /\ total.size + n.size # -1
    BY <1>1, <2>3
  <2>14. /\ rec.size = total.size + n.size /\ rec.bestfit = header.bestfit
         /\ rec.bestgen = header.bestgen /\ rec.bestpop = header.bestpop
         /\ rec.best = best /\ rec \in Stats
    <3> DEFINE size == total.size + n.size
    <3>1. header \in Stats /\ size \in Int
      BY <2>12, <2>15
    <3>2. Updated(rec, header, size, best)
      BY DEF Updated
    <3> HIDE DEF rec, size
    <3>3. /\ rec.size = size /\ rec.bestfit = header.bestfit
          /\ rec.bestgen = header.bestgen /\ rec.bestpop = header.bestpop
          /\ rec.best = best /\ rec \in Stats
      BY <2>9, <3>1, <3>2, StatsUpdated
    <3> QED  BY <3>3 DEF size
  <2>16. rec \in Record /\ rec.size # -1
    <3>1. rec \in Stats
      BY <2>9, <2>14, <2>15
    <3> HIDE DEF rec
    <3> QED  BY <2>7, <2>14, <2>15, <3>1 DEF Record
  <2> HIDE DEF rec
  <2>17. Listed(s, rec)
    BY <2>6, <2>8, <2>14 DEF Listed
  <2>18. best[1] = IF better THEN n.best[1] ELSE total.best[1]
    BY <2>5, <2>7
  <2> HIDE DEF better
  <2>19. Headed(s, rec)
    <3>1. n.size # -1 /\ total.size # -1
      BY <2>3
    <3> QED  BY <2>12, <2>14, <2>18, <3>1 DEF Headed
  <2>20. \A a \in Address :
           s2.refcount[a] = s.refcount[a] - Occurrences(total.best, a) + Occurrences(best, a)
    BY <2>10, <2>11
  <2>21. acc.changed = better
    <3>1. better \in BOOLEAN
      BY DEF better
    <3> HIDE DEF acc, better
    <3> QED  BY <2>2, <2>4, <2>5, <3>1
  <2> HIDE DEF acc
  <2>22. /\ acc.saved \in ListOf(Copy) /\ Whole(acc.saved)
         /\ acc.saved.list = s.list /\ acc.saved.ind = s.ind
         /\ \A a \in Address :
              acc.saved.refcount[a] = s.refcount[a] - Occurrences(total.best, a)
                                      + Occurrences(acc.stats.best, a)
    BY <2>2, <2>10, <2>11, <2>14, <2>20
  <2>23. /\ acc.stats \in Record /\ acc.stats.size # -1
         /\ Listed(s, acc.stats) /\ Headed(s, acc.stats)
         /\ acc.stats.best[1] = IF better THEN n.best[1] ELSE total.best[1]
         /\ acc.stats.bestfit = IF better THEN n.bestfit ELSE total.bestfit
         /\ acc.stats.bestgen = IF better THEN n.bestgen ELSE total.bestgen
    BY <2>2, <2>12, <2>14, <2>16, <2>17, <2>18, <2>19
  <2> QED  BY <2>21, <2>22, <2>23 DEF acc, better
<1> QED  BY <1>2, <1>3 DEF acc, better

-----------------------------------------------------------------------------
(* The list of copies through the operations of a generation *)

\* The list is whole, the counts are those of the records' pointers, and
\* every record's entries are on the list, the header's individual first.
GoodList(s, gs, rs) ==
  /\ s \in ListOf(Copy) /\ Whole(s)
  /\ gs \in [StatIndex -> Record] /\ rs \in [StatIndex -> Record]
  /\ \A a \in Address : s.refcount[a] = Pointers(gs, a) + Pointers(rs, a)
  /\ \A i \in StatIndex : Listed(s, gs[i]) /\ Headed(s, gs[i])
  /\ \A i \in StatIndex : Listed(s, rs[i]) /\ Headed(s, rs[i])

\* What an unused address holds is a copy, too.
LEMMA NobodyFacts == Nobody \in Copy
<1>1. 0 \in 0 .. MaxGen /\ 0 \in 0 .. NumSubpops
  BY Constants
<1> QED  BY <1>1 DEF Nobody, Copy

\* The list that run_gp starts with.
LEMMA EmptyListFacts ==
  GoodList(EmptyList, NoRecords, NoRecords) /\ Range(EmptyList.list) = {}
<1>1. /\ EmptyList.list = <<>> /\ EmptyList.tail = Dummy /\ EmptyList.count = 0
      /\ EmptyList.refcount = [a \in Address |-> 0]
      /\ EmptyList.ind = [a \in Address |-> Nobody]
  BY DEF EmptyList
<1>2. EmptyList \in ListOf(Copy)
  BY NobodyFacts, EmptySeq DEF EmptyList, ListOf
<1>3. Whole(EmptyList)
  BY <1>1, EmptySeq DEF Whole, Injective
<1>4. Range(EmptyList.list) = {}
  BY <1>1 DEF Range
<1>5. \A a \in Address : EmptyList.refcount[a] = Pointers(NoRecords, a) + Pointers(NoRecords, a)
  BY <1>1, NoRecordsFacts
<1>6. \A i \in StatIndex : NoRecords[i] = NoStats
  BY DEF NoRecords
<1> QED  BY <1>2, <1>3, <1>4, <1>5, <1>6, NoRecordsFacts DEF GoodList

\* A record stays listed and headed when its entries and their copies do.
LEMMA RecordKept ==
  ASSUME NEW s, NEW t, NEW r \in Record, Listed(s, r), Headed(s, r),
         Range(r.best) \subseteq Range(t.list),
         \A a \in Range(r.best) : t.ind[a] = s.ind[a]
  PROVE  Listed(t, r) /\ Headed(t, r)
<1>1. Listed(t, r)
  BY DEF Listed
<1>2. Headed(t, r)
  <2> SUFFICES ASSUME r.size # -1 PROVE Headed(t, r)
    BY DEF Headed
  <2>1. r.best[1] \in Range(r.best)
    BY FullRecord
  <2> QED  BY <2>1 DEF Headed
<1> QED  BY <1>1, <1>2

Pop == [Slot -> Individual]

\* calculate_pop_stats adds a full list of copies, each with one reference,
\* and the record that points at them.
Calculated(s, pop, g, i, t, r) ==
  /\ t \in ListOf(Copy) /\ Whole(t)
  /\ Range(t.list) = Range(s.list) \cup Range(r.best)
  /\ Range(r.best) \cap Range(s.list) = {}
  /\ \A a \in Address : IF a \in Range(r.best) THEN t.refcount[a] = 1
                        ELSE t.refcount[a] = s.refcount[a] /\ t.ind[a] = s.ind[a]
  /\ r.best \in Seq(Address) /\ Len(r.best) = BestN /\ Injective(r.best)
  /\ DOMAIN Copies(pop, g, i) = 1 .. BestN
  /\ \A j \in 1 .. BestN : \E k \in Slot : Copies(pop, g, i)[j].erc = pop[k].erc
  /\ \A j \in 1 .. BestN : t.ind[r.best[j]] = Copies(pop, g, i)[j]
  /\ \A j \in 1 .. BestN : Fit(t, r.best[j]) = pop[TopSlots(pop)[j]].fit
  /\ r \in Record /\ r.size # -1 /\ r.size = PopSize /\ r.bestgen = g
  /\ Listed(t, r) /\ Headed(t, r)
  /\ \A k \in Slot : pop[k].fit <= r.bestfit
  /\ \E k \in Slot : pop[k].fit = r.bestfit

\* calculate_pop_stats does what Calculated says, if memory does not run out.
LEMMA CalculateFacts ==
  ASSUME NEW s \in ListOf(Copy), Whole(s), NEW pop \in Pop, NEW g \in 0 .. MaxGen,
         NEW i \in Subpop, Cardinality(Unused(s)) >= BestN,
         NEW calc, calc = CalculatePopStats(s, pop, g, i)
  PROVE  Calculated(s, pop, g, i, calc.saved, calc.stats)
<1> DEFINE copies == Copies(pop, g, i)
           new == Fresh(s, Len(copies))
           top == TopSlots(pop)
           b == BestSlot(pop)
           t == Save(s, copies, new)
           r == [size |-> PopSize, bestfit |-> pop[b].fit,
                 bestnodes |-> pop[b].nodes, bestgen |-> g,
                 bestpop |-> i, best |-> new]
<1>1. Rated(pop) /\ \A k \in Slot : pop[k] \in Individual
  BY Constants DEF Pop, Individual, Rated
<1>2. calc.saved = t /\ calc.stats = r
  BY DEF CalculatePopStats
<1>3. top \in Seq(Slot) /\ Len(top) = BestN
  BY <1>1, Constants, TopSlotsFacts
<1>4. /\ b \in Slot /\ pop[b].fit = pop[top[1]].fit
      /\ \A k \in Slot : pop[k].fit <= pop[b].fit
  BY <1>1, Constants, BestSlotFacts
<1> HIDE DEF top, b
<1>5. /\ DOMAIN top = 1 .. BestN /\ \A j \in 1 .. BestN : top[j] \in Slot
      /\ 1 \in 1 .. BestN /\ BestN \in Nat
  BY <1>3, Constants, EntriesOf, ElementOfSeq
<1>6. copies = [j \in 1 .. BestN |->
                 [fit |-> pop[top[j]].fit, nodes |-> pop[top[j]].nodes,
                  erc |-> pop[top[j]].erc, gen |-> g, pop |-> i]]
  BY <1>5 DEF Copies, top
<1>7. /\ \A j \in 1 .. BestN : copies[j] \in Copy
      /\ copies[1].fit = pop[b].fit /\ copies[1].gen = g /\ copies[1].pop = i
  <2>1. i \in 0 .. NumSubpops
    BY Constants DEF Subpop
  <2>2. \A j \in 1 .. BestN : pop[top[j]] \in Individual
    BY <1>1, <1>5
  <2>3. \A j \in 1 .. BestN : copies[j] =
          [fit |-> pop[top[j]].fit, nodes |-> pop[top[j]].nodes,
           erc |-> pop[top[j]].erc, gen |-> g, pop |-> i]
    BY <1>6
  <2> HIDE DEF copies
  <2>4. \A j \in 1 .. BestN : copies[j] \in Copy
    <3> TAKE j \in 1 .. BestN
    <3> DEFINE f == pop[top[j]].fit
               n == pop[top[j]].nodes
               e == pop[top[j]].erc
    <3>1. f \in Fitness \cup {0} /\ n \in Nodes \cup {0} /\ e \in SUBSET Erc
      BY <2>2 DEF Individual
    <3>2. copies[j] = [fit |-> f, nodes |-> n, erc |-> e, gen |-> g, pop |-> i]
      BY <2>3
    <3> HIDE DEF f, n, e
    <3> QED  BY <2>1, <3>1, <3>2 DEF Copy
  <2>5. copies[1] = [fit |-> pop[top[1]].fit, nodes |-> pop[top[1]].nodes,
                     erc |-> pop[top[1]].erc, gen |-> g, pop |-> i]
    BY <1>5, <2>3
  <2>6. copies[1].fit = pop[top[1]].fit /\ copies[1].gen = g /\ copies[1].pop = i
    BY <2>5
  <2> QED  BY <1>4, <2>4, <2>6
<1>8. Len(copies) = BestN /\ DOMAIN copies = 1 .. BestN
  <2>1. DOMAIN copies = 1 .. BestN
    BY <1>6
  <2>2. copies \in Seq(Copy)
    <3>1. copies \in [1 .. BestN -> Copy]
      BY <1>6, <1>7
    <3> QED  BY <1>5, <3>1, SeqDef
  <2> HIDE DEF copies
  <2> QED  BY <1>5, <2>1, <2>2, LenProperties
<1>17. \A j \in 1 .. BestN : \E k \in Slot : copies[j].erc = pop[k].erc
  <2> TAKE j \in 1 .. BestN
  <2>1. copies[j].erc = pop[top[j]].erc
    BY <1>6
  <2> HIDE DEF copies
  <2> QED  BY <1>5, <2>1
<1> HIDE DEF copies
<1>9. s.list \in Seq(Address)
  BY DEF ListOf
<1>10. /\ new \in Seq(Address) /\ Len(new) = BestN /\ Injective(new)
       /\ Range(new) \cap Range(s.list) = {}
  BY <1>5, <1>8, <1>9, FreshFacts
<1> HIDE DEF new
<1>11. Len(new) > 0
  BY <1>10, Constants
<1>12. /\ t \in ListOf(Copy) /\ Whole(t)
       /\ Range(t.list) = Range(s.list) \cup Range(new)
       /\ \A a \in Address :
            IF a \in Range(new) THEN t.refcount[a] = 1
            ELSE t.refcount[a] = s.refcount[a] /\ t.ind[a] = s.ind[a]
       /\ \A j \in 1 .. BestN : t.ind[new[j]] = copies[j]
  BY <1>7, <1>10, <1>11, SaveFacts
<1> HIDE DEF t
<1>13. /\ r.size = PopSize /\ r.best = new /\ r.bestfit = pop[b].fit
       /\ r.bestgen = g /\ r.bestpop = i
  OBVIOUS
<1>14. r \in Record /\ r.size # -1
  <2>1. PopSize \in Int /\ PopSize > 0 /\ PopSize # -1
    BY Constants
  <2>2. r \in Stats
    <3>1. i \in 0 .. NumSubpops
      BY Constants DEF Subpop
    <3>2. pop[b].fit \in Fitness \cup {0} /\ pop[b].nodes \in Nodes \cup {0}
      BY <1>1, <1>4 DEF Individual
    <3> QED  BY <1>10, <2>1, <3>1, <3>2 DEF Stats
  <2> HIDE DEF r
  <2> QED  BY <1>10, <1>13, <2>1, <2>2 DEF Record
<1> HIDE DEF r
<1>15. Listed(t, r)
  BY <1>12, <1>13 DEF Listed
<1>16. Headed(t, r)
  BY <1>5, <1>7, <1>12, <1>13 DEF Headed
<1>19. \A j \in 1 .. BestN : Fit(t, r.best[j]) = pop[TopSlots(pop)[j]].fit
  <2> TAKE j \in 1 .. BestN
  <2>1. Fit(t, r.best[j]) = copies[j].fit
    BY <1>12, <1>13 DEF Fit
  <2>2. copies[j] = [fit |-> pop[top[j]].fit, nodes |-> pop[top[j]].nodes,
                     erc |-> pop[top[j]].erc, gen |-> g, pop |-> i]
    BY <1>6
  <2>3. copies[j].fit = pop[top[j]].fit
    BY <2>2
  <2> QED  BY <2>1, <2>3 DEF top
<1>18. Calculated(s, pop, g, i, t, r)
  BY <1>4, <1>8, <1>10, <1>12, <1>13, <1>14, <1>15, <1>16, <1>17, <1>19
     DEF copies, Calculated
<1> QED  BY <1>2, <1>18

\* The records new of a subpopulation, all of the generation and run of the run
\* after a round, which left the list u.
Rounded(s, gs, rs, i, g, t, new, all, run, u) ==
  /\ GoodList(u, [gs EXCEPT ![0] = all, ![i] = new], [rs EXCEPT ![i] = run])
  /\ u.list = t.list /\ u.ind = t.ind
  /\ all = Accumulate(t, gs[0], new).stats
  /\ all \in Record /\ run \in Record /\ all.size # -1 /\ run.size # -1
  /\ all.bestgen = IF gs[0] = NoStats \/ new.bestfit > gs[0].bestfit
                   THEN g ELSE gs[0].bestgen
  /\ run.bestfit = IF rs[i] = NoStats \/ new.bestfit > rs[i].bestfit
                   THEN new.bestfit ELSE rs[i].bestfit

\* One round of generation_information: the copies are saved, and the
\* references counted for the records of the generation and of the run.
LEMMA RoundFacts ==
  ASSUME NEW s, NEW gs, NEW rs, GoodList(s, gs, rs),
         NEW pop \in Pop, NEW g \in 0 .. MaxGen, NEW i \in Subpop, gs[i] = NoStats,
         Cardinality(Unused(s)) >= BestN
  PROVE  LET calc == CalculatePopStats(s, pop, g, i)
             all == Accumulate(calc.saved, gs[0], calc.stats)
             run == Accumulate(all.saved, rs[i], calc.stats)
         IN Rounded(s, gs, rs, i, g, calc.saved, calc.stats, all.stats, run.stats, run.saved)
<1> DEFINE calc == CalculatePopStats(s, pop, g, i)
           new == calc.stats.best
           all == Accumulate(calc.saved, gs[0], calc.stats)
           run == Accumulate(all.saved, rs[i], calc.stats)
           u == run.saved
           gs1 == [gs EXCEPT ![0] = all.stats]
           gs2 == [gs EXCEPT ![0] = all.stats, ![i] = calc.stats]
           rs2 == [rs EXCEPT ![i] = run.stats]
<1>1. /\ s \in ListOf(Copy) /\ Whole(s)
      /\ gs \in [StatIndex -> Record] /\ rs \in [StatIndex -> Record]
      /\ \A a \in Address : s.refcount[a] = Pointers(gs, a) + Pointers(rs, a)
      /\ \A k \in StatIndex : Listed(s, gs[k]) /\ Headed(s, gs[k])
      /\ \A k \in StatIndex : Listed(s, rs[k]) /\ Headed(s, rs[k])
  BY DEF GoodList
<1>2. 0 \in StatIndex /\ i \in StatIndex /\ i # 0
  BY Constants
<1>3. /\ calc.saved \in ListOf(Copy) /\ Whole(calc.saved)
      /\ Range(calc.saved.list) = Range(s.list) \cup Range(new)
      /\ Range(new) \cap Range(s.list) = {}
      /\ \A a \in Address :
           IF a \in Range(new) THEN calc.saved.refcount[a] = 1
           ELSE calc.saved.refcount[a] = s.refcount[a] /\ calc.saved.ind[a] = s.ind[a]
      /\ new \in Seq(Address) /\ Len(new) = BestN /\ Injective(new)
      /\ calc.stats \in Record /\ calc.stats.size # -1 /\ calc.stats.bestgen = g
      /\ Listed(calc.saved, calc.stats) /\ Headed(calc.saved, calc.stats)
  <2>1. Calculated(s, pop, g, i, calc.saved, calc.stats)
    BY <1>1, CalculateFacts
  <2> HIDE DEF calc
  <2> QED  BY <2>1 DEF Calculated
<1> HIDE DEF calc
<1>4. \A r \in Record : Listed(s, r) /\ Headed(s, r)
                        => Listed(calc.saved, r) /\ Headed(calc.saved, r)
  <2> SUFFICES ASSUME NEW r \in Record, Listed(s, r), Headed(s, r)
               PROVE  Listed(calc.saved, r) /\ Headed(calc.saved, r)
    OBVIOUS
  <2>1. Range(r.best) \subseteq Range(s.list)
    BY DEF Listed
  <2>2. Range(s.list) \subseteq Address
    BY <1>1, EntriesOf DEF ListOf
  <2>3. \A a \in Range(r.best) : calc.saved.ind[a] = s.ind[a]
    BY <1>3, <2>1, <2>2
  <2>4. Range(r.best) \subseteq Range(calc.saved.list)
    BY <1>3, <2>1
  <2> QED  BY <2>3, <2>4, RecordKept
<1>5. /\ gs[0] \in Record /\ rs[i] \in Record
      /\ Listed(calc.saved, gs[0]) /\ Headed(calc.saved, gs[0])
      /\ Listed(calc.saved, rs[i]) /\ Headed(calc.saved, rs[i])
  BY <1>1, <1>2, <1>4
<1>6. /\ all.saved \in ListOf(Copy) /\ Whole(all.saved)
      /\ all.saved.list = calc.saved.list /\ all.saved.ind = calc.saved.ind
      /\ \A a \in Address :
           all.saved.refcount[a] = calc.saved.refcount[a] - Occurrences(gs[0].best, a)
                                   + Occurrences(all.stats.best, a)
      /\ all.stats \in Record /\ all.stats.size # -1
      /\ Listed(calc.saved, all.stats) /\ Headed(calc.saved, all.stats)
      /\ all.stats.bestgen = IF gs[0] = NoStats \/ calc.stats.bestfit > gs[0].bestfit
                             THEN calc.stats.bestgen ELSE gs[0].bestgen
  BY <1>3, <1>5, AccumulateFacts
<1> HIDE DEF all
<1>7. \A r : /\ Listed(calc.saved, r) <=> Listed(all.saved, r)
             /\ Headed(calc.saved, r) <=> Headed(all.saved, r)
  BY <1>6 DEF Listed, Headed
<1>8. /\ u \in ListOf(Copy) /\ Whole(u)
      /\ u.list = all.saved.list /\ u.ind = all.saved.ind
      /\ \A a \in Address :
           u.refcount[a] = all.saved.refcount[a] - Occurrences(rs[i].best, a)
                           + Occurrences(run.stats.best, a)
      /\ run.stats \in Record /\ run.stats.size # -1
      /\ Listed(all.saved, run.stats) /\ Headed(all.saved, run.stats)
      /\ run.stats.bestfit = IF rs[i] = NoStats \/ calc.stats.bestfit > rs[i].bestfit
                             THEN calc.stats.bestfit ELSE rs[i].bestfit
  BY <1>3, <1>5, <1>6, <1>7, AccumulateFacts
<1> HIDE DEF run
<1>9. \A r : /\ Listed(calc.saved, r) <=> Listed(u, r)
             /\ Headed(calc.saved, r) <=> Headed(u, r)
  BY <1>6, <1>8 DEF Listed, Headed
<1>10. /\ gs1 \in [StatIndex -> Record]
       /\ gs1[i] = NoStats /\ gs1[0] = all.stats
       /\ gs2 \in [StatIndex -> Record] /\ rs2 \in [StatIndex -> Record]
  BY <1>1, <1>2, <1>3, <1>6, <1>8
<1>11. \A k \in StatIndex : Listed(u, gs2[k]) /\ Headed(u, gs2[k])
  <2> TAKE k \in StatIndex
  <2>1. CASE k = i
    <3>1. gs2[k] = calc.stats
      BY <1>1, <2>1
    <3> QED  BY <1>3, <1>9, <3>1
  <2>2. CASE k = 0
    <3>1. gs2[k] = all.stats
      BY <1>1, <1>2, <2>2
    <3> QED  BY <1>6, <1>9, <3>1
  <2>3. CASE k # i /\ k # 0
    <3>1. gs2[k] = gs[k] /\ gs[k] \in Record
      BY <1>1, <2>3
    <3> QED  BY <1>1, <1>4, <1>9, <3>1
  <2> QED  BY <2>1, <2>2, <2>3
<1>12. \A k \in StatIndex : Listed(u, rs2[k]) /\ Headed(u, rs2[k])
  <2> TAKE k \in StatIndex
  <2>1. CASE k = i
    <3>1. rs2[k] = run.stats
      BY <1>1, <2>1
    <3> QED  BY <1>7, <1>8, <1>9, <3>1
  <2>2. CASE k # i
    <3>1. rs2[k] = rs[k] /\ rs[k] \in Record
      BY <1>1, <2>2
    <3> QED  BY <1>1, <1>4, <1>9, <3>1
  <2> QED  BY <2>1, <2>2
<1>13. ASSUME NEW a \in Address
       PROVE  u.refcount[a] = Pointers(gs2, a) + Pointers(rs2, a)
  <2>1. /\ Pointers(gs, a) \in Nat /\ Pointers(gs1, a) \in Nat
        /\ Pointers(gs1, a)
           = Pointers(gs, a) - Occurrences(gs[0].best, a) + Occurrences(all.stats.best, a)
    <3>1. SameButRecord(gs, gs1, 0) /\ gs1[0] = all.stats
      BY <1>1, <1>2 DEF SameButRecord
    <3> HIDE DEF gs1
    <3> QED  BY <1>1, <1>2, <1>10, <3>1, PointersOfRow
  <2>2. /\ Pointers(gs2, a) \in Nat
        /\ Pointers(gs2, a) = Pointers(gs1, a) - Occurrences(gs1[i].best, a) + Occurrences(new, a)
    <3>1. SameButRecord(gs1, gs2, i) /\ gs2[i] = calc.stats
      BY <1>1, <1>2 DEF SameButRecord
    <3> HIDE DEF gs1, gs2
    <3> QED  BY <1>2, <1>10, <3>1, PointersOfRow
  <2>3. /\ Pointers(rs, a) \in Nat /\ Pointers(rs2, a) \in Nat
        /\ Pointers(rs2, a)
           = Pointers(rs, a) - Occurrences(rs[i].best, a) + Occurrences(run.stats.best, a)
    <3>1. SameButRecord(rs, rs2, i) /\ rs2[i] = run.stats
      BY <1>1, <1>2 DEF SameButRecord
    <3> HIDE DEF rs2
    <3> QED  BY <1>1, <1>2, <1>10, <3>1, PointersOfRow
  <2>4. Occurrences(gs1[i].best, a) = 0
    <3>1. gs1[i].best = <<>>
      BY <1>10, NoRecordsFacts, RecordFacts
    <3> QED  BY <3>1, NoOccurrences
  <2> HIDE DEF gs1, gs2, rs2
  <2>5. calc.saved.refcount[a] = s.refcount[a] + Occurrences(new, a)
    <3>1. CASE a \in Range(new)
      <4>1. \A k \in StatIndex : a \notin Range(gs[k].best) /\ a \notin Range(rs[k].best)
        BY <1>1, <1>3, <3>1 DEF Listed
      <4>2. Pointers(gs, a) = 0 /\ Pointers(rs, a) = 0
        BY <1>1, <4>1, PointersOfNone
      <4>3. Occurrences(new, a) = 1
        BY <1>3, <3>1, OccurrencesFacts
      <4> QED  BY <1>1, <1>3, <3>1, <4>2, <4>3
    <3>2. CASE a \notin Range(new)
      <4>1. Occurrences(new, a) = 0 /\ s.refcount[a] \in Int
        BY <1>1, <1>3, <3>2, OccurrencesFacts DEF ListOf
      <4> QED  BY <1>3, <3>2, <4>1
    <3> QED  BY <3>1, <3>2
  <2>6. /\ Occurrences(new, a) \in Nat /\ Occurrences(gs[0].best, a) \in Nat
        /\ Occurrences(rs[i].best, a) \in Nat /\ Occurrences(all.stats.best, a) \in Nat
        /\ Occurrences(run.stats.best, a) \in Nat
    BY <1>3, <1>5, <1>6, <1>8, RecordFacts, OccurrencesFacts
  <2>7. s.refcount[a] = Pointers(gs, a) + Pointers(rs, a)
    BY <1>1
  <2>8. /\ all.saved.refcount[a] = calc.saved.refcount[a] - Occurrences(gs[0].best, a)
                                   + Occurrences(all.stats.best, a)
        /\ u.refcount[a] = all.saved.refcount[a] - Occurrences(rs[i].best, a)
                           + Occurrences(run.stats.best, a)
    BY <1>6, <1>8
  <2> HIDE DEF u, new
  <2> QED  BY <2>1, <2>2, <2>3, <2>4, <2>5, <2>6, <2>7, <2>8
<1>14. GoodList(u, gs2, rs2)
  <2> HIDE DEF gs2, rs2, u
  <2> QED  BY <1>8, <1>10, <1>11, <1>12, <1>13 DEF GoodList
<1>15. u.list = calc.saved.list /\ u.ind = calc.saved.ind
  BY <1>6, <1>8
<1> HIDE DEF u, gs2, rs2
<1> QED  BY <1>3, <1>6, <1>8, <1>14, <1>15 DEF u, gs2, rs2, Rounded, run, all, calc

\* What merging the generation's record into the run's returns.
Merged(s, gs, rs, run) ==
  /\ GoodList(run.saved, gs, [rs EXCEPT ![0] = run.stats])
  /\ run.saved.list = s.list /\ run.saved.ind = s.ind
  /\ run.stats \in Record /\ run.stats.size # -1
  /\ run.changed = (rs[0] = NoStats \/ gs[0].bestfit > rs[0].bestfit)
  /\ run.stats.best[1] = IF run.changed THEN gs[0].best[1] ELSE rs[0].best[1]
  /\ run.stats.bestgen = IF run.changed THEN gs[0].bestgen ELSE rs[0].bestgen

\* The generation's record is merged into the run's record.
LEMMA EndOfRoundsFacts ==
  ASSUME NEW s, NEW gs, NEW rs, GoodList(s, gs, rs), gs[0].size # -1,
         NEW run, run = Accumulate(s, rs[0], gs[0])
  PROVE  Merged(s, gs, rs, run)
<1> DEFINE rs2 == [rs EXCEPT ![0] = run.stats]
           u == run.saved
<1>1. /\ s \in ListOf(Copy) /\ Whole(s)
      /\ gs \in [StatIndex -> Record] /\ rs \in [StatIndex -> Record]
      /\ \A a \in Address : s.refcount[a] = Pointers(gs, a) + Pointers(rs, a)
      /\ \A k \in StatIndex : Listed(s, gs[k]) /\ Headed(s, gs[k])
      /\ \A k \in StatIndex : Listed(s, rs[k]) /\ Headed(s, rs[k])
  BY DEF GoodList
<1>2. 0 \in StatIndex
  BY Constants
<1>3. /\ gs[0] \in Record /\ rs[0] \in Record
      /\ Listed(s, gs[0]) /\ Headed(s, gs[0]) /\ Listed(s, rs[0]) /\ Headed(s, rs[0])
  BY <1>1, <1>2
<1>4. /\ u \in ListOf(Copy) /\ Whole(u) /\ u.list = s.list /\ u.ind = s.ind
      /\ \A a \in Address :
           u.refcount[a] = s.refcount[a] - Occurrences(rs[0].best, a)
                           + Occurrences(run.stats.best, a)
      /\ run.stats \in Record /\ run.stats.size # -1
      /\ Listed(s, run.stats) /\ Headed(s, run.stats)
      /\ run.changed = (rs[0] = NoStats \/ gs[0].bestfit > rs[0].bestfit)
      /\ run.stats.best[1] = IF run.changed THEN gs[0].best[1] ELSE rs[0].best[1]
      /\ run.stats.bestgen = IF run.changed THEN gs[0].bestgen ELSE rs[0].bestgen
  <2> DEFINE acc == Accumulate(s, rs[0], gs[0])
  <2>1. /\ acc.saved \in ListOf(Copy) /\ Whole(acc.saved)
        /\ acc.saved.list = s.list /\ acc.saved.ind = s.ind
        /\ \A a \in Address :
             acc.saved.refcount[a] = s.refcount[a] - Occurrences(rs[0].best, a)
                                     + Occurrences(acc.stats.best, a)
        /\ acc.stats \in Record /\ acc.stats.size # -1
        /\ Listed(s, acc.stats) /\ Headed(s, acc.stats)
        /\ acc.changed = (rs[0] = NoStats \/ gs[0].bestfit > rs[0].bestfit)
        /\ acc.stats.best[1] = IF rs[0] = NoStats \/ gs[0].bestfit > rs[0].bestfit
                               THEN gs[0].best[1] ELSE rs[0].best[1]
        /\ acc.stats.bestgen = IF rs[0] = NoStats \/ gs[0].bestfit > rs[0].bestfit
                               THEN gs[0].bestgen ELSE rs[0].bestgen
    BY SMTT(30), <1>1, <1>3, AccumulateFacts
  <2>2. acc = run
    OBVIOUS
  <2> HIDE DEF acc
  <2> QED  BY <2>1, <2>2
<1>5. \A r : /\ Listed(s, r) <=> Listed(u, r)
             /\ Headed(s, r) <=> Headed(u, r)
  BY <1>4 DEF Listed, Headed
<1>6. rs2 \in [StatIndex -> Record]
  BY <1>1, <1>4
<1>7. \A k \in StatIndex : Listed(u, rs2[k]) /\ Headed(u, rs2[k])
  <2> TAKE k \in StatIndex
  <2>1. CASE k = 0
    <3>1. rs2[k] = run.stats
      BY <1>1, <2>1
    <3> QED  BY <1>4, <1>5, <3>1
  <2>2. CASE k # 0
    <3>1. rs2[k] = rs[k]
      BY <1>1, <2>2
    <3> QED  BY <1>1, <1>5, <3>1
  <2> QED  BY <2>1, <2>2
<1>8. ASSUME NEW a \in Address
      PROVE  u.refcount[a] = Pointers(gs, a) + Pointers(rs2, a)
  <2>1. /\ Pointers(rs, a) \in Nat /\ Pointers(rs2, a) \in Nat
        /\ Pointers(rs2, a)
           = Pointers(rs, a) - Occurrences(rs[0].best, a) + Occurrences(run.stats.best, a)
    <3>1. SameButRecord(rs, rs2, 0) /\ rs2[0] = run.stats
      BY <1>1, <1>2 DEF SameButRecord
    <3> HIDE DEF rs2
    <3> QED  BY <1>1, <1>2, <1>6, <3>1, PointersOfRow
  <2>2. Pointers(gs, a) \in Nat
    <3>1. SameButRecord(gs, gs, 0)
      BY DEF SameButRecord
    <3> QED  BY <1>1, <1>2, <3>1, PointersOfRow
  <2>3. Occurrences(rs[0].best, a) \in Nat /\ Occurrences(run.stats.best, a) \in Nat
    BY <1>3, <1>4, RecordFacts, OccurrencesFacts
  <2>4. /\ s.refcount[a] = Pointers(gs, a) + Pointers(rs, a)
        /\ u.refcount[a] = s.refcount[a] - Occurrences(rs[0].best, a)
                           + Occurrences(run.stats.best, a)
    BY <1>1, <1>4
  <2> HIDE DEF rs2, u
  <2> QED  BY <2>1, <2>2, <2>3, <2>4
<1>9. GoodList(u, gs, rs2)
  <2>1. \A k \in StatIndex : Listed(u, gs[k]) /\ Headed(u, gs[k])
    BY <1>1, <1>5
  <2> HIDE DEF rs2, u
  <2> QED  BY <1>1, <1>4, <1>6, <1>7, <1>8, <2>1 DEF GoodList
<1> QED  BY <1>4, <1>9 DEF Merged

\* Records are freed and the copies that nothing points at any more collected.
LEMMA ReleaseFacts ==
  ASSUME NEW s, NEW gs, NEW rs, GoodList(s, gs, rs), NEW r, r = Release(s, gs),
         NEW t, t = SavedIndividualGc(r)
  PROVE  /\ GoodList(t, NoRecords, rs)
         /\ Unreferenced(t) = {}
         /\ Range(t.list) = Range(s.list) \ Unreferenced(r)
         /\ Unreferenced(r) \subseteq Range(s.list) /\ r.ind = s.ind
         /\ \A a \in Range(t.list) : t.ind[a] = s.ind[a]
<1>1. /\ s \in ListOf(Copy) /\ Whole(s)
      /\ gs \in [StatIndex -> Record] /\ rs \in [StatIndex -> Record]
      /\ \A a \in Address : s.refcount[a] = Pointers(gs, a) + Pointers(rs, a)
      /\ \A k \in StatIndex : Listed(s, gs[k]) /\ Headed(s, gs[k])
      /\ \A k \in StatIndex : Listed(s, rs[k]) /\ Headed(s, rs[k])
  BY DEF GoodList
<1> DEFINE counts == [a \in Address |-> s.refcount[a] - Pointers(gs, a)]
<1>2. /\ r = [list |-> s.list, tail |-> s.tail, count |-> s.count,
              refcount |-> counts, ind |-> s.ind]
  <2>1. s = [list |-> s.list, tail |-> s.tail, count |-> s.count,
             refcount |-> s.refcount, ind |-> s.ind]
    BY <1>1 DEF ListOf
  <2>2. r = [s EXCEPT !.refcount = counts]
    BY DEF Release
  <2> HIDE DEF counts
  <2> QED  BY <2>1, <2>2
<1>3. /\ r.list = s.list /\ r.tail = s.tail /\ r.count = s.count /\ r.ind = s.ind
      /\ r.refcount = counts
  BY <1>2
<1>4. \A a \in Address : /\ Pointers(gs, a) \in Nat /\ Pointers(rs, a) \in Nat
                         /\ r.refcount[a] = Pointers(rs, a)
  <2> TAKE a \in Address
  <2>1. SameButRecord(gs, gs, 0) /\ SameButRecord(rs, rs, 0)
    BY DEF SameButRecord
  <2>2. Pointers(gs, a) \in Nat /\ Pointers(rs, a) \in Nat
    BY <1>1, <2>1, Constants, PointersOfRow
  <2>3. r.refcount[a] = s.refcount[a] - Pointers(gs, a)
    BY <1>3
  <2>4. s.refcount[a] = Pointers(gs, a) + Pointers(rs, a)
    BY <1>1
  <2> QED  BY <2>2, <2>3, <2>4
<1>5. r \in ListOf(Copy)
  <2>1. r.refcount \in [Address -> Int]
    <3>1. \A a \in Address : r.refcount[a] \in Int
      BY <1>4
    <3> QED  BY <1>3, <3>1
  <2> HIDE DEF counts
  <2> QED  BY <1>1, <1>2, <1>3, <2>1 DEF ListOf
<1> HIDE DEF counts
<1>6. Whole(r)
  BY <1>1, <1>3 DEF Whole
<1>7. /\ t \in ListOf(Copy) /\ Whole(t)
      /\ Range(t.list) = Range(r.list) \ Unreferenced(r)
      /\ t.refcount = r.refcount
      /\ \A a \in Range(t.list) : t.ind[a] = r.ind[a]
  BY <1>5, <1>6, NobodyFacts, GcFacts
<1>8. Unreferenced(r) \subseteq Range(s.list)
  BY <1>3 DEF Unreferenced
<1>9. Unreferenced(t) = {}
  <2>1. \A a \in Range(t.list) : a \in Range(r.list) /\ r.refcount[a] # 0
    BY <1>7 DEF Unreferenced
  <2> QED  BY <1>7, <2>1 DEF Unreferenced
<1>10. \A k \in StatIndex : Listed(t, rs[k]) /\ Headed(t, rs[k])
  <2> TAKE k \in StatIndex
  <2>0. rs[k] \in Record /\ Listed(s, rs[k]) /\ Headed(s, rs[k])
    BY <1>1
  <2>1. Range(rs[k].best) \subseteq Range(t.list)
    <3> SUFFICES ASSUME NEW a \in Range(rs[k].best) PROVE a \in Range(t.list)
      OBVIOUS
    <3>1. a \in Range(s.list)
      BY <2>0 DEF Listed
    <3>2. a \in Address
      BY <1>1, <3>1, EntriesOf DEF ListOf
    <3>3. Pointers(rs, a) # 0
      BY <1>1, PointersOfNone
    <3>4. r.refcount[a] # 0
      BY <1>4, <3>2, <3>3
    <3> QED  BY <1>3, <1>7, <3>1, <3>4 DEF Unreferenced
  <2>2. \A a \in Range(rs[k].best) : t.ind[a] = s.ind[a]
    BY <1>3, <1>7, <2>1
  <2> QED  BY <2>0, <2>1, <2>2, RecordKept
<1>11. \A k \in StatIndex : Listed(t, NoRecords[k]) /\ Headed(t, NoRecords[k])
  BY NoRecordsFacts DEF NoRecords
<1>12. \A a \in Address : t.refcount[a] = Pointers(NoRecords, a) + Pointers(rs, a)
  BY <1>4, <1>7, NoRecordsFacts
<1>13. GoodList(t, NoRecords, rs)
  BY <1>1, <1>7, <1>10, <1>11, <1>12, NoRecordsFacts DEF GoodList
<1> QED  BY <1>3, <1>7, <1>8, <1>9, <1>13

\* The two sets of records may change places.
LEMMA EitherRecords ==
  ASSUME NEW s, NEW gs, NEW rs, GoodList(s, gs, rs)
  PROVE  GoodList(s, rs, gs)
<1>1. /\ gs \in [StatIndex -> Record] /\ rs \in [StatIndex -> Record]
      /\ \A a \in Address : s.refcount[a] = Pointers(gs, a) + Pointers(rs, a)
  BY DEF GoodList
<1>2. \A a \in Address : Pointers(gs, a) \in Nat /\ Pointers(rs, a) \in Nat
  <2> TAKE a \in Address
  <2>1. SameButRecord(gs, gs, 0) /\ SameButRecord(rs, rs, 0)
    BY DEF SameButRecord
  <2> QED  BY <1>1, <2>1, Constants, PointersOfRow
<1>3. \A a \in Address : s.refcount[a] = Pointers(rs, a) + Pointers(gs, a)
  BY <1>1, <1>2
<1> QED  BY <1>3 DEF GoodList

\* The list that was written to a checkpoint is the list that is read.
LEMMA ReadSavedFacts ==
  ASSUME NEW s \in ListOf(Copy), Whole(s)
  PROVE  ReadSaved(s) = s
<1>1. s = [list |-> s.list, tail |-> s.tail, count |-> s.count,
           refcount |-> s.refcount, ind |-> s.ind]
  BY DEF ListOf
<1> DEFINE last == IF s.list = <<>> THEN Dummy ELSE s.list[Len(s.list)]
<1>2. last = s.tail /\ Len(s.list) = s.count
  BY DEF Whole
<1>3. ReadSaved(s) = [s EXCEPT !.tail = last, !.count = Len(s.list)]
  BY DEF ReadSaved
<1> HIDE DEF last
<1>4. ReadSaved(s) = [s EXCEPT !.tail = s.tail, !.count = s.count]
  BY <1>2, <1>3
<1> QED  BY <1>1, <1>4

-----------------------------------------------------------------------------
(* The users of constants *)

\* g is f on a part of its domain, as far as constants go.
Part(f, g) == DOMAIN g \subseteq DOMAIN f /\ \A k \in DOMAIN g : f[k].erc = g[k].erc

\* g and h are f's two parts.
Parts(f, g, h) ==
  /\ IsFiniteSet(DOMAIN f) /\ Part(f, g) /\ Part(f, h)
  /\ DOMAIN g \cup DOMAIN h = DOMAIN f /\ DOMAIN g \cap DOMAIN h = {}

\* f is g under other names.
Renames(m, g, f) ==
  /\ m \in [DOMAIN g -> DOMAIN f]
  /\ \A j, k \in DOMAIN g : m[j] = m[k] => j = k
  /\ \A y \in DOMAIN f : \E k \in DOMAIN g : m[k] = y
  /\ \A k \in DOMAIN g : f[m[k]].erc = g[k].erc

\* A constant has no user exactly when no tree contains it.
LEMMA UsersFacts ==
  ASSUME NEW f, IsFiniteSet(DOMAIN f), NEW c
  PROVE  /\ Users(f, c) \in Nat
         /\ Users(f, c) = 0 <=> \A k \in DOMAIN f : c \notin f[k].erc
<1> DEFINE S == {k \in DOMAIN f : c \in f[k].erc}
<1>1. IsFiniteSet(S)
  <2>1. S \subseteq DOMAIN f
    OBVIOUS
  <2> QED  BY <2>1, FS_Subset
<1>2. S = {} <=> \A k \in DOMAIN f : c \notin f[k].erc
  OBVIOUS
<1>3. Users(f, c) = Cardinality(S)
  BY DEF Users
<1> HIDE DEF S
<1> QED  BY <1>1, <1>2, <1>3, FS_EmptySet, FS_CardinalityType

\* The users of a constant are those in either part.
LEMMA PartsOfUsers ==
  ASSUME NEW f, NEW g, NEW h, Parts(f, g, h), NEW c
  PROVE  /\ Users(f, c) \in Nat /\ Users(g, c) \in Nat /\ Users(h, c) \in Nat
         /\ Users(f, c) = Users(g, c) + Users(h, c)
<1> DEFINE S == {k \in DOMAIN g : c \in g[k].erc}
           T == {k \in DOMAIN h : c \in h[k].erc}
           R == {k \in DOMAIN f : c \in f[k].erc}
<1> USE DEF Parts
<1>1. R = S \cup T /\ S \cap T = {}
  BY DEF Part
<1>2. IsFiniteSet(DOMAIN g) /\ IsFiniteSet(DOMAIN h)
  BY FS_Subset DEF Part
<1>3. IsFiniteSet(S) /\ IsFiniteSet(T)
  <2>1. S \subseteq DOMAIN g /\ T \subseteq DOMAIN h
    OBVIOUS
  <2> HIDE DEF S, T
  <2> QED  BY <1>2, <2>1, FS_Subset
<1>4. /\ Users(f, c) = Cardinality(R) /\ Users(g, c) = Cardinality(S)
      /\ Users(h, c) = Cardinality(T)
  BY DEF Users
<1> HIDE DEF R, S, T
<1>5. Cardinality(R) = Cardinality(S) + Cardinality(T)
  BY <1>1, <1>3, TwoParts
<1>6. Users(f, c) \in Nat /\ Users(g, c) \in Nat /\ Users(h, c) \in Nat
  BY <1>2, UsersFacts
<1> QED  BY <1>4, <1>5, <1>6

\* Users are counted whatever their places are called.
LEMMA RenamedUsers ==
  ASSUME NEW f, NEW g, NEW m, IsFiniteSet(DOMAIN g), Renames(m, g, f), NEW c
  PROVE  IsFiniteSet(DOMAIN f) /\ Users(f, c) = Users(g, c)
<1> DEFINE S == {k \in DOMAIN g : c \in g[k].erc}
           T == {k \in DOMAIN f : c \in f[k].erc}
           n == [k \in S |-> m[k]]
<1>1. IsFiniteSet(DOMAIN f)
  BY SameNumber DEF Renames
<1>2. IsFiniteSet(S)
  <2>1. S \subseteq DOMAIN g
    OBVIOUS
  <2> HIDE DEF S
  <2> QED  BY <2>1, FS_Subset
<1>3. n \in [S -> T]
  BY DEF Renames
<1>4. \A x, y \in S : n[x] = n[y] => x = y
  BY DEF Renames
<1>5. \A y \in T : \E x \in S : n[x] = y
  <2> SUFFICES ASSUME NEW y \in T PROVE \E x \in S : n[x] = y
    OBVIOUS
  <2>1. PICK k \in DOMAIN g : m[k] = y
    BY DEF Renames
  <2>2. k \in S
    BY <2>1 DEF Renames
  <2> QED  BY <2>1, <2>2
<1> HIDE DEF n
<1>6. Users(g, c) = Cardinality(S) /\ Users(f, c) = Cardinality(T)
  BY DEF Users
<1> HIDE DEF S, T
<1>7. Cardinality(T) = Cardinality(S)
  BY <1>2, <1>3, <1>4, <1>5, SameNumber
<1> QED  BY <1>1, <1>6, <1>7

\* A part of f, known as g under other names, is replaced by what h is.

Replaced(J, D, m, f, ff, g, gg) ==
  /\ IsFiniteSet(J) /\ IsFiniteSet(D) /\ m \in [J -> D]
  /\ \A j, k \in J : m[j] = m[k] => j = k
  /\ DOMAIN f = D /\ DOMAIN ff = D /\ DOMAIN g = J /\ DOMAIN gg = J
  /\ \A x \in D : (\A j \in J : m[j] # x) => f[x].erc = ff[x].erc
  /\ \A j \in J : f[m[j]].erc = g[j].erc /\ ff[m[j]].erc = gg[j].erc

\* Replacing individuals takes away the old users and adds the new ones.
LEMMA ReplacedUsers ==
  ASSUME NEW J, NEW D, NEW m, NEW f, NEW ff, NEW g, NEW gg,
         Replaced(J, D, m, f, ff, g, gg), NEW c
  PROVE  /\ Users(f, c) \in Nat /\ Users(g, c) \in Nat /\ Users(gg, c) \in Nat
         /\ Users(ff, c) = Users(f, c) - Users(g, c) + Users(gg, c)
<1> DEFINE Q == {x \in D : \E j \in J : m[j] = x}
           inside(h) == [x \in Q |-> h[x]]
           outside(h) == [x \in D \ Q |-> h[x]]
<1> USE DEF Replaced
<1>1. Q \subseteq D
  OBVIOUS
<1>2. /\ Renames(m, g, inside(f)) /\ Renames(m, gg, inside(ff))
  BY DEF Renames
<1>3. outside(f) = [x \in D \ Q |-> f[x]] /\ outside(ff) = [x \in D \ Q |-> ff[x]]
  OBVIOUS
<1>4. /\ Part(f, inside(f)) /\ Part(f, outside(f))
      /\ Part(ff, inside(ff)) /\ Part(ff, outside(f))
  BY DEF Part
<1>5. /\ DOMAIN inside(f) = Q /\ DOMAIN inside(ff) = Q /\ DOMAIN outside(f) = D \ Q
      /\ Q \cup (D \ Q) = D /\ Q \cap (D \ Q) = {}
  OBVIOUS
<1> HIDE DEF Q, inside, outside
<1>6. /\ Users(f, c) \in Nat /\ Users(inside(f), c) \in Nat /\ Users(outside(f), c) \in Nat
      /\ Users(f, c) = Users(inside(f), c) + Users(outside(f), c)
  <2>1. Parts(f, inside(f), outside(f))
    BY <1>4, <1>5 DEF Parts
  <2> QED  BY <2>1, PartsOfUsers
<1>7. /\ Users(inside(ff), c) \in Nat
      /\ Users(ff, c) = Users(inside(ff), c) + Users(outside(f), c)
  <2>1. Parts(ff, inside(ff), outside(f))
    BY <1>4, <1>5 DEF Parts
  <2> QED  BY <2>1, PartsOfUsers
<1>8. Users(inside(f), c) = Users(g, c) /\ Users(inside(ff), c) = Users(gg, c)
  BY <1>2, RenamedUsers
<1> QED  BY <1>6, <1>7, <1>8

ErcList == [active : SUBSET Erc, refcount : [Erc -> Int], named : SUBSET Erc]

\* The copies on the list.
Held(s) == [a \in Range(s.list) |-> s.ind[a]]

\* The counts of the constants are exact, and those in use are active.
GoodErcs(ps, s, e) ==
  /\ ps \in [Subpop -> Pop] /\ e \in ErcList /\ Range(s.list) \subseteq Address
  /\ \A c \in Erc : e.refcount[c] = Users(Everyone(ps), c) + Users(Held(s), c)
  /\ \A i \in Subpop, k \in Slot : ps[i][k].erc \subseteq e.active
  /\ \A a \in Range(s.list) : s.ind[a].erc \subseteq e.active

\* The individuals of all subpopulations.
LEMMA EveryoneFacts ==
  ASSUME NEW ps
  PROVE  /\ DOMAIN Everyone(ps) = Subpop \X Slot /\ IsFiniteSet(Subpop \X Slot)
         /\ \A i \in Subpop, k \in Slot : Everyone(ps)[<<i, k>>] = ps[i][k]
         /\ \A c : Users(Everyone(ps), c) \in Nat
<1>1. /\ DOMAIN Everyone(ps) = Subpop \X Slot
      /\ \A i \in Subpop, k \in Slot : Everyone(ps)[<<i, k>>] = ps[i][k]
  BY DEF Everyone
<1>2. IsFiniteSet(Subpop \X Slot)
  BY Constants, FS_Product
<1> QED  BY <1>1, <1>2, UsersFacts

\* The copies on the list as users of constants.
LEMMA HeldFacts ==
  ASSUME NEW s, Range(s.list) \subseteq Address
  PROVE  /\ DOMAIN Held(s) = Range(s.list) /\ IsFiniteSet(Range(s.list))
         /\ \A a \in Range(s.list) : Held(s)[a] = s.ind[a]
         /\ \A c : Users(Held(s), c) \in Nat
<1>1. DOMAIN Held(s) = Range(s.list) /\ \A a \in Range(s.list) : Held(s)[a] = s.ind[a]
  BY DEF Held
<1>2. IsFiniteSet(Range(s.list))
  BY Constants, FS_Subset
<1> QED  BY <1>1, <1>2, UsersFacts

\* reference_ephem_constants changes the counts by the number of users.
LEMMA ReferenceErcsFacts ==
  ASSUME NEW e \in ErcList, NEW inds, IsFiniteSet(DOMAIN inds), NEW n \in {1, -1},
         NEW d, d = ReferenceErcs(e, inds, n)
  PROVE  /\ d \in ErcList /\ d.active = e.active /\ d.named = e.named
         /\ \A c \in Erc : d.refcount[c] = IF n = 1 THEN e.refcount[c] + Users(inds, c)
                                           ELSE e.refcount[c] - Users(inds, c)
<1> DEFINE counts == [c \in Erc |-> e.refcount[c] + n * Users(inds, c)]
<1>1. \A c \in Erc : Users(inds, c) \in Nat /\ e.refcount[c] \in Int
  BY UsersFacts DEF ErcList
<1>2. \A c \in Erc : /\ counts[c] \in Int
                     /\ counts[c] = IF n = 1 THEN e.refcount[c] + Users(inds, c)
                                    ELSE e.refcount[c] - Users(inds, c)
  <2> TAKE c \in Erc
  <2>1. CASE n = 1
    BY <1>1, <2>1
  <2>2. CASE n = -1
    BY <1>1, <2>2
  <2> QED  BY <2>1, <2>2
<1>3. counts \in [Erc -> Int]
  BY <1>2
<1>4. d = [e EXCEPT !.refcount = counts]
  BY DEF ReferenceErcs
<1>5. e = [active |-> e.active, refcount |-> e.refcount, named |-> e.named]
  BY DEF ErcList
<1> HIDE DEF counts
<1>6. d = [active |-> e.active, refcount |-> counts, named |-> e.named]
  BY <1>4, <1>5
<1>7. d.active = e.active /\ d.refcount = counts /\ d.named = e.named
  BY <1>6
<1>8. d \in ErcList
  BY <1>3, <1>6 DEF ErcList
<1> QED  BY <1>2, <1>7, <1>8

\* ... counting up,
LEMMA CountedUp ==
  ASSUME NEW e \in ErcList, NEW inds, IsFiniteSet(DOMAIN inds)
  PROVE  /\ ReferenceErcs(e, inds, 1) \in ErcList
         /\ ReferenceErcs(e, inds, 1).active = e.active
         /\ ReferenceErcs(e, inds, 1).named = e.named
         /\ \A c \in Erc : ReferenceErcs(e, inds, 1).refcount[c]
                         = e.refcount[c] + Users(inds, c)
<1>1. 1 \in {1, -1} /\ \A x, y : (IF 1 = 1 THEN x ELSE y) = x
  OBVIOUS
<1> DEFINE d == ReferenceErcs(e, inds, 1)
<1>2. /\ d \in ErcList /\ d.active = e.active /\ d.named = e.named
      /\ \A c \in Erc : d.refcount[c] = IF 1 = 1 THEN e.refcount[c] + Users(inds, c)
                                        ELSE e.refcount[c] - Users(inds, c)
  BY <1>1, ReferenceErcsFacts
<1> HIDE DEF d
<1> QED  BY <1>1, <1>2 DEF d

\* ... and counting down.
LEMMA CountedDown ==
  ASSUME NEW e \in ErcList, NEW inds, IsFiniteSet(DOMAIN inds)
  PROVE  /\ ReferenceErcs(e, inds, -1) \in ErcList
         /\ ReferenceErcs(e, inds, -1).active = e.active
         /\ ReferenceErcs(e, inds, -1).named = e.named
         /\ \A c \in Erc : ReferenceErcs(e, inds, -1).refcount[c]
                         = e.refcount[c] - Users(inds, c)
<1>1. -1 \in {1, -1} /\ -1 # 1
  OBVIOUS
<1> DEFINE d == ReferenceErcs(e, inds, -1)
<1>2. /\ d \in ErcList /\ d.active = e.active /\ d.named = e.named
      /\ \A c \in Erc : d.refcount[c] = IF -1 = 1 THEN e.refcount[c] + Users(inds, c)
                                        ELSE e.refcount[c] - Users(inds, c)
  BY <1>1, ReferenceErcsFacts
<1> HIDE DEF d
<1> QED  BY <1>1, <1>2 DEF d

\* Saving copies counts the constants of the copies.
LEMMA RoundErcs ==
  ASSUME NEW ps, NEW s, NEW e, GoodErcs(ps, s, e), NEW i \in Subpop, NEW g,
         NEW t, NEW r, Calculated(s, ps[i], g, i, t, r),
         NEW u, u.list = t.list, u.ind = t.ind,
         NEW d, d = ReferenceErcs(e, Copies(ps[i], g, i), 1)
  PROVE  GoodErcs(ps, u, d)
<1> DEFINE copies == Copies(ps[i], g, i)
           N == [a \in Range(r.best) |-> u.ind[a]]
<1>1. /\ ps \in [Subpop -> Pop] /\ e \in ErcList /\ Range(s.list) \subseteq Address
      /\ \A c \in Erc : e.refcount[c] = Users(Everyone(ps), c) + Users(Held(s), c)
      /\ \A k \in Subpop, l \in Slot : ps[k][l].erc \subseteq e.active
      /\ \A a \in Range(s.list) : s.ind[a].erc \subseteq e.active
  BY DEF GoodErcs
<1>2. /\ Range(u.list) = Range(s.list) \cup Range(r.best)
      /\ Range(r.best) \cap Range(s.list) = {}
      /\ \A a \in Address : a \notin Range(r.best) => u.ind[a] = s.ind[a]
      /\ r.best \in Seq(Address) /\ Len(r.best) = BestN /\ Injective(r.best)
      /\ DOMAIN copies = 1 .. BestN
      /\ \A j \in 1 .. BestN : \E k \in Slot : copies[j].erc = ps[i][k].erc
      /\ \A j \in 1 .. BestN : u.ind[r.best[j]] = copies[j]
  BY DEF Calculated
<1> HIDE DEF copies
<1>3. /\ DOMAIN r.best = 1 .. BestN /\ Range(r.best) \subseteq Address
      /\ \A x : x \in Range(r.best) <=> \E j \in 1 .. BestN : r.best[j] = x
  BY <1>2, EntriesOf
<1>4. Range(u.list) \subseteq Address
  BY <1>1, <1>2, <1>3
<1>5. IsFiniteSet(1 .. BestN)
  BY Constants
<1>6. Renames(r.best, copies, N)
  <2>1. r.best \in [1 .. BestN -> Range(r.best)]
    BY <1>2, <1>3, LenProperties
  <2>2. \A j, k \in 1 .. BestN : r.best[j] = r.best[k] => j = k
    BY <1>2, <1>3 DEF Injective
  <2>3. DOMAIN N = Range(r.best) /\ \A j \in 1 .. BestN : N[r.best[j]] = copies[j]
    BY <1>2, <1>3
  <2> HIDE DEF N
  <2> QED  BY <1>2, <1>3, <2>1, <2>2, <2>3 DEF Renames
<1>7. Parts(Held(u), Held(s), N)
  <2>1. /\ DOMAIN Held(u) = Range(u.list) /\ IsFiniteSet(Range(u.list))
        /\ \A a \in Range(u.list) : Held(u)[a] = u.ind[a]
    BY <1>4, HeldFacts
  <2>2. /\ DOMAIN Held(s) = Range(s.list)
        /\ \A a \in Range(s.list) : Held(s)[a] = s.ind[a]
    BY <1>1, HeldFacts
  <2>3. DOMAIN N = Range(r.best) /\ \A a \in Range(r.best) : N[a] = u.ind[a]
    OBVIOUS
  <2> HIDE DEF N
  <2>4. Part(Held(u), Held(s))
    BY <1>1, <1>2, <2>1, <2>2 DEF Part
  <2>5. Part(Held(u), N)
    BY <1>2, <2>1, <2>3 DEF Part
  <2> QED  BY <1>2, <2>1, <2>2, <2>3, <2>4, <2>5 DEF Parts
<1> HIDE DEF N
<1>8. /\ d \in ErcList /\ d.active = e.active
      /\ \A c \in Erc : d.refcount[c] = e.refcount[c] + Users(copies, c)
  <2>1. d = ReferenceErcs(e, copies, 1)
    BY DEF copies
  <2> QED  BY <1>1, <1>2, <1>5, <2>1, CountedUp
<1>9. ASSUME NEW c \in Erc
      PROVE  d.refcount[c] = Users(Everyone(ps), c) + Users(Held(u), c)
  <2>1. /\ Users(Held(u), c) = Users(Held(s), c) + Users(N, c)
        /\ Users(Held(s), c) \in Nat /\ Users(N, c) \in Nat
    BY <1>7, PartsOfUsers
  <2>2. Users(N, c) = Users(copies, c)
    BY <1>2, <1>5, <1>6, RenamedUsers
  <2>3. Users(Everyone(ps), c) \in Nat
    BY EveryoneFacts
  <2>4. /\ d.refcount[c] = e.refcount[c] + Users(copies, c)
        /\ e.refcount[c] = Users(Everyone(ps), c) + Users(Held(s), c)
    BY <1>1, <1>8
  <2> QED  BY <2>1, <2>2, <2>3, <2>4
<1>10. ASSUME NEW a \in Range(u.list) PROVE u.ind[a].erc \subseteq d.active
  <2>1. CASE a \in Range(r.best)
    <3>1. PICK j \in 1 .. BestN : r.best[j] = a
      BY <1>3, <2>1
    <3>2. PICK k \in Slot : copies[j].erc = ps[i][k].erc
      BY <1>2
    <3> QED  BY <1>1, <1>2, <1>8, <3>1, <3>2
  <2>2. CASE a \notin Range(r.best)
    BY <1>1, <1>2, <1>8, <2>2
  <2> QED  BY <2>1, <2>2
<1> QED  BY <1>1, <1>4, <1>8, <1>9, <1>10 DEF GoodErcs

\* Collecting copies discounts the constants of the copies that are freed.
LEMMA ReleaseErcs ==
  ASSUME NEW ps, NEW s, NEW e, GoodErcs(ps, s, e), NEW r, NEW t,
         r.ind = s.ind, Unreferenced(r) \subseteq Range(s.list),
         Range(t.list) = Range(s.list) \ Unreferenced(r),
         \A a \in Range(t.list) : t.ind[a] = s.ind[a]
  PROVE  GoodErcs(ps, t, ReferenceErcs(e, Doomed(r), -1))
<1> DEFINE N == Doomed(r)
           d == ReferenceErcs(e, N, -1)
           U == Unreferenced(r)
<1>1. /\ ps \in [Subpop -> Pop] /\ e \in ErcList /\ Range(s.list) \subseteq Address
      /\ \A c \in Erc : e.refcount[c] = Users(Everyone(ps), c) + Users(Held(s), c)
      /\ \A k \in Subpop, l \in Slot : ps[k][l].erc \subseteq e.active
      /\ \A a \in Range(s.list) : s.ind[a].erc \subseteq e.active
  BY DEF GoodErcs
<1>2. DOMAIN N = U /\ \A a \in U : N[a] = s.ind[a]
  BY DEF Doomed
<1> HIDE DEF N, U
<1>3. Range(t.list) \subseteq Address
  BY <1>1
<1>4. Parts(Held(s), Held(t), N)
  <2>1. /\ DOMAIN Held(t) = Range(t.list)
        /\ \A a \in Range(t.list) : Held(t)[a] = t.ind[a]
    BY <1>3, HeldFacts
  <2>2. /\ DOMAIN Held(s) = Range(s.list) /\ IsFiniteSet(Range(s.list))
        /\ \A a \in Range(s.list) : Held(s)[a] = s.ind[a]
    BY <1>1, HeldFacts
  <2>3. U \subseteq Range(s.list) /\ Range(t.list) = Range(s.list) \ U
    BY DEF U
  <2>4. Part(Held(s), Held(t))
    BY <2>1, <2>2, <2>3 DEF Part
  <2>5. Part(Held(s), N)
    BY <1>2, <2>2, <2>3 DEF Part
  <2> QED  BY <1>2, <2>1, <2>2, <2>3, <2>4, <2>5 DEF Parts
<1>5. IsFiniteSet(DOMAIN N)
  <2>1. IsFiniteSet(Range(s.list)) /\ U \subseteq Range(s.list)
    BY <1>1, HeldFacts DEF U
  <2> QED  BY <1>2, <2>1, FS_Subset
<1>6. /\ d \in ErcList /\ d.active = e.active
      /\ \A c \in Erc : d.refcount[c] = e.refcount[c] - Users(N, c)
  BY <1>1, <1>5, CountedDown
<1> HIDE DEF d
<1>7. ASSUME NEW c \in Erc
      PROVE  d.refcount[c] = Users(Everyone(ps), c) + Users(Held(t), c)
  <2>1. /\ Users(Held(s), c) = Users(Held(t), c) + Users(N, c)
        /\ Users(Held(t), c) \in Nat /\ Users(N, c) \in Nat
    BY <1>4, PartsOfUsers
  <2>2. Users(Everyone(ps), c) \in Nat
    BY EveryoneFacts
  <2>3. /\ d.refcount[c] = e.refcount[c] - Users(N, c)
        /\ e.refcount[c] = Users(Everyone(ps), c) + Users(Held(s), c)
    BY <1>1, <1>6
  <2> QED  BY <2>1, <2>2, <2>3
<1>8. \A a \in Range(t.list) : t.ind[a].erc \subseteq d.active
  BY <1>1, <1>6
<1>9. GoodErcs(ps, t, d)
  BY <1>1, <1>3, <1>6, <1>7, <1>8 DEF GoodErcs
<1> QED  BY <1>9 DEF d, N

\* Values that trees do not consist of may change.
LEMMA SameErcs ==
  ASSUME NEW ps, NEW s, NEW e, GoodErcs(ps, s, e), NEW qs \in [Subpop -> Pop],
         \A i \in Subpop, k \in Slot : qs[i][k].erc = ps[i][k].erc,
         NEW t, t.list = s.list, t.ind = s.ind
  PROVE  GoodErcs(qs, t, e)
<1>1. \A c : Users(Everyone(qs), c) = Users(Everyone(ps), c)
  <2> TAKE c
  <2>1. \A q \in Subpop \X Slot : Everyone(qs)[q].erc = Everyone(ps)[q].erc
    BY DEF Everyone
  <2>2. DOMAIN Everyone(qs) = Subpop \X Slot /\ DOMAIN Everyone(ps) = Subpop \X Slot
    BY EveryoneFacts
  <2>3. {q \in Subpop \X Slot : c \in Everyone(qs)[q].erc}
        = {q \in Subpop \X Slot : c \in Everyone(ps)[q].erc}
    BY <2>1
  <2> QED  BY <2>2, <2>3 DEF Users
<1>2. Held(t) = Held(s)
  BY DEF Held
<1> QED  BY <1>1, <1>2 DEF GoodErcs

\* The counts of d are those of e after old went and new came.
Recounted(e, d, old, new) ==
  /\ d \in ErcList /\ e.active \subseteq d.active
  /\ \A c \in Erc : d.refcount[c] = e.refcount[c] - Users(old, c) + Users(new, c)

TreesActive(ps, e) == \A i \in Subpop, k \in Slot : ps[i][k].erc \subseteq e.active

\* The trees of one subpopulation, or of one individual, are replaced: m names
\* the places, old and new what was and what is there.
LEMMA ReplacedErcs ==
  ASSUME NEW ps, NEW s, NEW e, GoodErcs(ps, s, e), NEW qs \in [Subpop -> Pop],
         NEW J, NEW m, NEW old, NEW new,
         Replaced(J, Subpop \X Slot, m, Everyone(ps), Everyone(qs), old, new),
         NEW d, Recounted(e, d, old, new), TreesActive(qs, d)
  PROVE  GoodErcs(qs, s, d)
<1> USE DEF Recounted, TreesActive
<1>1. /\ e \in ErcList /\ Range(s.list) \subseteq Address
      /\ \A c \in Erc : e.refcount[c] = Users(Everyone(ps), c) + Users(Held(s), c)
      /\ \A a \in Range(s.list) : s.ind[a].erc \subseteq e.active
  BY DEF GoodErcs
<1> DEFINE f == Everyone(ps)
           ff == Everyone(qs)
<1>4. ASSUME NEW c \in Erc
      PROVE  d.refcount[c] = Users(ff, c) + Users(Held(s), c)
  <2>1. /\ Users(f, c) \in Nat /\ Users(old, c) \in Nat /\ Users(new, c) \in Nat
        /\ Users(ff, c) = Users(f, c) - Users(old, c) + Users(new, c)
    BY ReplacedUsers
  <2>2. Users(Held(s), c) \in Nat
    BY <1>1, HeldFacts
  <2>3. /\ d.refcount[c] = e.refcount[c] - Users(old, c) + Users(new, c)
        /\ e.refcount[c] = Users(f, c) + Users(Held(s), c)
    BY <1>1
  <2> HIDE DEF f, ff
  <2> QED  BY <2>1, <2>2, <2>3
<1>5. \A a \in Range(s.list) : s.ind[a].erc \subseteq d.active
  BY <1>1
<1> QED  BY <1>1, <1>4, <1>5 DEF GoodErcs

\* A constant that nothing uses leaves the active list, and no other does.
LEMMA GcErcs ==
  ASSUME NEW ps, NEW s, NEW e, GoodErcs(ps, s, e), NEW d, d = EphemConstGc(e)
  PROVE  /\ GoodErcs(ps, s, d)
         /\ \A c \in d.active : \/ \E i \in Subpop, k \in Slot : c \in ps[i][k].erc
                                \/ \E a \in Range(s.list) : c \in s.ind[a].erc
<1>1. /\ ps \in [Subpop -> Pop] /\ e \in ErcList /\ Range(s.list) \subseteq Address
      /\ \A c \in Erc : e.refcount[c] = Users(Everyone(ps), c) + Users(Held(s), c)
      /\ \A k \in Subpop, l \in Slot : ps[k][l].erc \subseteq e.active
      /\ \A a \in Range(s.list) : s.ind[a].erc \subseteq e.active
  BY DEF GoodErcs
<1> DEFINE kept == {c \in e.active : e.refcount[c] # 0}
           names == e.named \cap kept
<1>2. d = [active |-> kept, refcount |-> e.refcount, named |-> names]
  <2>1. e = [active |-> e.active, refcount |-> e.refcount, named |-> e.named]
    BY <1>1 DEF ErcList
  <2>2. d = [e EXCEPT !.active = kept, !.named = names]
    BY DEF EphemConstGc
  <2> HIDE DEF kept, names
  <2> QED  BY <2>1, <2>2
<1>3. d.active = kept /\ d.refcount = e.refcount /\ d \in ErcList
  <2>1. kept \in SUBSET Erc /\ names \in SUBSET Erc /\ e.refcount \in [Erc -> Int]
    BY <1>1 DEF ErcList
  <2> HIDE DEF kept, names
  <2> QED  BY <1>2, <2>1 DEF ErcList
<1>4. e.active \subseteq Erc
  BY <1>1 DEF ErcList
<1>5. \A c : /\ Users(Everyone(ps), c) \in Nat
             /\ Users(Everyone(ps), c) = 0
                <=> \A i \in Subpop, k \in Slot : c \notin ps[i][k].erc
  <2> TAKE c
  <2>1. /\ DOMAIN Everyone(ps) = Subpop \X Slot /\ IsFiniteSet(Subpop \X Slot)
        /\ \A i \in Subpop, k \in Slot : Everyone(ps)[<<i, k>>] = ps[i][k]
    BY EveryoneFacts
  <2>2. /\ Users(Everyone(ps), c) \in Nat
        /\ Users(Everyone(ps), c) = 0
           <=> \A q \in Subpop \X Slot : c \notin Everyone(ps)[q].erc
    BY <2>1, UsersFacts
  <2>3. (\A q \in Subpop \X Slot : c \notin Everyone(ps)[q].erc)
        <=> \A i \in Subpop, k \in Slot : c \notin ps[i][k].erc
    <3>1. \A q \in Subpop \X Slot : q[1] \in Subpop /\ q[2] \in Slot
                                  /\ Everyone(ps)[q] = ps[q[1]][q[2]]
      BY DEF Everyone
    <3>2. \A i \in Subpop, k \in Slot : <<i, k>> \in Subpop \X Slot
      OBVIOUS
    <3> QED  BY ZenonT(40), <2>1, <3>1, <3>2
  <2> QED  BY <2>2, <2>3
<1>6. \A c : /\ Users(Held(s), c) \in Nat
             /\ Users(Held(s), c) = 0 <=> \A a \in Range(s.list) : c \notin s.ind[a].erc
  <2>1. /\ DOMAIN Held(s) = Range(s.list) /\ IsFiniteSet(Range(s.list))
        /\ \A a \in Range(s.list) : Held(s)[a] = s.ind[a]
    BY <1>1, HeldFacts
  <2> QED  BY <2>1, UsersFacts
<1>7. \A c \in Erc : e.refcount[c] = 0 <=> /\ Users(Everyone(ps), c) = 0
                                           /\ Users(Held(s), c) = 0
  BY <1>1, <1>5, <1>6
<1>8. \A i \in Subpop, k \in Slot : ps[i][k].erc \subseteq d.active
  <2> SUFFICES ASSUME NEW i \in Subpop, NEW k \in Slot, NEW c \in ps[i][k].erc
               PROVE  c \in e.active /\ e.refcount[c] # 0
    BY <1>3
  <2>1. c \in e.active
    BY <1>1
  <2> QED  BY <1>4, <1>5, <1>7, <2>1
<1>9. \A a \in Range(s.list) : s.ind[a].erc \subseteq d.active
  <2> SUFFICES ASSUME NEW a \in Range(s.list), NEW c \in s.ind[a].erc
               PROVE  c \in e.active /\ e.refcount[c] # 0
    BY <1>3
  <2>1. c \in e.active
    BY <1>1
  <2> QED  BY <1>4, <1>6, <1>7, <2>1
<1>10. GoodErcs(ps, s, d)
  BY <1>1, <1>3, <1>8, <1>9 DEF GoodErcs
<1>11. ASSUME NEW c \in d.active
       PROVE  \/ \E i \in Subpop, k \in Slot : c \in ps[i][k].erc
              \/ \E a \in Range(s.list) : c \in s.ind[a].erc
  <2>1. c \in Erc /\ e.refcount[c] # 0
    BY <1>3, <1>4
  <2> QED  BY <1>5, <1>6, <1>7, <2>1
<1> QED  BY <1>10, <1>11

\* Populations that were freed use no constant, nor does an empty list.
LEMMA NobodysUsers ==
  /\ NoPops \in [Subpop -> Pop]
  /\ \A i \in Subpop, k \in Slot : NoPops[i][k].erc = {}
  /\ \A c : Users(Everyone(NoPops), c) = 0
  /\ \A s, c : Range(s.list) = {} => Users(Held(s), c) = 0
<1>1. NoPops \in [Subpop -> Pop]
  <2>1. Unevaluated({}) \in Individual
    BY DEF Unevaluated, Individual
  <2> QED  BY <2>1 DEF NoPops, Pop
<1>2. \A i \in Subpop, k \in Slot : NoPops[i][k].erc = {}
  BY DEF NoPops, Unevaluated
<1>3. \A c : Users(Everyone(NoPops), c) = 0
  <2> TAKE c
  <2>1. DOMAIN Everyone(NoPops) = Subpop \X Slot /\ IsFiniteSet(Subpop \X Slot)
    BY EveryoneFacts
  <2>2. \A q \in Subpop \X Slot : Everyone(NoPops)[q].erc = {}
    BY <1>2 DEF Everyone
  <2> QED  BY <2>1, <2>2, UsersFacts
<1>4. ASSUME NEW s, NEW c, Range(s.list) = {} PROVE Users(Held(s), c) = 0
  <2>1. DOMAIN Held(s) = {}
    BY <1>4 DEF Held
  <2>2. {k \in DOMAIN Held(s) : c \in Held(s)[k].erc} = {}
    BY <2>1
  <2> QED  BY <2>2, FS_EmptySet DEF Users
<1> QED  BY <1>1, <1>2, <1>3, <1>4

\* Nothing is counted when nothing is there.
LEMMA NoErcsFacts == GoodErcs(NoPops, EmptyList, NoErcs)
<1>1. NoErcs \in ErcList /\ \A c \in Erc : NoErcs.refcount[c] = 0
  BY DEF NoErcs, ErcList
<1>2. Range(EmptyList.list) = {}
  BY EmptyListFacts
<1> QED  BY <1>1, <1>2, NobodysUsers DEF GoodErcs

\* A constant that is made is active and has no user yet.
LEMMA NewErcsFacts ==
  ASSUME NEW e \in ErcList, NEW S \in SUBSET Erc
  PROVE  /\ NewErcs(e, S) \in ErcList /\ NewErcs(e, S).active = e.active \cup S
         /\ \A c \in Erc : NewErcs(e, S).refcount[c] = IF c \in S THEN 0 ELSE e.refcount[c]
<1> DEFINE counts == [c \in Erc |-> IF c \in S THEN 0 ELSE e.refcount[c]]
<1>1. counts \in [Erc -> Int]
  BY DEF ErcList
<1>2. e.active \cup S \in SUBSET Erc /\ e.named \cup S \in SUBSET Erc
  BY DEF ErcList
<1>3. NewErcs(e, S) = [active |-> e.active \cup S, refcount |-> counts,
                       named |-> e.named \cup S]
  BY DEF NewErcs
<1>4. \A c \in Erc : counts[c] = IF c \in S THEN 0 ELSE e.refcount[c]
  OBVIOUS
<1> HIDE DEF counts
<1>5. NewErcs(e, S) \in ErcList
  BY <1>1, <1>2, <1>3 DEF ErcList
<1>6. NewErcs(e, S).active = e.active \cup S /\ NewErcs(e, S).refcount = counts
  BY <1>3
<1> QED  BY <1>4, <1>5, <1>6

Placed(qs, ps, i, k, x) == qs = [ps EXCEPT ![i][k] = x]
Bred(qs, ps, i, new) == qs = [ps EXCEPT ![i] = new]

\* An exchange discounts the trees that go and counts those that come.
LEMMA ExchangeErcs ==
  ASSUME NEW ps, NEW s, NEW e, GoodErcs(ps, s, e),
         NEW i \in Subpop, NEW k \in Slot, NEW j \in Subpop, NEW l \in Slot,
         NEW qs, Placed(qs, ps, i, k, ps[j][l])
  PROVE  /\ qs \in [Subpop -> Pop]
         /\ GoodErcs(qs, s, ExchangedErcs(e, ps[i][k], ps[j][l]))
<1> DEFINE old == <<ps[i][k]>>
           new == <<ps[j][l]>>
           d1 == ReferenceErcs(e, old, -1)
           d == ReferenceErcs(d1, new, 1)
           J == {1}
           m == [x \in J |-> <<i, k>>]
<1>1. /\ ps \in [Subpop -> Pop] /\ e \in ErcList
      /\ \A x \in Subpop, y \in Slot : ps[x][y].erc \subseteq e.active
  BY DEF GoodErcs
<1>2. ps[j][l] \in Individual
  BY <1>1 DEF Pop
<1>3. /\ qs \in [Subpop -> Pop] /\ qs[i][k] = ps[j][l]
      /\ \A x \in Subpop, y \in Slot : x # i \/ y # k => qs[x][y] = ps[x][y]
  BY <1>1, <1>2 DEF Pop, Placed
<1>4. /\ DOMAIN old = J /\ DOMAIN new = J /\ IsFiniteSet(J)
      /\ old[1] = ps[i][k] /\ new[1] = ps[j][l]
  <2>1. DOMAIN old = J /\ DOMAIN new = J /\ old[1] = ps[i][k] /\ new[1] = ps[j][l]
    OBVIOUS
  <2>2. IsFiniteSet(J)
    BY FS_Singleton
  <2> QED  BY <2>1, <2>2
<1> HIDE DEF old, new
<1>5. Replaced(J, Subpop \X Slot, m, Everyone(ps), Everyone(qs), old, new)
  <2>1. /\ DOMAIN Everyone(ps) = Subpop \X Slot /\ DOMAIN Everyone(qs) = Subpop \X Slot
        /\ IsFiniteSet(Subpop \X Slot)
        /\ \A x \in Subpop, y \in Slot : /\ Everyone(ps)[<<x, y>>] = ps[x][y]
                                         /\ Everyone(qs)[<<x, y>>] = qs[x][y]
    BY ZenonT(40), EveryoneFacts
  <2>2. m \in [J -> Subpop \X Slot] /\ m[1] = <<i, k>>
    OBVIOUS
  <2>3. ASSUME NEW x \in Subpop \X Slot, \A y \in J : m[y] # x
        PROVE  Everyone(ps)[x].erc = Everyone(qs)[x].erc
    <3>1. x # <<i, k>>
      BY <2>2, <2>3
    <3>2. x = <<x[1], x[2]>> /\ x[1] \in Subpop /\ x[2] \in Slot
      OBVIOUS
    <3>3. x[1] # i \/ x[2] # k
      BY <3>1, <3>2
    <3> QED  BY <1>3, <2>1, <3>2, <3>3
  <2>4. Everyone(ps)[m[1]] = old[1] /\ Everyone(qs)[m[1]] = new[1]
    BY <1>3, <1>4, <2>1, <2>2
  <2>5. \A x \in J : x = 1
    OBVIOUS
  <2> HIDE DEF m, J
  <2> QED  BY <1>4, <2>1, <2>2, <2>3, <2>4, <2>5 DEF Replaced
<1> HIDE DEF m, J
<1>6. /\ d1 \in ErcList /\ d1.active = e.active
      /\ \A c \in Erc : d1.refcount[c] = e.refcount[c] - Users(old, c)
  BY <1>1, <1>4, CountedDown
<1> HIDE DEF d1
<1>7. /\ d \in ErcList /\ d.active = e.active
      /\ \A c \in Erc : d.refcount[c] = e.refcount[c] - Users(old, c) + Users(new, c)
  BY <1>4, <1>6, CountedUp
<1> HIDE DEF d
<1>8. \A x \in Subpop, y \in Slot : qs[x][y].erc \subseteq d.active
  BY <1>1, <1>3, <1>7
<1>9. GoodErcs(qs, s, d)
  <2>1. Recounted(e, d, old, new)
    BY <1>7 DEF Recounted
  <2>2. TreesActive(qs, d)
    BY <1>8 DEF TreesActive
  <2>3. qs \in [Subpop -> Pop]
    BY <1>3
  <2> QED  BY <2>1, <2>2, <2>3, <1>5, ReplacedErcs
<1> QED  BY <1>3, <1>9 DEF d, d1, old, new, ExchangedErcs

\* Breeding counts the new population, made of parts of the old one and of new
\* constants, and discounts the old one.
LEMMA BreedErcs ==
  ASSUME NEW ps, NEW s, NEW e, GoodErcs(ps, s, e), NEW i \in Subpop,
         NEW made \in SUBSET (Erc \ e.active), NEW new \in Pop,
         \A k \in Slot : new[k].erc \subseteq e.active \cup made,
         NEW qs, Bred(qs, ps, i, new)
  PROVE  /\ qs \in [Subpop -> Pop]
         /\ GoodErcs(qs, s, BredErcs(e, made, ps[i], new))
<1> DEFINE old == ps[i]
           d1 == NewErcs(e, made)
           d2 == ReferenceErcs(d1, new, 1)
           d == ReferenceErcs(d2, old, -1)
           m == [k \in Slot |-> <<i, k>>]
<1>1. /\ ps \in [Subpop -> Pop] /\ e \in ErcList /\ Range(s.list) \subseteq Address
      /\ \A c \in Erc : e.refcount[c] = Users(Everyone(ps), c) + Users(Held(s), c)
      /\ \A x \in Subpop, y \in Slot : ps[x][y].erc \subseteq e.active
      /\ \A a \in Range(s.list) : s.ind[a].erc \subseteq e.active
  BY DEF GoodErcs
<1>2. /\ qs \in [Subpop -> Pop] /\ qs[i] = new
      /\ \A x \in Subpop : x # i => qs[x] = ps[x]
  BY <1>1 DEF Bred
<1>3. DOMAIN old = Slot /\ DOMAIN new = Slot /\ IsFiniteSet(Slot)
  BY <1>1, Constants DEF Pop
<1>4. Replaced(Slot, Subpop \X Slot, m, Everyone(ps), Everyone(qs), old, new)
  <2>0. /\ DOMAIN Everyone(ps) = Subpop \X Slot /\ IsFiniteSet(Subpop \X Slot)
        /\ \A x \in Subpop, y \in Slot : Everyone(ps)[<<x, y>>] = ps[x][y]
    BY EveryoneFacts
  <2>00. /\ DOMAIN Everyone(qs) = Subpop \X Slot
         /\ \A x \in Subpop, y \in Slot : Everyone(qs)[<<x, y>>] = qs[x][y]
    BY EveryoneFacts
  <2>1. /\ DOMAIN Everyone(ps) = Subpop \X Slot /\ DOMAIN Everyone(qs) = Subpop \X Slot
        /\ IsFiniteSet(Subpop \X Slot)
        /\ \A x \in Subpop, y \in Slot : /\ Everyone(ps)[<<x, y>>] = ps[x][y]
                                         /\ Everyone(qs)[<<x, y>>] = qs[x][y]
    BY <2>0, <2>00
  <2>2. /\ m \in [Slot -> Subpop \X Slot] /\ \A k \in Slot : m[k] = <<i, k>>
        /\ \A j, k \in Slot : m[j] = m[k] => j = k
    OBVIOUS
  <2> HIDE DEF m
  <2>3. ASSUME NEW x \in Subpop \X Slot, \A y \in Slot : m[y] # x
        PROVE  Everyone(ps)[x].erc = Everyone(qs)[x].erc
    <3>1. x = <<x[1], x[2]>> /\ x[1] \in Subpop /\ x[2] \in Slot
      OBVIOUS
    <3>2. x[1] # i
      BY <2>2, <2>3, <3>1
    <3> QED  BY <1>2, <2>1, <3>1, <3>2
  <2>4. \A k \in Slot : Everyone(ps)[m[k]].erc = old[k].erc
                        /\ Everyone(qs)[m[k]].erc = new[k].erc
    BY <1>2, <2>1, <2>2
  <2> QED  BY <1>3, <2>1, <2>2, <2>3, <2>4 DEF Replaced
<1> HIDE DEF m
<1>5. ASSUME NEW c \in made PROVE e.refcount[c] = 0
  <2>1. c \in Erc /\ c \notin e.active
    OBVIOUS
  <2>2. Users(Everyone(ps), c) = 0
    <3>1. /\ DOMAIN Everyone(ps) = Subpop \X Slot /\ IsFiniteSet(Subpop \X Slot)
      BY EveryoneFacts
    <3>2. \A q \in Subpop \X Slot : c \notin Everyone(ps)[q].erc
      BY <1>1, <2>1 DEF Everyone
    <3> QED  BY <3>1, <3>2, UsersFacts
  <2>3. Users(Held(s), c) = 0
    <3>1. /\ DOMAIN Held(s) = Range(s.list) /\ IsFiniteSet(Range(s.list))
          /\ \A a \in Range(s.list) : Held(s)[a] = s.ind[a]
      BY <1>1, HeldFacts
    <3>2. \A a \in Range(s.list) : c \notin Held(s)[a].erc
      BY <1>1, <2>1, <3>1
    <3> QED  BY <3>1, <3>2, UsersFacts
  <2> QED  BY <1>1, <2>1, <2>2, <2>3
<1>6. /\ d1 \in ErcList /\ d1.active = e.active \cup made
      /\ \A c \in Erc : d1.refcount[c] = e.refcount[c]
  BY <1>1, <1>5, NewErcsFacts
<1> HIDE DEF d1
<1>7. /\ d2 \in ErcList /\ d2.active = e.active \cup made
      /\ \A c \in Erc : d2.refcount[c] = e.refcount[c] + Users(new, c)
  BY <1>3, <1>6, CountedUp
<1> HIDE DEF d2
<1> HIDE DEF old
<1>8. /\ d \in ErcList /\ d.active = e.active \cup made
      /\ \A c \in Erc : d.refcount[c] = e.refcount[c] + Users(new, c) - Users(old, c)
  <2>1. /\ d \in ErcList /\ d.active = d2.active
        /\ \A c \in Erc : d.refcount[c] = d2.refcount[c] - Users(old, c)
    BY <1>3, <1>7, CountedDown
  <2> HIDE DEF d
  <2>2. d.active = e.active \cup made
    BY <1>7, <2>1
  <2>3. ASSUME NEW c \in Erc
        PROVE  d.refcount[c] = e.refcount[c] + Users(new, c) - Users(old, c)
    <3>1. d.refcount[c] = d2.refcount[c] - Users(old, c)
      BY <2>1
    <3>2. d2.refcount[c] = e.refcount[c] + Users(new, c)
      BY <1>7
    <3>3. Users(old, c) \in Nat /\ Users(new, c) \in Nat /\ e.refcount[c] \in Int
      BY <1>1, <1>3, UsersFacts DEF ErcList
    <3> QED  BY <3>1, <3>2, <3>3
  <2> QED  BY <2>1, <2>2, <2>3
<1> HIDE DEF d
<1>9. \A c \in Erc : d.refcount[c] = e.refcount[c] - Users(old, c) + Users(new, c)
  <2> TAKE c \in Erc
  <2>1. Users(old, c) \in Nat /\ Users(new, c) \in Nat /\ e.refcount[c] \in Int
    BY <1>1, <1>3, UsersFacts DEF ErcList
  <2> QED  BY <1>8, <2>1
<1>10. \A x \in Subpop, y \in Slot : qs[x][y].erc \subseteq d.active
  <2> TAKE x \in Subpop, y \in Slot
  <2>1. CASE x = i
    BY <1>2, <1>8, <2>1
  <2>2. CASE x # i
    BY <1>1, <1>2, <1>8, <2>2
  <2> QED  BY <2>1, <2>2
<1>11. GoodErcs(qs, s, d)
  <2>1. Recounted(e, d, old, new)
    BY <1>8, <1>9 DEF Recounted
  <2>2. TreesActive(qs, d)
    BY <1>10 DEF TreesActive
  <2>3. qs \in [Subpop -> Pop]
    BY <1>2
  <2> QED  BY <2>1, <2>2, <2>3, <1>4, ReplacedErcs
<1> QED  BY <1>2, <1>11 DEF d, d1, d2, old, BredErcs

-----------------------------------------------------------------------------
(* The inductive invariant *)

\* The loop counter is in range where it is an index.
Control ==
  /\ pc \in Location
  /\ gen \in 0 .. MaxGen /\ startgen \in 0 .. MaxGen /\ startgen <= gen
  /\ fromCheckpoint \in BOOLEAN /\ term \in BOOLEAN /\ newbest \in BOOLEAN
  /\ sub \in Nat /\ copied \in Nat /\ moved \subseteq Subpop \X Slot
  /\ pool \subseteq Slot /\ target \in Slot \cup {0}
  /\ kills \in 0 .. MaxKills /\ restarts \in 0 .. MaxRestarts
  /\ pc \in {"stats", "breed"} => sub \in Subpop
  /\ pc \in {"draw", "copy"} => sub \in DOMAIN Exchanges
  /\ pc = "copy" => target \in Slot

\* Records of a generation are there only while it is being evaluated, and
\* those of subpopulations whose turn is still to come are empty.
Turns ==
  /\ pc \notin {"stats", "merge", "release"} => genStats = NoRecords
  /\ pc = "stats" => \A i \in Subpop : i >= sub => genStats[i] = NoStats
  /\ pc \in {"merge", "release"} => genStats[0].size # -1

Lists == GoodList(saved, genStats, runStats) /\ NoCopyLeaks

\* The generation of the individual that heads the run's record, which is an
\* earlier one until the present generation has been merged.
OfGeneration(r, g) == r.size # -1 => r.bestgen = g
Within(r, g) == r.size # -1 => r.bestgen <= g
Before(r, g) == r.size # -1 => r.bestgen < g

Ages ==
  /\ OfGeneration(genStats[0], gen)
  /\ Within(runStats[0], gen)
  /\ pc \in {"stats", "merge"} \/ (pc = "evaluate" /\ ~Resumed) => Before(runStats[0], gen)
  /\ NewbestHeadsBothLists

\* Every active constant is used.
NoneIdle(ps, s, e) ==
  \A c \in e.active : \/ \E i \in Subpop, k \in Slot : c \in ps[i][k].erc
                      \/ \E a \in Range(s.list) : c \in s.ind[a].erc

Ercs ==
  /\ GoodErcs(pops, saved, erc)
  /\ (pc = "evaluate" /\ gen > startgen) \/ pc = "done" => NoneIdle(pops, saved, erc)

\* What a checkpoint file holds.
Contents == [pops : [Subpop -> Pop], erc : ErcList, saved : ListOf(Copy),
             runStats : [StatIndex -> Record]]
GoodRun(r, g) ==
  /\ r \in Contents
  /\ GoodList(r.saved, NoRecords, r.runStats) /\ Unreferenced(r.saved) = {}
  /\ GoodErcs(r.pops, r.saved, r.erc)
  /\ Within(r.runStats[0], g)

Files ==
  /\ files \in [0 .. MaxGen -> [whole : BOOLEAN, run : Contents]]
  /\ \A g \in 0 .. MaxGen : GoodRun(files[g].run, g)

\* An individual with a valid fitness is as good as the run's best one was.
AllValid(pop) == \A k \in Slot : pop[k].valid
Reaches(pop, r) ==
  r.size # -1 => \E k \in Slot : pop[k].valid /\ pop[k].fit >= r.bestfit

Evaluated == pc \in {"stats", "merge", "release", "checkpoint", "writing"}
             \/ (pc = "evaluate" /\ Resumed)

Elite ==
  /\ pc \notin {"exchange", "draw", "copy"}
  /\ Evaluated => \A i \in Subpop : AllValid(pops[i])
  /\ pc = "breed" => \A i \in Subpop : i >= sub => AllValid(pops[i])
  /\ \A i \in Subpop : Reaches(pops[i], runStats[i])
  /\ \A i \in Subpop : genStats[i].size # -1 => /\ runStats[i].size # -1
                                                /\ genStats[i].bestfit = runStats[i].bestfit
  /\ \A g \in 0 .. MaxGen : files[g].whole =>
       \A i \in Subpop : /\ AllValid(files[g].run.pops[i])
                         /\ Reaches(files[g].run.pops[i], files[g].run.runStats[i])

Invariant == /\ Control /\ Turns /\ Lists /\ Ages /\ Ercs /\ Files
             /\ Elitism > 0 /\ Exchanges = <<>> => Elite

-----------------------------------------------------------------------------
(* The initial states *)

\* The initial states: random trees, whose constants are counted.
LEMMA InitInvariant == Init => Invariant
<1> SUFFICES ASSUME Init PROVE Invariant
  OBVIOUS
<1>0. /\ pc = "evaluate" /\ gen = 0 /\ startgen = 0 /\ fromCheckpoint = FALSE
      /\ term = FALSE /\ newbest = FALSE /\ sub = 1 /\ moved = {} /\ copied = 0
      /\ pool = {} /\ target = 0
      /\ saved = EmptyList /\ genStats = NoRecords /\ runStats = NoRecords
      /\ files = [g \in 0 .. MaxGen |-> NoFile] /\ kills = 0 /\ restarts = 0
  BY DEF Init
<1>1. Control
  <2>1. MaxGen \in Nat /\ MaxKills \in Nat /\ MaxRestarts \in Nat
    BY RunAssumption DEF RunAssumption
  <2>2. /\ 0 \in 0 .. MaxGen /\ 0 \in 0 .. MaxKills /\ 0 \in 0 .. MaxRestarts /\ 0 <= 0
        /\ 1 \in Nat /\ 0 \in Nat
    BY <2>1
  <2>3. gen \in 0 .. MaxGen /\ startgen \in 0 .. MaxGen /\ startgen <= gen
    BY <1>0, <2>2
  <2>4. kills \in 0 .. MaxKills /\ restarts \in 0 .. MaxRestarts
    BY <1>0, <2>2
  <2>5. fromCheckpoint \in BOOLEAN /\ term \in BOOLEAN /\ newbest \in BOOLEAN
    BY <1>0
  <2>6. pc \in Location /\ pc \notin {"stats", "breed", "draw", "copy"}
    BY <1>0 DEF Location
  <2>7. /\ sub \in Nat /\ copied \in Nat /\ moved \subseteq Subpop \X Slot
        /\ pool \subseteq Slot /\ target \in Slot \cup {0}
    BY <1>0, <2>2
  <2> QED  BY <2>3, <2>4, <2>5, <2>6, <2>7 DEF Control
<1>2. Turns
  BY <1>0 DEF Turns
<1>3. Lists
  <2>1. GoodList(EmptyList, NoRecords, NoRecords) /\ Range(EmptyList.list) = {}
    BY EmptyListFacts
  <2>2. Unreferenced(EmptyList) = {}
    BY <2>1 DEF Unreferenced
  <2> QED  BY <1>0, <2>1, <2>2 DEF Lists, NoCopyLeaks
<1>4. \A i \in StatIndex : NoRecords[i] = NoStats /\ NoRecords[i].size = -1
  BY DEF NoRecords, NoStats
<1>5. Ages
  <2>1. NoRecords[0].size = -1
    BY <1>4, Constants
  <2> QED  BY <1>0, <2>1 DEF Ages, OfGeneration, Within, Before, NewbestHeadsBothLists
<1>6. Ercs
  <2>0. PICK made \in SUBSET Erc : \E trees \in [Subpop -> [Slot -> SUBSET made]] :
          /\ pops = [i \in Subpop |-> [k \in Slot |-> Unevaluated(trees[i][k])]]
          /\ erc = ReferenceErcs(NewErcs(NoErcs, made), Everyone(pops), 1)
    BY DEF Init
  <2>1. PICK trees \in [Subpop -> [Slot -> SUBSET made]] :
          /\ pops = [i \in Subpop |-> [k \in Slot |-> Unevaluated(trees[i][k])]]
          /\ erc = ReferenceErcs(NewErcs(NoErcs, made), Everyone(pops), 1)
    BY <2>0
  <2>2. /\ NewErcs(NoErcs, made) \in ErcList /\ NewErcs(NoErcs, made).active = made
        /\ \A c \in Erc : NewErcs(NoErcs, made).refcount[c] = 0
    <3>1. NoErcs \in ErcList /\ NoErcs.active = {} /\ \A c \in Erc : NoErcs.refcount[c] = 0
      BY DEF NoErcs, ErcList
    <3>2. /\ NewErcs(NoErcs, made) \in ErcList
          /\ NewErcs(NoErcs, made).active = NoErcs.active \cup made
          /\ \A c \in Erc : NewErcs(NoErcs, made).refcount[c]
                          = IF c \in made THEN 0 ELSE NoErcs.refcount[c]
      <4>1. made \in SUBSET Erc
        BY <2>0
      <4> DEFINE e == NoErcs
      <4>2. e \in ErcList
        BY <3>1
      <4> HIDE DEF e
      <4>3. /\ NewErcs(e, made) \in ErcList
            /\ NewErcs(e, made).active = e.active \cup made
            /\ \A c \in Erc : NewErcs(e, made).refcount[c]
                            = IF c \in made THEN 0 ELSE e.refcount[c]
        BY <4>1, <4>2, NewErcsFacts
      <4> QED  BY <4>3 DEF e
    <3> QED  BY <3>1, <3>2
  <2>3. /\ erc \in ErcList /\ erc.active = made
        /\ \A c \in Erc : erc.refcount[c] = 0 + Users(Everyone(pops), c)
    <3>1. IsFiniteSet(DOMAIN Everyone(pops))
      BY EveryoneFacts
    <3> QED  BY <2>1, <2>2, <3>1, CountedUp
  <2>4. \A i \in Subpop, k \in Slot :
          pops[i][k] = Unevaluated(trees[i][k]) /\ trees[i][k] \subseteq made
    BY <2>1
  <2>5. \A i \in Subpop, k \in Slot : /\ pops[i][k] \in Individual
                                      /\ pops[i][k].erc \subseteq made
    <3> TAKE i \in Subpop, k \in Slot
    <3>1. pops[i][k] = Unevaluated(trees[i][k]) /\ trees[i][k] \in SUBSET Erc
          /\ trees[i][k] \subseteq made
      BY <2>4
    <3> DEFINE S == trees[i][k]
    <3>2. Unevaluated(S) \in Individual /\ Unevaluated(S).erc = S
      <4>1. S \in SUBSET Erc
        BY <3>1
      <4> HIDE DEF S
      <4> QED  BY <4>1 DEF Unevaluated, Individual
    <3> QED  BY <3>1, <3>2
  <2>6. pops \in [Subpop -> Pop]
    <3>1. pops = [i \in Subpop |-> [k \in Slot |-> pops[i][k]]]
      BY <2>1
    <3> QED  BY <2>5, <3>1 DEF Pop
  <2>7. Range(saved.list) = {}
    BY <1>0, EmptyListFacts
  <2>8. \A c \in Erc : erc.refcount[c] = Users(Everyone(pops), c) + Users(Held(saved), c)
    <3> TAKE c \in Erc
    <3>1. Users(Held(saved), c) = 0 /\ Users(Everyone(pops), c) \in Nat
      BY <2>7, NobodysUsers, EveryoneFacts
    <3> QED  BY <2>3, <3>1
  <2>9. GoodErcs(pops, saved, erc)
    BY <2>3, <2>5, <2>6, <2>7, <2>8 DEF GoodErcs
  <2>10. ~(gen > startgen) /\ pc # "done"
    BY <1>0
  <2> QED  BY <2>9, <2>10 DEF Ercs
<1>7. \A g \in 0 .. MaxGen : files[g] = NoFile
  BY <1>0
<1>8. NoFile.whole = FALSE /\ NoFile.run = NoRun
  BY DEF NoFile
<1>9. Files
  <2>1. /\ NoRun.pops = NoPops /\ NoRun.erc = NoErcs /\ NoRun.saved = EmptyList
        /\ NoRun.runStats = NoRecords
    BY DEF NoRun
  <2>2. NoPops \in [Subpop -> Pop] /\ NoErcs \in ErcList
    BY NoErcsFacts DEF GoodErcs
  <2>3. EmptyList \in ListOf(Copy) /\ NoRecords \in [StatIndex -> Record]
    BY EmptyListFacts DEF GoodList
  <2>4. NoRun \in Contents
    BY <2>2, <2>3 DEF NoRun, Contents
  <2>5. Unreferenced(EmptyList) = {}
    BY EmptyListFacts DEF Unreferenced
  <2>6. \A g \in 0 .. MaxGen : GoodRun(NoRun, g)
    <3>1. NoRecords[0].size = -1
      BY <1>4, Constants
    <3> QED  BY <2>1, <2>4, <2>5, <3>1, EmptyListFacts, NoErcsFacts DEF GoodRun, Within
  <2>7. NoFile \in [whole : BOOLEAN, run : Contents]
    BY <2>4 DEF NoFile
  <2> QED  BY <1>0, <1>7, <1>8, <2>6, <2>7 DEF Files
<1>10. Elite
  <2>1. ~Resumed
    BY <1>0 DEF Resumed
  <2>2. \A i \in Subpop : runStats[i].size = -1 /\ genStats[i].size = -1
    BY <1>0, <1>4, Constants
  <2>3. \A g \in 0 .. MaxGen : ~files[g].whole
    BY <1>7, <1>8
  <2> QED  BY <1>0, <2>1, <2>2, <2>3 DEF Elite, Evaluated, Reaches
<1> QED  BY <1>1, <1>2, <1>3, <1>5, <1>6, <1>9, <1>10 DEF Invariant

-----------------------------------------------------------------------------
(* Every step: where the run is and which records it has *)

\* What is left of a process that was killed.
LEMMA VanishFacts ==
  Vanish => /\ pc' = "dead" /\ gen' = 0 /\ startgen' = 0 /\ fromCheckpoint' = FALSE
            /\ term' = FALSE /\ newbest' = FALSE /\ sub' = 1 /\ moved' = {} /\ copied' = 0
            /\ pool' = {} /\ target' = 0
            /\ pops' = NoPops /\ saved' = EmptyList /\ erc' = NoErcs
            /\ genStats' = NoRecords /\ runStats' = NoRecords
  BY DEF Vanish

\* accumulate_pop_stats answers yes or no.
LEMMA ChangedOrNot ==
  ASSUME NEW s, NEW total, NEW n
  PROVE  Accumulate(s, total, n).changed \in BOOLEAN
<1>1. CASE total.size = -1
  <2>1. Accumulate(s, total, n) = [stats |-> n, changed |-> TRUE, saved |-> Reference(s, n.best, 1)]
    BY <1>1 DEF Accumulate
  <2> QED  BY <2>1
<1>2. CASE total.size # -1
  <2> DEFINE best == Merge(s, total.best, n.best)
             st == [IF FitterHeader(total, n) THEN n ELSE total
                      EXCEPT !.size = total.size + n.size, !.best = best]
             ch == FitterHeader(total, n) \/ TakesNew(s, total.best, n.best, 0, 0)
             sa == Reference(Reference(s, total.best, -1), best, 1)
  <2>1. Accumulate(s, total, n) = [stats |-> st, changed |-> ch, saved |-> sa]
    BY <1>2 DEF Accumulate
  <2>2. ch \in BOOLEAN
    OBVIOUS
  <2> HIDE DEF st, ch, sa
  <2> QED  BY <2>1, <2>2
<1> QED  BY <1>1, <1>2

\* An entry of the exchange table names two subpopulations.
LEMMA ExchangeEntry ==
  ASSUME NEW x \in DOMAIN Exchanges
  PROVE  Exchanges[x].to \in Subpop /\ Exchanges[x].from \in Subpop
<1>1. DOMAIN Exchanges = 1 .. Len(Exchanges)
  BY RunAssumption DEF RunAssumption
<1> DEFINE Selections == Listing \cup Drawing
           Entry == [to : Subpop, from : Subpop, count : Nat, tosel : Selections]
<1>2. Exchanges \in Seq(Entry)
  BY RunAssumption DEF RunAssumption
<1>3. Exchanges[x] \in Entry
  <2> HIDE DEF Entry
  <2> QED  BY <1>1, <1>2, ElementOfSeq
<1> HIDE DEF Selections
<1> QED  BY <1>3

\* The steps of an exchange that copy nobody change nothing but its own state.
DrawStep == BeginExchange \/ DrawTarget \/ Redraw \/ EndExchanges

LEMMA DrawStepFacts ==
  DrawStep => /\ pc \in {"exchange", "draw", "copy"}
              /\ pc' \in {"exchange", "draw", "copy", "breed"}
              /\ UNCHANGED <<loopVars, pops, saved, erc, statVars, diskVars>>
<1>1. BeginExchange => /\ pc = "exchange" /\ pc' \in {"exchange", "draw"}
                       /\ UNCHANGED <<loopVars, pops, saved, erc, statVars, diskVars>>
  BY DEF BeginExchange
<1>2. DrawTarget => /\ pc = "draw" /\ pc' = "copy"
                    /\ UNCHANGED <<loopVars, pops, saved, erc, statVars, diskVars>>
  BY DEF DrawTarget
<1>3. Redraw => /\ pc = "copy" /\ pc' = "draw"
                /\ UNCHANGED <<loopVars, pops, saved, erc, statVars, diskVars>>
  BY DEF Redraw
<1>4. EndExchanges => /\ pc = "exchange" /\ pc' = "breed"
                      /\ UNCHANGED <<loopVars, pops, saved, erc, statVars, diskVars>>
  BY DEF EndExchanges
<1> QED  BY <1>1, <1>2, <1>3, <1>4 DEF DrawStep

\* The loop counter stays an index of what the loop runs over.
LEMMA ControlNext == Control /\ [Next]_vars => Control'
<1> SUFFICES ASSUME Control, [Next]_vars PROVE Control'
  OBVIOUS
<1> USE DEF Control, Location, loopVars, exchVars, statVars, diskVars
<1>0. /\ NumSubpops \in Nat \ {0} /\ Subpop = 1 .. NumSubpops
      /\ MaxGen \in Nat /\ MaxKills \in Nat /\ MaxRestarts \in Nat
      /\ 1 \in Subpop
  BY RunAssumption DEF RunAssumption, Subpop
<1>3. CASE Evaluate
  BY <1>0, <1>3 DEF Evaluate
<1>4. CASE SkipEvaluation
  BY <1>4 DEF SkipEvaluation
<1>5. CASE SubpopStats
  BY <1>0, <1>5 DEF SubpopStats
<1>6. CASE EndOfEvaluation
  <2>1. newbest' \in BOOLEAN /\ term' \in BOOLEAN
    BY <1>6, ChangedOrNot DEF EndOfEvaluation
  <2> QED  BY <1>6, <2>1 DEF EndOfEvaluation
<1>7. CASE ReleaseGenStats
  BY <1>7 DEF ReleaseGenStats
<1>8. AfterCheckpoint => /\ pc' \in {"gc", "exchange", "breed"} /\ sub' = 1
  BY DEF AfterCheckpoint
<1>9. CASE NoCheckpoint
  BY <1>0, <1>8, <1>9 DEF NoCheckpoint
<1>10. CASE OpenCheckpoint
  BY <1>10 DEF OpenCheckpoint
<1>11. CASE WriteCheckpoint
  BY <1>0, <1>8, <1>11 DEF WriteCheckpoint
<1>12. CASE FollowWildPointer
  <2>1. fromCheckpoint' \in BOOLEAN /\ term' \in BOOLEAN /\ newbest' \in BOOLEAN
    BY <1>12, VanishFacts, Zenon DEF FollowWildPointer
  <2>2. UNCHANGED <<kills, restarts>>
    BY <1>12 DEF FollowWildPointer
  <2>3. Vanish
    BY <1>12 DEF FollowWildPointer
  <2> QED  BY <1>0, <2>1, <2>2, <2>3, VanishFacts
<1>1. CASE BeginExchange
  <2>1. pool' \subseteq Slot
    BY <1>1 DEF BeginExchange, Replaceable
  <2>2. /\ sub \in DOMAIN Exchanges
        /\ \/ pc' = "draw" /\ sub' = sub
           \/ pc' = "exchange" /\ sub' = sub + 1
        /\ UNCHANGED <<loopVars, newbest, moved, copied, target, kills, restarts>>
    BY <1>1 DEF BeginExchange
  <2> QED  BY <2>1, <2>2
<1>2. CASE DrawTarget
  <2>1. target' \in Slot
    <3>1. Front(Exchanges[sub]) \subseteq pool
      BY DEF Front
    <3> QED  BY <1>2, <3>1 DEF DrawTarget
  <2>2. pool' \subseteq Slot
    BY <1>2 DEF DrawTarget
  <2>3. /\ pc = "draw" /\ pc' = "copy"
        /\ UNCHANGED <<loopVars, sub, newbest, moved, copied, kills, restarts>>
    BY <1>2 DEF DrawTarget
  <2> QED  BY <2>1, <2>2, <2>3
<1>20. CASE Redraw
  BY <1>20 DEF Redraw
<1>13. CASE ExchangeOne
  <2>1. /\ sub \in DOMAIN Exchanges /\ target \in Slot /\ target' = 0
        /\ moved' = moved \cup {<<Exchanges[sub].to, target>>}
        /\ \/ pc' = "exchange" /\ sub' = sub + 1 /\ copied' = 0
           \/ pc' = "draw" /\ sub' = sub /\ copied' = copied + 1
        /\ UNCHANGED <<loopVars, newbest, pool, kills, restarts>>
    BY <1>13 DEF ExchangeOne
  <2>2. moved' \subseteq Subpop \X Slot
    BY <2>1, ExchangeEntry
  <2> QED  BY <2>1, <2>2
<1>21. CASE EndExchanges
  BY <1>0, <1>21 DEF EndExchanges
<1>14. CASE BreedSubpop
  BY <1>0, <1>14 DEF BreedSubpop
<1>15. CASE EndOfGeneration
  <2>1. newbest' \in BOOLEAN
    BY <1>15, Zenon DEF EndOfGeneration
  <2>2. /\ \/ gen < MaxGen /\ pc' = "evaluate" /\ gen' = gen + 1
           \/ pc' = "cleanup" /\ gen' = gen
        /\ UNCHANGED <<startgen, fromCheckpoint, term, sub, exchVars, kills, restarts>>
    BY <1>15 DEF EndOfGeneration
  <2> QED  BY <1>0, <2>1, <2>2
<1>16. CASE Cleanup
  BY <1>16 DEF Cleanup
<1>17. CASE Kill
  <2>1. fromCheckpoint' \in BOOLEAN /\ term' \in BOOLEAN /\ newbest' \in BOOLEAN
    BY <1>17, VanishFacts, Zenon DEF Kill
  <2>2. kills < MaxKills /\ kills' = kills + 1 /\ restarts' = restarts
    BY <1>17 DEF Kill
  <2>3. Vanish
    BY <1>17 DEF Kill
  <2> QED  BY <1>0, <2>1, <2>2, <2>3, VanishFacts
<1>18. ASSUME NEW g \in 0 .. MaxGen, Restart(g) PROVE Control'
  <2>1. fromCheckpoint' \in BOOLEAN /\ term' \in BOOLEAN /\ newbest' \in BOOLEAN
    BY <1>18, Zenon DEF Restart
  <2>2. /\ gen' = g /\ startgen' = g /\ sub' = 1 /\ moved' = {} /\ copied' = 0
        /\ pool' = {} /\ target' = 0
        /\ restarts < MaxRestarts /\ restarts' = restarts + 1 /\ pc' = "evaluate"
        /\ kills' = kills
    BY <1>18 DEF Restart
  <2> QED  BY <1>0, <2>1, <2>2
<1>19. CASE UNCHANGED vars
  BY <1>19 DEF vars
<1> QED  BY <1>1, <1>2, <1>3, <1>4, <1>5, <1>6, <1>7, <1>9, <1>10, <1>11, <1>12, <1>13,
            <1>14, <1>15, <1>16, <1>17, <1>18, <1>19, <1>20, <1>21 DEF Next, Step

\* One round of generation_information, as a step of the run.
LEMMA SubpopStatsFacts ==
  ASSUME Invariant, SubpopStats
  PROVE  \E t, new, all, run :
           /\ Calculated(saved, pops[sub], gen, sub, t, new)
           /\ Rounded(saved, genStats, runStats, sub, gen, t, new, all, run, saved')
           /\ genStats' = [genStats EXCEPT ![0] = all, ![sub] = new]
           /\ runStats' = [runStats EXCEPT ![sub] = run]
<1>1. /\ sub \in Subpop /\ gen \in 0 .. MaxGen /\ genStats[sub] = NoStats
      /\ GoodList(saved, genStats, runStats) /\ pops[sub] \in Pop
      /\ saved \in ListOf(Copy) /\ Whole(saved)
      /\ Cardinality(Unused(saved)) >= BestN
  <2>1. pc = "stats" /\ Cardinality(Unused(saved)) >= BestN
    BY DEF SubpopStats
  <2>2. sub \in Subpop /\ sub \in Nat /\ gen \in 0 .. MaxGen
    BY <2>1 DEF Invariant, Control
  <2>3. genStats[sub] = NoStats
    BY <2>1, <2>2 DEF Invariant, Turns
  <2> QED  BY <2>1, <2>2, <2>3 DEF Invariant, Lists, GoodList, Ercs, GoodErcs
<1>2. PICK calc \in {CalculatePopStats(saved, pops[sub], gen, sub)} :
        \E all \in {Accumulate(calc.saved, genStats[0], calc.stats)} :
        \E run \in {Accumulate(all.saved, runStats[sub], calc.stats)} :
          /\ genStats' = [genStats EXCEPT ![0] = all.stats, ![sub] = calc.stats]
          /\ runStats' = [runStats EXCEPT ![sub] = run.stats]
          /\ saved' = run.saved
  BY DEF SubpopStats
<1>3. PICK all \in {Accumulate(calc.saved, genStats[0], calc.stats)} :
        \E run \in {Accumulate(all.saved, runStats[sub], calc.stats)} :
          /\ genStats' = [genStats EXCEPT ![0] = all.stats, ![sub] = calc.stats]
          /\ runStats' = [runStats EXCEPT ![sub] = run.stats]
          /\ saved' = run.saved
  BY <1>2
<1>4. PICK run \in {Accumulate(all.saved, runStats[sub], calc.stats)} :
        /\ genStats' = [genStats EXCEPT ![0] = all.stats, ![sub] = calc.stats]
        /\ runStats' = [runStats EXCEPT ![sub] = run.stats]
        /\ saved' = run.saved
  BY <1>3
<1>5. Calculated(saved, pops[sub], gen, sub, calc.saved, calc.stats)
  BY <1>1, CalculateFacts
<1>6. Rounded(saved, genStats, runStats, sub, gen, calc.saved, calc.stats,
              all.stats, run.stats, run.saved)
  BY <1>1, RoundFacts
<1> QED  BY <1>4, <1>5, <1>6

\* Records of a generation are filled in turn, and freed before the loop goes on.
LEMMA TurnsNext == Invariant /\ [Next]_vars => Turns'
<1> SUFFICES ASSUME Invariant, [Next]_vars PROVE Turns'
  OBVIOUS
<1> USE DEF Turns, statVars
<1>0. /\ Turns /\ genStats \in [StatIndex -> Record]
      /\ 0 \in StatIndex /\ Subpop \subseteq StatIndex \ {0}
  BY Constants DEF Invariant, Lists, GoodList
<1>1. \A i \in StatIndex : NoRecords[i] = NoStats
  BY DEF NoRecords
<1>3. CASE Evaluate
  BY <1>0, <1>1, <1>3 DEF Evaluate
<1>4. CASE SkipEvaluation
  BY <1>0, <1>4 DEF SkipEvaluation
<1>5. CASE SubpopStats
  <2>1. sub' = sub + 1 /\ pc' = (IF sub = NumSubpops THEN "merge" ELSE "stats") /\ pc = "stats"
    BY <1>5 DEF SubpopStats
  <2>2. sub \in Subpop /\ sub \in Nat
    BY <2>1 DEF Invariant, Control
  <2>3. PICK t, new, all, run :
          /\ Rounded(saved, genStats, runStats, sub, gen, t, new, all, run, saved')
          /\ genStats' = [genStats EXCEPT ![0] = all, ![sub] = new]
    BY <1>5, SubpopStatsFacts
  <2>6. all.size # -1
    BY <2>3 DEF Rounded
  <2>4. genStats'[0] = all /\ \A i \in Subpop : i # sub => genStats'[i] = genStats[i]
    BY <1>0, <2>2, <2>3
  <2>5. ASSUME NEW i \in Subpop, i >= sub' PROVE genStats'[i] = NoStats
    BY <1>0, <2>1, <2>2, <2>4, <2>5 DEF Subpop
  <2> QED  BY <2>1, <2>4, <2>5, <2>6
<1>6. CASE EndOfEvaluation
  BY <1>0, <1>6 DEF EndOfEvaluation
<1>7. CASE ReleaseGenStats
  BY <1>7 DEF ReleaseGenStats
<1>8. CASE NoCheckpoint
  BY <1>0, <1>8 DEF NoCheckpoint, AfterCheckpoint
<1>9. CASE OpenCheckpoint
  BY <1>0, <1>9 DEF OpenCheckpoint
<1>10. CASE WriteCheckpoint
  BY <1>0, <1>10 DEF WriteCheckpoint, AfterCheckpoint
<1>11. CASE FollowWildPointer
  BY <1>11, VanishFacts DEF FollowWildPointer
<1>30. CASE DrawStep
  BY <1>30, DrawStepFacts, <1>0
<1>12. CASE ExchangeOne
  BY <1>0, <1>12 DEF ExchangeOne
<1>13. CASE BreedSubpop
  BY <1>0, <1>13 DEF BreedSubpop
<1>14. CASE EndOfGeneration
  BY <1>0, <1>14 DEF EndOfGeneration
<1>15. CASE Cleanup
  BY <1>0, <1>15 DEF Cleanup
<1>16. CASE Kill
  BY <1>16, VanishFacts DEF Kill
<1>17. ASSUME NEW g \in 0 .. MaxGen, Restart(g) PROVE Turns'
  BY <1>17 DEF Restart
<1>18. CASE UNCHANGED vars
  BY <1>0, <1>18 DEF vars
<1> QED  BY <1>3, <1>4, <1>5, <1>6, <1>7, <1>8, <1>9, <1>10, <1>11, <1>12, <1>13, <1>14,
            <1>15, <1>16, <1>17, <1>18, <1>30
            DEF Next, Step, DrawStep

-----------------------------------------------------------------------------
(* Every step: the list of copies *)

\* An empty list has nothing to collect.
LEMMA NothingUnreferenced ==
  Unreferenced(EmptyList) = {}
  BY EmptyListFacts DEF Unreferenced

\* Copies are saved, counted and collected together with the records that
\* point at them, and come back whole from a checkpoint.
LEMMA ListsNext == Invariant /\ [Next]_vars => Lists'
<1> SUFFICES ASSUME Invariant, [Next]_vars PROVE Lists'
  OBVIOUS
<1> USE DEF statVars
<1>0. Control /\ Turns /\ Lists /\ Files
  BY DEF Invariant
<1>1. GoodList(saved, genStats, runStats) /\ NoCopyLeaks
  BY <1>0 DEF Lists
<1>2. ASSUME pc \notin {"stats", "merge", "release"}, UNCHANGED <<saved, genStats, runStats>>
      PROVE  Lists'
  <2>1. GoodList(saved', genStats', runStats')
    BY <1>1, <1>2
  <2>2. Unreferenced(saved') = {}
    BY <1>1, <1>2 DEF NoCopyLeaks
  <2> QED  BY <2>1, <2>2 DEF Lists, NoCopyLeaks
<1>3. ASSUME Vanish PROVE Lists'
  <2>1. saved' = EmptyList /\ genStats' = NoRecords /\ runStats' = NoRecords
    BY <1>3, VanishFacts
  <2> QED  BY <2>1, EmptyListFacts, NothingUnreferenced DEF Lists, NoCopyLeaks
<1>4. CASE Evaluate
  <2>1. pc = "evaluate" /\ UNCHANGED <<saved, runStats>> /\ genStats' = NoRecords
    BY <1>4 DEF Evaluate
  <2>2. genStats = NoRecords
    BY <1>0, <2>1 DEF Turns
  <2> QED  BY <1>2, <2>1, <2>2
<1>5. CASE SkipEvaluation
  BY <1>2, <1>5 DEF SkipEvaluation
<1>6. CASE SubpopStats
  <2>1. PICK t, new, all, run :
          /\ Rounded(saved, genStats, runStats, sub, gen, t, new, all, run, saved')
          /\ genStats' = [genStats EXCEPT ![0] = all, ![sub] = new]
          /\ runStats' = [runStats EXCEPT ![sub] = run]
    BY <1>6, SubpopStatsFacts
  <2>2. GoodList(saved', genStats', runStats')
    BY <2>1 DEF Rounded
  <2>3. pc' \in {"stats", "merge"}
    BY <1>6 DEF SubpopStats
  <2> QED  BY <2>2, <2>3 DEF Lists, NoCopyLeaks
<1>7. CASE EndOfEvaluation
  <2>1. genStats[0].size # -1
    BY <1>0, <1>7 DEF Turns, EndOfEvaluation
  <2>2. PICK run \in {Accumulate(saved, runStats[0], genStats[0])} :
          runStats' = [runStats EXCEPT ![0] = run.stats] /\ saved' = run.saved
    BY <1>7 DEF EndOfEvaluation
  <2>3. genStats' = genStats /\ pc' = "release"
    BY <1>7 DEF EndOfEvaluation
  <2>4. Merged(saved, genStats, runStats, run)
    BY <1>1, <2>1, EndOfRoundsFacts
  <2>5. GoodList(run.saved, genStats, [runStats EXCEPT ![0] = run.stats])
    BY <2>4 DEF Merged
  <2> QED  BY <2>2, <2>3, <2>5 DEF Lists, NoCopyLeaks
<1>8. CASE ReleaseGenStats
  <2>1. /\ saved' = SavedIndividualGc(Release(saved, genStats))
        /\ genStats' = NoRecords /\ runStats' = runStats
    BY <1>8 DEF ReleaseGenStats
  <2>2. GoodList(saved', NoRecords, runStats) /\ Unreferenced(saved') = {}
    BY <1>1, <2>1, ReleaseFacts
  <2> QED  BY <2>1, <2>2 DEF Lists, NoCopyLeaks
<1>9. CASE NoCheckpoint
  BY <1>2, <1>9 DEF NoCheckpoint
<1>10. CASE OpenCheckpoint
  BY <1>2, <1>10 DEF OpenCheckpoint
<1>11. CASE WriteCheckpoint
  BY <1>2, <1>11 DEF WriteCheckpoint
<1>12. CASE FollowWildPointer
  BY <1>3, <1>12 DEF FollowWildPointer
<1>30. CASE DrawStep
  BY <1>30, DrawStepFacts, <1>2
<1>13. CASE ExchangeOne
  BY <1>2, <1>13 DEF ExchangeOne
<1>14. CASE BreedSubpop
  BY <1>2, <1>14 DEF BreedSubpop
<1>15. CASE EndOfGeneration
  BY <1>2, <1>15 DEF EndOfGeneration
<1>16. CASE Cleanup
  <2>1. /\ saved' = SavedIndividualGc(Release(saved, runStats))
        /\ runStats' = NoRecords /\ genStats' = genStats /\ pc = "cleanup"
    BY <1>16 DEF Cleanup
  <2>2. genStats = NoRecords
    BY <1>0, <2>1 DEF Turns
  <2>3. GoodList(saved, runStats, NoRecords)
    BY <1>1, <2>2, EitherRecords
  <2>4. GoodList(saved', NoRecords, NoRecords) /\ Unreferenced(saved') = {}
    BY <2>1, <2>3, ReleaseFacts
  <2> QED  BY <2>1, <2>2, <2>4 DEF Lists, NoCopyLeaks
<1>17. CASE Kill
  BY <1>3, <1>17 DEF Kill
<1>18. ASSUME NEW g \in 0 .. MaxGen, Restart(g) PROVE Lists'
  <2> DEFINE r == files[g].run
  <2>1. saved' = ReadSaved(r.saved) /\ runStats' = r.runStats /\ genStats' = NoRecords
    BY <1>18 DEF Restart
  <2>2. GoodList(r.saved, NoRecords, r.runStats) /\ Unreferenced(r.saved) = {}
    BY <1>0 DEF Files, GoodRun
  <2> HIDE DEF r
  <2>3. ReadSaved(r.saved) = r.saved
    BY <2>2, ReadSavedFacts DEF GoodList
  <2> QED  BY <2>1, <2>2, <2>3 DEF Lists, NoCopyLeaks
<1>19. CASE UNCHANGED vars
  <2>1. UNCHANGED <<saved, genStats, runStats, pc>>
    BY <1>19 DEF vars
  <2> QED  BY <1>1, <2>1 DEF Lists, NoCopyLeaks
<1> QED  BY <1>4, <1>5, <1>6, <1>7, <1>8, <1>9, <1>10, <1>11, <1>12, <1>13, <1>14, <1>15,
            <1>16, <1>17, <1>18, <1>19, <1>30 DEF Next, Step, DrawStep

-----------------------------------------------------------------------------
(* Every step: the age of the best individual *)

\* The head of the run's list is older than the generation until that is merged:
\* so the two heads are the same copy only if the generation's one is better.
LEMMA AgesNext == Invariant /\ [Next]_vars => Ages'
<1> SUFFICES ASSUME Invariant, [Next]_vars PROVE Ages'
  OBVIOUS
<1> USE DEF statVars, loopVars
<1>0. Control /\ Turns /\ Lists /\ Ages /\ Files /\ gen \in Nat
  BY DEF Invariant, Control
<1>1. /\ genStats \in [StatIndex -> Record] /\ runStats \in [StatIndex -> Record]
      /\ 0 \in StatIndex /\ genStats[0] \in Record /\ runStats[0] \in Record
      /\ genStats[0].bestgen \in Nat /\ runStats[0].bestgen \in Nat
      /\ genStats[0].size = -1 <=> genStats[0] = NoStats
      /\ runStats[0].size = -1 <=> runStats[0] = NoStats
  <2>1. genStats \in [StatIndex -> Record] /\ runStats \in [StatIndex -> Record]
    BY <1>0 DEF Lists, GoodList
  <2>2. genStats[0] \in Record /\ runStats[0] \in Record
    BY <2>1, Constants
  <2>3. \A r \in Record : r.bestgen \in Nat /\ (r.size = -1 <=> r = NoStats)
    BY RecordFacts
  <2> QED  BY <2>1, <2>2, <2>3, Constants
<1>2. /\ OfGeneration(genStats[0], gen) /\ Within(runStats[0], gen)
      /\ pc \in {"stats", "merge"} \/ (pc = "evaluate" /\ ~Resumed) => Before(runStats[0], gen)
      /\ NewbestHeadsBothLists
  BY <1>0 DEF Ages
<1>3. NoRecords[0].size = -1
  BY <1>1 DEF NoRecords, NoStats
<1>4. ASSUME UNCHANGED <<gen, genStats, runStats>>,
             pc' \notin {"stats", "merge", "evaluate", "release"}
      PROVE  Ages'
  BY <1>2, <1>4 DEF Ages, NewbestHeadsBothLists
<1>5. ASSUME Vanish PROVE Ages'
  BY <1>3, <1>5, VanishFacts DEF Ages, OfGeneration, Within, NewbestHeadsBothLists
<1>6. CASE Evaluate
  <2>1. /\ pc = "evaluate" /\ ~Resumed /\ pc' = "stats" /\ genStats' = NoRecords
        /\ UNCHANGED <<runStats, gen>>
    BY <1>6 DEF Evaluate
  <2> QED  BY <1>2, <1>3, <2>1 DEF Ages, OfGeneration, NewbestHeadsBothLists
<1>7. CASE SkipEvaluation
  BY <1>4, <1>7 DEF SkipEvaluation
<1>8. CASE SubpopStats
  <2>1. PICK t, new, all, run :
          /\ Rounded(saved, genStats, runStats, sub, gen, t, new, all, run, saved')
          /\ genStats' = [genStats EXCEPT ![0] = all, ![sub] = new]
          /\ runStats' = [runStats EXCEPT ![sub] = run]
    BY <1>8, SubpopStatsFacts
  <2>2. pc = "stats" /\ pc' \in {"stats", "merge"} /\ gen' = gen
    BY <1>8 DEF SubpopStats
  <2>3. sub \in StatIndex /\ sub # 0
    BY <1>0, <2>2, Constants DEF Control
  <2>4. genStats'[0] = all /\ runStats'[0] = runStats[0]
    BY <1>1, <2>1, <2>3
  <2>5. OfGeneration(all, gen)
    BY <1>1, <1>2, <2>1 DEF OfGeneration, Rounded
  <2> QED  BY <1>2, <2>2, <2>4, <2>5 DEF Ages, NewbestHeadsBothLists
<1>9. CASE EndOfEvaluation
  <2>1. PICK run \in {Accumulate(saved, runStats[0], genStats[0])} :
          runStats' = [runStats EXCEPT ![0] = run.stats] /\ newbest' = run.changed
    BY <1>9 DEF EndOfEvaluation
  <2>2. genStats' = genStats /\ pc' = "release" /\ gen' = gen /\ pc = "merge"
    BY <1>9 DEF EndOfEvaluation
  <2>3. GoodList(saved, genStats, runStats) /\ genStats[0].size # -1
    BY <1>0, <2>2 DEF Lists, Turns
  <2>4. /\ run.stats \in Record /\ run.stats.size # -1
        /\ run.changed = (runStats[0] = NoStats \/ genStats[0].bestfit > runStats[0].bestfit)
        /\ run.stats.best[1] = IF run.changed THEN genStats[0].best[1] ELSE runStats[0].best[1]
        /\ run.stats.bestgen = IF run.changed THEN genStats[0].bestgen ELSE runStats[0].bestgen
    <3>1. Merged(saved, genStats, runStats, run)
      BY <2>3, EndOfRoundsFacts
    <3> QED  BY <3>1 DEF Merged
  <2>5. runStats'[0] = run.stats
    BY <1>1, <2>1
  <2>6. genStats[0].bestgen = gen /\ Before(runStats[0], gen)
    BY <1>2, <2>2, <2>3 DEF OfGeneration
  <2>7. ~run.changed => runStats[0].size # -1 /\ runStats[0].bestgen < gen
    BY <1>1, <2>4, <2>6 DEF Before
  <2>8. Within(run.stats, gen)
    BY <1>0, <1>1, <2>4, <2>6, <2>7 DEF Within
  <2>9. ~run.changed => run.stats.best[1] # genStats[0].best[1]
    <3> SUFFICES ASSUME ~run.changed PROVE runStats[0].best[1] # genStats[0].best[1]
      BY <2>4
    <3>1. Headed(saved, runStats[0]) /\ Headed(saved, genStats[0])
      BY <1>1, <2>3 DEF GoodList
    <3>2. /\ runStats[0].bestgen = saved.ind[runStats[0].best[1]].gen
          /\ genStats[0].bestgen = saved.ind[genStats[0].best[1]].gen
      BY <2>3, <2>7, <3>1 DEF Headed
    <3> QED  BY SMTT(30), <1>0, <1>1, <2>6, <2>7, <3>2
  <2>10. newbest' <=> run.stats.best[1] = genStats[0].best[1]
    BY <2>1, <2>4, <2>9
  <2> QED  BY <1>2, <2>2, <2>5, <2>8, <2>10 DEF Ages, NewbestHeadsBothLists
<1>10. CASE ReleaseGenStats
  <2>1. genStats' = NoRecords /\ pc' = "checkpoint" /\ UNCHANGED <<gen, runStats>>
    BY <1>10 DEF ReleaseGenStats
  <2> QED  BY <1>2, <1>3, <2>1 DEF Ages, OfGeneration, NewbestHeadsBothLists
<1>11. CASE NoCheckpoint
  BY <1>4, <1>11 DEF NoCheckpoint, AfterCheckpoint
<1>12. CASE OpenCheckpoint
  BY <1>4, <1>12 DEF OpenCheckpoint
<1>13. CASE WriteCheckpoint
  BY <1>4, <1>13 DEF WriteCheckpoint, AfterCheckpoint
<1>14. CASE FollowWildPointer
  BY <1>5, <1>14 DEF FollowWildPointer
<1>30. CASE DrawStep
  BY <1>30, DrawStepFacts, <1>4
<1>15. CASE ExchangeOne
  BY <1>4, <1>15 DEF ExchangeOne
<1>16. CASE BreedSubpop
  BY <1>4, <1>16 DEF BreedSubpop
<1>17. CASE EndOfGeneration
  <2>1. /\ pc = "gc" /\ UNCHANGED <<genStats, runStats>>
        /\ \/ pc' = "evaluate" /\ gen' = gen + 1
           \/ pc' = "cleanup" /\ gen' = gen
    BY <1>17 DEF EndOfGeneration
  <2>2. genStats[0].size = -1
    BY <1>0, <1>3, <2>1 DEF Turns
  <2>3. Within(runStats[0], gen') /\ (gen' = gen + 1 => Before(runStats[0], gen'))
    BY <1>0, <1>1, <1>2, <2>1 DEF Within, Before
  <2>4. OfGeneration(genStats[0], gen')
    BY <2>2 DEF OfGeneration
  <2> QED  BY <2>1, <2>3, <2>4 DEF Ages, NewbestHeadsBothLists
<1>18. CASE Cleanup
  <2>1. runStats' = NoRecords /\ pc' = "done" /\ UNCHANGED <<gen, genStats>>
    BY <1>18 DEF Cleanup
  <2> QED  BY <1>2, <1>3, <2>1 DEF Ages, Within, NewbestHeadsBothLists
<1>19. CASE Kill
  BY <1>5, <1>19 DEF Kill
<1>20. ASSUME NEW g \in 0 .. MaxGen, Restart(g) PROVE Ages'
  <2>1. /\ runStats' = files[g].run.runStats /\ genStats' = NoRecords /\ pc' = "evaluate"
        /\ gen' = g /\ startgen' = g /\ fromCheckpoint' = TRUE
    BY <1>20 DEF Restart
  <2>2. Within(files[g].run.runStats[0], g)
    BY <1>0 DEF Files, GoodRun
  <2>3. Resumed'
    BY <2>1 DEF Resumed
  <2> QED  BY <1>3, <2>1, <2>2, <2>3 DEF Ages, OfGeneration, NewbestHeadsBothLists
<1>21. CASE UNCHANGED vars
  <2>1. UNCHANGED <<pc, gen, startgen, fromCheckpoint, genStats, runStats, newbest>>
    BY <1>21 DEF vars
  <2> QED  BY <1>2, <2>1 DEF Ages, NewbestHeadsBothLists, Resumed
<1> QED  BY <1>6, <1>7, <1>8, <1>9, <1>10, <1>11, <1>12, <1>13, <1>14, <1>15, <1>16, <1>17,
            <1>18, <1>19, <1>20, <1>21, <1>30 DEF Next, Step, DrawStep

-----------------------------------------------------------------------------
(* Every step: the constants *)

\* Evaluation leaves the trees alone.
LEMMA EvaluatedPops ==
  ASSUME pops \in [Subpop -> Pop], Evaluate
  PROVE  /\ pops' \in [Subpop -> Pop]
         /\ \A i \in Subpop, k \in Slot : pops'[i][k].valid /\ pops'[i][k].erc = pops[i][k].erc
         /\ \A i \in Subpop, k \in Slot :
              IF pops[i][k].valid THEN pops'[i][k].fit = pops[i][k].fit
                                  ELSE pops'[i][k].fit \in Fitness
<1>1. PICK f \in [Stale -> Fitness], n \in [Stale -> Nodes] :
        pops' = [i \in Subpop |-> [k \in Slot |->
                  IF <<i, k>> \in Stale
                  THEN [pops[i][k] EXCEPT !.valid = TRUE, !.fit = f[<<i, k>>],
                                          !.nodes = n[<<i, k>>]]
                  ELSE pops[i][k]]]
  BY DEF Evaluate
<1>2. ASSUME NEW i \in Subpop, NEW k \in Slot
      PROVE  /\ pops'[i][k] \in Individual
             /\ pops'[i][k].valid = TRUE /\ pops'[i][k].erc = pops[i][k].erc
             /\ IF pops[i][k].valid THEN pops'[i][k].fit = pops[i][k].fit
                                    ELSE pops'[i][k].fit \in Fitness
  <2> DEFINE p == pops[i][k]
  <2>1. p \in Individual
    BY DEF Pop
  <2>2. CASE <<i, k>> \in Stale
    <3> DEFINE fit == f[<<i, k>>]
               nodes == n[<<i, k>>]
    <3>1. pops'[i][k] = [p EXCEPT !.valid = TRUE, !.fit = fit, !.nodes = nodes]
      BY <1>1, <2>2
    <3>2. fit \in Fitness /\ nodes \in Nodes
      BY <2>2
    <3>3. p = [valid |-> p.valid, fit |-> p.fit, nodes |-> p.nodes, erc |-> p.erc]
          /\ p.erc \in SUBSET Erc
      BY <2>1 DEF Individual
    <3>4. ~p.valid
      BY <2>2 DEF Stale
    <3> HIDE DEF fit, nodes, p
    <3>5. pops'[i][k] = [valid |-> TRUE, fit |-> fit, nodes |-> nodes, erc |-> p.erc]
      BY <3>1, <3>3
    <3>6. pops'[i][k].valid = TRUE /\ pops'[i][k].erc = p.erc /\ pops'[i][k] \in Individual
          /\ pops'[i][k].fit = fit
      BY <3>2, <3>3, <3>5 DEF Individual
    <3> QED  BY <3>2, <3>4, <3>6 DEF p
  <2>3. CASE <<i, k>> \notin Stale
    <3>1. pops'[i][k] = p
      BY <1>1, <2>3
    <3>2. p.valid
      BY <2>3 DEF Stale
    <3>3. p.valid = TRUE
      BY <2>1, <3>2 DEF Individual
    <3> QED  BY <2>1, <3>1, <3>3
  <2> QED  BY <2>2, <2>3
<1>3. pops' = [i \in Subpop |-> [k \in Slot |-> pops'[i][k]]]
  BY <1>1
<1>4. pops' \in [Subpop -> Pop]
  <2>1. \A i \in Subpop, k \in Slot : pops'[i][k] \in Individual
    BY <1>2
  <2> QED  BY <1>3, <2>1 DEF Pop
<1> QED  BY <1>2, <1>4

\* A new population consists of individuals, and of constants of the old one
\* and new ones; the places of the elite hold individuals of the old one.
LEMMA NewPopulation ==
  ASSUME NEW pop \in Pop, NEW made \in SUBSET Erc, NEW picks \in Elites(pop),
         NEW bred \in [Elitism + 1 .. PopSize -> Offspring(pop, made)],
         NEW A, \A k \in Slot : pop[k].erc \subseteq A
  PROVE  LET new == [k \in Slot |-> IF k <= Elitism THEN pop[picks[k]] ELSE bred[k]]
         IN new \in Pop /\ \A k \in Slot : new[k].erc \subseteq A \cup made
<1> DEFINE new == [k \in Slot |-> IF k <= Elitism THEN pop[picks[k]] ELSE bred[k]]
<1>1. picks \in [1 .. Elitism -> Slot]
  BY DEF Elites, Injection
<1>2. Elitism \in Nat /\ PopSize \in Nat
  BY RunAssumption, Constants DEF RunAssumption
<1>3. \A k \in Slot : pop[k] \in Individual
  BY DEF Pop
<1>4. ASSUME NEW p \in Offspring(pop, made)
      PROVE  p \in Individual /\ p.erc \subseteq A \cup made
  <2>1. CASE p \in {pop[k] : k \in Slot}
    BY <1>3, <2>1
  <2>2. CASE p \in {Unevaluated(S) : S \in SUBSET (made \cup UNION {pop[k].erc : k \in Slot})}
    <3>1. PICK S \in SUBSET (made \cup UNION {pop[k].erc : k \in Slot}) : p = Unevaluated(S)
      BY <2>2
    <3>2. UNION {pop[k].erc : k \in Slot} \subseteq A
      OBVIOUS
    <3>3. UNION {pop[k].erc : k \in Slot} \subseteq Erc
      BY <1>3 DEF Individual
    <3>4. S \subseteq A \cup made /\ S \in SUBSET Erc
      BY <3>2, <3>3
    <3>5. Unevaluated(S) \in Individual /\ Unevaluated(S).erc = S
      BY <3>4 DEF Unevaluated, Individual
    <3> QED  BY <3>1, <3>4, <3>5
  <2> QED  BY <2>1, <2>2 DEF Offspring
<1>5. ASSUME NEW k \in Slot
      PROVE  new[k] \in Individual /\ new[k].erc \subseteq A \cup made
  <2>1. CASE k <= Elitism
    <3>1. k \in 1 .. Elitism
      BY <1>2, <2>1 DEF Slot
    <3>2. new[k] = pop[picks[k]] /\ picks[k] \in Slot
      BY <1>1, <2>1, <3>1
    <3> QED  BY <1>3, <3>2
  <2>2. CASE ~(k <= Elitism)
    <3>1. k \in Elitism + 1 .. PopSize
      BY <1>2, <2>2 DEF Slot
    <3>2. new[k] = bred[k] /\ bred[k] \in Offspring(pop, made)
      BY <2>2, <3>1
    <3> QED  BY <1>4, <3>2
  <2> QED  BY <2>1, <2>2
<1> QED  BY <1>5 DEF Pop

\* At the end of the run nothing is left of the list, the populations and the
\* constants they used.
LEMMA CleanupErcs ==
  ASSUME NEW ps, NEW s, NEW e, NEW rs, GoodErcs(ps, s, e), GoodList(s, NoRecords, rs),
         NEW r, r = Release(s, rs), NEW t, t = SavedIndividualGc(r),
         NEW d, d = EphemConstGc(ReferenceErcs(ReferenceErcs(EphemConstGc(e), Doomed(r), -1),
                                               Everyone(ps), -1))
  PROVE  /\ GoodErcs(NoPops, t, d) /\ NoneIdle(NoPops, t, d)
         /\ Range(t.list) = {}
<1> DEFINE e0 == EphemConstGc(e)
           e1 == ReferenceErcs(e0, Doomed(r), -1)
           e2 == ReferenceErcs(e1, Everyone(ps), -1)
<1>1. GoodErcs(ps, s, e0)
  BY GcErcs
<1>2. GoodList(s, rs, NoRecords)
  BY EitherRecords
<1>3. /\ GoodList(t, NoRecords, NoRecords) /\ Unreferenced(t) = {}
      /\ Range(t.list) = Range(s.list) \ Unreferenced(r)
      /\ Unreferenced(r) \subseteq Range(s.list) /\ r.ind = s.ind
      /\ \A a \in Range(t.list) : t.ind[a] = s.ind[a]
  BY <1>2, ReleaseFacts
<1> HIDE DEF e0
<1>4. GoodErcs(ps, t, e1)
  BY <1>1, <1>3, ReleaseErcs
<1> HIDE DEF e1
<1>5. Range(t.list) = {}
  <2>1. Range(t.list) \subseteq Address
    BY <1>4 DEF GoodErcs
  <2>2. \A a \in Address : t.refcount[a] = 0
    BY <1>3, NoRecordsFacts DEF GoodList
  <2> QED  BY <1>3, <2>1, <2>2 DEF Unreferenced
<1>6. /\ e2 \in ErcList
      /\ \A c \in Erc : e2.refcount[c] = e1.refcount[c] - Users(Everyone(ps), c)
  <2>1. IsFiniteSet(DOMAIN Everyone(ps)) /\ e1 \in ErcList
    BY <1>4, EveryoneFacts DEF GoodErcs
  <2> QED  BY <2>1, CountedDown
<1> HIDE DEF e2
<1>7. \A c \in Erc : e2.refcount[c] = Users(Everyone(NoPops), c) + Users(Held(t), c)
  <2> TAKE c \in Erc
  <2>1. e1.refcount[c] = Users(Everyone(ps), c) + Users(Held(t), c)
    BY <1>4 DEF GoodErcs
  <2>2. Users(Held(t), c) = 0 /\ Users(Everyone(NoPops), c) = 0
    BY <1>5, NobodysUsers
  <2>3. Users(Everyone(ps), c) \in Nat
    BY EveryoneFacts
  <2> QED  BY <1>6, <2>1, <2>2, <2>3
<1>8. GoodErcs(NoPops, t, e2)
  BY <1>5, <1>6, <1>7, NobodysUsers DEF GoodErcs
<1>9. d = EphemConstGc(e2)
  BY DEF e0, e1, e2
<1>10. GoodErcs(NoPops, t, d) /\ NoneIdle(NoPops, t, d)
  BY <1>8, <1>9, GcErcs DEF NoneIdle
<1> QED  BY <1>5, <1>10

\* Trees and copies come and go together with their constants' counts.
LEMMA ErcsNext == Invariant /\ [Next]_vars => Ercs'
<1> SUFFICES ASSUME Invariant, [Next]_vars PROVE Ercs'
  OBVIOUS
<1> USE DEF loopVars
<1>0. /\ Control /\ Turns /\ Lists /\ Files /\ GoodErcs(pops, saved, erc)
      /\ pops \in [Subpop -> Pop]
  BY DEF Invariant, Ercs, GoodErcs
<1>1. GoodList(saved, genStats, runStats)
  BY <1>0 DEF Lists
<1>2. ASSUME UNCHANGED <<pops, saved, erc>>, pc' \notin {"evaluate", "done"}
      PROVE  Ercs'
  BY <1>0, <1>2 DEF Ercs
<1>3. ASSUME Vanish PROVE Ercs'
  BY <1>3, VanishFacts, NoErcsFacts DEF Ercs
<1>4. CASE Evaluate
  <2>1. /\ pops' \in [Subpop -> Pop]
        /\ \A i \in Subpop, k \in Slot : pops'[i][k].erc = pops[i][k].erc
    BY <1>0, <1>4, EvaluatedPops
  <2>2. UNCHANGED <<saved, erc>> /\ pc' = "stats"
    BY <1>4 DEF Evaluate
  <2>3. GoodErcs(pops', saved, erc)
    BY <1>0, <2>1, SameErcs
  <2> QED  BY <2>2, <2>3 DEF Ercs
<1>5. CASE SkipEvaluation
  BY <1>2, <1>5 DEF SkipEvaluation
<1>6. CASE SubpopStats
  <2>1. PICK t, new, all, run :
          /\ Calculated(saved, pops[sub], gen, sub, t, new)
          /\ Rounded(saved, genStats, runStats, sub, gen, t, new, all, run, saved')
    BY <1>6, SubpopStatsFacts
  <2>2. /\ erc' = ReferenceErcs(erc, Copies(pops[sub], gen, sub), 1)
        /\ pops' = pops /\ pc' \in {"stats", "merge"} /\ pc = "stats"
    BY <1>6 DEF SubpopStats
  <2>3. saved'.list = t.list /\ saved'.ind = t.ind
    BY <2>1 DEF Rounded
  <2>4. sub \in Subpop
    BY <1>0, <2>2 DEF Control
  <2>5. GoodErcs(pops, saved', erc')
    BY <1>0, <2>1, <2>2, <2>3, <2>4, RoundErcs
  <2> QED  BY <2>2, <2>5 DEF Ercs
<1>7. CASE EndOfEvaluation
  <2>1. PICK run \in {Accumulate(saved, runStats[0], genStats[0])} : saved' = run.saved
    BY <1>7 DEF EndOfEvaluation
  <2>2. UNCHANGED <<pops, erc>> /\ pc = "merge" /\ pc' = "release"
    BY <1>7 DEF EndOfEvaluation
  <2>3. genStats[0].size # -1
    BY <1>0, <2>2 DEF Turns
  <2>4. Merged(saved, genStats, runStats, run)
    BY <1>1, <2>3, EndOfRoundsFacts
  <2>5. saved'.list = saved.list /\ saved'.ind = saved.ind
    BY <2>1, <2>4 DEF Merged
  <2>6. GoodErcs(pops, saved', erc)
    BY <1>0, <2>5, SameErcs
  <2> QED  BY <2>2, <2>6 DEF Ercs
<1>8. CASE ReleaseGenStats
  <2> DEFINE r == Release(saved, genStats)
  <2>1. /\ saved' = SavedIndividualGc(r) /\ erc' = ReferenceErcs(erc, Doomed(r), -1)
        /\ pops' = pops /\ pc' = "checkpoint"
    BY <1>8 DEF ReleaseGenStats
  <2>4. r = Release(saved, genStats)
    OBVIOUS
  <2> HIDE DEF r
  <2>2. /\ Range(saved'.list) = Range(saved.list) \ Unreferenced(r)
        /\ Unreferenced(r) \subseteq Range(saved.list) /\ r.ind = saved.ind
        /\ \A a \in Range(saved'.list) : saved'.ind[a] = saved.ind[a]
    <3> DEFINE t == SavedIndividualGc(r)
    <3>1. t = SavedIndividualGc(r)
      OBVIOUS
    <3> HIDE DEF t
    <3>2. /\ GoodList(t, NoRecords, runStats) /\ Unreferenced(t) = {}
          /\ Range(t.list) = Range(saved.list) \ Unreferenced(r)
          /\ Unreferenced(r) \subseteq Range(saved.list) /\ r.ind = saved.ind
          /\ \A a \in Range(t.list) : t.ind[a] = saved.ind[a]
      BY <1>1, <2>4, <3>1, ReleaseFacts
    <3> QED  BY <2>1, <3>1, <3>2
  <2>3. GoodErcs(pops, saved', ReferenceErcs(erc, Doomed(r), -1))
    BY <1>0, <2>2, ReleaseErcs
  <2> QED  BY <2>1, <2>3 DEF Ercs
<1>9. CASE NoCheckpoint
  BY <1>2, <1>9 DEF NoCheckpoint, AfterCheckpoint
<1>10. CASE OpenCheckpoint
  BY <1>2, <1>10 DEF OpenCheckpoint
<1>11. CASE WriteCheckpoint
  BY <1>2, <1>11 DEF WriteCheckpoint, AfterCheckpoint
<1>12. CASE FollowWildPointer
  BY <1>3, <1>12 DEF FollowWildPointer
<1>30. CASE DrawStep
  BY <1>30, <1>2, DrawStepFacts
<1>13. CASE ExchangeOne
  <2> DEFINE x == Exchanges[sub]
             ti == target
  <2>1. PICK fi \in Slot :
          /\ erc' = ExchangedErcs(erc, pops[x.to][ti], pops[x.from][fi])
          /\ pops' = [pops EXCEPT ![x.to][ti] = pops[x.from][fi]]
    BY <1>13 DEF ExchangeOne
  <2>2. saved' = saved /\ pc = "copy" /\ pc' \in {"draw", "exchange"}
    BY <1>13 DEF ExchangeOne
  <2>3. x.to \in Subpop /\ x.from \in Subpop /\ ti \in Slot
    <3>1. sub \in DOMAIN Exchanges /\ target \in Slot
      BY <1>0, <2>2 DEF Control
    <3> QED  BY <3>1, ExchangeEntry
  <2> HIDE DEF x, ti
  <2>4. Placed(pops', pops, x.to, ti, pops[x.from][fi])
    BY <2>1 DEF Placed
  <2>5. GoodErcs(pops', saved, ExchangedErcs(erc, pops[x.to][ti], pops[x.from][fi]))
    BY <1>0, <2>3, <2>4, ExchangeErcs
  <2> QED  BY <2>1, <2>2, <2>5 DEF Ercs
<1>14. CASE BreedSubpop
  <2>1. PICK made \in SUBSET Free :
          \E picks \in Elites(pops[sub]),
             bred \in [Elitism + 1 .. PopSize -> Offspring(pops[sub], made)] :
            LET new == [k \in Slot |-> IF k <= Elitism THEN pops[sub][picks[k]] ELSE bred[k]]
            IN /\ pops' = [pops EXCEPT ![sub] = new]
               /\ erc' = BredErcs(erc, made, pops[sub], new)
    BY <1>14 DEF BreedSubpop
  <2>2. PICK picks \in Elites(pops[sub]),
             bred \in [Elitism + 1 .. PopSize -> Offspring(pops[sub], made)] :
            LET new == [k \in Slot |-> IF k <= Elitism THEN pops[sub][picks[k]] ELSE bred[k]]
            IN /\ pops' = [pops EXCEPT ![sub] = new]
               /\ erc' = BredErcs(erc, made, pops[sub], new)
    BY <2>1
  <2> DEFINE new == [k \in Slot |-> IF k <= Elitism THEN pops[sub][picks[k]] ELSE bred[k]]
  <2>3. pc = "breed" /\ saved' = saved /\ pc' \in {"gc", "breed"}
    BY <1>14 DEF BreedSubpop
  <2>4. sub \in Subpop /\ pops[sub] \in Pop /\ made \in SUBSET (Erc \ erc.active)
        /\ made \in SUBSET Erc
    BY <1>0, <2>3 DEF Control, Free
  <2>5. \A k \in Slot : pops[sub][k].erc \subseteq erc.active
    BY <1>0, <2>4 DEF GoodErcs
  <2>6. new \in Pop /\ \A k \in Slot : new[k].erc \subseteq erc.active \cup made
    BY <2>4, <2>5, NewPopulation
  <2>7. Bred(pops', pops, sub, new) /\ erc' = BredErcs(erc, made, pops[sub], new)
    BY <2>2 DEF Bred
  <2> HIDE DEF new
  <2>8. GoodErcs(pops', saved, BredErcs(erc, made, pops[sub], new))
    BY <1>0, <2>4, <2>6, <2>7, BreedErcs
  <2> QED  BY <2>3, <2>7, <2>8 DEF Ercs
<1>15. CASE EndOfGeneration
  <2>1. UNCHANGED <<pops, saved>> /\ erc' = EphemConstGc(erc)
    BY <1>15 DEF EndOfGeneration
  <2>2. GoodErcs(pops, saved, erc') /\ NoneIdle(pops, saved, erc')
    BY <1>0, <2>1, GcErcs DEF NoneIdle
  <2> QED  BY <2>1, <2>2 DEF Ercs
<1>16. CASE Cleanup
  <2>1. /\ saved' = SavedIndividualGc(Release(saved, runStats))
        /\ erc' = EphemConstGc(ReferenceErcs(
                    ReferenceErcs(EphemConstGc(erc), Doomed(Release(saved, runStats)), -1),
                    Everyone(pops), -1))
        /\ pops' = NoPops /\ pc = "cleanup"
    BY <1>16 DEF Cleanup
  <2>2. GoodList(saved, NoRecords, runStats)
    BY <1>0, <1>1, <2>1 DEF Turns
  <2>3. GoodErcs(NoPops, saved', erc') /\ NoneIdle(NoPops, saved', erc')
    BY <1>0, <2>1, <2>2, CleanupErcs
  <2> QED  BY <2>1, <2>3 DEF Ercs
<1>17. CASE Kill
  BY <1>3, <1>17 DEF Kill
<1>18. ASSUME NEW g \in 0 .. MaxGen, Restart(g) PROVE Ercs'
  <2> DEFINE r == files[g].run
             trees == UNION ({i.erc : i \in Range(Everyone(r.pops))}
                             \cup {r.saved.ind[a].erc : a \in Range(r.saved.list)})
  <2>1. /\ pops' = r.pops /\ saved' = ReadSaved(r.saved) /\ erc' = ReadErcs(r.erc, trees)
        /\ pc' = "evaluate" /\ gen' = g /\ startgen' = g
    BY <1>18 DEF Restart
  <2>2. /\ GoodList(r.saved, NoRecords, r.runStats) /\ GoodErcs(r.pops, r.saved, r.erc)
    BY <1>0 DEF Files, GoodRun
  <2>3. ReadSaved(r.saved) = r.saved
    BY <2>2, ReadSavedFacts DEF GoodList
  <2>4. trees \in SUBSET Erc
    <3>1. \A q \in DOMAIN Everyone(r.pops) : Everyone(r.pops)[q].erc \subseteq Erc
      <4> TAKE q \in DOMAIN Everyone(r.pops)
      <4>1. q \in Subpop \X Slot
        BY EveryoneFacts
      <4>2. PICK i \in Subpop, k \in Slot : q = <<i, k>>
        BY <4>1
      <4>3. Everyone(r.pops)[q] = r.pops[i][k]
        BY <4>2, EveryoneFacts
      <4>4. r.pops[i][k].erc \subseteq r.erc.active /\ r.erc.active \subseteq Erc
        BY <2>2 DEF GoodErcs, ErcList
      <4> QED  BY <4>3, <4>4
    <3>2. \A i \in Range(Everyone(r.pops)) : i.erc \subseteq Erc
      BY <3>1 DEF Range
    <3>3. \A a \in Range(r.saved.list) : r.saved.ind[a].erc \subseteq Erc
      BY <2>2 DEF GoodErcs, ErcList
    <3> HIDE DEF r
    <3> QED  BY <3>2, <3>3
  <2> HIDE DEF r, trees
  <2>5. /\ ReadErcs(r.erc, trees) \in ErcList
        /\ ReadErcs(r.erc, trees).active = r.erc.active
        /\ ReadErcs(r.erc, trees).refcount = r.erc.refcount
    <3>1. r.erc \in ErcList
      BY <2>2 DEF GoodErcs
    <3> QED  BY <2>4, <3>1 DEF ReadErcs, ErcList
  <2>6. GoodErcs(pops', saved', erc')
    BY <2>1, <2>2, <2>3, <2>5 DEF GoodErcs
  <2>7. ~(gen' > startgen')
    BY <2>1
  <2> QED  BY <2>1, <2>6, <2>7 DEF Ercs
<1>19. CASE UNCHANGED vars
  <2>1. UNCHANGED <<pc, pops, saved, erc, gen, startgen>>
    BY <1>19 DEF vars
  <2> QED  BY <2>1 DEF Invariant, Ercs
<1> QED  BY <1>4, <1>5, <1>6, <1>7, <1>8, <1>9, <1>10, <1>11, <1>12, <1>13, <1>14, <1>15,
            <1>16, <1>17, <1>18, <1>19, <1>30 DEF Next, Step, DrawStep

-----------------------------------------------------------------------------
(* Every step: the checkpoint files *)

\* A checkpoint is written when no record of the generation is left, so what
\* it holds is consistent.
LEMMA FilesNext == Invariant /\ [Next]_vars => Files'
<1> SUFFICES ASSUME Invariant, [Next]_vars PROVE Files'
  OBVIOUS
<1> USE DEF diskVars
<1>0. Control /\ Turns /\ Lists /\ Ages /\ Ercs /\ Files
  BY DEF Invariant
<1>1. ASSUME files' = files PROVE Files'
  BY <1>0, <1>1 DEF Files
\* A file with another content is as good as the content.
<1>2. ASSUME NEW f \in [whole : BOOLEAN, run : Contents], GoodRun(f.run, gen),
             files' = [files EXCEPT ![gen] = f]
      PROVE  Files'
  <2>1. /\ files \in [0 .. MaxGen -> [whole : BOOLEAN, run : Contents]]
        /\ \A g \in 0 .. MaxGen : GoodRun(files[g].run, g)
    BY <1>0 DEF Files
  <2>2. files' \in [0 .. MaxGen -> [whole : BOOLEAN, run : Contents]]
    BY <1>2, <2>1
  <2>3. ASSUME NEW g \in 0 .. MaxGen PROVE GoodRun(files'[g].run, g)
    <3>1. CASE g = gen
      BY <1>2, <2>1, <3>1
    <3>2. CASE g # gen
      BY <1>2, <2>1, <3>2
    <3> QED  BY <3>1, <3>2
  <2> QED  BY <2>2, <2>3 DEF Files
<1>3. CASE OpenCheckpoint
  <2>1. files' = [files EXCEPT ![gen] = NoFile]
    BY <1>3 DEF OpenCheckpoint
  <2>2. NoFile.run = NoRun /\ NoRun.runStats = NoRecords /\ NoRun.pops = NoPops
        /\ NoRun.erc = NoErcs /\ NoRun.saved = EmptyList
    BY DEF NoFile, NoRun
  <2>3. NoRun \in Contents
    <3>1. NoPops \in [Subpop -> Pop] /\ NoErcs \in ErcList
      BY NoErcsFacts DEF GoodErcs
    <3>2. EmptyList \in ListOf(Copy) /\ NoRecords \in [StatIndex -> Record]
      BY EmptyListFacts DEF GoodList
    <3> QED  BY <3>1, <3>2 DEF NoRun, Contents
  <2>4. NoFile \in [whole : BOOLEAN, run : Contents]
    BY <2>3 DEF NoFile
  <2>5. Within(NoRecords[0], gen)
    BY Constants DEF Within, NoRecords, NoStats
  <2>6. GoodRun(NoRun, gen)
    BY <2>2, <2>3, <2>5, EmptyListFacts, NoErcsFacts, NothingUnreferenced DEF GoodRun
  <2> QED  BY <1>2, <2>1, <2>2, <2>4, <2>6
<1>4. CASE WriteCheckpoint
  <2> DEFINE r == [pops |-> pops, erc |-> erc, saved |-> saved, runStats |-> runStats]
             f == [whole |-> TRUE, run |-> r]
  <2>1. pc = "writing" /\ files' = [files EXCEPT ![gen] = f]
    BY <1>4 DEF WriteCheckpoint
  <2>2. /\ r.pops = pops /\ r.erc = erc /\ r.saved = saved /\ r.runStats = runStats
        /\ f.run = r
    OBVIOUS
  <2>3. genStats = NoRecords /\ Unreferenced(saved) = {} /\ GoodList(saved, genStats, runStats)
    BY <1>0, <2>1 DEF Turns, Lists, NoCopyLeaks
  <2>4. GoodErcs(pops, saved, erc) /\ Within(runStats[0], gen)
    BY <1>0 DEF Ercs, Ages
  <2>5. r \in Contents
    <3>1. pops \in [Subpop -> Pop] /\ erc \in ErcList
      BY <2>4 DEF GoodErcs
    <3>2. saved \in ListOf(Copy) /\ runStats \in [StatIndex -> Record]
      BY <2>3 DEF GoodList
    <3> QED  BY <3>1, <3>2 DEF Contents
  <2>6. f \in [whole : BOOLEAN, run : Contents]
    BY <2>5
  <2> HIDE DEF r, f
  <2>7. GoodRun(r, gen)
    BY <2>2, <2>3, <2>4, <2>5 DEF GoodRun
  <2> QED  BY <1>2, <2>1, <2>2, <2>6, <2>7
<1>5. CASE ReleaseGenStats \/ NoCheckpoint \/ EndOfEvaluation \/ SubpopStats
  BY <1>1, <1>5 DEF ReleaseGenStats, NoCheckpoint, EndOfEvaluation, SubpopStats
<1>6. CASE Evaluate \/ SkipEvaluation \/ FollowWildPointer \/ ExchangeOne
  BY <1>1, <1>6 DEF Evaluate, SkipEvaluation, FollowWildPointer, ExchangeOne
<1>30. CASE DrawStep
  BY <1>1, <1>30, DrawStepFacts
<1>7. CASE BreedSubpop \/ EndOfGeneration \/ Cleanup \/ Kill
  BY <1>1, <1>7 DEF BreedSubpop, EndOfGeneration, Cleanup, Kill
<1>8. ASSUME NEW g \in 0 .. MaxGen, Restart(g) PROVE Files'
  BY <1>1, <1>8 DEF Restart
<1>9. CASE UNCHANGED vars
  BY <1>1, <1>9 DEF vars
<1> QED  BY <1>3, <1>4, <1>5, <1>6, <1>7, <1>8, <1>9, <1>30 DEF Next, Step, DrawStep

-----------------------------------------------------------------------------
(* Every step: the elite *)

\* A population that replaces another one keeps its best individual.
LEMMA EliteKept ==
  ASSUME NEW pop \in Pop, AllValid(pop), NEW r \in Record, Reaches(pop, r),
         NEW picks \in Elites(pop), Elitism > 0,
         NEW new, new[1] = pop[picks[1]]
  PROVE  Reaches(new, r)
<1>1. Elitism \in Nat /\ 1 \in 1 .. Elitism /\ 1 \in Slot
  BY RunAssumption, Constants DEF RunAssumption, Slot
<1>2. picks \in [1 .. Elitism -> Slot] /\ BestFirst(pop, picks)
  BY DEF Elites, Injection
<1>3. /\ picks[1] \in Slot
      /\ \A k \in Slot : k # picks[1] => pop[k].fit <= pop[picks[1]].fit
  <2>1. {picks[j] : j \in 1 .. 1} = {picks[1]}
    OBVIOUS
  <2>2. DOMAIN picks = 1 .. Elitism
    BY <1>2
  <2>3. \A k \in Slot \ {picks[1]} : pop[k].fit <= pop[picks[1]].fit
    BY <1>1, <1>2, <2>1, <2>2 DEF BestFirst
  <2> QED  BY <1>1, <1>2, <2>3
<1>4. \A k \in Slot : pop[k].fit \in Nat
  BY Constants DEF Pop, Individual
<1>5. r.bestfit \in Nat
  BY RecordFacts
<1>6. ASSUME r.size # -1
      PROVE  new[1].valid /\ new[1].fit >= r.bestfit
  <2>1. PICK k \in Slot : pop[k].fit >= r.bestfit
    BY <1>6 DEF Reaches
  <2>2. pop[k].fit <= pop[picks[1]].fit
    BY <1>3, <1>4
  <2> QED  BY <1>3, <1>4, <1>5, <2>1, <2>2 DEF AllValid
<1> QED  BY <1>1, <1>6 DEF Reaches

\* What the files say of the elite.
EliteFiles ==
  \A g \in 0 .. MaxGen : files[g].whole =>
    \A i \in Subpop : /\ AllValid(files[g].run.pops[i])
                      /\ Reaches(files[g].run.pops[i], files[g].run.runStats[i])

\* Without exchange the best individual of a subpopulation is bred on.
LEMMA EliteNext ==
  ASSUME Invariant, [Next]_vars, Elitism > 0, Exchanges = <<>>
  PROVE  Elite'
<1> USE DEF loopVars, statVars, diskVars
<1>0. /\ Control /\ Turns /\ Lists /\ Ages /\ Ercs /\ Files /\ Elite
      /\ pops \in [Subpop -> Pop] /\ runStats \in [StatIndex -> Record]
      /\ genStats \in [StatIndex -> Record]
      /\ \A i \in Subpop : i \in StatIndex /\ i # 0
  BY Constants DEF Invariant, Ercs, GoodErcs, Lists, GoodList
<1>1. /\ pc \notin {"exchange", "draw", "copy"}
      /\ Evaluated => \A i \in Subpop : AllValid(pops[i])
      /\ pc = "breed" => \A i \in Subpop : i >= sub => AllValid(pops[i])
      /\ \A i \in Subpop : Reaches(pops[i], runStats[i])
      /\ \A i \in Subpop : genStats[i].size # -1 => /\ runStats[i].size # -1
                                                    /\ genStats[i].bestfit = runStats[i].bestfit
      /\ EliteFiles
  BY <1>0 DEF Elite, EliteFiles
<1>2. \A i \in Subpop : NoRecords[i].size = -1
  BY <1>0 DEF NoRecords, NoStats
<1>3. ASSUME pc' \in Location \ {"exchange", "draw", "copy", "breed"},
             UNCHANGED <<pops, runStats, genStats, files>>,
             Evaluated' => Evaluated
      PROVE  Elite'
  <2>1. EliteFiles'
    BY <1>1, <1>3 DEF EliteFiles
  <2>2. Evaluated' => \A i \in Subpop : AllValid(pops'[i])
    BY <1>1, <1>3
  <2>3. pc' \notin {"exchange", "draw", "copy", "breed"}
    BY <1>3
  <2> QED  BY <1>1, <1>3, <2>1, <2>2, <2>3 DEF Elite, EliteFiles
<1>4. ASSUME Vanish, files' = files PROVE Elite'
  <2>1. pc' = "dead" /\ runStats' = NoRecords /\ genStats' = NoRecords
    BY <1>4, VanishFacts
  <2>2. EliteFiles'
    BY <1>1, <1>4 DEF EliteFiles
  <2> QED  BY <1>2, <2>1, <2>2 DEF Elite, EliteFiles, Evaluated, Reaches
<1>5. ASSUME AfterCheckpoint, Evaluated, UNCHANGED <<pops, runStats, genStats>>, EliteFiles'
      PROVE  Elite'
  <2>1. pc' \in {"gc", "breed"} /\ sub' = 1
    BY <1>5 DEF AfterCheckpoint, ExchangeDue
  <2> QED  BY <1>1, <1>5, <2>1 DEF Elite, EliteFiles, Evaluated
<1>6. CASE Evaluate
  <2>1. /\ pops' \in [Subpop -> Pop]
        /\ \A i \in Subpop, k \in Slot : pops'[i][k].valid
        /\ \A i \in Subpop, k \in Slot : pops[i][k].valid => pops'[i][k].fit = pops[i][k].fit
    BY <1>0, <1>6, EvaluatedPops
  <2>2. /\ genStats' = NoRecords /\ runStats' = runStats /\ files' = files /\ pc' = "stats"
    BY <1>6 DEF Evaluate
  <2>3. \A i \in Subpop : AllValid(pops'[i])
    BY <2>1 DEF AllValid
  <2>4. \A i \in Subpop : Reaches(pops'[i], runStats[i])
    BY <1>1, <2>1 DEF Reaches
  <2>5. EliteFiles'
    BY <1>1, <2>2 DEF EliteFiles
  <2> QED  BY <1>2, <2>2, <2>3, <2>4, <2>5 DEF Elite, EliteFiles
<1>7. CASE SkipEvaluation
  <2>1. UNCHANGED <<pops, runStats, genStats, files>> /\ pc' = "checkpoint" /\ Evaluated
    BY <1>7 DEF SkipEvaluation, Evaluated
  <2> QED  BY <1>3, <2>1 DEF Location
<1>8. CASE SubpopStats
  <2>1. PICK t, new, all, run :
          /\ Calculated(saved, pops[sub], gen, sub, t, new)
          /\ Rounded(saved, genStats, runStats, sub, gen, t, new, all, run, saved')
          /\ genStats' = [genStats EXCEPT ![0] = all, ![sub] = new]
          /\ runStats' = [runStats EXCEPT ![sub] = run]
    BY <1>8, SubpopStatsFacts
  <2>2. /\ pc = "stats" /\ pc' \in {"stats", "merge"} /\ pops' = pops /\ files' = files
    BY <1>8 DEF SubpopStats
  <2>3. /\ sub \in Subpop /\ pops[sub] \in Pop /\ AllValid(pops[sub])
        /\ Reaches(pops[sub], runStats[sub]) /\ runStats[sub] \in Record
    BY <1>0, <1>1, <2>2 DEF Control, Evaluated
  <2>4. /\ \A k \in Slot : pops[sub][k].fit \in Nat
        /\ runStats[sub].bestfit \in Nat /\ new.bestfit \in Nat
        /\ runStats[sub].size = -1 <=> runStats[sub] = NoStats
    <3>1. \A r \in Record : r.bestfit \in Nat /\ (r.size = -1 <=> r = NoStats)
      BY RecordFacts
    <3>2. new \in Record
      BY <2>1 DEF Calculated
    <3> QED  BY <2>3, <3>1, <3>2, Constants DEF Pop, Individual
  <2>5. /\ \A k \in Slot : pops[sub][k].fit <= new.bestfit
        /\ \E k \in Slot : pops[sub][k].fit = new.bestfit
    BY <2>1 DEF Calculated
  <2>6. /\ run.size # -1
        /\ run.bestfit = IF runStats[sub] = NoStats \/ new.bestfit > runStats[sub].bestfit
                         THEN new.bestfit ELSE runStats[sub].bestfit
    BY <2>1 DEF Rounded
  <2>7. run.bestfit = new.bestfit
    <3>1. CASE runStats[sub] = NoStats \/ new.bestfit > runStats[sub].bestfit
      BY <2>6, <3>1
    <3>2. CASE ~(runStats[sub] = NoStats \/ new.bestfit > runStats[sub].bestfit)
      <4>1. PICK k \in Slot : pops[sub][k].fit >= runStats[sub].bestfit
        BY <2>3, <2>4, <3>2 DEF Reaches
      <4>2. pops[sub][k].fit <= new.bestfit
        BY <2>5
      <4> QED  BY <2>4, <2>6, <3>2, <4>1, <4>2
    <3> QED  BY <3>1, <3>2
  <2>8. Reaches(pops[sub], run)
    <3>1. PICK k \in Slot : pops[sub][k].fit = new.bestfit
      BY <2>5
    <3>2. pops[sub][k].valid /\ pops[sub][k].fit >= run.bestfit
      BY <2>3, <2>4, <2>7, <3>1 DEF AllValid
    <3> QED  BY <3>2 DEF Reaches
  <2>9. /\ genStats'[sub] = new /\ runStats'[sub] = run
        /\ \A i \in Subpop : i # sub => /\ genStats'[i] = genStats[i]
                                        /\ runStats'[i] = runStats[i]
    BY <1>0, <2>1, <2>3
  <2>10. \A i \in Subpop : Reaches(pops[i], runStats'[i])
    BY <1>1, <2>8, <2>9
  <2>11. \A i \in Subpop : genStats'[i].size # -1 =>
           runStats'[i].size # -1 /\ genStats'[i].bestfit = runStats'[i].bestfit
    BY <1>1, <2>6, <2>7, <2>9
  <2>12. \A i \in Subpop : AllValid(pops'[i])
    BY <1>1, <2>2 DEF Evaluated
  <2>13. EliteFiles'
    BY <1>1, <2>2 DEF EliteFiles
  <2>14. \A i \in Subpop : Reaches(pops'[i], runStats'[i])
    BY <2>2, <2>10
  <2> QED  BY <2>2, <2>11, <2>12, <2>13, <2>14 DEF Elite, EliteFiles
<1>9. CASE EndOfEvaluation
  <2>1. PICK run : runStats' = [runStats EXCEPT ![0] = run]
    BY <1>9 DEF EndOfEvaluation
  <2>2. /\ pc = "merge" /\ pc' = "release" /\ UNCHANGED <<pops, genStats, files>>
    BY <1>9 DEF EndOfEvaluation
  <2>3. \A i \in Subpop : runStats'[i] = runStats[i]
    BY <1>0, <2>1
  <2>4. EliteFiles'
    BY <1>1, <2>2 DEF EliteFiles
  <2>5. \A i \in Subpop : AllValid(pops'[i])
    BY <1>1, <2>2 DEF Evaluated
  <2> QED  BY <1>1, <2>2, <2>3, <2>4, <2>5 DEF Elite, EliteFiles
<1>10. CASE ReleaseGenStats
  <2>1. /\ pc = "release" /\ pc' = "checkpoint" /\ genStats' = NoRecords
        /\ UNCHANGED <<pops, runStats, files>>
    BY <1>10 DEF ReleaseGenStats
  <2>2. EliteFiles'
    BY <1>1, <2>1 DEF EliteFiles
  <2>3. \A i \in Subpop : AllValid(pops'[i])
    BY <1>1, <2>1 DEF Evaluated
  <2> QED  BY <1>1, <1>2, <2>1, <2>2, <2>3 DEF Elite, EliteFiles
<1>11. CASE NoCheckpoint
  <2>1. /\ AfterCheckpoint /\ pc = "checkpoint"
        /\ UNCHANGED <<pops, runStats, genStats, files>>
    BY <1>11 DEF NoCheckpoint
  <2>2. EliteFiles' /\ Evaluated
    BY <1>1, <2>1 DEF EliteFiles, Evaluated
  <2> QED  BY <1>5, <2>1, <2>2
<1>12. CASE OpenCheckpoint
  <2>1. /\ pc = "checkpoint" /\ pc' = "writing" /\ UNCHANGED <<pops, runStats, genStats>>
        /\ files' = [files EXCEPT ![gen] = NoFile]
    BY <1>12 DEF OpenCheckpoint
  <2>2. \A g \in 0 .. MaxGen : files'[g] = (IF g = gen THEN NoFile ELSE files[g])
    BY <1>0, <2>1 DEF Files
  <2>3. ~NoFile.whole
    BY DEF NoFile
  <2>4. EliteFiles'
    BY <1>1, <2>2, <2>3 DEF EliteFiles
  <2>5. \A i \in Subpop : AllValid(pops'[i])
    BY <1>1, <2>1 DEF Evaluated
  <2> QED  BY <1>1, <2>1, <2>4, <2>5 DEF Elite, EliteFiles
<1>13. CASE WriteCheckpoint
  <2> DEFINE r == [pops |-> pops, erc |-> erc, saved |-> saved, runStats |-> runStats]
             f == [whole |-> TRUE, run |-> r]
  <2>1. /\ pc = "writing" /\ AfterCheckpoint /\ UNCHANGED <<pops, runStats, genStats>>
        /\ files' = [files EXCEPT ![gen] = f]
    BY <1>13 DEF WriteCheckpoint
  <2>2. \A g \in 0 .. MaxGen : files'[g] = (IF g = gen THEN f ELSE files[g])
    BY <1>0, <2>1 DEF Files
  <2>3. f.run.pops = pops /\ f.run.runStats = runStats
    OBVIOUS
  <2> HIDE DEF f, r
  <2>4. Evaluated /\ \A i \in Subpop : AllValid(pops[i]) /\ Reaches(pops[i], runStats[i])
    BY <1>1, <2>1 DEF Evaluated
  <2>5. EliteFiles'
    BY <1>1, <2>2, <2>3, <2>4 DEF EliteFiles
  <2> QED  BY <1>5, <2>1, <2>4, <2>5
<1>14. CASE FollowWildPointer
  BY <1>4, <1>14 DEF FollowWildPointer
<1>30. CASE DrawStep
  BY <1>1, <1>30, DrawStepFacts
<1>15. CASE ExchangeOne
  BY <1>1, <1>15 DEF ExchangeOne
<1>16. CASE BreedSubpop
  <2>1. PICK made \in SUBSET Free :
          \E picks \in Elites(pops[sub]),
             bred \in [Elitism + 1 .. PopSize -> Offspring(pops[sub], made)] :
            pops' = [pops EXCEPT ![sub] =
                       [k \in Slot |-> IF k <= Elitism THEN pops[sub][picks[k]] ELSE bred[k]]]
    BY <1>16 DEF BreedSubpop
  <2>2. PICK picks \in Elites(pops[sub]),
             bred \in [Elitism + 1 .. PopSize -> Offspring(pops[sub], made)] :
            pops' = [pops EXCEPT ![sub] =
                       [k \in Slot |-> IF k <= Elitism THEN pops[sub][picks[k]] ELSE bred[k]]]
    BY <2>1
  <2> DEFINE new == [k \in Slot |-> IF k <= Elitism THEN pops[sub][picks[k]] ELSE bred[k]]
  <2>3. /\ pc = "breed" /\ UNCHANGED <<runStats, genStats, files>>
        /\ \/ pc' = "gc"
           \/ pc' = "breed" /\ sub' = sub + 1
    BY <1>16 DEF BreedSubpop
  <2>4. /\ sub \in Subpop /\ sub \in Nat /\ pops[sub] \in Pop
    BY <1>0, <2>3 DEF Control
  <2>5. AllValid(pops[sub]) /\ Reaches(pops[sub], runStats[sub]) /\ runStats[sub] \in Record
    BY <1>0, <1>1, <2>3, <2>4
  <2>6. new[1] = pops[sub][picks[1]]
    <3>1. 1 \in Slot /\ Elitism \in Nat /\ 1 <= Elitism
      BY RunAssumption, Constants DEF RunAssumption, Slot
    <3> QED  BY <3>1
  <2>7. pops'[sub] = new /\ \A i \in Subpop : i # sub => pops'[i] = pops[i]
    BY <1>0, <2>2, <2>4
  <2> HIDE DEF new
  <2>8. Reaches(new, runStats[sub])
    BY <2>4, <2>5, <2>6, EliteKept
  <2>9. \A i \in Subpop : Reaches(pops'[i], runStats'[i])
    BY <1>1, <2>3, <2>7, <2>8
  <2>10. pc' = "breed" => \A i \in Subpop : i >= sub' => AllValid(pops'[i])
    <3> SUFFICES ASSUME pc' = "breed", NEW i \in Subpop, i >= sub' PROVE AllValid(pops'[i])
      OBVIOUS
    <3>1. sub' = sub + 1
      BY <2>3
    <3>2. i # sub /\ i >= sub
      BY <2>4, <3>1 DEF Subpop
    <3> QED  BY <1>1, <2>3, <2>7, <3>2
  <2>11. EliteFiles'
    BY <1>1, <2>3 DEF EliteFiles
  <2>12. ~Evaluated' /\ pc' \notin {"exchange", "draw", "copy"}
    BY <2>3 DEF Evaluated
  <2> QED  BY <1>1, <2>3, <2>9, <2>10, <2>11, <2>12 DEF Elite, EliteFiles
<1>17. CASE EndOfGeneration
  <2>1. /\ UNCHANGED <<pops, runStats, genStats, files>>
        /\ \/ pc' = "evaluate" /\ gen' = gen + 1 /\ startgen' = startgen
           \/ pc' = "cleanup"
    BY <1>17 DEF EndOfGeneration
  <2>2. ~Evaluated'
    BY <1>0, <2>1 DEF Evaluated, Resumed, Control
  <2> QED  BY <1>3, <2>1, <2>2 DEF Location
<1>18. CASE Cleanup
  <2>1. /\ pc = "cleanup" /\ pc' = "done" /\ runStats' = NoRecords
        /\ UNCHANGED <<genStats, files>>
    BY <1>18 DEF Cleanup
  <2>2. genStats' = NoRecords
    BY <1>0, <2>1 DEF Turns
  <2>3. EliteFiles'
    BY <1>1, <2>1 DEF EliteFiles
  <2> QED  BY <1>2, <2>1, <2>2, <2>3 DEF Elite, EliteFiles, Evaluated, Reaches
<1>19. CASE Kill
  BY <1>4, <1>19 DEF Kill
<1>20. ASSUME NEW g \in 0 .. MaxGen, Restart(g) PROVE Elite'
  <2>1. /\ files[g].whole /\ pops' = files[g].run.pops /\ runStats' = files[g].run.runStats
        /\ genStats' = NoRecords /\ files' = files /\ pc' = "evaluate"
    BY <1>20 DEF Restart
  <2>2. \A i \in Subpop : AllValid(pops'[i]) /\ Reaches(pops'[i], runStats'[i])
    BY <1>1, <2>1 DEF EliteFiles
  <2>3. EliteFiles'
    BY <1>1, <2>1 DEF EliteFiles
  <2> QED  BY <1>2, <2>1, <2>2, <2>3 DEF Elite, EliteFiles
<1>21. CASE UNCHANGED vars
  <2>1. UNCHANGED <<pc, gen, startgen, fromCheckpoint, sub, pops, runStats, genStats, files>>
    BY <1>21 DEF vars
  <2> QED  BY <1>0, <2>1 DEF Elite, Evaluated, Resumed
<1> QED  BY <1>6, <1>7, <1>8, <1>9, <1>10, <1>11, <1>12, <1>13, <1>14, <1>15, <1>16, <1>17,
            <1>18, <1>19, <1>20, <1>21, <1>30 DEF Next, Step, DrawStep

-----------------------------------------------------------------------------
(* The theorems *)

\* Every step keeps the inductive invariant.
LEMMA InvariantNext == Invariant /\ [Next]_vars => Invariant'
<1> SUFFICES ASSUME Invariant, [Next]_vars PROVE Invariant'
  OBVIOUS
<1>1. Control' /\ Turns' /\ Lists' /\ Ages' /\ Ercs' /\ Files'
  BY ControlNext, TurnsNext, ListsNext, AgesNext, ErcsNext, FilesNext DEF Invariant
<1>2. Elitism > 0 /\ Exchanges = <<>> => Elite'
  BY EliteNext
<1> QED  BY <1>1, <1>2 DEF Invariant

\* In every state of a run the inductive invariant holds.
THEOREM InvariantAlways == Spec => []Invariant
BY InitInvariant, InvariantNext, PTL DEF Spec

\* What is in memory, or was written to a file, has its type.
LEMMA MemoryFacts ==
  ASSUME NEW ps, NEW e, NEW s, NEW gs, NEW rs, GoodErcs(ps, s, e), GoodList(s, gs, rs)
  PROVE  [pops |-> ps, erc |-> e, saved |-> s, runStats |-> rs] \in Memory
<1>1. ps \in [Subpop -> [Slot -> Individual]]
  BY DEF GoodErcs, Pop
<1>2. e \in [active : SUBSET Erc, refcount : [Erc -> Nat], named : SUBSET Erc]
  <2>1. e \in ErcList
    BY DEF GoodErcs
  <2>2. \A c \in Erc : e.refcount[c] \in Nat
    <3> TAKE c \in Erc
    <3>1. Range(s.list) \subseteq Address
      BY DEF GoodErcs
    <3>2. Users(Everyone(ps), c) \in Nat /\ Users(Held(s), c) \in Nat
      BY <3>1, EveryoneFacts, HeldFacts
    <3> QED  BY <3>2 DEF GoodErcs
  <2>3. e.refcount \in [Erc -> Nat]
    BY <2>1, <2>2 DEF ErcList
  <2> QED  BY <2>1, <2>3 DEF ErcList
<1>3. s \in [list : Seq(Address), tail : Address \cup {Dummy}, count : Nat,
             refcount : [Address -> Nat],
             ind : [Address -> [fit : Fitness \cup {0}, nodes : Nodes \cup {0},
                                erc : SUBSET Erc, gen : 0 .. MaxGen,
                                pop : 0 .. NumSubpops]]]
  <2>1. s \in ListOf(Copy)
    BY DEF GoodList
  <2>2. \A a \in Address : s.refcount[a] \in Nat
    <3> TAKE a \in Address
    <3>1. Pointers(gs, a) \in Nat /\ Pointers(rs, a) \in Nat
      <4>1. gs \in [StatIndex -> Record] /\ rs \in [StatIndex -> Record] /\ 0 \in StatIndex
        BY Constants DEF GoodList
      <4>2. SameButRecord(gs, gs, 0) /\ SameButRecord(rs, rs, 0)
        BY DEF SameButRecord
      <4> QED  BY <4>1, <4>2, PointersOfRow
    <3> QED  BY <3>1 DEF GoodList
  <2>3. s.refcount \in [Address -> Nat]
    BY <2>1, <2>2 DEF ListOf
  <2> QED  BY <2>1, <2>3 DEF ListOf, Copy
<1>4. rs \in [StatIndex -> Stats]
  BY RecordFacts DEF GoodList
<1> QED  BY <1>1, <1>2, <1>3, <1>4 DEF Memory

\* The types follow; counts are natural as they count something.
LEMMA InvariantTypes == Invariant => TypeOK
<1> SUFFICES ASSUME Invariant PROVE TypeOK
  OBVIOUS
<1>1. Control /\ GoodErcs(pops, saved, erc) /\ GoodList(saved, genStats, runStats) /\ Files
  BY DEF Invariant, Ercs, Lists
<1>2. [pops |-> pops, erc |-> erc, saved |-> saved, runStats |-> runStats] \in Memory
  BY <1>1, MemoryFacts
<1>3. genStats \in [StatIndex -> Stats]
  BY <1>1, RecordFacts DEF GoodList
<1>4. files \in [0 .. MaxGen -> [whole : BOOLEAN, run : Memory]]
  <2>1. files \in [0 .. MaxGen -> [whole : BOOLEAN, run : Contents]]
    BY <1>1 DEF Files
  <2>2. ASSUME NEW g \in 0 .. MaxGen PROVE files[g] \in [whole : BOOLEAN, run : Memory]
    <3> DEFINE r == files[g].run
    <3>1. files[g] \in [whole : BOOLEAN, run : Contents] /\ r \in Contents
      BY <2>1
    <3>2. GoodList(r.saved, NoRecords, r.runStats) /\ GoodErcs(r.pops, r.saved, r.erc)
      BY <1>1 DEF Files, GoodRun
    <3>3. [pops |-> r.pops, erc |-> r.erc, saved |-> r.saved, runStats |-> r.runStats] \in Memory
      <4> HIDE DEF r
      <4> QED  BY <3>2, MemoryFacts
    <3>4. r = [pops |-> r.pops, erc |-> r.erc, saved |-> r.saved, runStats |-> r.runStats]
      <4> HIDE DEF r
      <4> QED  BY <3>1 DEF Contents
    <3> QED  BY <3>1, <3>3, <3>4
  <2> QED  BY <2>1, <2>2
<1> QED  BY <1>1, <1>2, <1>3, <1>4 DEF Control, TypeOK

\* Every variable has its type, and no reference count is ever negative.
THEOREM TypeCorrect == Spec => []TypeOK
BY InvariantAlways, InvariantTypes, PTL

\* What the invariant says of the list of copies.
LEMMA InvariantLists ==
  Invariant => SavedCountsExact /\ SavedListWhole /\ NoCopyLeaks /\ HeaderIsTop
<1> SUFFICES ASSUME Invariant
             PROVE  SavedCountsExact /\ SavedListWhole /\ NoCopyLeaks /\ HeaderIsTop
  OBVIOUS
<1>1. GoodList(saved, genStats, runStats) /\ NoCopyLeaks
  BY DEF Invariant, Lists
<1>2. SavedCountsExact
  BY <1>1 DEF GoodList, Listed, SavedCountsExact
<1>3. SavedListWhole
  <2>1. Whole(saved)
    BY <1>1 DEF GoodList
  <2>2. Cardinality(Range(saved.list)) = Len(saved.list)
    BY <2>1, SizeOfRange DEF Whole
  <2> QED  BY <2>1, <2>2 DEF Whole, SavedListWhole
<1>4. HeaderIsTop
  BY <1>1 DEF GoodList, Headed, HeaderIsTop
<1> QED  BY <1>1, <1>2, <1>3, <1>4

\* The reference count of a saved copy is the number of best-list entries that
\* point at it (gp.c), and every entry points at a copy on the list.
THEOREM SavedCountsAlwaysExact == Spec => []SavedCountsExact
BY InvariantAlways, InvariantLists, PTL

\* saved_tail, the count in the dummy head and the list agree.
THEOREM SavedListAlwaysWhole == Spec => []SavedListWhole
BY InvariantAlways, InvariantLists, PTL

\* No copy is kept that no record needs, once a generation's are freed.
THEOREM NoCopyEverLeaks == Spec => []NoCopyLeaks
BY InvariantAlways, InvariantLists, PTL

\* The header of a run's record is that of the individual printed first.
THEOREM HeaderAlwaysTop == Spec => []HeaderIsTop
BY InvariantAlways, InvariantLists, PTL

\* app_end_of_evaluation is told of a new best individual exactly when the
\* generation's best individual heads the run's list.
THEOREM NewbestAlwaysHeads == Spec => []NewbestHeadsBothLists
<1>1. Invariant => NewbestHeadsBothLists
  BY DEF Invariant, Ages
<1> QED  BY <1>1, InvariantAlways, PTL

\* With elitism and no exchange a subpopulation never loses its best fitness.
THEOREM EliteNeverEverLost == Spec => []EliteNeverLost
<1>1. Invariant => EliteNeverLost
  BY DEF Invariant, Elite, EliteNeverLost
<1> QED  BY <1>1, InvariantAlways, PTL

\* What the invariant says of the constants.
LEMMA InvariantErcs == Invariant => ErcCountsExact /\ ErcsOfTreesActive
<1> SUFFICES ASSUME Invariant PROVE ErcCountsExact /\ ErcsOfTreesActive
  OBVIOUS
<1>1. /\ GoodErcs(pops, saved, erc)
      /\ (pc = "evaluate" /\ gen > startgen) \/ pc = "done" => NoneIdle(pops, saved, erc)
  BY DEF Invariant, Ercs
<1>2. ErcCountsExact
  BY <1>1 DEF GoodErcs, Held, ErcCountsExact
<1> DEFINE used == UNION ({i.erc : i \in Range(Everyone(pops))}
                          \cup {saved.ind[a].erc : a \in Range(saved.list)})
<1>3. \A c : c \in used <=> \/ \E i \in Subpop, k \in Slot : c \in pops[i][k].erc
                            \/ \E a \in Range(saved.list) : c \in saved.ind[a].erc
  <2>1. \A i \in Subpop, k \in Slot : pops[i][k] \in Range(Everyone(pops))
    <3> TAKE i \in Subpop, k \in Slot
    <3>1. <<i, k>> \in DOMAIN Everyone(pops) /\ Everyone(pops)[<<i, k>>] = pops[i][k]
      BY EveryoneFacts
    <3> QED  BY <3>1 DEF Range
  <2>2. \A p \in Range(Everyone(pops)) : \E i \in Subpop, k \in Slot : p = pops[i][k]
    <3> TAKE p \in Range(Everyone(pops))
    <3>1. PICK q \in DOMAIN Everyone(pops) : p = Everyone(pops)[q]
      BY DEF Range
    <3>2. PICK i \in Subpop, k \in Slot : q = <<i, k>>
      BY <3>1, EveryoneFacts
    <3>3. p = pops[i][k]
      BY <3>1, <3>2, EveryoneFacts
    <3> QED  BY <3>3
  <2> QED  BY <2>1, <2>2
<1>4. used \subseteq erc.active
  BY <1>1, <1>3 DEF GoodErcs
<1>5. (pc = "evaluate" /\ gen > startgen) \/ pc = "done" => erc.active = used
  <2> HIDE DEF used
  <2> QED  BY <1>1, <1>3, <1>4 DEF NoneIdle
<1> QED  BY <1>2, <1>4, <1>5 DEF ErcsOfTreesActive

\* The reference count of a constant is the number of its users.
THEOREM ErcCountsAlwaysExact == Spec => []ErcCountsExact
BY InvariantAlways, InvariantErcs, PTL

\* No tree points at a constant on the free list, and a generation starts with
\* no idle one.
THEOREM ErcsOfTreesAlwaysActive == Spec => []ErcsOfTreesActive
BY InvariantAlways, InvariantErcs, PTL

-----------------------------------------------------------------------------
(***************************************************************************)
(* The best of the run: the refinement of BestOfRun                        *)
(***************************************************************************)

(* The best fitness values of everybody *)

\* How many of the first n subpopulations reach a fitness.
UpTo(ps, n) ==
  [f \in Nat |-> Cardinality({q \in (1 .. n) \X Slot : ps[q[1]][q[2]].fit >= f})]

\* How many of a population do.
OfPop(pop) == [f \in Nat |-> Reached(pop, Slot, f)]

\* One subpopulation after the other.
LEMMA UpToFacts ==
  ASSUME NEW ps, NEW n \in Subpop
  PROVE  /\ Crowd(UpTo(ps, n - 1)) /\ Crowd(UpTo(ps, n)) /\ Crowd(OfPop(ps[n]))
         /\ UpTo(ps, n) = Both(UpTo(ps, n - 1), OfPop(ps[n]))
<1>1. n \in Nat \ {0} /\ n - 1 \in Nat /\ IsFiniteSet(1 .. n - 1) /\ IsFiniteSet(Slot)
  <2>1. n \in Nat \ {0} /\ n - 1 \in Nat /\ n - 1 \in Int /\ 1 \in Int
    BY Constants DEF Subpop
  <2>2. IsFiniteSet(Slot)
    BY Constants
  <2> QED  BY <2>1, <2>2, FS_Interval
<1>2. IsFiniteSet((1 .. n - 1) \X Slot)
  BY <1>1, FS_Product
<1>3. ASSUME NEW f \in Nat
      PROVE  /\ UpTo(ps, n - 1)[f] \in Nat /\ OfPop(ps[n])[f] \in Nat
             /\ UpTo(ps, n)[f] = UpTo(ps, n - 1)[f] + OfPop(ps[n])[f]
  <2> DEFINE A == {q \in (1 .. n - 1) \X Slot : ps[q[1]][q[2]].fit >= f}
             B == {q \in (1 .. n) \X Slot : ps[q[1]][q[2]].fit >= f}
             C == {k \in Slot : ps[n][k].fit >= f}
             D == {<<n, k>> : k \in C}
  <2>1. IsFiniteSet(A) /\ IsFiniteSet(C) /\ Cardinality(A) \in Nat /\ Cardinality(C) \in Nat
    BY <1>1, <1>2, FS_Subset, FS_CardinalityType
  <2>2. IsFiniteSet(D) /\ Cardinality(D) = Cardinality(C)
    <3> DEFINE g == [k \in C |-> <<n, k>>]
    <3>1. /\ g \in [C -> D] /\ \A x, y \in C : g[x] = g[y] => x = y
          /\ \A y \in D : \E x \in C : g[x] = y
      <4> HIDE DEF C
      <4> QED  OBVIOUS
    <3> HIDE DEF g, C, D
    <3> QED  BY <2>1, <3>1, SameNumber
  <2>3. A \cap D = {}
    BY <1>1
  <2>4. B = A \cup D
    <3>1. \A i : i \in 1 .. n <=> i \in 1 .. n - 1 \/ i = n
      BY <1>1
    <3>2. ASSUME NEW i \in 1 .. n, NEW k \in Slot
          PROVE  <<i, k>> \in B <=> <<i, k>> \in A \cup D
      <4>1. <<i, k>> \in D <=> i = n /\ k \in C
        OBVIOUS
      <4>2. <<i, k>> \in A <=> i \in 1 .. n - 1 /\ ps[i][k].fit >= f
        OBVIOUS
      <4>3. <<i, k>> \in B <=> ps[i][k].fit >= f
        OBVIOUS
      <4>4. k \in C <=> ps[n][k].fit >= f
        OBVIOUS
      <4> HIDE DEF A, B, C, D
      <4> QED  BY <1>1, <3>1, <4>1, <4>2, <4>3, <4>4
    <3>3. B \subseteq (1 .. n) \X Slot /\ A \cup D \subseteq (1 .. n) \X Slot
      <4>1. B \subseteq (1 .. n) \X Slot /\ C \subseteq Slot
        OBVIOUS
      <4>2. A \subseteq (1 .. n) \X Slot
        <5>1. A \subseteq (1 .. n - 1) \X Slot
          OBVIOUS
        <5> HIDE DEF A
        <5> QED  BY <3>1, <5>1
      <4>3. D \subseteq (1 .. n) \X Slot
        <5> HIDE DEF C
        <5> QED  BY <3>1, <4>1
      <4> QED  BY <4>1, <4>2, <4>3
    <3> HIDE DEF A, B, C, D
    <3> QED  BY <3>2, <3>3
  <2> HIDE DEF A, B, C, D
  <2>5. Cardinality(B) = Cardinality(A) + Cardinality(D)
    BY <2>1, <2>2, <2>3, <2>4, TwoParts
  <2> QED  BY <2>1, <2>2, <2>5 DEF UpTo, OfPop, Reached, A, B, C
<1>4. \A f \in Nat : UpTo(ps, n)[f] \in Nat
  BY <1>3
<1> QED  BY <1>3, <1>4 DEF UpTo, OfPop, Both, Crowd

\* Nobody, and everybody of one subpopulation.
LEMMA NobodyReaches ==
  ASSUME NEW ps PROVE \A f \in Nat : UpTo(ps, 0)[f] = 0
<1>1. (1 .. 0) \X Slot = {}
  OBVIOUS
<1>2. \A f \in Nat : {q \in (1 .. 0) \X Slot : ps[q[1]][q[2]].fit >= f} = {}
  BY <1>1
<1> QED  BY <1>2, FS_EmptySet DEF UpTo

\* Everybody reaches 0.
LEMMA AllReachZero ==
  ASSUME NEW pop \in Pop
  PROVE  Rated(pop) /\ OfPop(pop)[0] = PopSize
<1>1. Rated(pop)
  BY Constants DEF Pop, Individual, Rated
<1>2. {k \in Slot : pop[k].fit >= 0} = Slot
  BY <1>1 DEF Rated
<1>3. Cardinality(Slot) = PopSize
  BY Constants, FS_Interval DEF Slot
<1> QED  BY <1>1, <1>2, <1>3 DEF OfPop, Reached

\* A record of statistics is a summary of a crowd: how many they are, and the
\* fitness values of the best of them.
Ranked(r, s, A) ==
  IF r = NoStats THEN \A f \in Nat : A[f] = 0
  ELSE RowRanks(Row(s, r.best), A, BestN)
Tallied(r, s, A) == Ranked(r, s, A) /\ (r # NoStats => r.size = A[0])

\* What calculate_pop_stats returns is a summary of the population.
LEMMA CalculatedTally ==
  ASSUME NEW s, NEW pop \in Pop, NEW g, NEW i, NEW t, NEW r, Calculated(s, pop, g, i, t, r)
  PROVE  Tallied(r, t, OfPop(pop)) /\ r # NoStats
<1>1. /\ BestN \in Nat \ {0} /\ Slot = 1 .. PopSize /\ Rated(pop) /\ OfPop(pop)[0] = PopSize
  BY Constants, AllReachZero DEF Slot
<1>2. /\ Len(TopSlots(pop)) = BestN /\ TopRanks(pop, TopSlots(pop), PopSize)
  BY <1>1, Constants, TopSlotsFacts
<1>3. /\ \A j \in 1 .. BestN : Fit(t, r.best[j]) = pop[TopSlots(pop)[j]].fit
      /\ r \in Record /\ r.size # -1 /\ r.size = PopSize
  BY DEF Calculated
<1>4. r # NoStats
  BY <1>3 DEF NoStats
<1>5. RowRanks(Row(t, r.best), OfPop(pop), BestN)
  <2> SUFFICES ASSUME NEW k \in 1 .. BestN, NEW f \in Nat
               PROVE  Row(t, r.best)[k] >= f <=> OfPop(pop)[f] >= k
    BY DEF RowRanks
  <2>1. Row(t, r.best)[k] = pop[TopSlots(pop)[k]].fit
    BY <1>3 DEF Row
  <2>2. pop[TopSlots(pop)[k]].fit >= f <=> Reached(pop, 1 .. PopSize, f) >= k
    BY <1>2 DEF TopRanks
  <2>3. OfPop(pop)[f] = Reached(pop, 1 .. PopSize, f)
    BY <1>1 DEF OfPop
  <2> QED  BY <2>1, <2>2, <2>3
<1> QED  BY <1>1, <1>3, <1>4, <1>5 DEF Tallied, Ranked

\* Rows depend on the copies only.
LEMMA SameRow ==
  ASSUME NEW s, NEW t, NEW best, \A k \in 1 .. BestN : t.ind[best[k]] = s.ind[best[k]]
  PROVE  Row(t, best) = Row(s, best)
  BY DEF Row, Fit

\* The rows of a full record hold natural numbers.
LEMMA RowOfRecord ==
  ASSUME NEW s \in ListOf(Copy), NEW r \in Record, r # NoStats
  PROVE  /\ r.best \in Seq(Address) /\ Len(r.best) = BestN /\ BestN \in Nat \ {0}
         /\ \A x \in Address : Fit(s, x) \in Nat
         /\ Row(s, r.best) \in [1 .. BestN -> Nat]
         /\ FitnessOf(r, s) = Row(s, r.best)
<1>1. r.best \in Seq(Address) /\ Len(r.best) = BestN /\ BestN \in Nat \ {0}
  BY RecordFacts, Constants
<1>2. ASSUME NEW x \in Address PROVE Fit(s, x) \in Nat
  <2>1. s.ind[x] \in Copy
    BY DEF ListOf
  <2>2. s.ind[x].fit \in Fitness \cup {0}
    BY <2>1 DEF Copy
  <2> QED  BY <2>2, Constants DEF Fit
<1>3. DOMAIN r.best = 1 .. BestN /\ \A k \in 1 .. BestN : r.best[k] \in Address
  BY <1>1, EntriesOf, ElementOfSeq
<1> QED  BY <1>1, <1>2, <1>3 DEF Row, FitnessOf

\* The merge of two summaries is a summary of both crowds.
LEMMA AccumulateTally ==
  ASSUME NEW s \in ListOf(Copy), NEW total \in Record, NEW n \in Record, n # NoStats,
         NEW A, NEW B, Crowd(A), Crowd(B), Ranked(total, s, A), Ranked(n, s, B)
  PROVE  /\ Accumulate(s, total, n).stats # NoStats
         /\ Ranked(Accumulate(s, total, n).stats, s, Both(A, B))
         /\ Accumulate(s, total, n).stats.size
              = IF total = NoStats THEN n.size ELSE total.size + n.size
<1> DEFINE acc == Accumulate(s, total, n)
           best == Merge(s, total.best, n.best)
<1>1. /\ total.size = -1 <=> total = NoStats
      /\ total # NoStats => total.size > 0 /\ total.size \in Int
      /\ n.size > 0 /\ n.size \in Int /\ RowRanks(Row(s, n.best), B, BestN)
  <2>1. /\ total.size = -1 <=> total = NoStats
        /\ total # NoStats => total.size > 0
        /\ total.size \in Int
        /\ n.size > 0 /\ n.size \in Int
    BY RecordFacts
  <2> QED  BY <2>1 DEF Ranked
<1>2. CASE total = NoStats
  <2>1. acc = [stats |-> n, changed |-> TRUE, saved |-> Reference(s, n.best, 1)]
    BY <1>1, <1>2 DEF Accumulate
  <2>2. acc.stats = n
    BY <2>1
  <2>3. \A f \in Nat : A[f] = 0
    BY <1>2 DEF Ranked
  <2>4. \A f \in Nat : Both(A, B)[f] = B[f]
    <3> TAKE f \in Nat
    <3>1. A[f] = 0 /\ B[f] \in Nat /\ Both(A, B)[f] = A[f] + B[f]
      BY <2>3 DEF Both, Crowd
    <3> QED  BY <3>1
  <2>5. RowRanks(Row(s, n.best), Both(A, B), BestN)
    BY <1>1, <2>4 DEF RowRanks
  <2> QED  BY <1>2, <2>2, <2>5 DEF Ranked
<1>3. CASE total # NoStats
  <2>1. RowRanks(Row(s, total.best), A, BestN)
    BY <1>3 DEF Ranked
  <2>2. /\ total.best \in Seq(Address) /\ Len(total.best) = BestN
        /\ n.best \in Seq(Address) /\ Len(n.best) = BestN
        /\ \A x \in Address : Fit(s, x) \in Nat
    BY <1>3, RowOfRecord
  <2>3. RowRanks(Row(s, best), Both(A, B), BestN) /\ best \in Seq(Address)
    BY <1>1, <2>1, <2>2, Constants, MergeRanks, MergeFacts
  <2> HIDE DEF best
  <2> DEFINE header == IF FitterHeader(total, n) THEN n ELSE total
  <2>4. /\ acc.stats = [header EXCEPT !.size = total.size + n.size, !.best = best]
    <3>1. acc = [stats |-> [header EXCEPT !.size = total.size + n.size, !.best = best],
                 changed |-> \/ FitterHeader(total, n)
                             \/ TakesNew(s, total.best, n.best, 0, 0),
                 saved |-> Reference(Reference(s, total.best, -1), best, 1)]
      BY <1>1, <1>3 DEF Accumulate, best
    <3> HIDE DEF acc, header
    <3> QED  BY <3>1
  <2>5. header \in Stats
    BY RecordFacts
  <2>6. total.size + n.size \in Nat /\ total.size + n.size > 0
    BY <1>1, <1>3
  <2>9. Updated(acc.stats, header, total.size + n.size, best)
    BY <2>4 DEF Updated
  <2> HIDE DEF header, acc
  <2>7. acc.stats.size = total.size + n.size /\ acc.stats.best = best
    BY <2>3, <2>5, <2>6, <2>9, StatsUpdated
  <2>8. acc.stats # NoStats
    BY <2>6, <2>7 DEF NoStats
  <2> QED  BY <1>3, <2>3, <2>7, <2>8 DEF Ranked, acc
<1> QED  BY <1>2, <1>3

\* A row of fitness values, best first.
FallingRow(a) ==
  /\ \A k \in 1 .. BestN : a[k] \in Fitness
  /\ \A k, l \in 1 .. BestN : k <= l => a[k] >= a[l]

\* How many entries of a list of fitness values reach one.
OfRow(t) == [f \in Nat |-> Cardinality({k \in DOMAIN t : t[k] >= f})]

\* A falling row lists its own entries.
LEMMA RowOfItself ==
  ASSUME NEW t \in [1 .. BestN -> Nat], FallingRow(t)
  PROVE  RowRanks(t, OfRow(t), BestN)
<1> SUFFICES ASSUME NEW k \in 1 .. BestN, NEW f \in Nat
             PROVE  t[k] >= f <=> OfRow(t)[f] >= k
  BY DEF RowRanks
<1> DEFINE S == {i \in 1 .. BestN : t[i] >= f}
<1>1. /\ BestN \in Nat /\ k \in Nat /\ k - 1 \in Nat /\ k - 1 \in Int /\ k \in Int /\ 1 \in Int
      /\ IsFiniteSet(1 .. BestN) /\ OfRow(t)[f] = Cardinality(S)
  BY Constants DEF OfRow
<1>2. /\ IsFiniteSet(1 .. k) /\ Cardinality(1 .. k) = k
      /\ IsFiniteSet(1 .. k - 1) /\ Cardinality(1 .. k - 1) = k - 1
  BY <1>1, FS_Interval
<1>3. IsFiniteSet(S) /\ Cardinality(S) \in Nat
  BY <1>1, FS_Subset, FS_CardinalityType
<1>4. \A i, j \in 1 .. BestN : i <= j => t[i] >= t[j]
  BY DEF FallingRow
<1>5. CASE t[k] >= f
  <2>1. 1 .. k \subseteq S
    <3> SUFFICES ASSUME NEW i \in 1 .. k PROVE i \in 1 .. BestN /\ t[i] >= f
      OBVIOUS
    <3>1. i \in 1 .. BestN /\ i <= k
      BY <1>1
    <3>2. t[i] >= t[k] /\ t[i] \in Nat /\ t[k] \in Nat
      BY <1>4, <3>1
    <3> QED  BY <1>5, <3>1, <3>2
  <2> HIDE DEF S
  <2> DEFINE T == 1 .. k
  <2>3. IsFiniteSet(T) /\ Cardinality(T) = k /\ T \subseteq S
    BY <1>2, <2>1
  <2> HIDE DEF T
  <2>4. Cardinality(T) <= Cardinality(S)
    BY <1>3, <2>3, FS_Subset
  <2>2. k <= Cardinality(S)
    BY <2>3, <2>4
  <2> QED  BY <1>1, <1>3, <1>5, <2>2
<1>6. CASE ~(t[k] >= f)
  <2>1. S \subseteq 1 .. k - 1
    <3> SUFFICES ASSUME NEW i \in 1 .. BestN, t[i] >= f PROVE i \in 1 .. k - 1
      OBVIOUS
    <3>1. ~(k <= i)
      <4> SUFFICES ASSUME k <= i PROVE FALSE
        OBVIOUS
      <4>1. t[k] >= t[i] /\ t[i] \in Nat /\ t[k] \in Nat
        BY <1>4
      <4> QED  BY <1>6, <4>1
    <3> QED  BY <1>1, <3>1
  <2> HIDE DEF S
  <2> DEFINE T == 1 .. k - 1
  <2>3. IsFiniteSet(T) /\ Cardinality(T) = k - 1 /\ S \subseteq T
    BY <1>2, <2>1
  <2> HIDE DEF T
  <2>4. Cardinality(S) <= Cardinality(T)
    BY <2>3, FS_Subset
  <2>2. Cardinality(S) <= k - 1
    BY <2>3, <2>4
  <2> QED  BY <1>1, <1>3, <1>6, <2>2
<1> QED  BY <1>5, <1>6

\* Nobody of a crowd has a number that is no fitness.
Gapless(C) == \A x \in Nat \ Fitness : C[x] = C[x + 1]

\* The row that ranks such a crowd lists, for every rank, the greatest fitness
\* that so many of the crowd reach.
LEMMA RowIsBest ==
  ASSUME NEW a \in [1 .. BestN -> Nat], NEW C, Crowd(C), Gapless(C), RowRanks(a, C, BestN)
  PROVE  /\ FallingRow(a)
         /\ \A i \in 1 .. BestN : a[i] = Max({f \in Fitness : C[f] >= i})
<1>1. BestN \in Nat /\ Fitness \subseteq Nat
  BY Constants
<1>2. ASSUME NEW i \in 1 .. BestN
      PROVE  a[i] \in Fitness
  <2> SUFFICES ASSUME a[i] \notin Fitness PROVE FALSE
    OBVIOUS
  <2> DEFINE x == a[i]
  <2>1. x \in Nat /\ x + 1 \in Nat /\ x >= x /\ ~(x >= x + 1)
    OBVIOUS
  <2>2. C[x] = C[x + 1]
    BY <2>1 DEF Gapless
  <2>3. /\ a[i] >= x <=> C[x] >= i
        /\ a[i] >= x + 1 <=> C[x + 1] >= i
    BY <2>1 DEF RowRanks
  <2> QED  BY <2>1, <2>2, <2>3
<1>3. FallingRow(a)
  BY <1>1, <1>2, RowFalls DEF FallingRow
<1>4. ASSUME NEW i \in 1 .. BestN
      PROVE  a[i] = Max({f \in Fitness : C[f] >= i})
  <2> DEFINE S == {f \in Fitness : C[f] >= i}
             x == a[i]
  <2>1. \A f \in Fitness : f \in Nat /\ (x >= f <=> C[f] >= i)
    BY <1>1 DEF RowRanks
  <2>2. x \in Fitness /\ x \in Nat
    BY <1>2
  <2>3. x \in S /\ \A y \in S : x >= y
    <3> HIDE DEF x
    <3> QED  BY <2>1, <2>2
  <2>4. \A z \in S : (\A y \in S : z >= y) => z = x
    <3>1. \A z \in S : z \in Nat
      BY <1>1
    <3> HIDE DEF S, x
    <3> QED  BY <2>2, <2>3, <3>1
  <2> HIDE DEF S, x
  <2>5. (CHOOSE z \in S : \A y \in S : z >= y) = x
    BY <2>3, <2>4
  <2> QED  BY <2>5 DEF Max, S, x
<1> QED  BY <1>3, <1>4

\* So many of a row of fitness values reach a number; none is a number that is
\* no fitness.
LEMMA OfRowFacts ==
  ASSUME NEW t, IsFiniteSet(DOMAIN t), \A k \in DOMAIN t : t[k] \in Fitness
  PROVE  Crowd(OfRow(t)) /\ Gapless(OfRow(t))
<1>1. ASSUME NEW f \in Nat PROVE OfRow(t)[f] \in Nat
  <2>1. IsFiniteSet({k \in DOMAIN t : t[k] >= f})
    BY FS_Subset
  <2>2. Cardinality({k \in DOMAIN t : t[k] >= f}) \in Nat
    BY <2>1, FS_CardinalityType
  <2> QED  BY <2>2 DEF OfRow
<1>2. ASSUME NEW x \in Nat \ Fitness PROVE OfRow(t)[x] = OfRow(t)[x + 1]
  <2>1. \A k \in DOMAIN t : t[k] \in Nat /\ t[k] # x
    BY Constants
  <2>2. {k \in DOMAIN t : t[k] >= x} = {k \in DOMAIN t : t[k] >= x + 1}
    BY <2>1
  <2>3. x \in Nat /\ x + 1 \in Nat
    OBVIOUS
  <2> QED  BY <2>2, <2>3 DEF OfRow
<1> QED  BY <1>1, <1>2 DEF OfRow, Crowd, Gapless

\* Everybody of all subpopulations, as a function of their fitness.
FitnessIn(ps) == [q \in Subpop \X Slot |-> ps[q[1]][q[2]].fit]

\* The crowd of the last subpopulation is that of everybody.
LEMMA EveryoneReaches ==
  ASSUME NEW ps, \A i \in Subpop, k \in Slot : ps[i][k].fit \in Fitness
  PROVE  /\ Crowd(UpTo(ps, NumSubpops)) /\ Gapless(UpTo(ps, NumSubpops))
         /\ \A f \in Nat : UpTo(ps, NumSubpops)[f]
                 = Cardinality({q \in DOMAIN FitnessIn(ps) : FitnessIn(ps)[q] >= f})
         /\ UpTo(ps, NumSubpops)[0] = Cardinality(Subpop \X Slot)
<1> DEFINE E == FitnessIn(ps)
<1>1. Subpop = 1 .. NumSubpops /\ NumSubpops \in Subpop
  BY Constants DEF Subpop
<1>2. /\ DOMAIN E = Subpop \X Slot
      /\ \A q \in Subpop \X Slot : E[q] = ps[q[1]][q[2]].fit /\ E[q] \in Fitness
  BY DEF FitnessIn
<1>3. ASSUME NEW f \in Nat
      PROVE  {q \in DOMAIN E : E[q] >= f} = {q \in Subpop \X Slot : ps[q[1]][q[2]].fit >= f}
  <2> HIDE DEF E
  <2> QED  BY <1>2
<1>4. IsFiniteSet(Subpop \X Slot)
  BY Constants, FS_Product
<1> HIDE DEF E
<1>5. Crowd(OfRow(E)) /\ Gapless(OfRow(E))
  BY <1>2, <1>4, OfRowFacts
<1>6. UpTo(ps, NumSubpops) = OfRow(E)
  BY <1>1, <1>3 DEF UpTo, OfRow
<1>7. {q \in DOMAIN E : E[q] >= 0} = Subpop \X Slot
  <2>1. \A x \in Fitness : x >= 0
    <3>1. Fitness \subseteq Nat
      BY Constants
    <3> QED  BY <3>1
  <2>2. \A q \in Subpop \X Slot : E[q] >= 0
    BY <1>2, <2>1
  <2> QED  BY <1>2, <2>2
<1> QED  BY <1>5, <1>6, <1>7 DEF OfRow, E

\* The run's record falls, if there is one.
Falls(r, s) == r # NoStats => FallingRow(Row(s, r.best))

\* An empty record lists nobody.
LEMMA FitnessOfNone == \A s : FitnessOf(NoStats, s) = <<>>
<1> TAKE s
<1>1. NoStats.best = <<>>
  BY DEF NoStats
<1>2. DOMAIN NoStats.best = {}
  BY <1>1
<1>3. [j \in {} |-> Fit(s, NoStats.best[j])] = <<>>
  OBVIOUS
<1> QED  BY <1>2, <1>3 DEF FitnessOf

\* The list of a record is its row, which lists what BestOfRun counts.
LEMMA RankedByItself ==
  ASSUME NEW s \in ListOf(Copy), NEW r \in Record, Falls(r, s)
  PROVE  /\ Ranked(r, s, OfRow(FitnessOf(r, s)))
         /\ Crowd(OfRow(FitnessOf(r, s))) /\ Gapless(OfRow(FitnessOf(r, s)))
<1> DEFINE t == FitnessOf(r, s)
<1>1. CASE r = NoStats
  <2>1. t = <<>> /\ DOMAIN t = {}
    BY <1>1, FitnessOfNone
  <2> HIDE DEF t
  <2>2. IsFiniteSet(DOMAIN t)
    BY <2>1, FS_EmptySet
  <2>3. Crowd(OfRow(t)) /\ Gapless(OfRow(t))
    BY <2>1, <2>2, OfRowFacts
  <2>4. \A f \in Nat : {k \in DOMAIN t : t[k] >= f} = {}
    BY <2>1
  <2>5. \A f \in Nat : OfRow(t)[f] = 0
    BY <2>4, FS_EmptySet DEF OfRow
  <2> QED  BY <1>1, <2>3, <2>5 DEF t, Ranked
<1>2. CASE r # NoStats
  <2>1. t = Row(s, r.best) /\ t \in [1 .. BestN -> Nat] /\ FallingRow(t)
    BY <1>2, RowOfRecord DEF Falls
  <2> HIDE DEF t
  <2>2. RowRanks(t, OfRow(t), BestN)
    BY <2>1, RowOfItself
  <2>3. DOMAIN t = 1 .. BestN /\ IsFiniteSet(DOMAIN t)
    BY <2>1, Constants
  <2>4. Crowd(OfRow(t)) /\ Gapless(OfRow(t))
    BY <2>1, <2>3, OfRowFacts DEF FallingRow
  <2> QED  BY <1>2, <2>1, <2>2, <2>4 DEF t, Ranked
<1> QED  BY <1>1, <1>2

\* The instance has operators of its own for the library's.
LEMMA SameOperators ==
  /\ \A S : Best!Cardinality(S) = Cardinality(S)
  /\ \A S : Best!Max(S) = Max(S)
<1>1. ASSUME NEW S PROVE Best!Cardinality(S) = Cardinality(S)
  BY DEF Best!Cardinality, Cardinality
<1>2. ASSUME NEW S PROVE Best!Max(S) = Max(S)
  BY DEF Best!Max, Max
<1> QED  BY <1>1, <1>2

\* What accumulate_pop_stats makes of the run's record is what BestOfRun asks.
LEMMA MergedBest ==
  ASSUME NEW s \in ListOf(Copy), NEW total \in Record, NEW n \in Record, n # NoStats,
         Accumulate(s, total, n).stats \in Record, Falls(total, s),
         NEW ps, \A i \in Subpop, k \in Slot : ps[i][k].fit \in Fitness,
         Tallied(n, s, UpTo(ps, NumSubpops))
  PROVE  LET r == Accumulate(s, total, n).stats
         IN /\ Falls(r, s)
            /\ FitnessOf(r, s) = Best!BestOf(FitnessOf(total, s), FitnessIn(ps))
            /\ r.size = Best!Cardinality(DOMAIN FitnessIn(ps))
                          + (IF total.size = -1 THEN 0 ELSE total.size)
<1> DEFINE r == Accumulate(s, total, n).stats
           t == FitnessOf(total, s)
           E == FitnessIn(ps)
           A == OfRow(t)
           B == UpTo(ps, NumSubpops)
           C == Both(A, B)
<1>1. Ranked(total, s, A) /\ Crowd(A) /\ Gapless(A)
  BY RankedByItself
<1>2. /\ Crowd(B) /\ Gapless(B) /\ B[0] = Cardinality(Subpop \X Slot)
      /\ \A f \in Nat : B[f] = Cardinality({q \in DOMAIN E : E[q] >= f})
  BY EveryoneReaches
<1>3. Ranked(n, s, B) /\ n.size = B[0]
  BY DEF Tallied
<1> HIDE DEF A, B, t, E
<1>4. /\ r # NoStats /\ Ranked(r, s, C)
      /\ r.size = IF total = NoStats THEN n.size ELSE total.size + n.size
  BY <1>1, <1>2, <1>3, AccumulateTally
<1>5. \A f \in Nat : C[f] = A[f] + B[f] /\ A[f] \in Nat /\ B[f] \in Nat
  BY <1>1, <1>2 DEF Both, Crowd
<1>6. Crowd(C) /\ Gapless(C)
  <2>1. \A f \in Nat : C[f] \in Nat
    BY <1>5
  <2>2. ASSUME NEW x \in Nat \ Fitness PROVE C[x] = C[x + 1]
    <3>1. x \in Nat /\ x + 1 \in Nat
      OBVIOUS
    <3>2. A[x] = A[x + 1] /\ B[x] = B[x + 1]
      BY <1>1, <1>2 DEF Gapless
    <3> HIDE DEF C
    <3> QED  BY <1>5, <3>1, <3>2
  <2> QED  BY <2>1, <2>2 DEF Crowd, Gapless, Both
<1> HIDE DEF r, C
<1>7. /\ FitnessOf(r, s) = Row(s, r.best) /\ Row(s, r.best) \in [1 .. BestN -> Nat]
      /\ RowRanks(Row(s, r.best), C, BestN)
  <2>1. r \in Record
    BY DEF r
  <2> QED  BY <1>4, <2>1, RowOfRecord DEF Ranked
<1>8. /\ FallingRow(Row(s, r.best))
      /\ \A i \in 1 .. BestN : Row(s, r.best)[i] = Max({f \in Fitness : C[f] >= i})
  BY <1>6, <1>7, RowIsBest
<1>9. \A f \in Fitness : C[f] = Best!AtLeast(t, E, f)
  <2> TAKE f \in Fitness
  <2>1. f \in Nat
    BY Constants
  <2>2. A[f] = Cardinality({k \in DOMAIN t : t[k] >= f})
    BY <2>1 DEF A, OfRow
  <2>3. Best!AtLeast(t, E, f) = Cardinality({k \in DOMAIN t : t[k] >= f})
                                + Cardinality({q \in DOMAIN E : E[q] >= f})
    BY SameOperators DEF Best!AtLeast
  <2> QED  BY <1>2, <1>5, <2>1, <2>2, <2>3
<1>10. \A i : Max({f \in Fitness : C[f] >= i}) = Best!Max({f \in Fitness : Best!AtLeast(t, E, f) >= i})
  <2> TAKE i
  <2>1. {f \in Fitness : C[f] >= i} = {f \in Fitness : Best!AtLeast(t, E, f) >= i}
    BY <1>9
  <2> QED  BY <2>1, SameOperators
<1>11. FitnessOf(r, s) = Best!BestOf(t, E)
  <2>1. \A i \in 1 .. BestN : Row(s, r.best)[i] = Best!Max({f \in Fitness : Best!AtLeast(t, E, f) >= i})
    BY <1>8, <1>10
  <2>2. Row(s, r.best) = [i \in 1 .. BestN |-> Row(s, r.best)[i]]
    BY <1>7
  <2> QED  BY <1>7, <2>1, <2>2 DEF Best!BestOf
<1>12. r.size = Best!Cardinality(DOMAIN E) + (IF total.size = -1 THEN 0 ELSE total.size)
  <2>1. DOMAIN E = Subpop \X Slot
    BY DEF E, FitnessIn
  <2>2. n.size = Best!Cardinality(DOMAIN E)
    BY <1>2, <1>3, <2>1, SameOperators
  <2>3. n.size \in Int /\ total.size \in Int /\ (total.size = -1 <=> total = NoStats)
    BY RecordFacts
  <2> QED  BY <1>4, <2>2, <2>3
<1> QED  BY <1>8, <1>11, <1>12 DEF Falls, r, t, E

-----------------------------------------------------------------------------
(* The records of a run rank those whose turn it was *)

\* A record says of other copies what it said, if the ones it points at stay.
LEMMA SameCopies ==
  ASSUME NEW s, NEW t, NEW r \in Record, \A a \in Range(r.best) : t.ind[a] = s.ind[a]
  PROVE  /\ FitnessOf(r, t) = FitnessOf(r, s)
         /\ Falls(r, s) => Falls(r, t)
         /\ \A A : Ranked(r, s, A) => Ranked(r, t, A)
         /\ \A A : Tallied(r, s, A) => Tallied(r, t, A)
<1>1. r.best \in Seq(Address)
  BY RecordFacts
<1>2. \A k \in DOMAIN r.best : r.best[k] \in Range(r.best)
  BY <1>1, EntriesOf
<1>3. FitnessOf(r, t) = FitnessOf(r, s)
  BY <1>2 DEF FitnessOf, Fit
<1>4. ASSUME r # NoStats PROVE Row(t, r.best) = Row(s, r.best)
  <2>1. DOMAIN r.best = 1 .. BestN
    BY <1>1, <1>4, EntriesOf, RecordFacts
  <2> QED  BY <1>2, <2>1, SameRow
<1> QED  BY <1>3, <1>4 DEF Falls, Ranked, Tallied

\* A valid fitness is one that a_fitness can have.
Valued(ps) == \A i \in Subpop, k \in Slot : ps[i][k].valid => ps[i][k].fit \in Fitness

\* The generation's record ranks the subpopulations whose turn it was, and every
\* record of the run lists fitness values, the best first.
Tally ==
  /\ Valued(pops)
  /\ pc \in {"stats", "merge"} => ~Resumed /\ \A i \in Subpop : AllValid(pops[i])
  /\ pc = "stats" => Tallied(genStats[0], saved, UpTo(pops, sub - 1))
  /\ pc = "merge" => Tallied(genStats[0], saved, UpTo(pops, NumSubpops))
  /\ Falls(runStats[0], saved)
  /\ pc \in {"done", "dead"} => runStats = NoRecords
FileTally ==
  \A g \in 0 .. MaxGen : /\ Valued(files[g].run.pops)
                         /\ Falls(files[g].run.runStats[0], files[g].run.saved)

\* What the initial states and the processes that end have.
LEMMA NothingTallied ==
  /\ Valued(NoPops) /\ NoRecords[0] = NoStats /\ \A s : Falls(NoStats, s)
<1>1. Valued(NoPops)
  BY DEF Valued, NoPops, Unevaluated
<1> QED  BY <1>1, Constants DEF NoRecords, Falls

\* No record has anybody yet.
LEMMA InitTally == Init => Tally /\ FileTally
<1> SUFFICES ASSUME Init PROVE Tally /\ FileTally
  OBVIOUS
<1>1. /\ pc = "evaluate" /\ runStats = NoRecords /\ files = [g \in 0 .. MaxGen |-> NoFile]
      /\ \E trees : pops = [i \in Subpop |-> [k \in Slot |-> Unevaluated(trees[i][k])]]
  BY DEF Init
<1>2. Valued(pops)
  BY <1>1 DEF Valued, Unevaluated
<1>3. NoFile.run = NoRun /\ NoRun.pops = NoPops /\ NoRun.runStats = NoRecords
  BY DEF NoFile, NoRun
<1> QED  BY <1>1, <1>2, <1>3, NothingTallied DEF Tally, FileTally

\* A turn of generation_information: the run's record stays, and that of the
\* generation ranks one subpopulation more.
LEMMA TurnTallied ==
  ASSUME Invariant, Tally, SubpopStats
  PROVE  /\ runStats'[0] = runStats[0]
         /\ \A a \in Range(runStats[0].best) : saved'.ind[a] = saved.ind[a]
         /\ Tallied(genStats'[0], saved', UpTo(pops, sub))
<1>1. PICK t, new, all, run :
        /\ Calculated(saved, pops[sub], gen, sub, t, new)
        /\ Rounded(saved, genStats, runStats, sub, gen, t, new, all, run, saved')
        /\ genStats' = [genStats EXCEPT ![0] = all, ![sub] = new]
        /\ runStats' = [runStats EXCEPT ![sub] = run]
  BY SubpopStatsFacts
<1>2. /\ pc = "stats" /\ sub \in Subpop /\ sub \in StatIndex /\ sub # 0 /\ 0 \in StatIndex
      /\ pops[sub] \in Pop
      /\ GoodList(saved, genStats, runStats)
  <2>1. pc = "stats"
    BY DEF SubpopStats
  <2>2. sub \in Subpop
    BY <2>1 DEF Invariant, Control
  <2> QED  BY <2>1, <2>2, Constants DEF Invariant, Lists, Ercs, GoodErcs
<1>3. /\ genStats \in [StatIndex -> Record] /\ runStats \in [StatIndex -> Record]
      /\ saved \in ListOf(Copy)
      /\ Listed(saved, genStats[0]) /\ Listed(saved, runStats[0])
  BY <1>2 DEF GoodList
<1>4. runStats'[0] = runStats[0] /\ genStats'[0] = all
  BY <1>1, <1>2, <1>3
<1>5. \A a \in Range(saved.list) : saved'.ind[a] = saved.ind[a] /\ t.ind[a] = saved.ind[a]
  <2>1. saved'.ind = t.ind
    BY <1>1 DEF Rounded
  <2>2. Range(saved.list) \subseteq Address
    BY <1>3, EntriesOf DEF ListOf
  <2>3. \A a \in Address : a \notin Range(new.best) => t.ind[a] = saved.ind[a]
    BY <1>1 DEF Calculated
  <2>4. Range(new.best) \cap Range(saved.list) = {}
    BY <1>1 DEF Calculated
  <2> QED  BY <2>1, <2>2, <2>3, <2>4
<1>6. Tallied(genStats[0], saved, UpTo(pops, sub - 1))
  BY <1>2 DEF Tally
<1>7. Tallied(genStats[0], t, UpTo(pops, sub - 1))
  <2>1. genStats[0] \in Record /\ \A a \in Range(genStats[0].best) : t.ind[a] = saved.ind[a]
    BY <1>2, <1>3, <1>5 DEF Listed
  <2> QED  BY <1>6, <2>1, SameCopies
<1>8. Tallied(new, t, OfPop(pops[sub])) /\ new # NoStats /\ new \in Record /\ t \in ListOf(Copy)
  <2>1. new \in Record /\ t \in ListOf(Copy)
    BY <1>1 DEF Calculated
  <2> QED  BY <1>1, <1>2, <2>1, CalculatedTally
<1>9. /\ Crowd(UpTo(pops, sub - 1)) /\ Crowd(OfPop(pops[sub]))
      /\ UpTo(pops, sub) = Both(UpTo(pops, sub - 1), OfPop(pops[sub]))
  BY <1>2, UpToFacts
<1>10. all = Accumulate(t, genStats[0], new).stats
  BY <1>1 DEF Rounded
<1>11. Ranked(all, t, UpTo(pops, sub))
       /\ all.size = IF genStats[0] = NoStats THEN new.size ELSE genStats[0].size + new.size
  <2>1. Ranked(genStats[0], t, UpTo(pops, sub - 1)) /\ Ranked(new, t, OfPop(pops[sub]))
    BY <1>7, <1>8 DEF Tallied
  <2>2. genStats[0] \in Record
    BY <1>2, <1>3
  <2> QED  BY <1>8, <1>9, <1>10, <2>1, <2>2, AccumulateTally
<1>12. all.size = UpTo(pops, sub)[0]
  <2>1. new.size = OfPop(pops[sub])[0]
    BY <1>8 DEF Tallied
  <2>2. /\ OfPop(pops[sub])[0] \in Nat /\ UpTo(pops, sub - 1)[0] \in Nat
        /\ UpTo(pops, sub)[0] = UpTo(pops, sub - 1)[0] + OfPop(pops[sub])[0]
    BY <1>9 DEF Crowd, Both
  <2>3. IF genStats[0] = NoStats THEN UpTo(pops, sub - 1)[0] = 0
        ELSE genStats[0].size = UpTo(pops, sub - 1)[0]
    BY <1>6 DEF Tallied, Ranked
  <2> QED  BY <1>11, <2>1, <2>2, <2>3
<1>13. Tallied(genStats'[0], saved', UpTo(pops, sub))
  <2>1. saved'.ind = t.ind /\ all \in Record
    BY <1>1 DEF Rounded
  <2>2. Tallied(all, t, UpTo(pops, sub))
    BY <1>11, <1>12 DEF Tallied
  <2> QED  BY <1>4, <2>1, <2>2, SameCopies
<1> QED  BY <1>3, <1>4, <1>5, <1>13 DEF Listed

\* At the end of the evaluation the generation's record ranks everybody: what
\* the run's record becomes is what BestOfRun makes of its list.
LEMMA MergeTallied ==
  ASSUME Invariant, Tally, EndOfEvaluation
  PROVE  /\ Falls(runStats'[0], saved')
         /\ FitnessOf(runStats'[0], saved')
              = Best!BestOf(FitnessOf(runStats[0], saved), FitnessIn(pops))
         /\ runStats'[0].size = Best!Cardinality(DOMAIN FitnessIn(pops))
                                + (IF runStats[0].size = -1 THEN 0 ELSE runStats[0].size)
<1>1. PICK run \in {Accumulate(saved, runStats[0], genStats[0])} :
        runStats' = [runStats EXCEPT ![0] = run.stats] /\ saved' = run.saved
  BY DEF EndOfEvaluation
<1>2. pc = "merge" /\ GoodList(saved, genStats, runStats) /\ genStats[0].size # -1
  BY DEF EndOfEvaluation, Invariant, Lists, Turns
<1>3. /\ saved \in ListOf(Copy) /\ genStats \in [StatIndex -> Record]
      /\ runStats \in [StatIndex -> Record] /\ 0 \in StatIndex
  BY <1>2, Constants DEF GoodList
<1>4. Merged(saved, genStats, runStats, run)
  BY <1>1, <1>2, EndOfRoundsFacts
<1>5. run.stats \in Record /\ saved'.ind = saved.ind
  BY <1>1, <1>4 DEF Merged
<1>6. runStats'[0] = run.stats
  BY <1>1, <1>3
<1>7. genStats[0] \in Record /\ runStats[0] \in Record /\ genStats[0] # NoStats
  BY <1>2, <1>3 DEF NoStats
<1>8. \A i \in Subpop, k \in Slot : pops[i][k].fit \in Fitness
  BY <1>2 DEF Tally, Valued, AllValid
<1>9. Tallied(genStats[0], saved, UpTo(pops, NumSubpops)) /\ Falls(runStats[0], saved)
  BY <1>2 DEF Tally
<1> DEFINE r == run.stats
<1>10. r = Accumulate(saved, runStats[0], genStats[0]).stats /\ r \in Record
  BY <1>1, <1>5
<1> HIDE DEF r
<1>11. /\ Falls(r, saved)
       /\ FitnessOf(r, saved) = Best!BestOf(FitnessOf(runStats[0], saved), FitnessIn(pops))
       /\ r.size = Best!Cardinality(DOMAIN FitnessIn(pops))
                   + (IF runStats[0].size = -1 THEN 0 ELSE runStats[0].size)
  BY <1>3, <1>7, <1>8, <1>9, <1>10, MergedBest
<1>12. runStats'[0] = r
  BY <1>6 DEF r
<1>13. Falls(r, saved') /\ FitnessOf(r, saved') = FitnessOf(r, saved)
  BY <1>5, <1>10, <1>11, SameCopies
<1> QED  BY <1>11, <1>12, <1>13

\* Collecting the copies that nobody needs leaves the run's.
LEMMA ReleaseKeeps ==
  ASSUME Invariant, ReleaseGenStats
  PROVE  /\ runStats' = runStats /\ runStats[0] \in Record
         /\ \A a \in Range(runStats[0].best) : saved'.ind[a] = saved.ind[a]
<1>1. /\ saved' = SavedIndividualGc(Release(saved, genStats))
      /\ GoodList(saved, genStats, runStats) /\ runStats' = runStats
  BY DEF ReleaseGenStats, Invariant, Lists, statVars
<1>2. /\ GoodList(saved', NoRecords, runStats)
      /\ \A a \in Range(saved'.list) : saved'.ind[a] = saved.ind[a]
  BY <1>1, ReleaseFacts
<1> QED  BY <1>1, <1>2, Constants DEF GoodList, Listed

\* Evaluation and the making of new populations leave every valid fitness one
\* that a_fitness can have.
LEMMA BredValued ==
  ASSUME Valued(pops), pops \in [Subpop -> Pop], sub \in Subpop, BreedSubpop
  PROVE  Valued(pops')
<1>0. PICK made \in SUBSET Free :
        \E picks \in Elites(pops[sub]),
           bred \in [Elitism + 1 .. PopSize -> Offspring(pops[sub], made)] :
        pops' = [pops EXCEPT ![sub] = [k \in Slot |-> IF k <= Elitism THEN pops[sub][picks[k]]
                                                      ELSE bred[k]]]
  BY DEF BreedSubpop
<1>1. PICK picks \in Elites(pops[sub]),
           bred \in [Elitism + 1 .. PopSize -> Offspring(pops[sub], made)] :
        pops' = [pops EXCEPT ![sub] = [k \in Slot |-> IF k <= Elitism THEN pops[sub][picks[k]]
                                                      ELSE bred[k]]]
  BY <1>0
<1> DEFINE new == [k \in Slot |-> IF k <= Elitism THEN pops[sub][picks[k]] ELSE bred[k]]
<1>2. picks \in [1 .. Elitism -> Slot] /\ Elitism \in Nat /\ PopSize \in Nat
  BY RunAssumption, Constants DEF Elites, Injection, RunAssumption
<1>3. ASSUME NEW k \in Slot
      PROVE  new[k].valid => new[k].fit \in Fitness
  <2>1. CASE k <= Elitism
    <3>1. k \in 1 .. Elitism
      BY <1>2, <2>1 DEF Slot
    <3>2. new[k] = pops[sub][picks[k]] /\ picks[k] \in Slot
      BY <1>2, <2>1, <3>1
    <3> QED  BY <3>2 DEF Valued
  <2>2. CASE ~(k <= Elitism)
    <3>1. k \in Elitism + 1 .. PopSize
      BY <1>2, <2>2 DEF Slot
    <3>2. new[k] = bred[k] /\ bred[k] \in Offspring(pops[sub], made)
      BY <2>2, <3>1
    <3>3. (\E j \in Slot : bred[k] = pops[sub][j]) \/ (\E S : bred[k] = Unevaluated(S))
      BY <3>2 DEF Offspring
    <3>4. \A S : ~Unevaluated(S).valid
      BY DEF Unevaluated
    <3>5. \A j \in Slot : pops[sub][j].valid => pops[sub][j].fit \in Fitness
      BY DEF Valued
    <3> QED  BY <3>2, <3>3, <3>4, <3>5
  <2> QED  BY <2>1, <2>2
<1>4. pops' = [pops EXCEPT ![sub] = new]
  BY <1>1
<1> HIDE DEF new
<1>5. ASSUME NEW i \in Subpop, NEW k \in Slot
      PROVE  pops'[i][k].valid => pops'[i][k].fit \in Fitness
  <2>1. CASE i = sub
    BY <1>3, <1>4, <2>1
  <2>2. CASE i # sub
    <3>1. pops'[i] = pops[i]
      BY <1>4, <2>2
    <3> QED  BY <3>1 DEF Valued
  <2> QED  BY <2>1, <2>2
<1> QED  BY <1>5 DEF Valued

\* An exchange moves individuals and their valid fitness with them.
LEMMA ExchangedValued ==
  ASSUME Valued(pops), pops \in [Subpop -> Pop], Control, ExchangeOne
  PROVE  Valued(pops')
<1>1. /\ sub \in DOMAIN Exchanges /\ target \in Slot
      /\ Exchanges[sub].to \in Subpop /\ Exchanges[sub].from \in Subpop
  BY ExchangeEntry DEF ExchangeOne, Control
<1>2. PICK fi \in Slot :
        pops' = [pops EXCEPT ![Exchanges[sub].to][target] = pops[Exchanges[sub].from][fi]]
  BY DEF ExchangeOne
<1> DEFINE to == Exchanges[sub].to
           ti == target
           new == pops[Exchanges[sub].from][fi]
<1>3. to \in Subpop /\ (new.valid => new.fit \in Fitness)
  BY <1>1 DEF Valued
<1>4. pops' = [pops EXCEPT ![to][ti] = new]
  BY <1>2
<1> HIDE DEF to, ti, new
<1>5. ASSUME NEW i \in Subpop, NEW k \in Slot
      PROVE  pops'[i][k].valid => pops'[i][k].fit \in Fitness
  <2>1. pops[i] \in [Slot -> Individual]
    BY DEF Pop
  <2>2. CASE i = to /\ k = ti
    <3>1. pops'[i][k] = new
      BY <1>3, <1>4, <2>1, <2>2
    <3> QED  BY <1>3, <3>1
  <2>3. CASE ~(i = to /\ k = ti)
    <3>1. pops'[i][k] = pops[i][k]
      BY <1>3, <1>4, <2>1, <2>3
    <3> QED  BY <3>1 DEF Valued
  <2> QED  BY <2>2, <2>3
<1> QED  BY <1>5 DEF Valued

\* The records rank those whose turn has been, after every step: one step of the
\* proof per action.
LEMMA TallyNext == Invariant /\ Tally /\ FileTally /\ [Next]_vars => Tally'
<1> SUFFICES ASSUME Invariant, Tally, FileTally, [Next]_vars PROVE Tally'
  OBVIOUS
<1> USE DEF loopVars, statVars, diskVars
<1>0. /\ Control /\ pops \in [Subpop -> Pop] /\ runStats \in [StatIndex -> Record]
      /\ genStats = NoRecords \/ pc # "evaluate"
  BY DEF Invariant, Lists, GoodList, Ercs, GoodErcs, Turns
<1>1. Valued(pops) /\ Falls(runStats[0], saved)
  BY DEF Tally
\* Most steps leave the list alone and are no end.
<1>2. ASSUME Valued(pops'), UNCHANGED <<saved, runStats>>,
             pc' \notin {"stats", "merge", "done", "dead"}
      PROVE  Tally'
  BY <1>1, <1>2 DEF Tally
<1>3. ASSUME Vanish PROVE Tally'
  <2>1. pc' = "dead" /\ pops' = NoPops /\ runStats' = NoRecords
    BY <1>3, VanishFacts
  <2> QED  BY <2>1, NothingTallied DEF Tally
<1>4. CASE Evaluate
  <2>1. /\ pc' = "stats" /\ sub' = 1 /\ genStats' = NoRecords /\ pc = "evaluate" /\ ~Resumed
        /\ UNCHANGED <<loopVars, saved, runStats>>
    BY <1>4 DEF Evaluate
  <2>2. \A i \in Subpop, k \in Slot :
          pops'[i][k].valid /\ IF pops[i][k].valid THEN pops'[i][k].fit = pops[i][k].fit
                                                   ELSE pops'[i][k].fit \in Fitness
    BY <1>0, <1>4, EvaluatedPops
  <2>3. Valued(pops') /\ \A i \in Subpop : AllValid(pops'[i])
    BY <1>1, <2>2 DEF Valued, AllValid
  <2>4. ~Resumed'
    BY <2>1 DEF Resumed
  <2>5. \A f \in Nat : UpTo(pops', 0)[f] = 0
    BY NobodyReaches
  <2>6. Tallied(NoStats, saved', UpTo(pops', 0))
    BY <2>5 DEF Tallied, Ranked
  <2>7. genStats'[0] = NoStats /\ sub' - 1 = 0
    BY <2>1, NothingTallied
  <2>8. Tallied(genStats'[0], saved', UpTo(pops', sub' - 1))
    BY <2>6, <2>7
  <2> QED  BY <1>1, <2>1, <2>3, <2>4, <2>8 DEF Tally
<1>5. CASE SkipEvaluation
  BY <1>1, <1>2, <1>5 DEF SkipEvaluation
<1>6. CASE SubpopStats
  <2>1. /\ runStats'[0] = runStats[0]
        /\ \A a \in Range(runStats[0].best) : saved'.ind[a] = saved.ind[a]
        /\ Tallied(genStats'[0], saved', UpTo(pops, sub))
    BY <1>6, TurnTallied
  <2>2. /\ pc = "stats" /\ sub' = sub + 1 /\ UNCHANGED <<loopVars, pops>>
        /\ pc' = IF sub = NumSubpops THEN "merge" ELSE "stats"
    BY <1>6 DEF SubpopStats
  <2>3. ~Resumed' /\ \A i \in Subpop : AllValid(pops'[i])
    BY <2>2 DEF Tally, Resumed
  <2>4. sub' - 1 = sub
    BY <1>0, <2>2 DEF Control
  <2>5. Falls(runStats'[0], saved')
    BY <1>0, <1>1, <2>1, Constants, SameCopies
  <2>6. pc' = "stats" => Tallied(genStats'[0], saved', UpTo(pops', sub' - 1))
    BY <2>1, <2>2, <2>4
  <2>7. pc' = "merge" => Tallied(genStats'[0], saved', UpTo(pops', NumSubpops))
    BY <2>1, <2>2
  <2>8. Valued(pops') /\ pc' \in {"stats", "merge"}
    BY <1>1, <2>2
  <2> QED  BY <2>3, <2>5, <2>6, <2>7, <2>8 DEF Tally
<1>7. CASE EndOfEvaluation
  <2>1. Falls(runStats'[0], saved')
    BY <1>7, MergeTallied
  <2>2. pc' = "release" /\ pops' = pops
    BY <1>7 DEF EndOfEvaluation
  <2> QED  BY <1>1, <2>1, <2>2 DEF Tally
<1>8. CASE ReleaseGenStats
  <2>1. /\ runStats' = runStats /\ runStats[0] \in Record
        /\ \A a \in Range(runStats[0].best) : saved'.ind[a] = saved.ind[a]
    BY <1>8, ReleaseKeeps
  <2>2. Falls(runStats'[0], saved')
    BY <1>1, <2>1, SameCopies
  <2>3. pc' = "checkpoint" /\ pops' = pops
    BY <1>8 DEF ReleaseGenStats
  <2> QED  BY <1>1, <2>2, <2>3 DEF Tally
<1>9. AfterCheckpoint => pc' \notin {"stats", "merge", "done", "dead"}
  BY DEF AfterCheckpoint
<1>10. CASE NoCheckpoint
  BY <1>1, <1>2, <1>9, <1>10 DEF NoCheckpoint
<1>11. CASE OpenCheckpoint
  BY <1>1, <1>2, <1>11 DEF OpenCheckpoint
<1>12. CASE WriteCheckpoint
  BY <1>1, <1>2, <1>9, <1>12 DEF WriteCheckpoint
<1>13. CASE FollowWildPointer
  BY <1>3, <1>13 DEF FollowWildPointer
<1>30. CASE DrawStep
  BY <1>1, <1>2, <1>30, DrawStepFacts
<1>14. CASE ExchangeOne
  <2>1. Valued(pops')
    BY <1>0, <1>1, <1>14, ExchangedValued
  <2>2. pc' \in {"draw", "exchange"} /\ UNCHANGED <<saved, runStats>>
    BY <1>14 DEF ExchangeOne
  <2> QED  BY <1>2, <2>1, <2>2
<1>15. CASE BreedSubpop
  <2>1. pc = "breed" /\ pc' \in {"gc", "breed"} /\ UNCHANGED <<saved, runStats>>
    BY <1>15 DEF BreedSubpop
  <2>2. sub \in Subpop
    BY <1>0, <2>1 DEF Control
  <2>3. Valued(pops')
    BY <1>0, <1>1, <1>15, <2>2, BredValued
  <2> QED  BY <1>2, <2>1, <2>3
<1>16. CASE EndOfGeneration
  BY <1>1, <1>2, <1>16 DEF EndOfGeneration
<1>17. CASE Cleanup
  <2>1. pc' = "done" /\ pops' = NoPops /\ runStats' = NoRecords
    BY <1>17 DEF Cleanup
  <2> QED  BY <2>1, NothingTallied DEF Tally
<1>18. CASE Kill
  BY <1>3, <1>18 DEF Kill
<1>19. ASSUME NEW g \in 0 .. MaxGen, Restart(g) PROVE Tally'
  <2> DEFINE r == files[g].run
  <2>1. /\ saved' = ReadSaved(r.saved) /\ runStats' = r.runStats /\ pops' = r.pops
        /\ pc' = "evaluate"
    BY <1>19 DEF Restart
  <2>2. GoodList(r.saved, NoRecords, r.runStats)
    BY DEF Invariant, Files, GoodRun
  <2>3. Valued(r.pops) /\ Falls(r.runStats[0], r.saved)
    BY DEF FileTally
  <2> HIDE DEF r
  <2>4. ReadSaved(r.saved) = r.saved
    BY <2>2, ReadSavedFacts DEF GoodList
  <2> QED  BY <2>1, <2>3, <2>4 DEF Tally
<1>20. CASE UNCHANGED vars
  <2>1. UNCHANGED <<pc, sub, gen, startgen, fromCheckpoint, pops, saved, genStats, runStats>>
    BY <1>20 DEF vars
  <2> QED  BY <2>1 DEF Tally, Resumed
<1> QED  BY <1>4, <1>5, <1>6, <1>7, <1>8, <1>10, <1>11, <1>12, <1>13, <1>14, <1>15,
            <1>16, <1>17, <1>18, <1>19, <1>20, <1>30 DEF Next, Step, DrawStep

\* The same of every checkpoint, which only WriteCheckpoint fills.
LEMMA FileTallyNext == Invariant /\ Tally /\ FileTally /\ [Next]_vars => FileTally'
<1> SUFFICES ASSUME Invariant, Tally, FileTally, [Next]_vars PROVE FileTally'
  OBVIOUS
<1> USE DEF diskVars
<1>1. ASSUME files' = files PROVE FileTally'
  BY <1>1 DEF FileTally
<1>2. ASSUME NEW f, Valued(f.run.pops), Falls(f.run.runStats[0], f.run.saved),
             files' = [files EXCEPT ![gen] = f]
      PROVE  FileTally'
  <2>1. DOMAIN files = 0 .. MaxGen
    BY DEF Invariant, Files
  <2>2. \A g \in 0 .. MaxGen : files'[g] = f \/ files'[g] = files[g]
    BY <1>2, <2>1
  <2> QED  BY <1>2, <2>2 DEF FileTally
<1>3. CASE OpenCheckpoint
  <2>1. files' = [files EXCEPT ![gen] = NoFile]
    BY <1>3 DEF OpenCheckpoint
  <2>2. NoFile.run = NoRun /\ NoRun.runStats = NoRecords /\ NoRun.pops = NoPops
    BY DEF NoFile, NoRun
  <2> QED  BY <1>2, <2>1, <2>2, NothingTallied
<1>4. CASE WriteCheckpoint
  <2> DEFINE r == [pops |-> pops, erc |-> erc, saved |-> saved, runStats |-> runStats]
             f == [whole |-> TRUE, run |-> r]
  <2>1. files' = [files EXCEPT ![gen] = f]
    BY <1>4 DEF WriteCheckpoint
  <2>2. f.run.pops = pops /\ f.run.runStats = runStats /\ f.run.saved = saved
    OBVIOUS
  <2>3. Valued(pops) /\ Falls(runStats[0], saved)
    BY DEF Tally
  <2> HIDE DEF f
  <2> QED  BY <1>2, <2>1, <2>2, <2>3
<1>5. CASE ReleaseGenStats \/ NoCheckpoint \/ EndOfEvaluation \/ SubpopStats
  BY <1>1, <1>5 DEF ReleaseGenStats, NoCheckpoint, EndOfEvaluation, SubpopStats
<1>6. CASE Evaluate \/ SkipEvaluation \/ FollowWildPointer \/ ExchangeOne
  BY <1>1, <1>6 DEF Evaluate, SkipEvaluation, FollowWildPointer, ExchangeOne
<1>30. CASE DrawStep
  BY <1>1, <1>30, DrawStepFacts
<1>7. CASE BreedSubpop \/ EndOfGeneration \/ Cleanup \/ Kill
  BY <1>1, <1>7 DEF BreedSubpop, EndOfGeneration, Cleanup, Kill
<1>8. ASSUME NEW g \in 0 .. MaxGen, Restart(g) PROVE FileTally'
  BY <1>1, <1>8 DEF Restart
<1>9. CASE UNCHANGED vars
  BY <1>1, <1>9 DEF vars
<1> QED  BY <1>3, <1>4, <1>5, <1>6, <1>7, <1>8, <1>9, <1>30 DEF Next, Step, DrawStep

-----------------------------------------------------------------------------
(* Every step, as a step of BestOfRun *)

\* The generation that BestOfRun sees.
GenerationAt(p, ps) ==
  [q \in IF p \in {"stats", "merge"} THEN Subpop \X Slot ELSE {} |-> ps[q[1]][q[2]].fit]

\* It is everybody during the statistics, and nobody otherwise.
LEMMA GenerationFacts ==
  /\ \A p, ps : p \in {"stats", "merge"} => GenerationAt(p, ps) = FitnessIn(ps)
  /\ \A p, ps : p \notin {"stats", "merge"} => GenerationAt(p, ps) = Best!None
  /\ \A ps : FitnessIn(ps) # Best!None
<1>1. \A p, ps : p \in {"stats", "merge"} => GenerationAt(p, ps) = FitnessIn(ps)
  BY DEF GenerationAt, FitnessIn
<1>2. ASSUME NEW p, NEW ps, p \notin {"stats", "merge"} PROVE GenerationAt(p, ps) = Best!None
  <2>1. GenerationAt(p, ps) = [q \in {} |-> ps[q[1]][q[2]].fit]
    BY <1>2 DEF GenerationAt
  <2>2. [q \in {} |-> ps[q[1]][q[2]].fit] = [q \in {} |-> 0]
    OBVIOUS
  <2> QED  BY <2>1, <2>2 DEF Best!None
<1>3. ASSUME NEW ps PROVE FitnessIn(ps) # Best!None
  <2>1. 1 \in Subpop /\ 1 \in Slot
    BY Constants DEF Subpop, Slot
  <2>2. <<1, 1>> \in DOMAIN FitnessIn(ps)
    BY <2>1 DEF FitnessIn
  <2>3. DOMAIN Best!None = {}
    BY DEF Best!None
  <2> QED  BY <2>2, <2>3
<1> QED  BY <1>1, <1>2, <1>3

\* A step that BestOfRun does not see.
LEMMA Unseen ==
  ASSUME GenerationAt(pc', pops') = GenerationAt(pc, pops), Covered' = Covered,
         runStats'[0] = runStats[0], runStats[0] \in Record, files' = files,
         \A a \in Range(runStats[0].best) : saved'.ind[a] = saved.ind[a]
  PROVE  UNCHANGED Best!vars
<1>1. Generation' = Generation
  BY DEF Generation, GenerationAt
<1>2. FitnessOf(runStats[0], saved') = FitnessOf(runStats[0], saved)
  BY SameCopies
<1>3. TopFitness' = TopFitness
  BY <1>2 DEF TopFitness
<1>4. KeptFiles' = KeptFiles
  BY DEF KeptFiles
<1> QED  BY <1>1, <1>3, <1>4 DEF Best!vars

\* The process ends.
LEMMA Stops ==
  ASSUME pc' \in {"done", "dead"}, runStats' = NoRecords, files' = files
  PROVE  Best!Stop
<1>1. Generation' = Best!None
  <2>1. Generation' = GenerationAt(pc', pops')
    BY DEF Generation, GenerationAt
  <2>2. pc' \notin {"stats", "merge"}
    OBVIOUS
  <2> QED  BY <2>1, <2>2, GenerationFacts
<1>2. runStats'[0] = NoStats /\ NoStats.size = -1
  BY NothingTallied DEF NoStats
<1>3. TopFitness' = <<>>
  BY <1>2, FitnessOfNone DEF TopFitness
<1>4. Covered' = -1
  BY DEF Covered
<1>5. KeptFiles' = KeptFiles
  BY DEF KeptFiles
<1> QED  BY <1>1, <1>2, <1>3, <1>4, <1>5 DEF Best!Stop

\* A file is written.
LEMMA FileKept ==
  ASSUME NEW f, DOMAIN files = 0 .. MaxGen, gen \in 0 .. MaxGen,
         files' = [files EXCEPT ![gen] = f]
  PROVE  KeptFiles' = [KeptFiles EXCEPT ![gen] = KeptOf(f, gen)]
<1>1. KeptFiles = [g \in 0 .. MaxGen |-> KeptOf(files[g], g)]
  BY DEF KeptFiles
<1>2. KeptFiles' = [g \in 0 .. MaxGen |-> KeptOf(files'[g], g)]
  BY DEF KeptFiles
<1>3. files'[gen] = f /\ \A g \in 0 .. MaxGen : g # gen => files'[g] = files[g]
  OBVIOUS
<1>4. [KeptFiles EXCEPT ![gen] = KeptOf(f, gen)]
        = [g \in 0 .. MaxGen |-> IF g = gen THEN KeptOf(f, gen) ELSE KeptOf(files[g], g)]
  BY <1>1
<1>5. \A g \in 0 .. MaxGen : KeptOf(files'[g], g)
                             = IF g = gen THEN KeptOf(f, gen) ELSE KeptOf(files[g], g)
  BY <1>3
<1> QED  BY <1>2, <1>4, <1>5

\* What an unfinished file holds is nothing.
LEMMA NothingKept == \A g : KeptOf(NoFile, g) = Best!Nothing
<1> TAKE g
<1>1. /\ NoFile.whole = FALSE /\ NoFile.run.runStats[0] = NoStats /\ NoStats.size = -1
  BY NothingTallied DEF NoFile, NoRun, NoStats
<1>2. FitnessOf(NoStats, NoFile.run.saved) = <<>>
  BY FitnessOfNone
<1> QED  BY <1>1, <1>2 DEF KeptOf, Best!Nothing

\* A checkpoint is opened, or written.
Written(f) == files' = [files EXCEPT ![gen] = f]

\* Both are steps of BestOfRun: the file loses what it kept, or keeps the run's record.
LEMMA FileStep ==
  ASSUME Invariant, NEW f, pc \in {"checkpoint", "writing"},
         pc' \in {"writing", "gc", "exchange", "breed"},
         gen' = gen, saved' = saved, runStats' = runStats,
         Written(f), KeptOf(f, gen) \in {Best!Nothing, [top |-> TopFitness,
                                             counted |-> runStats[0].size, last |-> gen]}
  PROVE  Best!Next
<1>0. gen \in 0 .. MaxGen /\ DOMAIN files = 0 .. MaxGen
  BY DEF Invariant, Control, Files
<1>1. Generation = Best!None /\ Generation' = Best!None
  <2>1. Generation = GenerationAt(pc, pops) /\ Generation' = GenerationAt(pc', pops')
    BY DEF Generation, GenerationAt
  <2> QED  BY <2>1, GenerationFacts
<1>2. Covered = gen /\ Covered' = Covered
  BY DEF Covered
<1>3. TopFitness' = TopFitness /\ runStats'[0].size = runStats[0].size
  BY DEF TopFitness
<1>4. KeptFiles' = [KeptFiles EXCEPT ![gen] = KeptOf(f, gen)]
  BY <1>0, FileKept DEF Written
<1>5. Best!Keep(gen)
  BY <1>1, <1>2, <1>3, <1>4 DEF Best!Keep
<1> QED  BY <1>0, <1>5 DEF Best!Next

\* Every step is one of BestOfRun, or one that it does not see.
LEMMA BestStep ==
  ASSUME Invariant, Tally, FileTally, [Next]_vars
  PROVE  Best!Next \/ UNCHANGED Best!vars
<1> USE DEF loopVars, statVars, diskVars
<1>0. /\ Control /\ pops \in [Subpop -> Pop] /\ runStats[0] \in Record
      /\ gen \in 0 .. MaxGen /\ gen \in Int /\ startgen \in Int /\ startgen <= gen
      /\ DOMAIN files = 0 .. MaxGen
  BY Constants DEF Invariant, Control, Lists, GoodList, Ercs, GoodErcs, Files
<1>1. /\ Generation = GenerationAt(pc, pops) /\ Generation' = GenerationAt(pc', pops')
      /\ TopFitness = FitnessOf(runStats[0], saved)
      /\ TopFitness' = FitnessOf(runStats'[0], saved')
  BY DEF Generation, GenerationAt, TopFitness
<1>2. \A p, q, ps, qs : p \notin {"stats", "merge"} /\ q \notin {"stats", "merge"} =>
        GenerationAt(p, ps) = GenerationAt(q, qs)
  BY GenerationFacts
\* Steps between generations.
<1>3. ASSUME pc \notin {"stats", "merge"}, pc' \notin {"stats", "merge"},
             UNCHANGED <<saved, runStats, files>>, Covered' = Covered
      PROVE  UNCHANGED Best!vars
  BY <1>0, <1>2, <1>3, Unseen
<1>4. ASSUME Vanish, files' = files PROVE Best!Next
  <2>1. pc' = "dead" /\ runStats' = NoRecords
    BY <1>4, VanishFacts
  <2> QED  BY <1>4, <2>1, Stops DEF Best!Next
<1>5. CASE Evaluate
  <2>1. /\ pc = "evaluate" /\ ~Resumed /\ pc' = "stats"
        /\ UNCHANGED <<loopVars, saved, runStats, files>>
    BY <1>5 DEF Evaluate
  <2>2. \A i \in Subpop, k \in Slot : pops'[i][k].fit \in Fitness
    <3>1. \A i \in Subpop, k \in Slot :
            IF pops[i][k].valid THEN pops'[i][k].fit = pops[i][k].fit
                                ELSE pops'[i][k].fit \in Fitness
      BY <1>0, <1>5, EvaluatedPops
    <3> QED  BY <3>1 DEF Tally, Valued
  <2>3. FitnessIn(pops') \in [Subpop \X Slot -> Fitness]
    BY <2>2 DEF FitnessIn
  <2>4. Generation = Best!None /\ Generation' \in [Subpop \X Slot -> Fitness]
    BY <1>1, <2>1, <2>3, GenerationFacts
  <2>5. Covered' = Covered
    BY <2>1 DEF Covered, Resumed
  <2>6. TopFitness' = TopFitness /\ runStats'[0] = runStats[0] /\ KeptFiles' = KeptFiles
    BY <2>1 DEF TopFitness, KeptFiles
  <2> QED  BY <2>4, <2>5, <2>6 DEF Best!Evaluate, Best!Next
<1>6. CASE SkipEvaluation
  <2>1. /\ pc = "evaluate" /\ Resumed /\ pc' = "checkpoint"
        /\ UNCHANGED <<loopVars, saved, runStats, files>>
    BY <1>6 DEF SkipEvaluation
  <2>2. Covered' = Covered
    BY <2>1 DEF Covered
  <2> QED  BY <1>3, <2>1, <2>2
<1>7. CASE SubpopStats
  <2>1. /\ pc = "stats" /\ pc' \in {"stats", "merge"} /\ ~Resumed
        /\ UNCHANGED <<loopVars, pops, files>>
    BY <1>7 DEF SubpopStats, Tally
  <2>2. /\ runStats'[0] = runStats[0]
        /\ \A a \in Range(runStats[0].best) : saved'.ind[a] = saved.ind[a]
    BY <1>7, TurnTallied
  <2>3. GenerationAt(pc', pops') = GenerationAt(pc, pops)
    BY <2>1, GenerationFacts
  <2>4. Covered' = Covered
    BY <2>1 DEF Covered, Resumed
  <2> QED  BY <1>0, <2>1, <2>2, <2>3, <2>4, Unseen
<1>8. CASE EndOfEvaluation
  <2>1. /\ pc = "merge" /\ pc' = "release" /\ ~Resumed
        /\ UNCHANGED <<gen, startgen, fromCheckpoint, pops, files>>
    BY <1>8 DEF EndOfEvaluation, Tally
  <2>2. /\ TopFitness' = Best!BestOf(TopFitness, FitnessIn(pops))
        /\ runStats'[0].size = Best!Cardinality(DOMAIN FitnessIn(pops))
                               + (IF runStats[0].size = -1 THEN 0 ELSE runStats[0].size)
    BY <1>1, <1>8, MergeTallied
  <2>3. Generation = FitnessIn(pops) /\ Generation # Best!None /\ Generation' = Best!None
    BY <1>1, <2>1, GenerationFacts
  <2>4. Covered' = Covered + 1
    <3>1. Covered = gen - 1 /\ Covered' = gen'
      BY <2>1 DEF Covered
    <3> QED  BY <1>0, <2>1, <3>1
  <2>5. KeptFiles' = KeptFiles
    BY <2>1 DEF KeptFiles
  <2> QED  BY <2>2, <2>3, <2>4, <2>5 DEF Best!Record, Best!Next
<1>9. CASE ReleaseGenStats
  <2>1. /\ runStats' = runStats
        /\ \A a \in Range(runStats[0].best) : saved'.ind[a] = saved.ind[a]
    BY <1>9, ReleaseKeeps
  <2>2. pc = "release" /\ pc' = "checkpoint" /\ UNCHANGED <<loopVars, files>>
    BY <1>9 DEF ReleaseGenStats
  <2>3. GenerationAt(pc', pops') = GenerationAt(pc, pops)
    BY <1>2, <2>2
  <2>4. Covered' = Covered
    BY <2>2 DEF Covered
  <2> QED  BY <1>0, <2>1, <2>2, <2>3, <2>4, Unseen
<1>10. AfterCheckpoint => pc' \in {"gc", "exchange", "breed"}
  BY DEF AfterCheckpoint
<1>11. CASE NoCheckpoint
  <2>1. /\ pc = "checkpoint" /\ pc' \in {"gc", "exchange", "breed"}
        /\ UNCHANGED <<loopVars, saved, runStats, files>>
    BY <1>10, <1>11 DEF NoCheckpoint
  <2>2. Covered' = Covered
    BY <2>1 DEF Covered
  <2> QED  BY <1>3, <2>1, <2>2
<1>13. CASE OpenCheckpoint
  <2>1. /\ pc = "checkpoint" /\ pc' = "writing" /\ files' = [files EXCEPT ![gen] = NoFile]
        /\ gen' = gen /\ saved' = saved /\ runStats' = runStats
    BY <1>13 DEF OpenCheckpoint
  <2> DEFINE f == NoFile
  <2>2. KeptOf(f, gen) = Best!Nothing /\ Written(f)
    BY <2>1, NothingKept DEF Written
  <2> DEFINE kept == KeptOf(f, gen)
  <2>3. kept \in {Best!Nothing, [top |-> TopFitness, counted |-> runStats[0].size, last |-> gen]}
    BY <2>2
  <2>4. pc \in {"checkpoint", "writing"} /\ pc' \in {"writing", "gc", "exchange", "breed"}
    BY <2>1
  <2> HIDE DEF f
  <2> QED  BY <2>1, <2>2, <2>3, <2>4, FileStep
<1>14. CASE WriteCheckpoint
  <2> DEFINE r == [pops |-> pops, erc |-> erc, saved |-> saved, runStats |-> runStats]
             f == [whole |-> TRUE, run |-> r]
  <2>1. /\ pc = "writing" /\ pc' \in {"gc", "exchange", "breed"}
        /\ files' = [files EXCEPT ![gen] = f]
        /\ gen' = gen /\ saved' = saved /\ runStats' = runStats
    BY <1>10, <1>14 DEF WriteCheckpoint
  <2>2. f.whole = TRUE /\ f.run.runStats = runStats /\ f.run.saved = saved
    OBVIOUS
  <2> HIDE DEF f
  <2>3. KeptOf(f, gen) = [top |-> TopFitness, counted |-> runStats[0].size, last |-> gen]
    BY <2>2 DEF KeptOf, TopFitness
  <2> DEFINE kept == KeptOf(f, gen)
  <2>4. kept \in {Best!Nothing, [top |-> TopFitness, counted |-> runStats[0].size, last |-> gen]}
    BY <2>3
  <2>5. /\ Written(f)
        /\ pc \in {"checkpoint", "writing"} /\ pc' \in {"writing", "gc", "exchange", "breed"}
    BY <2>1 DEF Written
  <2> QED  BY <2>1, <2>4, <2>5, FileStep
<1>15. CASE FollowWildPointer
  BY <1>4, <1>15 DEF FollowWildPointer
<1>30. CASE DrawStep
  <2>1. /\ pc \in {"exchange", "draw", "copy"} /\ pc' \in {"exchange", "draw", "copy", "breed"}
        /\ UNCHANGED <<loopVars, saved, runStats, files>>
    BY <1>30, DrawStepFacts
  <2>2. Covered' = Covered
    BY <2>1 DEF Covered
  <2> QED  BY <1>3, <2>1, <2>2
<1>16. CASE ExchangeOne
  <2>1. /\ pc = "copy" /\ pc' \in {"draw", "exchange"}
        /\ UNCHANGED <<loopVars, saved, runStats, files>>
    BY <1>16 DEF ExchangeOne
  <2>2. Covered' = Covered
    BY <2>1 DEF Covered
  <2> QED  BY <1>3, <2>1, <2>2
<1>17. CASE BreedSubpop
  <2>1. /\ pc = "breed" /\ pc' \in {"gc", "breed"}
        /\ UNCHANGED <<loopVars, saved, runStats, files>>
    BY <1>17 DEF BreedSubpop
  <2>2. Covered' = Covered
    BY <2>1 DEF Covered
  <2> QED  BY <1>3, <2>1, <2>2
<1>18. CASE EndOfGeneration
  <2>1. /\ pc = "gc" /\ UNCHANGED <<startgen, saved, runStats, files>>
        /\ \/ pc' = "evaluate" /\ gen' = gen + 1
           \/ pc' = "cleanup" /\ gen' = gen
    BY <1>18 DEF EndOfGeneration
  <2>2. Covered' = Covered
    <3>1. Covered = gen
      BY <2>1 DEF Covered
    <3>2. CASE pc' = "evaluate" /\ gen' = gen + 1
      <4>1. gen' # startgen' /\ gen' - 1 = gen
        BY <1>0, <2>1, <3>2
      <4>2. ~Resumed'
        BY <4>1 DEF Resumed
      <4> QED  BY <3>1, <3>2, <4>1, <4>2 DEF Covered
    <3>3. CASE pc' = "cleanup" /\ gen' = gen
      BY <3>1, <3>3 DEF Covered
    <3> QED  BY <2>1, <3>2, <3>3
  <2>3. pc' \notin {"stats", "merge"}
    BY <2>1
  <2> QED  BY <1>3, <2>1, <2>2, <2>3
<1>19. CASE Cleanup
  <2>1. pc' = "done" /\ runStats' = NoRecords /\ files' = files
    BY <1>19 DEF Cleanup
  <2> QED  BY <2>1, Stops DEF Best!Next
<1>20. CASE Kill
  BY <1>4, <1>20 DEF Kill
<1>21. ASSUME NEW g \in 0 .. MaxGen, Restart(g) PROVE Best!Next
  <2> DEFINE r == files[g].run
  <2>1. /\ saved' = ReadSaved(r.saved) /\ runStats' = r.runStats /\ pc' = "evaluate"
        /\ gen' = g /\ startgen' = g /\ fromCheckpoint' = TRUE /\ files' = files
        /\ pc \in {"done", "dead"} /\ files[g].whole
    BY <1>21 DEF Restart
  <2>2. ReadSaved(r.saved) = r.saved
    BY ReadSavedFacts DEF Invariant, Files, GoodRun, GoodList
  <2>3. KeptFiles[g] = [top |-> FitnessOf(r.runStats[0], r.saved),
                        counted |-> r.runStats[0].size, last |-> g]
    BY <2>1 DEF KeptFiles, KeptOf
  <2> HIDE DEF r
  <2>4. Generation = Best!None /\ Generation' = Generation
    BY <1>1, <1>2, <2>1, GenerationFacts
  <2>5. TopFitness = <<>>
    <3>1. runStats[0] = NoStats
      BY <2>1, NothingTallied DEF Tally
    <3> QED  BY <1>1, <3>1, FitnessOfNone
  <2>6. KeptFiles[g] # Best!Nothing
    <3>1. KeptFiles[g].last = g /\ Best!Nothing.last = -1 /\ g # -1
      BY <2>3 DEF Best!Nothing
    <3> QED  BY <3>1
  <2>7. /\ TopFitness' = KeptFiles[g].top /\ runStats'[0].size = KeptFiles[g].counted
    BY <1>1, <2>1, <2>2, <2>3
  <2>8. Covered' = g
    BY <2>1 DEF Covered, Resumed
  <2>9. KeptFiles' = KeptFiles
    BY <2>1 DEF KeptFiles
  <2> QED  BY <2>4, <2>5, <2>6, <2>7, <2>8, <2>9 DEF Best!Resume, Best!Next
<1>22. CASE UNCHANGED vars
  <2>1. UNCHANGED <<pc, gen, startgen, fromCheckpoint, pops, saved, runStats, files>>
    BY <1>22 DEF vars
  <2>2. Covered' = Covered
    BY <2>1 DEF Covered, Resumed
  <2> QED  BY <1>0, <2>1, <2>2, Unseen
<1> QED  BY <1>5, <1>6, <1>7, <1>8, <1>9, <1>11, <1>13, <1>14, <1>15, <1>16, <1>17,
            <1>18, <1>19, <1>20, <1>21, <1>22, <1>30 DEF Next, Step, DrawStep

\* A run begins with nothing.
LEMMA BestInit == Init => Best!Init
<1> SUFFICES ASSUME Init PROVE Best!Init
  OBVIOUS
<1>1. /\ pc = "evaluate" /\ gen = 0 /\ fromCheckpoint = FALSE /\ runStats = NoRecords
      /\ files = [g \in 0 .. MaxGen |-> NoFile]
  BY DEF Init
<1>2. Generation = Best!None
  BY <1>1, GenerationFacts DEF Generation, GenerationAt
<1>3. runStats[0] = NoStats /\ runStats[0].size = -1
  BY <1>1, NothingTallied DEF NoStats
<1>4. TopFitness = <<>>
  BY <1>3, FitnessOfNone DEF TopFitness
<1>5. Covered = -1
  BY <1>1 DEF Covered, Resumed
<1>6. KeptFiles = [g \in 0 .. MaxGen |-> Best!Nothing]
  BY <1>1, NothingKept DEF KeptFiles
<1> QED  BY <1>2, <1>3, <1>4, <1>5, <1>6 DEF Best!Init

\* The statistics keep the promise of BestOfRun: after every generation, and
\* in every checkpoint and every process that goes on from one, the run's record
\* lists the best fitness values of all individuals evaluated so far
\* (gp.c:685-801 and 844-989).
THEOREM AlwaysKeepsTheBest == Spec => KeepsTheBest
<1>1. Init => Best!Init
  BY BestInit
<1>2. Invariant /\ Tally /\ FileTally /\ [Next]_vars => [Best!Next]_(Best!vars)
  BY BestStep
<1>3. Spec => [](Invariant /\ Tally /\ FileTally)
  <2>1. Invariant /\ Tally /\ FileTally /\ [Next]_vars => (Tally /\ FileTally)'
    BY TallyNext, FileTallyNext
  <2> QED  BY InvariantAlways, InitTally, <2>1, PTL DEF Spec
<1> QED  BY <1>1, <1>2, <1>3, PTL DEF Spec, KeepsTheBest, Best!Spec
=============================================================================
