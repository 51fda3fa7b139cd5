---------------------------- MODULE Backups_proofs ----------------------------
(***************************************************************************)
(* That the spare records are really there: no step, and no invalidation   *)
(* of a collection, leaves fewer numbers than the cache has slots for when *)
(* there were as many; and that they suffice when elements rot.            *)
(***************************************************************************)
EXTENDS Refinement_proofs

-----------------------------------------------------------------------------
(***************************************************************************)
(* Sets of records, their numbers, and how many of these there are.        *)
(***************************************************************************)
Nums(R) == { r.seq : r \in R }

\* Two records have one number only if it is the first: a first write that was
\* torn is followed by others of its number, and nothing is collected before one
\* of them is found.
SingleNumbers(R) == \A r, s \in R : r.seq = s.seq => r = s \/ r.seq = 1

\* The records R have all the numbers S, or as many as are to be kept.
Covers(R, S) == S \subseteq Nums(R) \/ Cardinality(Nums(R)) >= Kept

\* There are as many numbers as records when none has two.
LEMMA NumsCount ==
    ASSUME NEW R, IsFiniteSet(R)
    PROVE  /\ IsFiniteSet(Nums(R))
           /\ (\A r, s \in R : r.seq = s.seq => r = s) => Cardinality(Nums(R)) = Cardinality(R)
<1> DEFINE f == [r \in R |-> r.seq]
<1>1. f \in Surjection(R, Nums(R))
  BY DEF Surjection, Nums
<1>2. ASSUME \A r, s \in R : r.seq = s.seq => r = s
      PROVE  f \in Injection(R, Nums(R))
  BY <1>2 DEF Injection, IsInjective, Nums
<1> HIDE DEF f
<1> QED
  BY <1>1, <1>2, FS_Surjection

\* Fewer numbers are covered too.
LEMMA CoversLess ==
    ASSUME NEW R, NEW S, NEW T \in SUBSET S, Covers(R, S)
    PROVE  Covers(R, T)
  BY DEF Covers

\* The newest records of a set cover its numbers.
LEMMA NewestCover ==
    ASSUME NEW A, NEW H \in SUBSET A, IsFiniteSet(H), SingleNumbers(H),
           \A r \in A : r.seq \in Nat \ {0},
           H = A \/ Cardinality(H) >= Kept,
           \A r \in A \ H, s \in H : ~ Newer(r, s)
    PROVE  Covers(H, Nums(A))
<1>1. CASE H = A
  BY <1>1 DEF Covers
<1>2. CASE H # A /\ \A r, s \in H : r.seq = s.seq => r = s
  BY <1>2, NumsCount DEF Covers
<1>3. CASE ~ \A r, s \in H : r.seq = s.seq => r = s
  <2>1. PICK r \in H : r.seq = 1
    BY <1>3 DEF SingleNumbers
  <2>2. ASSUME NEW x \in A PROVE x.seq \in Nums(H)
    <3>1. CASE x \in H
      BY <3>1 DEF Nums
    <3>2. CASE x \notin H
      <4>1. ~ x.seq > 1 /\ x.seq \in Nat \ {0}
        BY <2>1, <3>2 DEF Newer
      <4>2. x.seq = r.seq
        BY <2>1, <4>1
      <4> QED BY <4>2 DEF Nums
    <3> QED BY <3>1, <3>2
  <2> QED BY <2>2 DEF Covers, Nums
<1> QED
  BY <1>1, <1>2, <1>3

\* Past an insertion the cache covers the number of the new record as well.
LEMMA InsertCovers ==
    ASSUME NEW ss \in SeqStates, NEW rec \in GoodWriteRecord, Consistent(ss),
           Distinct(ss.recs), rec \notin Held(ss.recs),
           SingleNumbers(Held(ss.recs) \cup {rec}),
           NEW S, Covers(Held(ss.recs), S \ {rec.seq})
    PROVE  LET new == InsertGood(ss, rec) IN
           /\ Distinct(new.recs)
           /\ SingleNumbers(Held(new.recs))
           /\ Covers(Held(new.recs), S)
<1> DEFINE new == InsertGood(ss, rec)
           C == Held(ss.recs)
           A == C \cup {rec}
           H == Held(new.recs)
<1>1. /\ H \subseteq A /\ Distinct(new.recs)
      /\ Len(ss.recs) < Kept => H = A
      /\ Len(ss.recs) >= Kept => Len(new.recs) >= Kept
      /\ \A r \in A \ H, s \in H : ~ Newer(r, s)
  BY InsertGoodHeld
<1>2. new.recs \in Seq(GoodWriteRecord) /\ ss.recs \in Seq(GoodWriteRecord) /\ Len(ss.recs) \in Nat
  <2>1. new \in SeqStates
    BY InsertGoodProperties DEF Consistent
  <2> HIDE DEF new
  <2> QED BY <2>1 DEF SeqStates
<1>3. \A r \in A : r.seq \in Nat \ {0}
  <2>1. \A r \in A : r \in GoodWriteRecord
    BY <1>2 DEF Held
  <2> HIDE DEF A
  <2> QED BY <2>1, Constants DEF GoodWriteRecord, SeqNo
<1> HIDE DEF new
<1>4. IsFiniteSet(H) /\ Cardinality(H) = Len(new.recs)
  BY <1>1, <1>2, HeldCount
<1>5. SingleNumbers(A) /\ SingleNumbers(H)
  BY <1>1 DEF SingleNumbers
<1>6. Nums(A) = Nums(C) \cup {rec.seq} /\ Nums(C) \subseteq Nums(A)
  BY DEF Nums
<1>7. H = A \/ Cardinality(H) >= Kept
  BY <1>1, <1>2, <1>4, Constants
<1> HIDE DEF A, H
<1>8. Covers(H, Nums(A))
  BY <1>1, <1>3, <1>4, <1>5, <1>7, NewestCover
<1>9. ASSUME S \ {rec.seq} \subseteq Nums(C) PROVE Covers(H, S)
  <2>1. S \subseteq Nums(A)
    BY <1>6, <1>9
  <2> QED BY <1>8, <2>1, CoversLess
<1>10. ASSUME Cardinality(Nums(C)) >= Kept PROVE Covers(H, S)
  <2>1. SUFFICES ASSUME Nums(A) \subseteq Nums(H) PROVE Cardinality(Nums(H)) >= Kept
    BY <1>8 DEF Covers
  <2>2. IsFiniteSet(Nums(H)) /\ Nums(C) \subseteq Nums(H)
    BY <1>4, <1>6, <2>1, NumsCount
  <2>3. Cardinality(Nums(C)) <= Cardinality(Nums(H)) /\ IsFiniteSet(Nums(C))
    BY <2>2, FS_Subset
  <2>4. Cardinality(Nums(C)) \in Nat /\ Cardinality(Nums(H)) \in Nat /\ Kept \in Nat
    BY <2>2, <2>3, FS_CardinalityType, Constants
  <2> QED BY <1>10, <2>3, <2>4
<1>11. Covers(H, S)
  BY <1>9, <1>10 DEF Covers, C
<1> QED
  BY <1>1, <1>5, <1>11 DEF H, new

-----------------------------------------------------------------------------
(***************************************************************************)
(* The collection, when the queue has numbers other than the first.  Then  *)
(* every record that is kept stands where its range says, and what else is *)
(* in the range is past the end of the queue.                              *)
(***************************************************************************)
AllOnes(q) == \A p \in Positions(q, "start") : q[p].seq = 1

\* Record i of a collection is at a .. b of q now.
Home(q, g, i, e, a, b) ==
    /\ e \in { g.recs[i].hi, g.recs[i].hi - 1 }
    /\ HomeAt(q, g, g.recs[i], e, a, b)
    /\ e = g.recs[i].hi \/ g.idx + (Len(q) - g.pos) < g.recs[i].hi

\* How many elements the queue had when the collection began does not change.
LEMMA Remaining ==
    ASSUME NEW i \in Nat, NEW p \in Nat, NEW n \in Nat
    PROVE  /\ (i + 1) + (n - (p + 1)) = i + (n - p)
           /\ (i + 1) + ((n - 1) - p) = i + (n - p)
  OBVIOUS

\* Each record has a home, and each Start that was visited belongs to one.
Homes(q, g) ==
    /\ \A i \in DOMAIN g.recs : \E e \in Int : \E a, b \in DOMAIN q : Home(q, g, i, e, a, b)
    /\ \A p \in Positions(q, "start") : p < g.pos =>
          \E i \in DOMAIN g.recs : \E e \in Int : \E b \in DOMAIN q : Home(q, g, i, e, p, b)

\* What a home says of the record, of its range, and of the place of its Start.
LEMMA HomeFacts ==
    ASSUME NEW q \in Seq(Elem), NEW g \in GcStates, NEW i \in DOMAIN g.recs,
           NEW e \in Int, NEW a \in DOMAIN q, NEW b \in DOMAIN q, Home(q, g, i, e, a, b)
    PROVE  /\ IsRecord(q, a, b) /\ q[a] = Start(g.recs[i].seq)
           /\ e <= g.recs[i].hi
           /\ e \in { g.recs[i].hi, g.recs[i].hi - 1 }
<1>1. g.recs[i].hi \in Nat
  BY GcStateTypes
<1>2. e \in { g.recs[i].hi, g.recs[i].hi - 1 } /\ HomeAt(q, g, g.recs[i], e, a, b)
  BY DEF Home
<1>3. e <= g.recs[i].hi
  BY <1>1, <1>2
<1> QED
  BY <1>2, <1>3 DEF HomeAt, RecordAt

\* The numbers of the records that are kept are in the storage.
LEMMA HomesNumbers ==
    ASSUME NEW q \in Seq(Elem), NEW g \in GcStates, Homes(q, g)
    PROVE  Nums(Held(g.recs)) \subseteq Numbers(q)
<1> SUFFICES ASSUME NEW i \in DOMAIN g.recs PROVE g.recs[i].seq \in Numbers(q)
  BY DEF Nums, Held
<1>1. PICK e \in Int, a \in DOMAIN q, b \in DOMAIN q : Home(q, g, i, e, a, b)
  BY DEF Homes
<1>2. IsRecord(q, a, b) /\ q[a] = Start(g.recs[i].seq)
  BY <1>1, HomeFacts
<1>3. [seq |-> q[a].seq, lo |-> a, hi |-> b] \in GoodRecords(q)
  BY <1>2, RecordIsGood
<1>4. q[a].seq = g.recs[i].seq
  BY <1>2 DEF Start
<1> QED
  BY <1>3, <1>4 DEF Numbers

\* A Start that is kept is that of the record in whose range it is.
LEMMA KeptHasHome ==
    ASSUME NEW q \in Seq(Elem), NEW g \in GcStates, g.pos \in DOMAIN q,
           InKeptRange(g.recs, g.idx), Homes(q, g), q[g.pos].kind = "start"
    PROVE  \E i \in DOMAIN g.recs : \E e \in Int : \E b \in DOMAIN q : Home(q, g, i, e, g.pos, b)
<1>1. PICK i \in DOMAIN g.recs : g.idx \in g.recs[i].lo .. g.recs[i].hi
  BY DEF InKeptRange
<1>2. PICK e \in Int, a \in DOMAIN q, b \in DOMAIN q : Home(q, g, i, e, a, b)
  BY DEF Homes
<1> DEFINE l == g.recs[i].lo
           h == g.recs[i].hi
<1>3. /\ g.idx \in Nat /\ g.pos \in Nat /\ l \in Nat /\ h \in Nat /\ Len(q) \in Nat
      /\ a \in 1 .. Len(q) /\ b \in 1 .. Len(q) /\ g.pos <= Len(q)
  BY GcStateTypes
<1>4. /\ e \in { h, h - 1 }
      /\ e = h \/ g.idx + (Len(q) - g.pos) < h
      /\ IsRecord(q, a, b)
      /\ IF e < g.idx THEN b < g.pos
         ELSE a = l - (g.idx - g.pos) /\ b = e - (g.idx - g.pos)
  BY <1>2 DEF Home, HomeAt, RecordAt
<1>5. l <= g.idx /\ g.idx <= h
  BY <1>1, <1>3
<1> HIDE DEF l, h
<1>6. g.idx <= e
  <2>1. CASE e = h
    BY <1>5, <2>1
  <2>2. CASE g.idx + (Len(q) - g.pos) < h
    BY <1>3, <1>4, <2>2
  <2> QED BY <1>4, <2>1, <2>2
<1>7. a = l - (g.idx - g.pos) /\ b = e - (g.idx - g.pos)
  BY <1>3, <1>4, <1>6
<1>8. g.pos \in a .. b
  <2>1. g.idx \in Int /\ g.pos \in Int /\ l \in Int /\ a \in Int /\ b \in Int
    BY <1>3
  <2>2. a <= g.pos
    BY <1>5, <1>7, <2>1, Offset
  <2>3. g.pos <= b
    BY <1>6, <1>7, <2>1, Offset
  <2> QED BY <2>1, <2>2, <2>3
<1>9. g.pos = a
  BY <1>4, <1>8, OneStart
<1> QED
  BY <1>2, <1>9

\* An element that is kept leaves all homes where they are.
LEMMA KeepsHomes ==
    ASSUME NEW q \in Seq(Elem), NEW g \in GcStates, g.pos \in DOMAIN q,
           InKeptRange(g.recs, g.idx), Homes(q, g)
    PROVE  Homes(q, PastKept(g))
<1> DEFINE h == PastKept(g)
<1>1. /\ g.idx \in Nat /\ g.pos \in Nat /\ Len(q) \in Nat
      /\ h.idx = g.idx + 1 /\ h.pos = g.pos + 1 /\ h.recs = g.recs
  BY GcStateTypes
<1>2. ASSUME NEW i \in DOMAIN g.recs, NEW e \in Int, NEW a \in DOMAIN q, NEW b \in DOMAIN q,
             Home(q, g, i, e, a, b)
      PROVE  Home(q, h, i, e, a, b)
  <2>1. a \in Int /\ b \in Int
    OBVIOUS
  <2>2. /\ e \in { g.recs[i].hi, g.recs[i].hi - 1 }
        /\ HomeAt(q, g, g.recs[i], e, a, b)
        /\ e = g.recs[i].hi \/ g.idx + (Len(q) - g.pos) < g.recs[i].hi
    BY <1>2 DEF Home
  <2>3. HomeAt(q, h, g.recs[i], e, a, b)
    BY <2>1, <2>2, KeepsHome
  <2> HIDE DEF h
  <2>4. h.idx + (Len(q) - h.pos) = g.idx + (Len(q) - g.pos)
    <3>1. (g.idx + 1) + (Len(q) - (g.pos + 1)) = g.idx + (Len(q) - g.pos)
      BY <1>1, Remaining
    <3> QED BY Zenon, <1>1, <3>1
  <2> QED BY <1>1, <2>2, <2>3, <2>4 DEF Home
<1>3. ASSUME NEW p \in Positions(q, "start"), p < h.pos
      PROVE  \E i \in DOMAIN g.recs : \E e \in Int : \E b \in DOMAIN q : Home(q, g, i, e, p, b)
  <2>1. p \in DOMAIN q /\ p \in Nat /\ q[p].kind = "start"
    BY DEF Positions
  <2>2. CASE p < g.pos
    BY <2>2 DEF Homes
  <2>3. CASE p = g.pos
    BY <2>1, <2>3, KeptHasHome
  <2> QED BY <1>1, <1>3, <2>1, <2>2, <2>3
<1> HIDE DEF h
<1>4. ASSUME NEW i \in DOMAIN g.recs
      PROVE  \E e \in Int : \E a, b \in DOMAIN q : Home(q, h, i, e, a, b)
  <2>1. PICK e \in Int, a \in DOMAIN q, b \in DOMAIN q : Home(q, g, i, e, a, b)
    BY DEF Homes
  <2> QED BY <1>2, <2>1
<1>5. ASSUME NEW p \in Positions(q, "start"), p < h.pos
      PROVE  \E i \in DOMAIN g.recs : \E e \in Int : \E b \in DOMAIN q : Home(q, h, i, e, p, b)
  <2>1. p \in DOMAIN q
    BY DEF Positions
  <2>2. PICK i \in DOMAIN g.recs, e \in Int, b \in DOMAIN q : Home(q, g, i, e, p, b)
    BY <1>3, <1>5
  <2> QED BY <1>2, <2>1, <2>2
<1>6. Homes(q, h)
  BY <1>1, <1>4, <1>5 DEF Homes
<1> QED
  BY <1>6 DEF h

\* Nor does one that is removed: it is part of none of them.
LEMMA MovesHomes ==
    ASSUME NEW q \in Seq(Elem), NEW g \in GcStates, g.pos \in DOMAIN q,
           q[g.pos] = Bad \/ ~ InKeptRange(g.recs, g.idx), Homes(q, g)
    PROVE  Homes(RemoveAt(q, g.pos), PastMoved(g))
<1> DEFINE h == PastMoved(g)
           n == RemoveAt(q, g.pos)
<1>1. /\ g.idx \in Nat /\ g.pos \in Nat /\ Len(q) \in Nat
      /\ h.idx = g.idx + 1 /\ h.pos = g.pos /\ h.recs = g.recs
      /\ Len(n) = Len(q) - 1
  BY GcStateTypes, RemoveAtProperties
<1>2. h.idx + (Len(n) - h.pos) = g.idx + (Len(q) - g.pos)
  <2>1. (g.idx + 1) + ((Len(q) - 1) - g.pos) = g.idx + (Len(q) - g.pos)
    BY <1>1, Remaining
  <2> HIDE DEF h, n
  <2> QED BY Zenon, <1>1, <2>1
<1>3. ASSUME NEW i \in DOMAIN g.recs, NEW e \in Int, NEW a \in DOMAIN q, NEW b \in DOMAIN q,
             Home(q, g, i, e, a, b)
      PROVE  \E c, d \in DOMAIN n : Home(n, h, i, e, c, d) /\ (a < g.pos => c = a)
  <2>1. /\ e <= g.recs[i].hi /\ HomeAt(q, g, g.recs[i], e, a, b)
        /\ e \in { g.recs[i].hi, g.recs[i].hi - 1 }
        /\ e = g.recs[i].hi \/ g.idx + (Len(q) - g.pos) < g.recs[i].hi
    BY <1>3, HomeFacts DEF Home
  <2>2. PICK c \in DOMAIN n, d \in DOMAIN n :
              /\ HomeAt(n, h, g.recs[i], e, c, d)
              /\ \/ b < g.pos /\ c = a /\ d = b
                 \/ g.pos < a /\ c = a - 1 /\ d = b - 1
    BY <2>1, MovesHome
  <2> HIDE DEF h, n
  <2>3. Home(n, h, i, e, c, d)
    BY <1>1, <1>2, <2>1, <2>2 DEF Home
  <2>4. a < g.pos => c = a
    <3>1. a \in Int
      OBVIOUS
    <3> QED BY <1>1, <2>2, <3>1
  <2> QED BY <2>3, <2>4
<1>4. ASSUME NEW p \in Positions(n, "start"), p < g.pos
      PROVE  p \in Positions(q, "start")
  BY <1>4, RemoveStarts
<1> HIDE DEF h, n
<1>5. ASSUME NEW i \in DOMAIN g.recs
      PROVE  \E e \in Int : \E a, b \in DOMAIN n : Home(n, h, i, e, a, b)
  <2>1. PICK e \in Int, a \in DOMAIN q, b \in DOMAIN q : Home(q, g, i, e, a, b)
    BY DEF Homes
  <2> QED BY <1>3, <2>1
<1>6. ASSUME NEW p \in Positions(n, "start"), p < g.pos
      PROVE  \E i \in DOMAIN g.recs : \E e \in Int : \E b \in DOMAIN n : Home(n, h, i, e, p, b)
  <2>1. p \in Positions(q, "start") /\ p \in DOMAIN q
    BY <1>4, <1>6 DEF Positions
  <2>2. PICK i \in DOMAIN g.recs, e \in Int, b \in DOMAIN q : Home(q, g, i, e, p, b)
    BY <1>6, <2>1 DEF Homes
  <2>3. PICK c \in DOMAIN n, d \in DOMAIN n : Home(n, h, i, e, c, d) /\ (p < g.pos => c = p)
    BY <1>3, <2>1, <2>2
  <2> QED BY <1>6, <2>3
<1>7. Homes(n, h)
  BY <1>1, <1>5, <1>6 DEF Homes
<1> QED
  BY <1>7 DEF n, h

\* A good record of n was one of q, and where; p is the element that was removed.
CameFrom(r, q, p) ==
    \E s \in GoodRecords(q) :
        s.seq = r.seq /\ s.lo = IF r.lo < p THEN r.lo ELSE r.lo + 1

\* An invalidation makes no records of what it leaves.
LEMMA RemoveMakesNone ==
    ASSUME NEW q \in Seq(Elem), NEW g \in GcStates, g.pos \in DOMAIN q,
           q[g.pos] = Bad \/ ~ InKeptRange(g.recs, g.idx), Homes(q, g),
           NEW r \in GoodRecords(RemoveAt(q, g.pos))
    PROVE  CameFrom(r, q, g.pos)
<1> DEFINE n == RemoveAt(q, g.pos)
           p == g.pos
           lo == r.lo
           hi == r.hi
<1>1. /\ n \in Seq(Elem) /\ Len(n) = Len(q) - 1 /\ Len(q) \in Nat /\ p \in 1 .. Len(q)
      /\ p \in Int
  BY RemoveAtProperties
<1>2. IsRecord(n, lo, hi) /\ n[lo] = Start(r.seq)
  BY <1>1, GoodRecordIs DEF RecordAt
<1>3. /\ lo \in 1 .. Len(q) - 1 /\ hi \in 1 .. Len(q) - 1 /\ lo < hi
      /\ hi < p => IsRecord(q, lo, hi)
      /\ p <= lo => IsRecord(q, lo + 1, hi + 1)
      /\ lo < p => n[lo] = q[lo]
      /\ p <= lo => n[lo] = q[lo + 1]
  BY <1>2, RemoveCameFrom
<1> HIDE DEF n, lo, hi
<1>4. CASE hi < p
  <2>1. IsRecord(q, lo, hi) /\ q[lo] = Start(r.seq) /\ lo < p
    BY <1>1, <1>2, <1>3, <1>4
  <2>2. [seq |-> q[lo].seq, lo |-> lo, hi |-> hi] \in GoodRecords(q)
    BY <2>1, RecordIsGood
  <2>3. q[lo].seq = r.seq
    BY <2>1 DEF Start
  <2> QED BY <2>1, <2>2, <2>3 DEF CameFrom, lo
<1>5. CASE p <= lo
  <2>1. IsRecord(q, lo + 1, hi + 1) /\ q[lo + 1] = Start(r.seq) /\ ~ lo < p
    BY <1>1, <1>2, <1>3, <1>5
  <2>2. [seq |-> q[lo + 1].seq, lo |-> lo + 1, hi |-> hi + 1] \in GoodRecords(q)
    BY <2>1, RecordIsGood
  <2>3. q[lo + 1].seq = r.seq
    BY <2>1 DEF Start
  <2> QED BY <2>1, <2>2, <2>3 DEF CameFrom, lo
<1>6. CASE lo < p /\ p <= hi
  <2>1. q[lo] = Start(r.seq) /\ lo \in DOMAIN q
    BY <1>1, <1>2, <1>3, <1>6
  <2>2. lo \in Positions(q, "start")
    BY <2>1 DEF Positions, Start
  <2>3. PICK i \in DOMAIN g.recs, e \in Int, b \in DOMAIN q : Home(q, g, i, e, lo, b)
    BY <1>6, <2>2 DEF Homes
  <2>4. IsRecord(q, lo, b) /\ e <= g.recs[i].hi /\ HomeAt(q, g, g.recs[i], e, lo, b)
    BY <2>1, <2>3, HomeFacts DEF Home
  <2>5. b < p
    <3>1. PICK c \in DOMAIN n, d \in DOMAIN n : (b < p /\ c = lo) \/ p < lo
      BY <2>1, <2>4, MovesHome DEF n
    <3> QED BY <1>1, <1>3, <1>6, <3>1
  <2>6. IsRecord(n, lo, b)
    BY <2>4, <2>5, RemoveKeepsFront DEF n
  <2>7. b = hi
    BY <1>1, <1>2, <2>6, OneEnd
  <2> QED BY <1>1, <1>3, <1>6, <2>5, <2>7
<1> QED
  BY <1>1, <1>3, <1>4, <1>5, <1>6

\* A good record is told by its Start.
LEMMA SameStart ==
    ASSUME NEW q \in Seq(Elem), NEW r \in GoodRecords(q), NEW s \in GoodRecords(q),
           r.lo = s.lo
    PROVE  r = s
<1>1. /\ r \in GoodWriteRecord /\ s \in GoodWriteRecord
      /\ q[r.lo].seq = r.seq /\ q[s.lo].seq = s.seq
      /\ IsRecord(q, r.lo, r.hi) /\ IsRecord(q, s.lo, s.hi)
  BY GoodRecordIs DEF RecordAt
<1>2. r.hi = s.hi
  BY <1>1, OneEnd
<1> QED
  BY <1>1, <1>2 DEF GoodWriteRecord

\* ... or by its End.
LEMMA SameEnd ==
    ASSUME NEW q \in Seq(Elem), NEW r \in GoodRecords(q), NEW s \in GoodRecords(q),
           r.hi = s.hi
    PROVE  r = s
<1>1. /\ r.lo \in 1 .. Len(q) /\ s.lo \in 1 .. Len(q) /\ r.hi \in 1 .. Len(q)
      /\ r.lo < r.hi /\ s.lo < s.hi
      /\ IsRecord(q, r.lo, r.hi) /\ IsRecord(q, s.lo, s.hi)
      /\ q[r.lo].kind = "start" /\ q[s.lo].kind = "start"
  <2>1. ASSUME NEW x \in GoodRecords(q)
        PROVE  /\ x.lo \in 1 .. Len(q) /\ x.hi \in 1 .. Len(q) /\ x.lo < x.hi
               /\ IsRecord(q, x.lo, x.hi)
    BY GoodRecordIs DEF RecordAt
  <2>2. \A lo, hi : IsRecord(q, lo, hi) => q[lo].kind = "start"
    BY DEF IsRecord
  <2> QED BY <2>1, <2>2
<1>2. CASE r.lo <= s.lo
  <2>1. s.lo \in r.lo .. r.hi
    BY <1>1, <1>2
  <2> QED BY <1>1, <2>1, OneStart, SameStart
<1>3. CASE s.lo <= r.lo
  <2>1. r.lo \in s.lo .. s.hi
    BY <1>1, <1>3
  <2> QED BY <1>1, <2>1, OneStart, SameStart
<1>4. r.lo <= s.lo \/ s.lo <= r.lo
  <2>1. r.lo \in Int /\ s.lo \in Int
    BY <1>1
  <2> QED BY <2>1
<1> QED
  BY <1>2, <1>3, <1>4

\* So an invalidation leaves each number to one record, and adds none.
LEMMA RemoveKeepsNumbers ==
    ASSUME NEW q \in Seq(Elem), NEW g \in GcStates, g.pos \in DOMAIN q,
           q[g.pos] = Bad \/ ~ InKeptRange(g.recs, g.idx), Homes(q, g),
           SingleNumbers(GoodRecords(q))
    PROVE  /\ SingleNumbers(GoodRecords(RemoveAt(q, g.pos)))
           /\ Numbers(RemoveAt(q, g.pos)) \subseteq Numbers(q)
<1> DEFINE n == RemoveAt(q, g.pos)
           p == g.pos
<1>1. n \in Seq(Elem) /\ p \in Int
  <2>1. p \in 1 .. Len(q)
    OBVIOUS
  <2> QED BY <2>1, RemoveAtProperties
<1>2. \A r \in GoodRecords(n) : CameFrom(r, q, p)
  BY RemoveMakesNone
<1> HIDE DEF n, p
<1>3. ASSUME NEW r \in GoodRecords(n), NEW s \in GoodRecords(n), r.seq = s.seq, r.seq # 1
      PROVE  r = s
  <2>1. PICK x \in GoodRecords(q) : x.seq = r.seq /\ x.lo = IF r.lo < p THEN r.lo ELSE r.lo + 1
    BY <1>2 DEF CameFrom
  <2>2. PICK y \in GoodRecords(q) : y.seq = s.seq /\ y.lo = IF s.lo < p THEN s.lo ELSE s.lo + 1
    BY <1>2 DEF CameFrom
  <2>3. x = y
    BY <1>3, <2>1, <2>2 DEF SingleNumbers
  <2>4. r.lo \in 1 .. Len(n) /\ s.lo \in 1 .. Len(n) /\ Len(n) \in Nat
    BY <1>1, GoodRecordIs
  <2>5. (IF r.lo < p THEN r.lo ELSE r.lo + 1) = (IF s.lo < p THEN s.lo ELSE s.lo + 1)
    BY <2>1, <2>2, <2>3
  <2>6. r.lo = s.lo
    BY <1>1, <2>4, <2>5
  <2> QED BY <1>1, <2>6, SameStart
<1>4. SingleNumbers(GoodRecords(n))
  BY <1>3 DEF SingleNumbers
<1>5. Numbers(n) \subseteq Numbers(q)
  BY <1>2 DEF Numbers, CameFrom
<1> QED
  BY <1>4, <1>5 DEF n

-----------------------------------------------------------------------------
(***************************************************************************)
(* The invariant: each number is that of one record, and what the cache or *)
(* a collection holds has all numbers, or as many as are to be kept.       *)
(***************************************************************************)
OneNumber == SingleNumbers(Good)

CacheOnce == ~ Scanning => Distinct(seqState.recs) /\ SingleNumbers(Recs)

\* The record of a write is in the cache once it is read back.
CacheTop ==
    ~ Scanning /\ AnySeen(seqState) =>
        Covers(Recs, Numbers(queue) \ (IF io = "verify" THEN {wr.seq} ELSE {}))

\* The one range that is too long is that of the last write, at the end of the queue.
Ragged ==
    ~ Scanning /\ seqState.gc /\ ~ AllOnes(queue) =>
        \A r \in Recs : \/ RecordAt(queue, r.lo, r.hi, r.seq)
                        \/ RecordAt(queue, r.lo, r.hi - 1, r.seq) /\ r.hi > Len(queue)

GcTop ==
    io = "collect" /\ ~ AllOnes(queue) =>
        Covers(Held(gc.recs), Numbers(queue)) /\ Homes(queue, gc)

BackupInv == OneNumber /\ CacheOnce /\ CacheTop /\ Ragged /\ GcTop

\* Before a record is written and until it is complete, its number is free: no
\* cached record has it, nor has a good one, unless nothing is cached and it is 1.
LEMMA NextIsFree ==
    ASSUME StoreInv, AnySeen(seqState), ScanCompleted(seqState)
    PROVE  \A r \in Recs : r.seq < seqState.next
<1>1. /\ GenuineInv /\ seqState.recs \in Seq(GoodWriteRecord) /\ Ordered(seqState.recs)
  BY DEF StoreInv, GenuineInv, TypeInv, TypeOK, SeqStates, CacheOrdered, Consistent
<1>2. seqState.next = HighestSeen(seqState).seq + 1
  BY <1>1, NextIsOneMore
<1>3. /\ Len(seqState.recs) \in DOMAIN seqState.recs
      /\ HighestSeen(seqState) = seqState.recs[Len(seqState.recs)]
      /\ DOMAIN seqState.recs = 1 .. Len(seqState.recs)
  BY <1>1 DEF AnySeen, HighestSeen
<1>4. ASSUME NEW i \in DOMAIN seqState.recs PROVE seqState.recs[i].seq < seqState.next
  <2>1. i <= Len(seqState.recs)
    BY <1>3
  <2>2. seqState.recs[i].seq <= HighestSeen(seqState).seq
    BY <1>1, <1>3, <2>1, OrderedSeqs
  <2>3. seqState.recs[i].seq \in Int /\ HighestSeen(seqState).seq \in Int
    BY <1>1, <1>3, SeqIsInt
  <2> QED BY <1>2, <2>2, <2>3
<1> QED
  BY <1>4 DEF Recs

\* With nothing cached all numbers are 1.
LEMMA FirstNumbers ==
    ASSUME StoreInv, ~ Scanning, ScanCompleted(seqState), ~ AnySeen(seqState)
    PROVE  seqState.next = 1 /\ AllOnes(queue)
<1>1. queue \in Seq(Elem) /\ seqState.next = 1
  BY DEF StoreInv, GenuineInv, TypeInv, TypeOK, SurvivalInv, EmptyInv, ScanCompleted
<1>2. \A p \in Starts : queue[p].seq <= 1
  BY <1>1 DEF StoreInv, SurvivalInv, CacheCovers
<1>3. ASSUME NEW p \in Positions(queue, "start") PROVE queue[p].seq = 1
  <2>1. queue[p].seq \in SeqNo /\ queue[p].seq <= 1
    BY <1>1, <1>2, StartsAre DEF Starts
  <2> QED BY <2>1, Constants DEF SeqNo
<1> QED
  BY <1>1, <1>3 DEF AllOnes

-----------------------------------------------------------------------------
\* A scan ends with the newest records in the cache.
LEMMA ScanEndsNewest ==
    ASSUME GenuineInv, ScanningInv, OneNumber, ScanEnds
    PROVE  /\ Recs' = Recs /\ Recs \subseteq Good
           /\ Distinct(seqState.recs) /\ SingleNumbers(Recs)
           /\ Covers(Recs, Numbers(queue))
<1>1. /\ queue \in Seq(Elem) /\ seqState.recs \in Seq(GoodWriteRecord)
      /\ TypeInv
  BY DEF GenuineInv, TypeInv, TypeOK, SeqStates
<1>2. Scanning /\ Good = GoodBelow
  BY <1>1, AllPassed DEF ScanEnds, GoodBelow
<1>3. /\ Recs \subseteq Good
      /\ Distinct(seqState.recs)
      /\ Len(seqState.recs) < Kept => Recs = Good
      /\ \A r \in Good \ Recs, s \in Recs : ~ Newer(r, s)
  BY <1>2 DEF ScanningInv, ScanCollects
<1>4. Recs = Held(seqState.recs) /\ Recs' = Recs
  BY <1>1, ScanEndsCache DEF Recs, Held
<1>5. IsFiniteSet(Recs) /\ Cardinality(Recs) = Len(seqState.recs) /\ Len(seqState.recs) \in Nat
  BY <1>1, <1>3, <1>4, HeldCount
<1>6. \A r \in Good : r.seq \in Nat \ {0}
  <2>1. \A r \in Good : r \in GoodWriteRecord
    BY <1>1, GoodRecordIs DEF Good
  <2> QED BY <2>1, Constants DEF GoodWriteRecord, SeqNo
<1>7. SingleNumbers(Recs)
  BY <1>3 DEF OneNumber, SingleNumbers
<1>8. Recs = Good \/ Cardinality(Recs) >= Kept
  BY <1>3, <1>5, Constants
<1>9. Covers(Recs, Nums(Good))
  BY <1>3, <1>5, <1>6, <1>7, <1>8, NewestCover
<1>10. Nums(Good) = Numbers(queue)
  BY DEF Nums, Numbers, Good
<1> QED
  BY <1>3, <1>4, <1>7, <1>9, <1>10

\* A write that is read back is in the cache as the only one of its number.
LEMMA VerifyCovers ==
    ASSUME StoreInv, CompleteInv, CacheOnce, CacheTop, VerifyGood
    PROVE  /\ Distinct(seqState'.recs) /\ SingleNumbers(Recs')
           /\ Covers(Recs', Numbers(queue))
<1>0. /\ queue \in Seq(Elem) /\ seqState \in SeqStates /\ wr.seq \in SeqNo
      /\ seqState.recs \in Seq(GoodWriteRecord) /\ Consistent(seqState)
  BY DEF StoreInv, GenuineInv, TypeInv, TypeOK, SeqStates, CacheOrdered
<1>1. /\ ~ Scanning /\ io = "verify" /\ ScanCompleted(seqState) /\ wr.seq = seqState.next
  BY DEF VerifyGood, Scanning, StoreInv, SurvivalInv, WriteInv
<1>2. PICK lo \in DOMAIN queue, hi \in DOMAIN queue :
        seqState' = InsertGood(seqState, [seq |-> wr.seq, lo |-> lo, hi |-> hi + 1])
  BY DEF VerifyGood
<1> DEFINE rec == [seq |-> wr.seq, lo |-> lo, hi |-> hi + 1]
           S == Numbers(queue)
<1>3. rec \in GoodWriteRecord /\ rec.seq = wr.seq
  <2>1. lo \in 1 .. Len(queue) /\ hi \in 1 .. Len(queue) /\ Len(queue) \in Nat
    BY <1>0
  <2>2. lo \in Nat \ {0} /\ hi + 1 \in Nat \ {0}
    BY <2>1
  <2> QED BY <1>0, <2>2 DEF GoodWriteRecord
<1>4. Held(seqState.recs) = Recs /\ Held(seqState'.recs) = Recs'
  BY DEF Held, Recs
<1>5. \A r \in Recs : r.seq < rec.seq
  <2>1. CASE AnySeen(seqState)
    BY <1>1, <1>3, <2>1, NextIsFree
  <2>2. CASE ~ AnySeen(seqState)
    BY <2>2 DEF AnySeen, Recs
  <2> QED BY <2>1, <2>2
<1>6. \A r \in Recs : r.seq \in Int
  BY <1>0, SeqIsInt DEF Recs
<1>7. rec.seq \in Int
  BY <1>3, SeqIsInt
<1> HIDE DEF rec
<1>8. \A r \in Recs : r.seq # rec.seq /\ r # rec
  BY <1>5, <1>6, <1>7
<1>9. Distinct(seqState.recs) /\ SingleNumbers(Recs \cup {rec})
  BY <1>1, <1>8 DEF CacheOnce, SingleNumbers
<1>10. Covers(Recs, S \ {rec.seq})
  <2>1. CASE AnySeen(seqState)
    BY <1>1, <1>3, <2>1 DEF CacheTop
  <2>2. CASE ~ AnySeen(seqState)
    <3>1. rec.seq = 1 /\ AllOnes(queue)
      BY <1>1, <1>3, <2>2, FirstNumbers
    <3>2. ASSUME NEW r \in GoodRecords(queue) PROVE r.seq = 1
      <4>1. r.lo \in Positions(queue, "start") /\ queue[r.lo].seq = r.seq
        BY <1>0, GoodRecordIs DEF RecordAt, IsRecord, Positions
      <4> QED BY <3>1, <4>1 DEF AllOnes
    <3>3. S \ {rec.seq} = {}
      BY <3>1, <3>2 DEF Numbers
    <3> QED BY <3>3 DEF Covers
  <2> QED BY <2>1, <2>2
<1>11. seqState' = InsertGood(seqState, rec)
  BY <1>2 DEF rec
<1>12. rec \notin Recs
  BY <1>8
<1> HIDE DEF S
<1> QED
  BY <1>0, <1>3, <1>4, <1>9, <1>10, <1>11, <1>12, InsertCovers DEF S

\* The End of a write completes one record of a number that is free.
LEMMA EndIsSingle ==
    ASSUME WritesComplete, StoreInv, CompleteInv, OneNumber, PushEnd
    PROVE  OneNumber' /\ Numbers(queue') \subseteq Numbers(queue) \cup {wr.seq}
<1> DEFINE e == End(wr.seq, wr.crc)
           n == Append(queue, e)
<1>0. /\ TypeOK /\ queue \in Seq(Elem) /\ wr.seq \in SeqNo /\ wr.crc \in Seq(DataElem)
      /\ GenuineInv
  BY DEF StoreInv, GenuineInv, TypeInv, TypeOK
<1>1. queue' = n /\ e \in Elem /\ e.seq = wr.seq
  BY <1>0, CompletePushes, ElemTypes DEF End
<1>2. n \in Seq(Elem)
  BY <1>0, <1>1
<1>3. io = "push" /\ ~ Scanning /\ ScanCompleted(seqState) /\ wr.seq = seqState.next
  BY DEF PushEnd, Scanning, StoreInv, SurvivalInv, WriteInv
<1> HIDE DEF e
<1>4. \A r \in GoodRecords(n) : r \in Good \/ (r.hi = Len(queue) + 1 /\ r.seq = wr.seq)
  BY <1>0, <1>1, AppendGood DEF Good
<1> HIDE DEF n
<1>5. \A r \in Good : r.seq # wr.seq \/ r.seq = 1
  <2>1. CASE AnySeen(seqState)
    <3>1. \A r \in Good : r.seq <= HighestSeen(seqState).seq
      BY <1>3, <2>1 DEF CompleteInv, BootCached, Leads, Ahead
    <3>2. HighestSeen(seqState) \in GoodWriteRecord /\ wr.seq = HighestSeen(seqState).seq + 1
      BY <1>0, <1>3, <2>1, NextIsOneMore
    <3>3. HighestSeen(seqState).seq \in Int /\ \A r \in Good : r.seq \in Int
      BY <1>0, <3>2, GoodRecordIs, SeqIsInt DEF Good
    <3> QED BY <3>1, <3>2, <3>3
  <2>2. CASE ~ AnySeen(seqState)
    BY <1>3, <2>2, FirstNumbers
  <2> QED BY <2>1, <2>2
<1>6. ASSUME NEW r \in GoodRecords(n), NEW s \in GoodRecords(n), r.seq = s.seq, r.seq # 1
      PROVE  r = s
  <2>1. CASE r \in Good /\ s \in Good
    BY <1>6, <2>1 DEF OneNumber, SingleNumbers
  <2>2. CASE r.hi = Len(queue) + 1 /\ s.hi = Len(queue) + 1
    BY <1>2, <2>2, SameEnd
  <2> QED BY <1>4, <1>5, <1>6, <2>1, <2>2
<1>7. SingleNumbers(GoodRecords(n))
  BY <1>6 DEF SingleNumbers
<1>8. Numbers(n) \subseteq Numbers(queue) \cup {wr.seq}
  BY <1>4 DEF Numbers, Good
<1> QED
  BY <1>1, <1>7, <1>8 DEF OneNumber, Good

\* What a collection does to the numbers in the storage.
LEMMA CollectNumbers ==
    ASSUME TypeOK, OneNumber, GcTop, CollectElement
    PROVE  /\ OneNumber'
           /\ ~ AllOnes(queue) =>
                 /\ Numbers(queue') \subseteq Numbers(queue)
                 /\ Homes(queue', gc') /\ gc' \in GcStates /\ gc'.recs = gc.recs
                 /\ Covers(Held(gc.recs), Numbers(queue))
           /\ AllOnes(queue) => AllOnes(queue')
<1>1. /\ gc \in GcStates /\ gc.pos \in DOMAIN queue /\ queue \in Seq(Elem) /\ io = "collect"
      /\ PastKept(gc) \in GcStates /\ PastKept(gc).recs = gc.recs
      /\ PastMoved(gc) \in GcStates /\ PastMoved(gc).recs = gc.recs
  BY CollectSteps, GcStateTypes DEF TypeOK, CollectElement
<1>2. ~ AllOnes(queue) => Covers(Held(gc.recs), Numbers(queue)) /\ Homes(queue, gc)
  BY <1>1 DEF GcTop
<1>3. CASE /\ InKeptRange(gc.recs, gc.idx)
           /\ gc' = PastKept(gc) /\ UNCHANGED queue
  <2>1. Homes(queue, gc) => Homes(queue, PastKept(gc))
    BY <1>1, <1>3, KeepsHomes
  <2> QED BY <1>1, <1>2, <1>3, <2>1 DEF OneNumber, Good
<1>4. CASE /\ queue[gc.pos] = Bad \/ ~ InKeptRange(gc.recs, gc.idx)
           /\ gc' = PastMoved(gc) /\ queue' = RemoveAt(queue, gc.pos)
  <2> DEFINE n == RemoveAt(queue, gc.pos)
  <2>1. n \in Seq(Elem)
    BY <1>1, RemoveAtProperties
  <2>2. CASE AllOnes(queue)
    <3>1. ASSUME NEW p \in Positions(n, "start") PROVE n[p].seq = 1
      <4>1. \/ p \in Positions(queue, "start") /\ n[p] = queue[p]
            \/ p + 1 \in Positions(queue, "start") /\ n[p] = queue[p + 1]
        <5>1. /\ p < gc.pos => p \in Positions(queue, "start") /\ n[p] = queue[p]
              /\ gc.pos <= p => p + 1 \in Positions(queue, "start") /\ n[p] = queue[p + 1]
          BY <1>1, RemoveStarts
        <5>2. p \in 1 .. Len(n) /\ Len(n) \in Nat
          BY <2>1 DEF Positions
        <5>3. gc.pos \in 1 .. Len(queue) /\ Len(queue) \in Nat
          BY <1>1
        <5>4. p < gc.pos \/ gc.pos <= p
          BY <5>2, <5>3
        <5> QED BY <5>1, <5>4
      <4> QED BY <2>2, <4>1 DEF AllOnes
    <3> HIDE DEF n
    <3>2. ASSUME NEW r \in GoodRecords(n) PROVE r.seq = 1
      <4>1. r.lo \in Positions(n, "start") /\ n[r.lo].seq = r.seq
        BY <2>1, GoodRecordIs DEF RecordAt, IsRecord, Positions
      <4> QED BY <3>1, <4>1
    <3>3. AllOnes(n) /\ SingleNumbers(GoodRecords(n))
      BY <3>1, <3>2 DEF AllOnes, SingleNumbers
    <3> QED BY <1>4, <2>2, <3>3 DEF OneNumber, Good, n
  <2>3. CASE ~ AllOnes(queue)
    <3>1. Homes(queue, gc) /\ SingleNumbers(GoodRecords(queue))
      BY <1>2, <2>3 DEF OneNumber, Good
    <3>2. SingleNumbers(GoodRecords(n)) /\ Numbers(n) \subseteq Numbers(queue)
      BY <1>1, <1>4, <3>1, RemoveKeepsNumbers
    <3>3. Homes(n, PastMoved(gc))
      BY <1>1, <1>4, <3>1, MovesHomes
    <3> HIDE DEF n
    <3> QED BY <1>1, <1>2, <1>4, <2>3, <3>2, <3>3 DEF OneNumber, Good, n
  <2> QED BY <2>2, <2>3
<1> QED
  BY <1>3, <1>4, CollectSteps

\* A collection begins with every record at home.
LEMMA CollectHomes ==
    ASSUME StoreInv, CacheTop, Ragged, ~ AllOnes(queue), BeginGarbage
    PROVE  Covers(Held(gc'.recs), Numbers(queue)) /\ Homes(queue, gc')
<1>0. /\ queue \in Seq(Elem) /\ seqState.recs \in Seq(GoodWriteRecord) /\ Len(queue) \in Nat
  BY DEF StoreInv, GenuineInv, TypeInv, TypeOK, SeqStates
<1>1. /\ io = "idle" /\ ~ Scanning /\ seqState.gc /\ AnySeen(seqState)
      /\ gc' = [recs |-> seqState.recs, idx |-> 1, pos |-> 1]
  BY DEF BeginGarbage, Scanning, StoreInv, SurvivalInv, EmptyInv
<1> DEFINE g == [recs |-> seqState.recs, idx |-> 1, pos |-> 1]
<1>2. g.recs = seqState.recs /\ g.idx = 1 /\ g.pos = 1
  OBVIOUS
<1> HIDE DEF g
<1>3. Covers(Held(g.recs), Numbers(queue))
  <2>1. Held(g.recs) = Recs
    BY <1>2 DEF Held, Recs
  <2>2. Numbers(queue) \ (IF io = "verify" THEN {wr.seq} ELSE {}) = Numbers(queue)
    BY <1>1
  <2> QED BY <1>1, <2>1, <2>2 DEF CacheTop
<1>4. ASSUME NEW i \in DOMAIN g.recs
      PROVE  \E e \in Int : \E a, b \in DOMAIN queue : Home(queue, g, i, e, a, b)
  <2> DEFINE r == g.recs[i]
  <2>1. r \in Recs /\ r.lo \in Nat \ {0} /\ r.hi \in Nat \ {0}
    <3>1. r \in Recs /\ r \in GoodWriteRecord
      BY <1>0, <1>2 DEF Recs
    <3> QED BY <3>1 DEF GoodWriteRecord
  <2>2. PICK e \in { r.hi, r.hi - 1 } :
              /\ RecordAt(queue, r.lo, e, r.seq)
              /\ e = r.hi \/ r.hi > Len(queue)
    BY <1>1, <2>1 DEF Ragged
  <2> HIDE DEF r
  <2>3. /\ e \in Int /\ r.lo \in DOMAIN queue /\ e \in DOMAIN queue /\ e >= 1
    BY <1>0, <2>1, <2>2 DEF RecordAt, IsRecord
  <2>4. /\ g.idx - g.pos = 0 /\ ~ e < g.idx
        /\ r.lo = r.lo - 0 /\ e = e - 0
        /\ g.idx + (Len(queue) - g.pos) = Len(queue)
    <3>1. r.lo \in Int
      BY <2>1
    <3> QED BY <1>0, <1>2, <2>3, <3>1
  <2>5. HomeAt(queue, g, r, e, r.lo, e)
    BY <2>2, <2>4 DEF HomeAt
  <2>6. Len(queue) < r.hi \/ e = r.hi
    BY <1>0, <2>1, <2>2
  <2>7. Home(queue, g, i, e, r.lo, e)
    BY <2>2, <2>4, <2>5, <2>6 DEF Home, r
  <2> QED BY <2>3, <2>7
<1>5. \A p \in Positions(queue, "start") : ~ p < g.pos
  BY <1>0, <1>2 DEF Positions
<1>6. Homes(queue, g)
  BY <1>4, <1>5 DEF Homes
<1> QED
  BY <1>1, <1>3, <1>6 DEF g

\* Each number stays that of one record.
LEMMA NextOneNumber ==
    ASSUME WritesComplete, StoreInv, CompleteInv, OneNumber, GcTop, [Next]_vars
    PROVE  OneNumber'
<1>0. TypeOK /\ TypeInv
  BY DEF StoreInv, GenuineInv, TypeInv
<1>1. CASE UNCHANGED queue
  BY <1>1 DEF OneNumber, Good
<1>2. CASE BeginWrites \/ PushData
  <2>1. Good' \subseteq Good
    BY <1>0, <1>2, CompletePushes
  <2> QED BY <2>1 DEF OneNumber, SingleNumbers
<1>3. CASE PushEnd
  BY <1>3, EndIsSingle
<1>4. CASE CollectElement
  BY <1>0, <1>4, CollectNumbers
<1> QED
  BY <1>0, <1>1, <1>2, <1>3, <1>4, QueueSteps DEF WritesComplete

\* The cache stays without duplicates, and keeps the numbers it has to.
LEMMA NextCacheTop ==
    ASSUME WritesComplete, StoreInv, CompleteInv, OneNumber, CacheOnce, CacheTop, [Next]_vars
    PROVE  CacheOnce' /\ CacheTop'
<1>0. TypeOK /\ GenuineInv /\ ScanningInv /\ queue \in Seq(Elem)
  BY DEF StoreInv, GenuineInv, TypeInv, TypeOK
<1> DEFINE Left == IF io = "verify" THEN {wr.seq} ELSE {}
<1>1. ASSUME UNCHANGED seqState, ~ Scanning,
             Numbers(queue') \ Left' \subseteq Numbers(queue) \ Left
      PROVE  CacheOnce' /\ CacheTop'
  <2>1. Recs' = Recs /\ AnySeen(seqState)' = AnySeen(seqState)
    BY <1>1 DEF Recs, AnySeen
  <2>2. CacheOnce'
    BY <1>1, <2>1 DEF CacheOnce
  <2>3. CacheTop'
    BY <1>1, <2>1, CoversLess DEF CacheTop
  <2> QED BY <2>2, <2>3
<1>2. ASSUME seqState'.recs = << >>
      PROVE  CacheOnce' /\ CacheTop'
  BY <1>2 DEF CacheOnce, CacheTop, AnySeen, Recs, Distinct, SingleNumbers
<1>3. CASE Quiet
  <2>1. CASE Scanning
    BY <1>3, <2>1 DEF Quiet, CacheOnce, CacheTop, Scanning
  <2>2. CASE ~ Scanning
    BY <1>1, <1>3, <2>2 DEF Quiet
  <2> QED BY <2>1, <2>2
<1>4. CASE Forgets
  BY <1>2, <1>4 DEF Forgets, NewSeqState
<1>5. CASE ScanEnds
  <2>1. /\ Recs' = Recs /\ Distinct(seqState.recs) /\ SingleNumbers(Recs)
        /\ Covers(Recs, Numbers(queue))
    BY <1>0, <1>5, ScanEndsNewest
  <2>2. seqState'.recs = seqState.recs /\ io' = "idle" /\ UNCHANGED queue
    BY <1>0, <1>5, ScanEndsCache DEF ScanEnds, GenuineInv
  <2>3. Numbers(queue') \ Left' = Numbers(queue)
    BY <2>2
  <2> HIDE DEF Left
  <2> QED BY <2>1, <2>2, <2>3 DEF CacheOnce, CacheTop, Left
<1>6. CASE BeginWrites \/ PushData
  <2>1. Good' \subseteq Good
    BY <1>0, <1>6, CompletePushes
  <2>2. Numbers(queue') \subseteq Numbers(queue)
    BY <2>1 DEF Numbers, Good
  <2>3. UNCHANGED seqState /\ ~ Scanning /\ Left = {}
    BY <1>6 DEF BeginWrites, PushData, Scanning
  <2> QED BY <1>1, <2>2, <2>3
<1>7. CASE PushEnd
  <2>1. Numbers(queue') \subseteq Numbers(queue) \cup {wr.seq}
    BY <1>7, EndIsSingle
  <2>2. UNCHANGED seqState /\ ~ Scanning /\ Left = {} /\ Left' = {wr.seq}
    BY <1>7 DEF PushEnd, Scanning
  <2> HIDE DEF Left
  <2> QED BY <1>1, <2>1, <2>2
<1>8. CASE VerifyGood
  <2>1. /\ Distinct(seqState'.recs) /\ SingleNumbers(Recs')
        /\ Covers(Recs', Numbers(queue))
    BY <1>8, VerifyCovers
  <2>2. io' = "idle" /\ UNCHANGED queue
    BY <1>8 DEF VerifyGood
  <2>3. Numbers(queue') \ Left' = Numbers(queue)
    BY <2>2
  <2> HIDE DEF Left
  <2> QED BY <2>1, <2>2, <2>3 DEF CacheOnce, CacheTop, Left
<1>9. CASE CollectElement \/ (io = "collect" /\ io' = "idle" /\ UNCHANGED << queue, seqState >>)
  <2>1. seqState'.recs = << >>
    BY <1>0, <1>9 DEF CollectElement, GenuineInv, CollectInv
  <2> QED BY <1>2, <2>1
<1>10. CASE BeginScan \/ EndCollect \/ (Scanning /\ ScanElement)
  BY <1>10 DEF BeginScan, EndCollect, ScanElement, CacheOnce, CacheTop, Scanning
<1>11. CASE StorageFull
  <2>1. UNCHANGED << queue, seqState >> /\ ~ Scanning /\ Left = {} /\ Left' = {}
    BY <1>11 DEF StorageFull, Scanning
  <2> HIDE DEF Left
  <2>2. Numbers(queue') \ Left' \subseteq Numbers(queue) \ Left
    BY <2>1
  <2> QED BY <1>1, <2>1, <2>2
<1>12. CASE VerifyBad
  <2>1. ~ AnySeen(seqState) /\ UNCHANGED seqState
    BY <1>12, CompleteVerifies DEF CompleteInv, VerifyBad
  <2> QED BY <1>2, <2>1 DEF AnySeen
<1> QED
  BY <1>0, <1>3, <1>4, <1>5, <1>6, <1>7, <1>8, <1>9, <1>10, <1>11, <1>12, CompleteSteps

\* A write that is read back is the last thing in the storage.
LEMMA VerifiedIsLast ==
    ASSUME TypeOK, RecordOpen, io = "verify", AnySeen(seqState),
           NEW lo \in DOMAIN queue, NEW hi \in DOMAIN queue, Verified(lo, hi)
    PROVE  hi = Len(queue)
<1>1. PICK at \in DOMAIN queue : Verified(at, Len(queue))
  BY DEF RecordOpen
<1>2. /\ queue \in Seq(Elem) /\ FirstStart(queue, wr.seq, lo) /\ FirstStart(queue, wr.seq, at)
      /\ IsRecord(queue, lo, hi) /\ IsRecord(queue, at, Len(queue))
  BY <1>1 DEF Verified, VerifiedAt, TypeOK
<1>3. ~ lo < at /\ ~ at < lo
  BY <1>2 DEF FirstStart
<1>4. lo = at
  <2>1. lo \in Int /\ at \in Int
    BY <1>2
  <2> QED BY <1>3, <2>1
<1> QED
  BY <1>2, <1>4, OneEnd

\* No range but that of the last write is too long.
LEMMA NextRagged ==
    ASSUME WritesComplete, StoreInv, CompleteInv, OneNumber, Ragged, [Next]_vars
    PROVE  Ragged'
<1>0. /\ TypeOK /\ TypeInv /\ GenuineInv /\ ScanningInv /\ WriteInv /\ ExactInv /\ queue \in Seq(Elem)
      /\ RecordOpen
  BY DEF StoreInv, GenuineInv, TypeInv, TypeOK, SurvivalInv, CompleteInv
<1>1. CASE Quiet
  BY <1>1 DEF Quiet, Ragged, Scanning, Recs
<1>2. ASSUME seqState'.recs = << >> PROVE Ragged'
  BY <1>2 DEF Ragged, Recs
<1>3. CASE Forgets
  BY <1>2, <1>3 DEF Forgets, NewSeqState
<1>4. CASE ScanEnds
  <2>1. Recs' \subseteq Good /\ UNCHANGED queue
    BY <1>0, <1>4, ScanEndsNewest DEF ScanEnds
  <2>2. \A r \in Good : RecordAt(queue, r.lo, r.hi, r.seq)
    BY <1>0, GoodRecordIs DEF Good
  <2> QED BY <2>1, <2>2 DEF Ragged
<1>5. CASE BeginWrites \/ PushData \/ PushEnd \/ StorageFull
  <2>1. UNCHANGED seqState /\ ~ seqState.gc
    BY <1>0, <1>5 DEF BeginWrites, PushData, PushEnd, StorageFull, WriteInv
  <2> QED BY <2>1 DEF Ragged
<1>6. CASE VerifyGood
  <2>1. /\ io = "verify" /\ ~ Scanning /\ ~ seqState.gc /\ ScanCompleted(seqState)
        /\ queue' = queue
    BY <1>0, <1>6 DEF VerifyGood, WriteInv, Scanning
  <2>2. CASE ~ AnySeen(seqState)
    <3>1. AllOnes(queue)
      BY <2>1, <2>2, FirstNumbers
    <3> QED BY <2>1, <3>1 DEF Ragged
  <2>3. CASE AnySeen(seqState)
    <3>1. PICK lo \in DOMAIN queue, hi \in DOMAIN queue :
            /\ Verified(lo, hi)
            /\ seqState' = InsertGood(seqState, [seq |-> wr.seq, lo |-> lo, hi |-> hi + 1])
      BY <1>6 DEF VerifyGood
    <3> DEFINE rec == [seq |-> wr.seq, lo |-> lo, hi |-> hi + 1]
    <3>2. hi = Len(queue) /\ Len(queue) \in Nat
      BY <1>0, <2>1, <2>3, <3>1, VerifiedIsLast
    <3>3. IsRecord(queue, lo, hi) /\ queue[lo] = Start(wr.seq)
      BY <3>1 DEF Verified, VerifiedAt, FirstStart
    <3>4. /\ RecordAt(queue, rec.lo, rec.hi - 1, rec.seq) /\ rec.hi > Len(queue)
          /\ rec \in GoodWriteRecord
      <4>1. rec.seq = wr.seq /\ rec.lo = lo /\ rec.hi = hi + 1 /\ (hi + 1) - 1 = hi /\ hi + 1 > Len(queue)
        BY <3>2
      <4>2. wr.seq \in SeqNo /\ lo \in Nat \ {0} /\ hi + 1 \in Nat \ {0}
        BY <1>0, <3>2 DEF TypeOK
      <4> QED BY <3>3, <4>1, <4>2 DEF RecordAt, GoodWriteRecord
    <3> HIDE DEF rec
    <3>5. Recs' \subseteq Recs \cup {rec}
      <4>1. seqState' = InsertGood(seqState, rec)
        BY <3>1 DEF rec
      <4>2. seqState \in SeqStates /\ Consistent(seqState)
        BY <1>0 DEF TypeOK, TypeInv, CacheOrdered
      <4>3. Held(seqState'.recs) \subseteq Held(seqState.recs) \cup {rec}
        BY <3>4, <4>1, <4>2, InsertGoodHeld
      <4> QED BY <4>3 DEF Held, Recs
    <3>6. \A r \in Recs : RecordAt(queue, r.lo, r.hi, r.seq)
      BY <1>0, <2>1 DEF ExactInv
    <3> QED BY <2>1, <3>4, <3>5, <3>6 DEF Ragged
  <2> QED BY <2>2, <2>3
<1>7. CASE VerifyBad
  <2>1. ~ AnySeen(seqState) /\ UNCHANGED seqState
    BY <1>0, <1>7, CompleteVerifies DEF VerifyBad
  <2> QED BY <1>2, <2>1 DEF AnySeen
<1>8. CASE CollectElement \/ (io = "collect" /\ io' = "idle" /\ UNCHANGED << queue, seqState >>)
  <2>1. seqState'.recs = << >>
    BY <1>0, <1>8 DEF CollectElement, GenuineInv, CollectInv
  <2> QED BY <1>2, <2>1
<1>9. CASE BeginScan \/ EndCollect \/ (Scanning /\ ScanElement)
  BY <1>9 DEF BeginScan, EndCollect, ScanElement, Ragged, Scanning
<1> QED
  BY <1>0, <1>1, <1>3, <1>4, <1>5, <1>6, <1>7, <1>8, <1>9, CompleteSteps

\* A collection has what it needs to keep enough, from its first element to its last.
LEMMA NextGcTop ==
    ASSUME WritesComplete, StoreInv, CompleteInv, BackupInv, [Next]_vars
    PROVE  GcTop'
<1>0. TypeOK /\ OneNumber /\ CacheTop /\ Ragged /\ GcTop
  BY DEF StoreInv, GenuineInv, TypeInv, BackupInv
<1>1. CASE io' # "collect"
  BY <1>1 DEF GcTop
<1>2. CASE io = "collect" /\ UNCHANGED << queue, gc >>
  BY <1>0, <1>2 DEF GcTop
<1>3. CASE BeginGarbage
  <2>1. queue' = queue
    BY <1>3 DEF BeginGarbage
  <2> QED BY <1>0, <1>3, <2>1, CollectHomes DEF GcTop
<1>4. CASE CollectElement
  <2> SUFFICES ASSUME ~ AllOnes(queue')
               PROVE  Covers(Held(gc'.recs), Numbers(queue')) /\ Homes(queue', gc')
    BY DEF GcTop
  <2>1. /\ Numbers(queue') \subseteq Numbers(queue)
        /\ Homes(queue', gc') /\ gc'.recs = gc.recs
        /\ Covers(Held(gc.recs), Numbers(queue))
    BY <1>0, <1>4, CollectNumbers
  <2> QED BY <2>1, CoversLess
<1>5. CASE Quiet
  BY <1>1, <1>2, <1>5 DEF Quiet
<1>6. CASE Forgets
  BY <1>1, <1>2, <1>3, <1>6 DEF Forgets
<1>7. CASE \/ ScanEnds \/ BeginWrites \/ PushData \/ PushEnd \/ VerifyGood \/ BeginScan \/ EndCollect
           \/ (Scanning /\ ScanElement) \/ StorageFull \/ VerifyBad \/ io' = "idle"
  <2>1. io' # "collect"
    BY <1>7 DEF ScanEnds, BeginWrites, PushData, PushEnd, VerifyGood, BeginScan, EndCollect,
                ScanElement, Scanning, StorageFull, VerifyBad
  <2> QED BY <1>1, <2>1
<1> QED
  BY <1>0, <1>4, <1>5, <1>6, <1>7, CompleteSteps

\* There is nothing to lose at the start.
LEMMA InitBackupInv == Init => BackupInv
<1> SUFFICES ASSUME Init PROVE BackupInv
  OBVIOUS
<1>1. queue = << >> /\ seqState = NewSeqState /\ io = "idle"
  BY DEF Init
<1>2. Recs = {} /\ ~ AnySeen(seqState) /\ ~ seqState.gc /\ Distinct(seqState.recs)
  BY <1>1 DEF Recs, AnySeen, NewSeqState, Distinct
<1>3. Good = {}
  <2>1. queue \in Seq(Elem) /\ Len(queue) = 0
    BY <1>1
  <2>2. \A r \in Good : r.lo \in 1 .. Len(queue)
    BY <2>1, GoodRecordIs DEF Good
  <2> QED BY <2>1, <2>2
<1> QED
  BY <1>1, <1>2, <1>3 DEF BackupInv, OneNumber, CacheOnce, CacheTop, Ragged, GcTop, SingleNumbers

\* Every step keeps the invariant.
LEMMA NextBackupInv ==
    ASSUME WritesComplete, StoreInv, CompleteInv, BackupInv, [Next]_vars
    PROVE  BackupInv'
<1>1. OneNumber /\ CacheOnce /\ CacheTop /\ Ragged /\ GcTop
  BY DEF BackupInv
<1> QED
  BY <1>1, NextOneNumber, NextCacheTop, NextRagged, NextGcTop DEF BackupInv

-----------------------------------------------------------------------------
(***************************************************************************)
(* What the invariant gives.                                               *)
(***************************************************************************)

\* A queue has finitely many numbers.
LEMMA NumbersFinite ==
    ASSUME NEW q \in Seq(Elem)
    PROVE  IsFiniteSet(Numbers(q)) /\ Cardinality(Numbers(q)) \in Nat
<1>1. IsFiniteSet(Numbers(q))
  BY GoodFinite, NumsCount DEF Numbers, Nums
<1> QED
  BY <1>1, FS_CardinalityType

\* There are still the numbers there were, or still as many as are to be kept.
KeepsEnough(q, n) ==
    Cardinality(Numbers(n)) >= IF Cardinality(Numbers(q)) < Kept THEN Cardinality(Numbers(q)) ELSE Kept

\* More numbers are enough, and so are the numbers of records that cover them.
LEMMA CoveredIsEnough ==
    ASSUME NEW q \in Seq(Elem), NEW n \in Seq(Elem), NEW H,
           Covers(H, Numbers(q)), Nums(H) \subseteq Numbers(n)
    PROVE  KeepsEnough(q, n)
<1>1. /\ IsFiniteSet(Numbers(n)) /\ Cardinality(Numbers(n)) \in Nat
      /\ IsFiniteSet(Numbers(q)) /\ Cardinality(Numbers(q)) \in Nat /\ Kept \in Nat
  BY NumbersFinite, Constants
<1>2. CASE Numbers(q) \subseteq Nums(H)
  <2>1. Cardinality(Numbers(q)) <= Cardinality(Numbers(n))
    BY <1>1, <1>2, FS_Subset
  <2> QED BY <1>1, <2>1 DEF KeepsEnough
<1>3. CASE Cardinality(Nums(H)) >= Kept
  <2>1. Cardinality(Nums(H)) <= Cardinality(Numbers(n)) /\ IsFiniteSet(Nums(H))
    BY <1>1, FS_Subset
  <2>2. Cardinality(Nums(H)) \in Nat
    BY <2>1, FS_CardinalityType
  <2> QED BY <1>1, <1>3, <2>1, <2>2 DEF KeepsEnough
<1> QED
  BY <1>2, <1>3 DEF Covers

\* When all numbers are 1, it is enough that the newest record survives.
LEMMA OnesAreEnough ==
    ASSUME NEW q \in Seq(Elem), NEW n \in Seq(Elem), AllOnes(q),
           NewestSeq(GoodRecords(n)) >= NewestSeq(GoodRecords(q))
    PROVE  KeepsEnough(q, n)
<1>1. /\ IsFiniteSet(Numbers(n)) /\ Cardinality(Numbers(n)) \in Nat
      /\ Kept \in Nat \ {0}
  BY NumbersFinite, Constants
<1>2. ASSUME NEW r \in GoodRecords(q) PROVE r.seq = 1
  <2>1. r.lo \in Positions(q, "start") /\ q[r.lo].seq = r.seq
    BY GoodRecordIs DEF RecordAt, IsRecord, Positions
  <2> QED BY <2>1 DEF AllOnes
<1>3. CASE GoodRecords(q) = {}
  <2>1. Cardinality(Numbers(q)) = 0
    BY <1>3, FS_EmptySet DEF Numbers
  <2> QED BY <1>1, <2>1 DEF KeepsEnough
<1>4. CASE GoodRecords(q) # {}
  <2>1. Numbers(q) = {1} /\ NewestSeq(GoodRecords(q)) = 1
    BY <1>2, <1>4, NewestSeqIs DEF Numbers
  <2>2. GoodRecords(n) # {}
    BY <2>1, NewestSeqIs
  <2>3. Cardinality(Numbers(q)) = 1
    BY <2>1, FS_Singleton
  <2>4. Numbers(n) # {}
    BY <2>2 DEF Numbers
  <2>5. Cardinality(Numbers(n)) # 0
    BY <1>1, <2>4, FS_EmptySet
  <2> QED BY <1>1, <2>3, <2>5 DEF KeepsEnough
<1> QED
  BY <1>3, <1>4

\* No step leaves fewer.
LEMMA NextKeepsEnough ==
    ASSUME WritesComplete, StoreInv, CompleteInv, BackupInv, [Next]_vars
    PROVE  UNCHANGED queue \/ KeepsEnough(queue, queue')
<1>0. /\ TypeInv /\ TypeOK /\ OneNumber /\ GcTop /\ queue \in Seq(Elem)
      /\ TypeInv' /\ queue' \in Seq(Elem)
  <2>1. TypeInv
    BY DEF StoreInv, GenuineInv
  <2>2. TypeInv'
    BY <2>1, NextTypeInv
  <2> QED BY <2>1, <2>2 DEF TypeInv, TypeOK, BackupInv
<1>1. ASSUME NEW e \in Elem, queue' = Append(queue, e)
      PROVE  KeepsEnough(queue, queue')
  <2>1. GoodRecords(queue) \subseteq GoodRecords(queue')
    BY <1>0, <1>1, AppendGood
  <2>2. Nums(GoodRecords(queue)) = Numbers(queue)
    BY DEF Nums, Numbers
  <2>3. Numbers(queue) \subseteq Numbers(queue')
    BY <2>1 DEF Numbers
  <2> QED BY <1>0, <2>2, <2>3, CoveredIsEnough DEF Covers
<1>2. CASE BeginWrites /\ queue' = Append(queue, Start(seqState.next))
  BY <1>0, <1>1, <1>2, NextNumber, ElemTypes DEF BeginWrites
<1>3. CASE \E e \in Elem : e.kind \in { "data", "bad" } /\ queue' = Append(queue, e)
  BY <1>1, <1>3
<1>4. CASE queue' = Append(queue, End(wr.seq, wr.crc)) \/ queue' = Append(queue, Bad)
  <2>1. End(wr.seq, wr.crc) \in Elem /\ Bad \in Elem
    BY <1>0, ElemTypes DEF TypeOK
  <2> QED BY <1>1, <1>4, <2>1
<1>5. CASE CollectElement
  <2>1. CASE AllOnes(queue)
    <3>1. NewestSeq(GoodRecords(queue')) >= NewestSeq(GoodRecords(queue))
      BY NextNewest DEF WritesComplete
    <3> QED BY <1>0, <2>1, <3>1, OnesAreEnough
  <2>2. CASE ~ AllOnes(queue)
    <3>1. /\ Homes(queue', gc') /\ gc' \in GcStates /\ gc'.recs = gc.recs
          /\ Covers(Held(gc.recs), Numbers(queue))
      BY <1>0, <1>5, <2>2, CollectNumbers
    <3>2. Nums(Held(gc.recs)) \subseteq Numbers(queue')
      BY <1>0, <3>1, HomesNumbers
    <3> QED BY <1>0, <3>1, <3>2, CoveredIsEnough
  <2> QED BY <2>1, <2>2
<1> QED
  BY <1>0, <1>2, <1>3, <1>4, <1>5, QueueSteps DEF WritesComplete

\* The spare records that storage_list.rs:145-147 retains are really there: a
\* collection (435-525) works from ranges of a cache that may have been filled by a
\* scan or by writes, while positions move under it, and never leaves fewer numbers
\* than the cache has slots for when there were as many, although power fails, calls
\* to read or to collect are cut short and the cache is reset.  Only writes must not
\* fail half way: the retry has the same number, and the duplicate takes the slot of
\* an older record.
THEOREM SparesAreKept ==
    ASSUME WritesComplete, MaxSeq < SeqLimit
    PROVE  Spec => BackupsKept
<1> DEFINE IInv == StoreInv /\ CompleteInv /\ BackupInv
           Enough == LET n == Cardinality(Numbers(queue)) IN
                     Cardinality(Numbers(queue')) >= IF n < Kept THEN n ELSE Kept
<1>0. "rot" \notin Events /\ "scan" \notin Events
  BY DEF WritesComplete
<1>1. Init => IInv
  BY InitStoreInv, InitCompleteInv, InitBackupInv
<1>2. IInv /\ [Next]_vars => IInv'
  BY <1>0, NextStoreInv, NextCompleteInv, NextBackupInv
<1>3. IInv /\ [Next]_vars => [Enough]_queue
  BY NextKeepsEnough DEF KeepsEnough
<1> QED
  BY <1>1, <1>2, <1>3, PTL DEF Spec, BackupsKept

-----------------------------------------------------------------------------
(***************************************************************************)
(* An element that rots.                                                   *)
(***************************************************************************)

\* Queue n is q with the element at i spoiled.
Spoils(q, n, i) ==
    /\ n \in Seq(Elem) /\ Len(n) = Len(q) /\ i \in DOMAIN q /\ n[i] = Bad
    /\ \A j \in DOMAIN q : j # i => n[j] = q[j]

\* A step of rot spoils one element, and counts.
LEMMA RotSpoils ==
    ASSUME TypeOK, Rot
    PROVE  /\ \E i \in DOMAIN queue : Spoils(queue, queue', i)
           /\ events' = events + 1
           /\ UNCHANGED << list, node, seqState, io, scan, wr, gc >>
<1>1. PICK i \in DOMAIN queue : queue[i] # Bad /\ queue' = ReplaceAt(queue, i, Bad)
  BY DEF Rot
<1>2. queue \in Seq(Elem) /\ Bad \in Elem
  BY ElemTypes DEF TypeOK
<1>3. ReplaceAt(queue, i, Bad) = [queue EXCEPT ![i] = Bad]
  BY <1>2 DEF ReplaceAt
<1>4. Spoils(queue, queue', i)
  BY <1>1, <1>2, <1>3 DEF Spoils
<1> QED
  BY <1>4 DEF Rot, Event

\* It is part of no record, and makes none.
LEMMA SpoilsRecords ==
    ASSUME NEW q \in Seq(Elem), NEW n, NEW i, Spoils(q, n, i), NEW lo, NEW hi
    PROVE  /\ IsRecord(n, lo, hi) => IsRecord(q, lo, hi) /\ i \notin lo .. hi /\ n[lo] = q[lo]
           /\ IsRecord(q, lo, hi) /\ i \notin lo .. hi => IsRecord(n, lo, hi) /\ n[lo] = q[lo]
<1>0. /\ n \in Seq(Elem) /\ Len(n) = Len(q) /\ Len(q) \in Nat /\ i \in 1 .. Len(q) /\ n[i].kind = "bad"
      /\ \A j \in 1 .. Len(q) : j # i => n[j] = q[j]
  BY DEF Spoils, Bad
<1>1. ASSUME IsRecord(n, lo, hi)
      PROVE  IsRecord(q, lo, hi) /\ i \notin lo .. hi /\ n[lo] = q[lo]
  <2>0. /\ lo \in 1 .. Len(q) /\ hi \in 1 .. Len(q) /\ lo < hi
        /\ n[lo].kind = "start" /\ n[hi].kind = "end"
        /\ \A j \in lo + 1 .. hi - 1 : n[j].kind = "data"
    BY <1>0, <1>1 DEF IsRecord
  <2>1. \A j \in lo .. hi : n[j].kind # "bad"
    BY <2>0
  <2>2. i \notin lo .. hi /\ \A j \in lo .. hi : q[j + 0] = n[j]
    BY <1>0, <2>0, <2>1
  <2>3. lo \in Int /\ hi \in Int /\ lo = lo + 0 /\ hi = hi + 0 /\ lo >= 1 /\ hi <= Len(q) /\ 0 \in Int
    BY <2>0
  <2>4. Moved(n, lo, hi, q, lo, hi, 0)
    BY <2>2, <2>3 DEF Moved
  <2>5. n \in Seq(Elem) /\ q \in Seq(Elem)
    BY <1>0
  <2>6. IsRecord(q, lo, hi) /\ q[lo] = n[lo]
    BY ONLY <1>1, <2>3, <2>4, <2>5, SameRecord
  <2> QED BY <2>2, <2>6
<1>2. ASSUME IsRecord(q, lo, hi), i \notin lo .. hi
      PROVE  IsRecord(n, lo, hi) /\ n[lo] = q[lo]
  <2>1. lo \in 1 .. Len(q) /\ hi \in 1 .. Len(q) /\ lo < hi
    BY <1>2 DEF IsRecord
  <2>2. \A j \in lo .. hi : n[j + 0] = q[j]
    BY <1>0, <1>2, <2>1
  <2>3. lo \in Int /\ hi \in Int /\ lo = lo + 0 /\ hi = hi + 0 /\ lo >= 1 /\ hi <= Len(n) /\ 0 \in Int
    BY <1>0, <2>1
  <2>4. Moved(q, lo, hi, n, lo, hi, 0)
    BY <2>2, <2>3 DEF Moved
  <2>5. n \in Seq(Elem) /\ q \in Seq(Elem)
    BY <1>0
  <2> QED BY ONLY <1>2, <2>3, <2>4, <2>5, SameRecord
<1> QED
  BY <1>1, <1>2

\* The good records that are left are those without the spoiled element.
LEMMA SpoilsGood ==
    ASSUME NEW q \in Seq(Elem), NEW n, NEW i, Spoils(q, n, i)
    PROVE  GoodRecords(n) = { r \in GoodRecords(q) : i \notin r.lo .. r.hi }
<1>0. n \in Seq(Elem)
  BY DEF Spoils
<1>1. ASSUME NEW r \in GoodRecords(n) PROVE r \in GoodRecords(q) /\ i \notin r.lo .. r.hi
  <2>1. r \in GoodWriteRecord /\ n[r.lo].seq = r.seq /\ IsRecord(n, r.lo, r.hi)
    BY <1>0, GoodRecordIs DEF RecordAt
  <2>2. IsRecord(q, r.lo, r.hi) /\ i \notin r.lo .. r.hi /\ n[r.lo] = q[r.lo]
    BY <2>1, SpoilsRecords
  <2>3. [seq |-> q[r.lo].seq, lo |-> r.lo, hi |-> r.hi] \in GoodRecords(q)
    BY <2>2, RecordIsGood
  <2>4. r = [seq |-> q[r.lo].seq, lo |-> r.lo, hi |-> r.hi]
    BY <2>1, <2>2 DEF GoodWriteRecord
  <2> QED BY <2>2, <2>3, <2>4
<1>2. ASSUME NEW r \in GoodRecords(q), i \notin r.lo .. r.hi PROVE r \in GoodRecords(n)
  <2>1. r \in GoodWriteRecord /\ q[r.lo].seq = r.seq /\ IsRecord(q, r.lo, r.hi)
    BY GoodRecordIs DEF RecordAt
  <2>2. IsRecord(n, r.lo, r.hi) /\ n[r.lo] = q[r.lo]
    BY <1>2, <2>1, SpoilsRecords
  <2>3. [seq |-> n[r.lo].seq, lo |-> r.lo, hi |-> r.hi] \in GoodRecords(n)
    BY <1>0, <2>2, RecordIsGood
  <2>4. r = [seq |-> n[r.lo].seq, lo |-> r.lo, hi |-> r.hi]
    BY <2>1, <2>2 DEF GoodWriteRecord
  <2> QED BY <2>3, <2>4
<1> QED
  BY <1>1, <1>2

\* The Starts that are left were there.
LEMMA SpoilsStarts ==
    ASSUME NEW q \in Seq(Elem), NEW n, NEW i, Spoils(q, n, i), NEW p \in Positions(n, "start")
    PROVE  p \in Positions(q, "start") /\ n[p] = q[p] /\ p # i
  BY DEF Spoils, Positions, Bad

-----------------------------------------------------------------------------
(***************************************************************************)
(* What the list knows when stored elements may rot.  The cache is what    *)
(* the storage was; what is still true of it is where its records began,   *)
(* that they do not overlap, and which of the good records it has.         *)
(***************************************************************************)

\* The cache has had room for everything so far.
Incomplete == Len(seqState.recs) < Kept

\* Position p is where a record of number s began.
BeginsAt(q, p, s) == q[p] \in { Start(s), Bad }

\* An element of the record being read has rotted behind the iterator.
Spoiled == Scanning /\ scan.from # 0 /\ \E j \in scan.from .. scan.at - 1 : queue[j] = Bad

\* What the scan remembers is what the storage was between its Start and the iterator.
ScanTells ==
    Scanning =>
        /\ scan.at <= Len(queue) + 1
        /\ scan.from # 0 =>
             /\ scan.from < scan.at /\ scan.seq <= MaxSeq
             /\ BeginsAt(queue, scan.from, scan.seq)
             /\ \A j \in scan.from + 1 .. scan.at - 1 : queue[j].kind \in { "data", "bad" }
             /\ ~ Spoiled => scan.crc = SubSeq(queue, scan.from + 1, scan.at - 1)

\* A collection works without a cache; what is due for one has been seen.
CacheTaken == io = "collect" => seqState = NewSeqState
DueIsSeen  == seqState.gc => AnySeen(seqState)

\* The records of the cache: where they are, and that no Start but their own is
\* in their ranges, nor is the element that is pushed next.
InRange(c) ==
    /\ c.lo \in DOMAIN queue /\ BeginsAt(queue, c.lo, c.seq)
    /\ c.lo < c.hi /\ c.seq <= MaxSeq
    /\ ~ seqState.gc => c.hi <= Len(queue)
    /\ Scanning => c.hi < scan.at /\ (scan.from # 0 => c.hi < scan.from)
    /\ Incomplete => \A p \in Starts : p \in c.lo .. c.hi => queue[p].seq = c.seq

RangeInv == \A c \in Recs : InRange(c)

\* No record is in two slots.
OncePerStart == Distinct(seqState.recs) /\ \A c, d \in Recs : c.lo = d.lo => c = d

\* The cache has the good record r.
Cached(r) == \E c \in Recs : c.lo = r.lo /\ r.hi <= c.hi /\ c.seq = r.seq

\* A cache with room to spare has the good records that the scan has passed ...
ScanHasAll == Scanning /\ Incomplete => \A r \in GoodBelow : Cached(r)

\* ... and after it all but those that a write has left whose read-back failed.
\* They have the next number, until the read-back of another of that number succeeds.
Known == io \in { "idle", "push", "verify" } /\ ScanCompleted(seqState)

CacheHasAll ==
    Known /\ Incomplete =>
        \A r \in Good : \/ Cached(r)
                        \/ seqState.gc /\ r.seq \in Nums(Recs)
                        \/ ~ seqState.gc /\ r.seq = seqState.next

\* What follows such a record has its number.
RetriesFollow ==
    Known /\ Incomplete /\ ~ seqState.gc =>
        \A r \in Good, p \in Starts :
            r.seq = seqState.next /\ r.lo < p => queue[p].seq = seqState.next

\* A fault spoils one record at most, of those in the cache and the one being read.
Dead == { c \in Recs : ~ Genuine(queue, c) }
DeadInv == Cardinality(Dead) + (IF Spoiled THEN 1 ELSE 0) <= events

CacheInv ==
    /\ TypeInv /\ NumberInv /\ WriteInv /\ ScanOpen
    /\ ScanTells /\ CacheTaken /\ DueIsSeen /\ RangeInv /\ OncePerStart
    /\ ScanHasAll /\ CacheHasAll /\ RetriesFollow /\ DeadInv

\* The steps of the proof: rot, or what a step does to the cache and the storage.
LEMMA SpareSteps ==
    ASSUME "scan" \notin Events, TypeOK, [Next]_vars
    PROVE  \/ Rot \/ Quiet \/ Ends \/ Forgets \/ ScanEnds
           \/ BeginWrites \/ PushData \/ PushEnd \/ VerifyGood
           \/ CollectElement \/ BeginScan \/ EndCollect \/ (Scanning /\ ScanElement)
  BY StoreSteps

\* Faults are counted, and nothing else is.
LEMMA EventsGrow ==
    ASSUME TypeOK, [Next]_vars
    PROVE  events \in Nat /\ events' \in Nat /\ events <= events'
<1>1. events \in 0 .. MaxEvents /\ MaxEvents \in Nat
  BY Constants DEF TypeOK
<1>2. events' = events \/ events' = events + 1
  <2>1. CASE UNCHANGED vars
    BY <2>1 DEF vars
  <2>2. CASE UserStep
    BY <2>2 DEF UserStep, Attach, TakeDefault, Detach, Write, ResetCache, Event, NoEvent
  <2>3. ASSUME NEW ss, NEW ok \in BOOLEAN, ReadRecord(ss, ok)
        PROVE  events' = events \/ events' = events + 1
    BY <2>3 DEF ReadRecord, ReadAll, ReadFails, Schema, Event, NoEvent
  <2>4. CASE \E ok \in BOOLEAN : ProcessReads(ok) \/ EndReadScan(ok)
    BY <2>3, <2>4 DEF ProcessReads, EndReadScan
  <2>5. CASE BeginWrites \/ PushEnd
    BY <2>5 DEF BeginWrites, PushEnd, Push, Event, NoEvent
  <2>6. CASE PushData
    BY <2>6 DEF PushData, Push, Event, NoEvent
  <2>7. CASE BeginScan \/ ScanElement \/ StorageFull \/ VerifyGood \/ VerifyBad
             \/ BeginGarbage \/ CollectElement \/ EndCollect \/ EndGcScan
    BY <2>7 DEF BeginScan, ScanElement, StorageFull, VerifyGood, VerifyBad, BeginGarbage,
       CollectElement, EndCollect, EndGcScan, NoEvent
  <2>8. CASE FaultStep
    BY <2>8 DEF FaultStep, Interrupt, Crash, Rot, Event
  <2> QED
    BY <2>1, <2>2, <2>4, <2>5, <2>6, <2>7, <2>8 DEF Next, IoStep
<1> QED
  BY <1>1, <1>2

\* The types of what the invariant is about.
LEMMA StoreTypes ==
    ASSUME TypeInv
    PROVE  /\ queue \in Seq(Elem) /\ Len(queue) \in Nat /\ DOMAIN queue = 1 .. Len(queue)
           /\ scan \in [at : Nat \ {0}, from : Nat, seq : SeqNo, crc : Seq(DataElem)]
           /\ scan.at \in Nat \ {0} /\ scan.from \in Nat /\ scan.seq \in Nat
           /\ seqState \in SeqStates /\ seqState.recs \in Seq(GoodWriteRecord)
           /\ Len(seqState.recs) \in Nat /\ Len(seqState.recs) <= Kept
           /\ seqState.next \in Nat /\ wr.seq \in SeqNo /\ SeqNo \subseteq Nat
           /\ \A c \in Recs : c \in GoodWriteRecord /\ c.seq \in Nat /\ c.lo \in Nat /\ c.hi \in Nat
           /\ Recs = Held(seqState.recs)
<1>1. /\ queue \in Seq(Elem) /\ seqState \in SeqStates /\ Consistent(seqState) /\ wr.seq \in SeqNo
      /\ scan \in [at : Nat \ {0}, from : Nat, seq : SeqNo, crc : Seq(DataElem)]
  BY DEF TypeInv, TypeOK, CacheOrdered
<1>2. SeqNo \subseteq Nat
  BY Constants DEF SeqNo
<1>3. seqState.recs \in Seq(GoodWriteRecord) /\ seqState.next \in Nat
  BY <1>1, Constants DEF SeqStates
<1>4. \A c \in Recs : c \in GoodWriteRecord /\ c.seq \in Nat /\ c.lo \in Nat /\ c.hi \in Nat
  <2>1. \A c \in Recs : c \in GoodWriteRecord
    BY <1>3 DEF Recs
  <2> QED BY <1>2, <2>1 DEF GoodWriteRecord
<1>5. Recs = Held(seqState.recs)
  BY DEF Recs, Held
<1>6. scan.at \in Nat \ {0} /\ scan.from \in Nat /\ scan.seq \in Nat
  BY <1>1, <1>2
<1> QED
  BY <1>1, <1>2, <1>3, <1>4, <1>5, <1>6 DEF Consistent

-----------------------------------------------------------------------------
(***************************************************************************)
(* The cache, apart from the storage.                                      *)
(***************************************************************************)

\* The cache is empty or its newest record is older than the next.
LEMMA CachedOlder ==
    ASSUME TypeInv, RangeInv, MaxSeq < SeqLimit
    PROVE  /\ \A c \in Recs : c.seq < seqState.next
           /\ ~ ScanCompleted(seqState) => seqState.recs = << >> /\ Recs = {}
<1>0. /\ seqState.recs \in Seq(GoodWriteRecord) /\ Consistent(seqState)
      /\ MaxSeq \in Nat /\ SeqLimit \in Nat
  BY StoreTypes, Constants DEF TypeInv, CacheOrdered, SeqNo
<1>1. CASE AnySeen(seqState)
  <2> DEFINE h == HighestSeen(seqState)
  <2>1. h \in Recs /\ seqState.next = CheckedNext(h.seq)
    BY <1>0, <1>1, HighestIsHeld DEF Consistent
  <2> HIDE DEF h
  <2>2. h.seq <= MaxSeq /\ h.seq \in Nat
    BY <2>1, StoreTypes DEF RangeInv, InRange
  <2>3. seqState.next = h.seq + 1
    BY <1>0, <2>1, <2>2 DEF CheckedNext
  <2>4. ASSUME NEW c \in Recs PROVE c.seq <= h.seq
    <3>1. PICK i \in DOMAIN seqState.recs : c = seqState.recs[i]
      BY DEF Recs
    <3>2. i \in 1 .. Len(seqState.recs) /\ Len(seqState.recs) \in DOMAIN seqState.recs
      BY <1>0, <1>1 DEF AnySeen
    <3>3. i = Len(seqState.recs) \/ ~ Newer(seqState.recs[i], seqState.recs[Len(seqState.recs)])
      BY <1>0, <3>2 DEF Consistent, Ordered
    <3>4. c = h \/ ~ Newer(c, h)
      BY <3>1, <3>3 DEF h, HighestSeen
    <3>5. c.seq \in Nat
      BY StoreTypes
    <3> QED BY <2>2, <3>4, <3>5 DEF Newer
  <2>5. \A c \in Recs : c.seq < seqState.next
    <3>1. \A c \in Recs : c.seq \in Nat
      BY StoreTypes
    <3> QED BY <2>2, <2>3, <2>4, <3>1
  <2> QED BY <2>2, <2>3, <2>5 DEF ScanCompleted
<1>2. CASE ~ AnySeen(seqState)
  <2>1. Recs = {}
    BY <1>2 DEF AnySeen, Recs
  <2> QED BY <1>2, <2>1 DEF AnySeen
<1> QED
  BY <1>1, <1>2

\* What an insertion does, if the record is not in the cache.
LEMMA InsertNew ==
    ASSUME TypeInv, OncePerStart, NEW rec \in GoodWriteRecord,
           seqState' = InsertGood(seqState, rec), \A c \in Recs : c.lo # rec.lo
    PROVE  /\ OncePerStart'
           /\ Recs' \subseteq Recs \cup {rec}
           /\ Incomplete' => Incomplete /\ Recs' = Recs \cup {rec}
           /\ (seqState' = seqState /\ AnySeen(seqState)) \/ (seqState'.gc /\ AnySeen(seqState'))
           /\ (\A c \in Recs : c.seq < rec.seq) => seqState'.gc
<1>0. /\ seqState \in SeqStates /\ Consistent(seqState) /\ Recs = Held(seqState.recs)
      /\ Recs' = Held(seqState'.recs) /\ Len(seqState.recs) \in Nat /\ Kept \in Nat
  BY StoreTypes, Constants DEF TypeInv, CacheOrdered, Recs, Held
<1>1. rec \notin Recs
  OBVIOUS
<1>2. /\ Recs' \subseteq Recs \cup {rec}
      /\ Len(seqState.recs) < Kept => Recs' = Recs \cup {rec}
      /\ Len(seqState.recs) >= Kept => Len(seqState'.recs) >= Kept
      /\ Distinct(seqState.recs) /\ rec \notin Recs => Distinct(seqState'.recs)
  BY <1>0, InsertGoodHeld
<1>3. OncePerStart'
  BY <1>1, <1>2 DEF OncePerStart
<1>4. seqState' \in SeqStates
  BY <1>0, InsertGoodProperties DEF Consistent
<1>5. Incomplete' => Incomplete /\ Recs' = Recs \cup {rec}
  <2>1. Len(seqState'.recs) \in Nat
    BY <1>4 DEF SeqStates
  <2> QED BY <1>0, <1>2, <2>1 DEF Incomplete
<1>6. \/ seqState' = seqState /\ AnySeen(seqState) /\ ~ HighestSeen(seqState).seq < rec.seq
      \/ seqState'.gc /\ AnySeen(seqState')
  <2>1. /\ \/ seqState' = seqState /\ rec.seq < HighestSeen(seqState).seq
           \/ seqState'.gc
        /\ AnySeen(seqState')
    BY <1>0, InsertGoodHighest
  <2>2. AnySeen(seqState) => HighestSeen(seqState).seq \in Nat /\ rec.seq \in Nat
    <3>1. rec.seq \in Nat
      BY StoreTypes DEF GoodWriteRecord
    <3> QED BY <3>1, HighestIsHeld, StoreTypes
  <2> QED BY <2>1, <2>2
<1>7. (\A c \in Recs : c.seq < rec.seq) => seqState'.gc
  BY <1>6, HighestIsHeld
<1> QED
  BY <1>2, <1>3, <1>5, <1>6, <1>7

\* The cache has finitely many records.
LEMMA CacheFinite ==
    ASSUME TypeInv
    PROVE  IsFiniteSet(Recs) /\ IsFiniteSet(Dead) /\ Cardinality(Dead) \in Nat
<1>1. seqState.recs \in Seq(GoodWriteRecord) /\ Len(seqState.recs) \in Nat
  BY StoreTypes
<1>2. IsFiniteSet(1 .. Len(seqState.recs))
  BY <1>1, UpTo
<1> DEFINE f == [i \in 1 .. Len(seqState.recs) |-> seqState.recs[i]]
<1>3. f \in Surjection(1 .. Len(seqState.recs), Recs)
  BY <1>1 DEF Surjection, Recs
<1> HIDE DEF f
<1>4. IsFiniteSet(Recs)
  BY <1>2, <1>3, FS_Surjection
<1>5. IsFiniteSet(Dead)
  BY <1>4, FS_Subset DEF Dead
<1> QED
  BY <1>4, <1>5, FS_CardinalityType

\* One more at most than there were, if all but one of them were there.
LEMMA OneMore ==
    ASSUME NEW D, IsFiniteSet(D), NEW E, NEW x, E \subseteq D \cup {x}
    PROVE  /\ Cardinality(D) \in Nat /\ Cardinality(E) \in Nat /\ IsFiniteSet(E)
           /\ Cardinality(E) <= Cardinality(D) + 1
           /\ E \subseteq D => Cardinality(E) <= Cardinality(D)
<1>1. IsFiniteSet(D \cup {x}) /\ Cardinality(D \cup {x}) <= Cardinality(D) + 1
  <2>1. /\ IsFiniteSet(D \cup {x})
        /\ Cardinality(D \cup {x}) = IF x \in D THEN Cardinality(D) ELSE Cardinality(D) + 1
    BY FS_AddElement
  <2> QED BY <2>1, FS_CardinalityType
<1>2. IsFiniteSet(E) /\ Cardinality(E) <= Cardinality(D \cup {x})
  BY <1>1, FS_Subset
<1>3. Cardinality(D) \in Nat /\ Cardinality(E) \in Nat /\ Cardinality(D \cup {x}) \in Nat
  BY <1>1, <1>2, FS_CardinalityType
<1>4. E \subseteq D => Cardinality(E) <= Cardinality(D)
  BY FS_Subset
<1> QED
  BY <1>1, <1>2, <1>3, <1>4

-----------------------------------------------------------------------------
(***************************************************************************)
(* The scan.                                                               *)
(***************************************************************************)

\* The same elements, between the same positions.
LEMMA SameBetween ==
    ASSUME NEW q \in Seq(Elem), NEW n \in Seq(Elem), NEW x \in Int, NEW y \in Int, x < y,
           \A j \in x + 1 .. y - 1 : q[j] \in Elem /\ n[j] = q[j]
    PROVE  SubSeq(n, x + 1, y - 1) = SubSeq(q, x + 1, y - 1)
<1> DEFINE s == SubSeq(n, x + 1, y - 1)
           t == SubSeq(q, x + 1, y - 1)
<1>1. s \in Seq(Elem) /\ Len(s) = y - x - 1 /\ \A j \in 1 .. y - x - 1 : s[j] = n[x + j]
  BY Between
<1>2. t \in Seq(Elem) /\ Len(t) = y - x - 1 /\ \A j \in 1 .. y - x - 1 : t[j] = q[x + j]
  BY Between
<1>3. \A j \in 1 .. y - x - 1 : n[x + j] = q[x + j]
  <2>1. ASSUME NEW j \in 1 .. y - x - 1 PROVE x + j \in x + 1 .. y - 1
    OBVIOUS
  <2> QED BY <2>1
<1> HIDE DEF s, t
<1>4. \A j \in 1 .. Len(s) : s[j] = t[j]
  BY <1>1, <1>2, <1>3
<1>5. s = t
  BY <1>1, <1>2, <1>4, SeqEqual
<1> QED
  BY <1>5 DEF s, t

\* While nothing it has read has rotted, the scan remembers what the storage holds.
LEMMA UnspoiledScan ==
    ASSUME TypeInv, ScanTells, ~ Spoiled
    PROVE  ScanInv
<1> SUFFICES ASSUME Scanning PROVE ScanInv
  BY DEF ScanInv, Scanning
<1>1. scan.at <= Len(queue) + 1
  BY DEF ScanTells
<1>2. CASE scan.from # 0
  <2>1. /\ scan.from < scan.at
        /\ BeginsAt(queue, scan.from, scan.seq)
        /\ \A j \in scan.from + 1 .. scan.at - 1 : queue[j].kind \in { "data", "bad" }
        /\ scan.crc = SubSeq(queue, scan.from + 1, scan.at - 1)
    BY <1>2 DEF ScanTells
  <2>2. \A j \in scan.from .. scan.at - 1 : queue[j] # Bad
    BY <1>2 DEF Spoiled
  <2>3. scan.from \in Nat /\ scan.at \in Nat /\ Len(queue) \in Nat /\ queue \in Seq(Elem)
    BY StoreTypes
  <2>4. queue[scan.from] = Start(scan.seq)
    BY <2>1, <2>2, <2>3 DEF BeginsAt
  <2>5. ASSUME NEW j \in scan.from + 1 .. scan.at - 1 PROVE queue[j].kind = "data"
    <3>1. j \in 1 .. Len(queue) /\ j \in scan.from .. scan.at - 1
      BY <1>1, <2>3
    <3>2. queue[j] \in Elem /\ queue[j] # Bad /\ queue[j].kind \in { "data", "bad" }
      BY <2>1, <2>2, <2>3, <3>1
    <3> QED BY <3>2 DEF Elem, StartElem, DataElem, EndElem, BadElem, Bad
  <2> QED BY <1>1, <2>1, <2>4, <2>5 DEF ScanInv
<1> QED
  BY <1>1, <1>2 DEF ScanInv

\* An element that the scan visits does not make the record it reads a spoiled one.
LEMMA PastSpoils ==
    ASSUME TypeInv, ScanTells, Scanning, ScanElement
    PROVE  /\ queue[scan.at] \in Elem /\ scan.at \in 1 .. Len(queue)
           /\ scan' = Past(queue[scan.at]) /\ UNCHANGED << queue, io >> /\ Scanning'
           /\ scan'.at = scan.at + 1
           /\ scan'.from \in { 0, scan.at, scan.from }
           /\ scan'.from = scan.from /\ scan.from # 0 =>
                 queue[scan.at].kind = "data" /\ scan'.seq = scan.seq /\ (Spoiled <=> Spoiled')
           /\ scan'.from # scan.from => ~ Spoiled'
           /\ scan'.from = scan.at =>
                 scan.at \in Starts /\ scan' = [at |-> scan.at + 1, from |-> scan.at,
                                                seq |-> queue[scan.at].seq, crc |-> << >>]
<1> DEFINE e == queue[scan.at]
<1>1. /\ scan' = Past(e) /\ UNCHANGED << queue, io >>
      /\ scan.at \in 1 .. Len(queue) /\ Len(queue) \in Nat /\ e \in Elem
      /\ scan.at \in Nat \ {0} /\ scan.from \in Nat
  BY StoreTypes DEF ScanElement
<1>2. Scanning'
  BY <1>1 DEF Scanning
<1>3. scan.from # 0 => scan.from < scan.at
  BY DEF ScanTells
<1>4. CASE e.kind = "start"
  <2>1. scan' = [at |-> scan.at + 1, from |-> scan.at, seq |-> e.seq, crc |-> << >>]
    BY <1>1, <1>4 DEF Past
  <2>2. scan'.from = scan.at /\ scan'.at = scan.at + 1 /\ scan.at \in Starts
    BY <1>1, <1>4, <2>1 DEF Positions, Starts
  <2>3. \A j \in scan'.from .. scan'.at - 1 : queue'[j] # Bad
    BY <1>1, <1>4, <2>2 DEF Bad
  <2>4. ~ Spoiled'
    BY <2>3 DEF Spoiled
  <2> QED BY <1>1, <1>2, <1>3, <2>1, <2>2, <2>4
<1>5. CASE e.kind = "data" /\ scan.from # 0
  <2>1. scan' = [scan EXCEPT !.at = @ + 1, !.crc = Append(@, e)]
    BY <1>1, <1>5 DEF Past
  <2>2. scan'.from = scan.from /\ scan'.at = scan.at + 1 /\ scan'.seq = scan.seq
    BY <2>1, StoreTypes
  <2>3. e # Bad
    BY <1>5 DEF Bad
  <2>4. \A j \in scan.from .. scan.at : j \in scan.from .. scan.at - 1 \/ j = scan.at
    BY <1>1
  <2>5. \A j \in scan.from .. scan.at - 1 : j \in scan.from .. scan.at
    BY <1>1
  <2>6. scan'.at - 1 = scan.at
    BY <1>1, <2>2
  <2>7. Spoiled <=> Spoiled'
    BY <1>1, <1>2, <1>5, <2>2, <2>3, <2>4, <2>5, <2>6 DEF Spoiled
  <2> QED BY <1>1, <1>2, <1>3, <1>5, <2>2, <2>7
<1>6. CASE e.kind # "start" /\ ~ (e.kind = "data" /\ scan.from # 0)
  <2>1. scan' = [NoScan EXCEPT !.at = scan.at + 1]
    BY <1>1, <1>6 DEF Past
  <2>2. scan'.from = 0 /\ scan'.at = scan.at + 1
    BY <2>1 DEF NoScan
  <2>3. ~ Spoiled'
    BY <2>2 DEF Spoiled
  <2> QED BY <1>1, <1>2, <2>2, <2>3
<1> QED
  BY <1>4, <1>5, <1>6

\* An element that rots makes no Start, and what has been read does not come back.
LEMMA RotKeepsScan ==
    ASSUME TypeInv, NumberInv, WriteInv, ScanOpen, ScanTells, Rot
    PROVE  NumberInv' /\ WriteInv' /\ ScanOpen' /\ ScanTells' /\ (Spoiled => Spoiled')
<1>1. PICK i \in DOMAIN queue : Spoils(queue, queue', i)
  BY RotSpoils DEF TypeInv
<1>2. UNCHANGED << seqState, io, scan, wr, gc >>
  BY RotSpoils DEF TypeInv
<1>3. /\ queue \in Seq(Elem) /\ queue' \in Seq(Elem) /\ Len(queue) \in Nat
      /\ Len(queue') = Len(queue) /\ queue'[i] = Bad
      /\ \A j \in 1 .. Len(queue) : j # i => queue'[j] = queue[j]
      /\ scan.at \in Nat \ {0} /\ scan.from \in Nat
  BY <1>1, StoreTypes DEF Spoils
<1>4. \A j \in 1 .. Len(queue) : queue'[j] = queue[j] \/ queue'[j] = Bad
  BY <1>3
<1>5. NumberInv'
  <2>1. ASSUME NEW p \in Positions(queue', "start") PROVE queue'[p].seq <= MaxSeq
    <3>1. p \in Positions(queue, "start") /\ queue'[p] = queue[p]
      BY <1>1, <1>3, <2>1, SpoilsStarts
    <3> QED BY <3>1 DEF NumberInv, Starts
  <2> QED BY <2>1 DEF NumberInv, Starts
<1>6. WriteInv'
  BY <1>2 DEF WriteInv
<1>7. CASE ~ Scanning
  BY <1>2, <1>5, <1>6, <1>7 DEF Scanning, ScanOpen, ScanTells, Spoiled
<1>8. CASE Scanning
  <2>1. Scanning' /\ scan.at <= Len(queue) + 1
    BY <1>2, <1>8 DEF Scanning, ScanTells
  <2>2. ScanOpen'
    <3>1. ASSUME NEW p \in 1 .. scan.at - 1, queue'[p].kind = "start",
                 \A j \in p + 1 .. scan.at - 1 : queue'[j].kind = "data"
          PROVE  scan.from = p
      <4>1. \A j \in p .. scan.at - 1 : j \in 1 .. Len(queue) /\ (j = p \/ j \in p + 1 .. scan.at - 1)
        BY <1>3, <2>1
      <4>2. \A j \in p .. scan.at - 1 : queue'[j] # Bad
        BY <3>1, <4>1 DEF Bad
      <4>3. \A j \in p .. scan.at - 1 : queue'[j] = queue[j]
        BY <1>4, <4>1, <4>2
      <4>4. p \in p .. scan.at - 1 /\ \A j \in p + 1 .. scan.at - 1 : j \in p .. scan.at - 1
        BY <1>3
      <4>5. queue[p].kind = "start" /\ \A j \in p + 1 .. scan.at - 1 : queue[j].kind = "data"
        BY <3>1, <4>3, <4>4
      <4> QED BY <1>8, <4>5 DEF ScanOpen
    <3> QED BY <1>2, <3>1 DEF ScanOpen
  <2>3. Spoiled => Spoiled'
    <3>1. ASSUME NEW j \in scan.from .. scan.at - 1, queue[j] = Bad, scan.from # 0 PROVE queue'[j] = Bad
      <4>1. j \in 1 .. Len(queue)
        BY <1>3, <2>1, <3>1
      <4> QED BY <1>4, <3>1, <4>1
    <3> QED BY <1>2, <2>1, <3>1 DEF Spoiled
  <2>4. ASSUME scan.from # 0
        PROVE  /\ scan.from < scan.at /\ scan.seq <= MaxSeq
               /\ BeginsAt(queue', scan.from, scan.seq)
               /\ \A j \in scan.from + 1 .. scan.at - 1 : queue'[j].kind \in { "data", "bad" }
               /\ ~ Spoiled' => scan.crc = SubSeq(queue', scan.from + 1, scan.at - 1)
    <3>1. /\ scan.from < scan.at /\ scan.seq <= MaxSeq
          /\ BeginsAt(queue, scan.from, scan.seq)
          /\ \A j \in scan.from + 1 .. scan.at - 1 : queue[j].kind \in { "data", "bad" }
          /\ ~ Spoiled => scan.crc = SubSeq(queue, scan.from + 1, scan.at - 1)
      BY <1>8, <2>4 DEF ScanTells
    <3>2. \A j \in scan.from .. scan.at - 1 : j \in 1 .. Len(queue)
      BY <1>3, <2>1, <2>4
    <3>3. scan.from \in scan.from .. scan.at - 1 /\ \A j \in scan.from + 1 .. scan.at - 1 : j \in scan.from .. scan.at - 1
      BY <1>3, <3>1
    <3>4. BeginsAt(queue', scan.from, scan.seq)
      BY <1>4, <3>1, <3>2, <3>3 DEF BeginsAt
    <3>5. \A j \in scan.from + 1 .. scan.at - 1 : queue'[j].kind \in { "data", "bad" }
      BY <1>4, <3>1, <3>2, <3>3 DEF Bad
    <3>6. ASSUME ~ Spoiled' PROVE scan.crc = SubSeq(queue', scan.from + 1, scan.at - 1)
      <4>1. \A j \in scan.from .. scan.at - 1 : queue'[j] # Bad
        BY <1>2, <2>1, <2>4, <3>6 DEF Spoiled
      <4>2. \A j \in scan.from .. scan.at - 1 : queue'[j] = queue[j]
        BY <1>4, <3>2, <4>1
      <4>3. \A j \in scan.from + 1 .. scan.at - 1 : queue[j] \in Elem /\ queue'[j] = queue[j]
        BY <1>3, <3>2, <3>3, <4>2
      <4>4. scan.from \in Int /\ scan.at \in Int
        BY <1>3
      <4>5. SubSeq(queue', scan.from + 1, scan.at - 1) = SubSeq(queue, scan.from + 1, scan.at - 1)
        BY <1>3, <3>1, <4>3, <4>4, SameBetween
      <4> QED BY <2>3, <3>1, <3>6, <4>5
    <3> QED BY <3>1, <3>4, <3>5, <3>6
  <2>5. ScanTells'
    BY <1>2, <1>3, <2>1, <2>4 DEF ScanTells
  <2> QED BY <1>5, <1>6, <2>2, <2>3, <2>5
<1> QED
  BY <1>7, <1>8

\* Every step keeps what the scan knows.
LEMMA NextScanTells ==
    ASSUME "scan" \notin Events, TypeInv, NumberInv, WriteInv, ScanOpen, ScanTells, [Next]_vars
    PROVE  NumberInv' /\ WriteInv' /\ ScanOpen' /\ ScanTells'
<1>1. CASE Rot
  BY <1>1, RotKeepsScan
<1>2. CASE ~ Rot
  <2>1. NumberInv' /\ WriteInv' /\ ScanOpen'
    BY <1>2, NextNumberInv, NextWriteInv, NextScanOpen DEF TypeInv
  <2> SUFFICES ASSUME Scanning' PROVE ScanTells'
    BY <2>1 DEF ScanTells
  <2>2. CASE Scanning /\ UNCHANGED << queue, seqState, scan >>
    <3>1. Spoiled' <=> Spoiled
      BY <2>2 DEF Spoiled
    <3> QED BY <2>2, <3>1 DEF ScanTells
  <2>3. CASE BeginScan \/ EndCollect
    <3>1. scan' = NoScan /\ queue' = queue
      BY <2>3 DEF BeginScan, EndCollect
    <3>2. scan'.from = 0 /\ scan'.at = 1 /\ Len(queue) \in Nat
      BY <3>1, StoreTypes DEF NoScan
    <3>3. scan'.at <= Len(queue') + 1
      BY <3>1, <3>2
    <3> QED BY <3>2, <3>3 DEF ScanTells
  <2>4. CASE Scanning /\ ScanElement
    <3>0. /\ UNCHANGED queue /\ scan.at \in 1 .. Len(queue) /\ Len(queue) \in Nat
          /\ scan'.at = scan.at + 1 /\ scan'.from \in { 0, scan.at, scan.from }
          /\ scan.from \in Nat
      BY <2>4, PastSpoils, StoreTypes
    <3>1. CASE scan'.from = scan.at
      <4>1. /\ scan.at \in Starts
            /\ scan' = [at |-> scan.at + 1, from |-> scan.at, seq |-> queue[scan.at].seq, crc |-> << >>]
        BY <2>4, <3>1, PastSpoils
      <4>2. scan'.seq = queue[scan.at].seq /\ scan'.crc = << >>
        BY <4>1
      <4>3. queue[scan.at] = Start(queue[scan.at].seq) /\ queue[scan.at].seq <= MaxSeq
        BY <4>1, StartsAre, StoreTypes DEF NumberInv, Starts
      <4>4. SubSeq(queue', scan.at + 1, scan.at) = << >>
        BY <3>0, StoreTypes
      <4>5. scan'.at - 1 = scan.at
        BY <3>0
      <4>6. scan'.at <= Len(queue') + 1 /\ scan'.from < scan'.at
        BY <3>0, <3>1
      <4>7. \A j \in scan'.from + 1 .. scan'.at - 1 : FALSE
        BY <3>0, <3>1
      <4> QED BY <3>0, <3>1, <4>2, <4>3, <4>4, <4>5, <4>6, <4>7 DEF ScanTells, BeginsAt
    <3>2. CASE scan'.from = 0
      <4>1. scan'.at <= Len(queue') + 1
        BY <3>0
      <4> QED BY <3>2, <4>1 DEF ScanTells
    <3>3. CASE scan'.from = scan.from /\ scan.from # 0
      <4>1. /\ queue[scan.at].kind = "data" /\ scan'.seq = scan.seq
            /\ Spoiled <=> Spoiled'
        BY <2>4, <3>3, PastSpoils
      <4>2. /\ scan.from < scan.at /\ scan.seq <= MaxSeq
            /\ BeginsAt(queue, scan.from, scan.seq)
            /\ \A j \in scan.from + 1 .. scan.at - 1 : queue[j].kind \in { "data", "bad" }
        BY <2>4, <3>3 DEF ScanTells
      <4>3. scan'.from < scan'.at /\ scan'.at <= Len(queue') + 1
        BY <3>0, <3>3, <4>2
      <4>4. ASSUME NEW j \in scan'.from + 1 .. scan'.at - 1
            PROVE  queue'[j].kind \in { "data", "bad" }
        <5>1. j \in scan.from + 1 .. scan.at - 1 \/ j = scan.at
          BY <3>0, <3>3, <4>2
        <5> QED BY <3>0, <4>1, <4>2, <5>1
      <4>5. ASSUME ~ Spoiled' PROVE scan'.crc = SubSeq(queue', scan'.from + 1, scan'.at - 1)
        <5>1. ScanInv
          BY <4>1, <4>5, UnspoiledScan
        <5>2. ScanInv'
          BY <2>4, <5>1, PastKeepsScan
        <5> QED BY <3>3, <5>2 DEF ScanInv, Scanning
      <4> QED BY <3>0, <3>3, <4>1, <4>2, <4>3, <4>4, <4>5 DEF ScanTells
    <3> QED BY <3>0, <3>1, <3>2, <3>3
  <2> QED BY <1>2, <2>1, <2>2, <2>3, <2>4, ScanSteps
<1> QED
  BY <1>1, <1>2

-----------------------------------------------------------------------------
(***************************************************************************)
(* The ranges of the cache.                                                *)
(***************************************************************************)

\* What a scan inserts, and that it inserts nothing else.
LEMMA ScanInserts ==
    ASSUME TypeInv, ScanTells, RangeInv, Scanning, ScanElement
    PROVE  /\ UNCHANGED queue
           /\ \/ ~ Closes(queue[scan.at]) /\ seqState' = seqState
              \/ /\ Closes(queue[scan.at]) /\ scan.from # 0 /\ queue[scan.at].kind = "end"
                 /\ \E rec \in GoodWriteRecord :
                       /\ rec = [seq |-> scan.seq, lo |-> scan.from, hi |-> scan.at]
                       /\ seqState' = InsertGood(seqState, rec)
                       /\ \A c \in Recs : c.lo # rec.lo
<1> DEFINE e == queue[scan.at]
           rec == [seq |-> e.seq, lo |-> scan.from, hi |-> scan.at]
<1>1. /\ UNCHANGED queue
      /\ seqState' = IF Closes(e) THEN InsertGood(seqState, rec) ELSE seqState
  BY DEF ScanElement
<1>2. e \in Elem /\ scan.from \in Nat /\ scan.at \in Nat \ {0}
  BY PastSpoils, StoreTypes
<1>3. CASE Closes(e)
  <2>1. e.kind = "end" /\ scan.from # 0 /\ e.seq = scan.seq
    BY <1>3 DEF Closes
  <2>2. e.seq \in SeqNo
    BY <1>2, <2>1, ElemKinds
  <2>3. rec \in GoodWriteRecord
    BY <1>2, <2>1, <2>2 DEF GoodWriteRecord
  <2>4. ASSUME NEW c \in Recs PROVE c.lo # scan.from
    <3>1. c.lo < c.hi /\ c.hi < scan.from /\ c.lo \in Nat /\ c.hi \in Nat
      BY <2>1, StoreTypes DEF RangeInv, InRange
    <3> QED BY <1>2, <3>1
  <2> QED BY <1>1, <1>3, <2>1, <2>3, <2>4
<1> QED
  BY <1>1, <1>3

\* What a read-back inserts.
LEMMA VerifyInserts ==
    ASSUME TypeInv, WriteInv, RangeInv, MaxSeq < SeqLimit, VerifyGood
    PROVE  /\ UNCHANGED queue /\ io = "verify" /\ io' = "idle"
           /\ ~ seqState.gc /\ ScanCompleted(seqState)
           /\ \A c \in Recs : c.seq < seqState.next
           /\ \E rec \in GoodWriteRecord : \E hi \in DOMAIN queue :
                 /\ rec.seq = seqState.next /\ rec.hi = hi + 1
                 /\ FirstStart(queue, rec.seq, rec.lo) /\ IsRecord(queue, rec.lo, hi)
                 /\ seqState' = InsertGood(seqState, rec)
                 /\ \A c \in Recs : c.lo # rec.lo
<1>1. PICK lo, hi \in DOMAIN queue :
         /\ Verified(lo, hi)
         /\ seqState' = InsertGood(seqState, [seq |-> wr.seq, lo |-> lo, hi |-> hi + 1])
  BY DEF VerifyGood
<1>2. UNCHANGED queue /\ io = "verify" /\ io' = "idle"
  BY DEF VerifyGood
<1>3. ~ seqState.gc /\ ScanCompleted(seqState) /\ wr.seq = seqState.next
  BY <1>2 DEF WriteInv
<1>4. [seq |-> wr.seq, lo |-> lo, hi |-> hi + 1] \in GoodWriteRecord
  <2>1. lo \in Nat \ {0} /\ hi + 1 \in Nat \ {0} /\ wr.seq \in SeqNo
    BY <1>1, StoreTypes
  <2> QED BY <2>1 DEF GoodWriteRecord
<1>5. ASSUME NEW c \in Recs PROVE c.lo # lo
  <2>1. c.seq < seqState.next /\ c.seq \in Nat /\ seqState.next \in Nat
    BY CachedOlder, StoreTypes
  <2>2. queue[lo] = Start(seqState.next)
    BY <1>1, <1>3 DEF Verified, VerifiedAt, FirstStart
  <2>3. queue[c.lo] = Start(c.seq) \/ queue[c.lo] = Bad
    BY DEF RangeInv, InRange, BeginsAt
  <2>4. Start(c.seq).seq = c.seq /\ Start(seqState.next).seq = seqState.next
        /\ Start(seqState.next).kind = "start" /\ Bad.kind = "bad"
    BY DEF Start, Bad
  <2>5. queue[c.lo] # queue[lo]
    BY <2>1, <2>2, <2>3, <2>4
  <2> QED BY <2>5
<1> QED
  BY <1>1, <1>2, <1>3, <1>4, <1>5, CachedOlder DEF Verified, VerifiedAt

\* A collection works without a cache, and is due only to one that holds a record.
LEMMA NextCacheTaken ==
    ASSUME "scan" \notin Events, MaxSeq < SeqLimit,
           TypeInv, WriteInv, ScanTells, CacheTaken, DueIsSeen, RangeInv, [Next]_vars
    PROVE  CacheTaken' /\ DueIsSeen'
<1>0. seqState \in SeqStates /\ Consistent(seqState)
  BY DEF TypeInv, TypeOK, CacheOrdered
<1>1. CASE Rot
  <2>1. UNCHANGED << seqState, io >>
    BY <1>1, RotSpoils DEF TypeInv
  <2> QED BY <2>1 DEF CacheTaken, DueIsSeen
<1>2. CASE Quiet \/ Ends
  BY <1>2 DEF Quiet, Ends, CacheTaken, DueIsSeen
<1>3. CASE Forgets
  <2>1. seqState' = NewSeqState /\ ~ NewSeqState.gc
    BY <1>3 DEF Forgets, NewSeqState
  <2> QED BY <2>1 DEF CacheTaken, DueIsSeen
<1>4. CASE ScanEnds
  <2>1. io' = "idle" /\ AnySeen(seqState') = AnySeen(seqState) /\ (seqState'.gc => seqState.gc)
    BY <1>4, ScanEndsCache DEF ScanEnds
  <2> QED BY <2>1 DEF CacheTaken, DueIsSeen
<1>5. CASE BeginWrites \/ PushData \/ PushEnd \/ CollectElement \/ BeginScan \/ EndCollect
  <2>1. seqState' = seqState /\ (io' = "collect" => io = "collect")
    BY <1>5 DEF BeginWrites, PushData, PushEnd, CollectElement, BeginScan, EndCollect
  <2> QED BY <2>1 DEF CacheTaken, DueIsSeen
<1>6. CASE VerifyGood
  <2>1. io' = "idle" /\ \E rec \in GoodWriteRecord : seqState' = InsertGood(seqState, rec)
    BY <1>6, VerifyInserts
  <2>2. AnySeen(seqState')
    BY <1>0, <2>1, InsertGoodHighest
  <2> QED BY <2>1, <2>2 DEF CacheTaken, DueIsSeen
<1>7. CASE Scanning /\ ScanElement
  <2>1. io' = io /\ io # "collect"
    BY <1>7 DEF Scanning, ScanElement
  <2>2. seqState' = seqState \/ \E rec \in GoodWriteRecord : seqState' = InsertGood(seqState, rec)
    BY <1>7, ScanInserts
  <2>3. seqState' = seqState \/ AnySeen(seqState')
    BY <1>0, <2>2, InsertGoodHighest
  <2> QED BY <2>1, <2>3 DEF CacheTaken, DueIsSeen
<1> QED
  BY <1>1, <1>2, <1>3, <1>4, <1>5, <1>6, <1>7, SpareSteps DEF TypeInv

\* A pushed element is behind every range.
LEMMA PushBehind ==
    ASSUME TypeInv, WriteInv, RangeInv, BeginWrites \/ PushData \/ PushEnd
    PROVE  /\ ~ Scanning /\ io \in { "idle", "push" } /\ UNCHANGED seqState /\ ~ Scanning'
           /\ ~ seqState.gc /\ ScanCompleted(seqState)
           /\ io' \in { "push", "verify" }
           /\ queue' \in Seq(Elem) /\ Len(queue') \in Nat
           /\ \/ UNCHANGED queue
              \/ \E e \in Elem :
                    /\ queue' = Append(queue, e) /\ Len(queue') = Len(queue) + 1
                    /\ \A j \in 1 .. Len(queue) : queue'[j] = queue[j]
                    /\ e.kind = "start" => BeginWrites /\ e = Start(seqState.next)
                    /\ e.kind = "end" => PushEnd /\ e = End(wr.seq, wr.crc)
           /\ \A c \in Recs : c.hi <= Len(queue)
<1>1. /\ ~ Scanning /\ io \in { "idle", "push" } /\ UNCHANGED seqState
      /\ io' \in { "push", "verify" } /\ ~ Scanning'
  BY DEF BeginWrites, PushData, PushEnd, Scanning
<1>2. ~ seqState.gc /\ ScanCompleted(seqState)
  BY DEF BeginWrites, PushData, PushEnd, WriteInv
<1>3. UNCHANGED queue \/ \E e \in Elem :
                    /\ queue' = Append(queue, e)
                    /\ e.kind = "start" => BeginWrites /\ e = Start(seqState.next)
                    /\ e.kind = "end" => PushEnd /\ e = End(wr.seq, wr.crc)
  <2>0. Bad \in Elem /\ Bad.kind = "bad"
    BY ElemTypes DEF Bad
  <2>1. CASE BeginWrites
    <3>1. Start(seqState.next) \in Elem /\ Start(seqState.next).kind = "start"
      BY <1>2, NextNumber, ElemTypes DEF TypeInv, Start
    <3> QED BY <2>0, <2>1, <3>1 DEF BeginWrites, Push
  <2>2. CASE PushEnd
    <3>1. End(wr.seq, wr.crc) \in Elem /\ End(wr.seq, wr.crc).kind = "end"
      BY ElemTypes DEF TypeInv, TypeOK, End
    <3> QED BY <2>0, <2>2, <3>1 DEF PushEnd, Push
  <2>3. CASE PushData
    <3>1. CASE UNCHANGED queue
      BY <3>1
    <3>2. CASE ~ UNCHANGED queue
      <4> DEFINE k == Head(wr.todo)
      <4>1. Writable(k) /\ Push(Data(k, node[k].val)) /\ wr.todo # << >>
        BY <2>3, <3>2 DEF PushData
      <4>2. k \in Keys
        BY <4>1 DEF TypeInv, TypeOK
      <4>3. node[k].val \in Values
        BY <4>1, <4>2, WritableHolds DEF TypeInv
      <4>4. Data(k, node[k].val) \in Elem /\ Data(k, node[k].val).kind = "data"
        BY <4>2, <4>3, ElemTypes DEF Data
      <4> QED BY <2>0, <4>1, <4>4 DEF Push
    <3> QED BY <3>1, <3>2
  <2> QED BY <2>1, <2>2, <2>3
<1>4. \A c \in Recs : c.hi <= Len(queue)
  BY <1>2 DEF RangeInv, InRange
<1>5. queue \in Seq(Elem) /\ Len(queue) \in Nat
  BY StoreTypes
<1>6. \A e \in Elem : queue' = Append(queue, e) =>
          /\ queue' \in Seq(Elem) /\ Len(queue') = Len(queue) + 1
          /\ \A j \in 1 .. Len(queue) : queue'[j] = queue[j]
  BY <1>5
<1> QED
  BY <1>1, <1>2, <1>3, <1>4, <1>5, <1>6

\* Every step keeps the ranges what they are.
LEMMA NextRangeInv ==
    ASSUME "scan" \notin Events, MaxSeq < SeqLimit,
           TypeInv, NumberInv, WriteInv, ScanTells, CacheTaken, RangeInv, OncePerStart,
           RetriesFollow, [Next]_vars
    PROVE  RangeInv' /\ OncePerStart'
<1>0. /\ queue \in Seq(Elem) /\ Len(queue) \in Nat /\ DOMAIN queue = 1 .. Len(queue)
      /\ scan.at \in Nat \ {0} /\ scan.from \in Nat
      /\ \A c \in Recs : c.seq \in Nat /\ c.lo \in Nat /\ c.hi \in Nat
  BY StoreTypes
<1>a. ASSUME Recs' = {}, seqState'.recs = << >> PROVE RangeInv' /\ OncePerStart'
  BY <1>a DEF RangeInv, OncePerStart, Distinct
<1>b. seqState'.recs = seqState.recs =>
        Recs' = Recs /\ Incomplete' = Incomplete /\ (OncePerStart => OncePerStart')
  BY DEF Recs, Incomplete, OncePerStart
<1>1. CASE Rot
  <2>1. PICK i \in DOMAIN queue : Spoils(queue, queue', i)
    BY <1>1, RotSpoils DEF TypeInv
  <2>2. UNCHANGED << seqState, io, scan >>
    BY <1>1, RotSpoils DEF TypeInv
  <2>3. Len(queue') = Len(queue) /\ queue' \in Seq(Elem)
        /\ \A j \in 1 .. Len(queue) : queue'[j] = queue[j] \/ queue'[j] = Bad
    BY <2>1 DEF Spoils
  <2>4. ASSUME NEW c \in Recs PROVE InRange(c)'
    <3>1. InRange(c)
      BY DEF RangeInv
    <3>2. c.lo \in DOMAIN queue' /\ BeginsAt(queue', c.lo, c.seq)
      BY <1>0, <2>3, <3>1 DEF InRange, BeginsAt
    <3>3. ASSUME Incomplete, NEW p \in Starts', p \in c.lo .. c.hi PROVE queue'[p].seq = c.seq
      <4>1. p \in Positions(queue, "start") /\ queue'[p] = queue[p]
        BY <1>0, <2>1, <3>3, SpoilsStarts DEF Starts
      <4> QED BY <3>1, <3>3, <4>1 DEF InRange, Starts
    <3> QED BY <1>b, <2>2, <2>3, <3>1, <3>2, <3>3 DEF InRange, Scanning
  <2> QED BY <1>b, <2>2, <2>4 DEF RangeInv
<1>2. CASE Quiet
  <2>1. UNCHANGED << queue, seqState, io, scan >>
    BY <1>2 DEF Quiet
  <2> QED BY <1>b, <2>1 DEF RangeInv, InRange, Scanning, Starts
<1>3. CASE Ends
  <2>1. UNCHANGED << queue, seqState >> /\ ~ Scanning'
    BY <1>3 DEF Ends, Scanning
  <2> QED BY <1>b, <2>1 DEF RangeInv, InRange, Starts
<1>4. CASE Forgets
  <2>1. seqState'.recs = << >>
    BY <1>4 DEF Forgets, NewSeqState
  <2> QED BY <1>a, <2>1 DEF Recs
<1>5. CASE ScanEnds
  <2>1. UNCHANGED queue /\ ~ Scanning' /\ Scanning /\ seqState'.recs = seqState.recs
    BY <1>5, AllPassed, ScanEndsCache DEF ScanEnds, Scanning
  <2>2. \A c \in Recs : c.hi < scan.at /\ scan.at <= Len(queue) + 1
    BY <2>1 DEF RangeInv, InRange, ScanTells
  <2>3. \A c \in Recs : c.hi <= Len(queue)
    BY <1>0, <2>2
  <2> QED BY <1>b, <2>1, <2>3 DEF RangeInv, InRange, Starts
<1>6. CASE BeginWrites \/ PushData \/ PushEnd
  <2>1. /\ UNCHANGED seqState /\ ~ Scanning' /\ Len(queue') \in Nat
        /\ \A c \in Recs : c.hi <= Len(queue)
        /\ queue' \in Seq(Elem)
    BY <1>6, PushBehind
  <2>2. CASE UNCHANGED queue
    BY <1>b, <2>1, <2>2 DEF RangeInv, InRange, Starts
  <2>3. CASE \E e \in Elem :
                /\ queue' = Append(queue, e) /\ Len(queue') = Len(queue) + 1
                /\ \A j \in 1 .. Len(queue) : queue'[j] = queue[j]
    <3>1. ASSUME NEW c \in Recs PROVE InRange(c)'
      <4>1. InRange(c) /\ c.hi <= Len(queue)
        BY <2>1 DEF RangeInv
      <4>2. c.lo \in DOMAIN queue' /\ BeginsAt(queue', c.lo, c.seq) /\ c.hi <= Len(queue')
        BY <1>0, <2>1, <2>3, <4>1 DEF InRange, BeginsAt
      <4>3. ASSUME Incomplete, NEW p \in Starts', p \in c.lo .. c.hi PROVE queue'[p].seq = c.seq
        <5>1. p \in 1 .. Len(queue) /\ queue'[p].kind = "start"
          <6>1. p \in DOMAIN queue' /\ queue'[p].kind = "start"
            BY <4>3 DEF Starts, Positions
          <6>2. p \in 1 .. Len(queue')
            BY <2>1, <6>1
          <6>3. c.lo \in Nat /\ c.hi \in Nat /\ c.hi <= Len(queue)
            BY <1>0, <4>1
          <6> QED BY <1>0, <2>1, <4>3, <6>1, <6>2, <6>3
        <5>2. p \in Starts /\ queue'[p] = queue[p]
          BY <1>0, <2>3, <5>1 DEF Starts, Positions
        <5> QED BY <4>1, <4>3, <5>2 DEF InRange
      <4> QED BY <1>b, <2>1, <4>1, <4>2, <4>3 DEF InRange
    <3> QED BY <1>b, <2>1, <3>1 DEF RangeInv
  <2> QED BY <1>6, <2>2, <2>3, PushBehind
<1>7. CASE VerifyGood
  <2>1. UNCHANGED queue /\ io = "verify" /\ io' = "idle" /\ ScanCompleted(seqState)
        /\ ~ seqState.gc /\ \A c \in Recs : c.seq < seqState.next
    BY <1>7, VerifyInserts
  <2>2. PICK rec \in GoodWriteRecord : \E hi \in DOMAIN queue :
                 /\ rec.seq = seqState.next /\ rec.hi = hi + 1
                 /\ FirstStart(queue, rec.seq, rec.lo) /\ IsRecord(queue, rec.lo, hi)
                 /\ seqState' = InsertGood(seqState, rec)
                 /\ \A c \in Recs : c.lo # rec.lo
    BY <1>7, VerifyInserts
  <2>3. PICK hi \in DOMAIN queue :
                 /\ rec.seq = seqState.next /\ rec.hi = hi + 1
                 /\ FirstStart(queue, rec.seq, rec.lo) /\ IsRecord(queue, rec.lo, hi)
                 /\ seqState' = InsertGood(seqState, rec)
                 /\ \A c \in Recs : c.lo # rec.lo
    BY <2>2
  <2>4. /\ OncePerStart' /\ Recs' \subseteq Recs \cup {rec}
        /\ Incomplete' => Incomplete /\ Recs' = Recs \cup {rec}
        /\ seqState'.gc
    BY <2>1, <2>3, InsertNew
  <2>5. ~ Scanning'
    BY <2>1 DEF Scanning
  <2>6. \A c \in Recs : InRange(c)'
    BY <2>1, <2>4, <2>5 DEF RangeInv, InRange, Starts
  <2>7. InRange(rec)'
    <3>1. /\ rec.lo \in 1 .. Len(queue) /\ hi \in 1 .. Len(queue) /\ rec.lo < hi
          /\ queue[rec.lo] = Start(rec.seq) /\ queue[rec.lo].kind = "start" /\ queue[rec.lo].seq = rec.seq
      BY <1>0, <2>3 DEF FirstStart, IsRecord, Start
    <3>2. rec.lo < rec.hi
      BY <2>3, <3>1
    <3>3. rec.seq <= MaxSeq
      BY <1>0, <3>1 DEF NumberInv, Starts, Positions
    <3>4. ASSUME Incomplete, NEW p \in Starts, p \in rec.lo .. rec.hi PROVE queue[p].seq = rec.seq
      <4>1. p \in rec.lo .. hi \/ p = hi + 1
        BY <2>3, <3>1, <3>4
      <4>2. queue[p].kind = "start" /\ p \in Nat
        BY <1>0 DEF Starts, Positions
      <4>3. CASE p \in rec.lo .. hi
        BY <1>0, <2>3, <3>1, <4>2, <4>3, OneStart
      <4>4. CASE p = hi + 1
        <5> DEFINE g == [seq |-> queue[rec.lo].seq, lo |-> rec.lo, hi |-> hi]
        <5>1. g \in Good /\ g.seq = seqState.next /\ g.lo = rec.lo
          BY <1>0, <2>3, <3>1, RecordIsGood DEF Good
        <5>2. Known
          BY <2>1 DEF Known
        <5>3. rec.lo < p
          BY <3>1, <4>4
        <5> QED BY <2>1, <2>3, <3>4, <5>1, <5>2, <5>3 DEF RetriesFollow
      <4> QED BY <4>1, <4>3, <4>4
    <3> QED BY <1>0, <2>1, <2>4, <2>5, <3>1, <3>2, <3>3, <3>4 DEF InRange, BeginsAt, Starts
  <2> QED BY <2>4, <2>6, <2>7 DEF RangeInv
<1>8. CASE CollectElement
  <2>1. seqState' = NewSeqState
    BY <1>8 DEF CollectElement, CacheTaken
  <2>2. seqState'.recs = << >>
    BY <2>1 DEF NewSeqState
  <2> QED BY <1>a, <2>2 DEF Recs
<1>9. CASE BeginScan
  <2>1. seqState'.recs = << >>
    BY <1>9, CachedOlder DEF BeginScan
  <2> QED BY <1>a, <2>1 DEF Recs
<1>10. CASE EndCollect
  <2>1. seqState' = NewSeqState
    BY <1>10 DEF EndCollect, CacheTaken
  <2>2. seqState'.recs = << >>
    BY <2>1 DEF NewSeqState
  <2> QED BY <1>a, <2>2 DEF Recs
<1>11. CASE Scanning /\ ScanElement
  <2>1. /\ UNCHANGED << queue, io >> /\ scan'.at = scan.at + 1 /\ scan'.from \in { 0, scan.at, scan.from }
        /\ scan.at \in 1 .. Len(queue)
    BY <1>11, PastSpoils
  <2>2. ASSUME NEW c \in Recs PROVE c.hi < scan'.at /\ (scan'.from # 0 => c.hi < scan'.from)
    <3>1. c.hi < scan.at /\ (scan.from # 0 => c.hi < scan.from)
      BY <1>11 DEF RangeInv, InRange
    <3> QED BY <1>0, <2>1, <3>1
  <2>3. CASE seqState' = seqState
    BY <1>b, <2>1, <2>2, <2>3 DEF RangeInv, InRange, Starts, Scanning
  <2>4. CASE seqState' # seqState
    <3>1. Closes(queue[scan.at]) /\ scan.from # 0 /\ queue[scan.at].kind = "end"
      BY <1>11, <2>4, ScanInserts
    <3>2. PICK rec \in GoodWriteRecord :
                       /\ rec = [seq |-> scan.seq, lo |-> scan.from, hi |-> scan.at]
                       /\ seqState' = InsertGood(seqState, rec)
                       /\ \A c \in Recs : c.lo # rec.lo
      BY <1>11, <2>4, ScanInserts
    <3>3. /\ OncePerStart' /\ Recs' \subseteq Recs \cup {rec}
          /\ Incomplete' => Incomplete /\ Recs' = Recs \cup {rec}
          /\ seqState'.gc
      BY <2>4, <3>2, InsertNew
    <3>4. \A c \in Recs : InRange(c)'
      BY <2>1, <2>2, <3>3 DEF RangeInv, InRange, Starts, Scanning
    <3>5. scan'.from = 0
      <4>1. scan'.from # scan.at
        BY <1>11, <3>1, PastSpoils DEF Starts, Positions
      <4>2. scan'.from # scan.from
        BY <1>11, <3>1, PastSpoils
      <4> QED BY <2>1, <4>1, <4>2
    <3>6. InRange(rec)'
      <4>1. /\ scan.from < scan.at /\ scan.seq <= MaxSeq
            /\ BeginsAt(queue, scan.from, scan.seq)
            /\ \A j \in scan.from + 1 .. scan.at - 1 : queue[j].kind \in { "data", "bad" }
        BY <1>11, <3>1 DEF ScanTells
      <4>2. rec.lo = scan.from /\ rec.hi = scan.at /\ rec.seq = scan.seq
        BY <3>2
      <4>3. ASSUME NEW p \in Starts, p \in scan.from .. scan.at PROVE queue[p].seq = scan.seq
        <5>1. queue[p].kind = "start"
          BY DEF Starts, Positions
        <5>2. p = scan.from \/ p \in scan.from + 1 .. scan.at - 1 \/ p = scan.at
          BY <1>0, <4>1, <4>3
        <5>3. p = scan.from
          BY <3>1, <4>1, <5>1, <5>2
        <5> QED BY <4>1, <5>1, <5>3 DEF BeginsAt, Start, Bad
      <4>4. scan.from \in DOMAIN queue /\ scan.at < scan'.at
        BY <1>0, <2>1, <3>1, <4>1
      <4> QED BY <2>1, <3>3, <3>5, <4>1, <4>2, <4>3, <4>4 DEF InRange, Starts
    <3> QED BY <3>3, <3>4, <3>6 DEF RangeInv
  <2> QED BY <2>3, <2>4
<1> QED
  BY <1>1, <1>2, <1>3, <1>4, <1>5, <1>6, <1>7, <1>8, <1>9, <1>10, <1>11, SpareSteps DEF TypeInv

-----------------------------------------------------------------------------
(***************************************************************************)
(* A cache with room to spare has all good records.                        *)
(***************************************************************************)

\* A good record that ends at the iterator is the one the scan is reading.
LEMMA ReadIsWhole ==
    ASSUME TypeInv, ScanOpen, ScanTells, Scanning, NEW r \in Good, r.hi = scan.at
    PROVE  ~ Spoiled /\ scan.from = r.lo
<1>1. /\ r.lo \in 1 .. Len(queue) /\ r.hi \in 1 .. Len(queue) /\ r.lo < r.hi
      /\ IsRecord(queue, r.lo, r.hi) /\ queue \in Seq(Elem) /\ Len(queue) \in Nat
  BY GoodRecordIs, StoreTypes DEF Good, RecordAt
<1>2. queue[r.lo].kind = "start" /\ \A j \in r.lo + 1 .. scan.at - 1 : queue[j].kind = "data"
  BY <1>1 DEF IsRecord
<1>3. r.lo \in 1 .. scan.at - 1
  BY <1>1
<1>4. scan.from = r.lo
  BY <1>2, <1>3 DEF ScanOpen
<1>5. ASSUME NEW j \in r.lo .. scan.at - 1 PROVE queue[j] # Bad
  <2>1. j = r.lo \/ j \in r.lo + 1 .. scan.at - 1
    BY <1>1
  <2> QED BY <1>2, <2>1 DEF Bad
<1> QED
  BY <1>4, <1>5 DEF Spoiled

\* The scan has inserted what it has passed.
LEMMA NextScanHasAll ==
    ASSUME "scan" \notin Events, TypeInv, ScanOpen, ScanTells, RangeInv, OncePerStart,
           ScanHasAll, [Next]_vars
    PROVE  ScanHasAll'
<1>0. queue \in Seq(Elem) /\ scan.at \in Nat
  BY StoreTypes
<1> SUFFICES ASSUME Scanning', Incomplete', NEW r \in GoodBelow' PROVE Cached(r)'
  BY DEF ScanHasAll
<1>1. CASE Rot
  <2>1. PICK i \in DOMAIN queue : Spoils(queue, queue', i)
    BY <1>1, RotSpoils DEF TypeInv
  <2>2. UNCHANGED << seqState, io, scan >>
    BY <1>1, RotSpoils DEF TypeInv
  <2>3. r \in GoodBelow
    BY <1>0, <2>1, <2>2, SpoilsGood DEF GoodBelow, Good
  <2> QED BY <2>2, <2>3 DEF ScanHasAll, Cached, Recs, Incomplete, Scanning
<1>2. CASE Scanning /\ UNCHANGED << queue, seqState, scan >>
  BY <1>2 DEF ScanHasAll, Cached, Recs, Incomplete, GoodBelow, Good
<1>3. CASE BeginScan \/ EndCollect
  <2>1. scan' = NoScan /\ queue' = queue
    BY <1>3 DEF BeginScan, EndCollect
  <2>2. r \in GoodRecords(queue) /\ r.hi < 1
    BY <2>1 DEF NoScan, GoodBelow, Good
  <2> QED BY <1>0, <2>2, GoodRecordIs
<1>4. CASE Scanning /\ ScanElement
  <2>1. /\ UNCHANGED queue /\ scan'.at = scan.at + 1 /\ scan.at \in DOMAIN queue
    BY <1>0, <1>4, PastSpoils
  <2>2. r \in Good /\ r.hi < scan.at + 1 /\ r.hi \in Nat
    BY <1>0, <2>1, GoodRecordIs DEF GoodBelow, Good
  <2>3. Incomplete /\ Recs \subseteq Recs'
    <3>1. CASE seqState' = seqState
      BY <3>1 DEF Incomplete, Recs
    <3>2. CASE \E rec \in GoodWriteRecord : seqState' = InsertGood(seqState, rec) /\ \A c \in Recs : c.lo # rec.lo
      BY <3>2, InsertNew
    <3> QED BY <1>4, <3>1, <3>2, ScanInserts
  <2>4. CASE r.hi < scan.at
    <3>1. Cached(r)
      BY <1>4, <2>2, <2>3, <2>4 DEF ScanHasAll, GoodBelow
    <3> QED BY <2>3, <3>1 DEF Cached
  <2>5. CASE r.hi = scan.at
    <3>1. ScanInv
      BY <1>4, <2>2, <2>5, ReadIsWhole, UnspoiledScan
    <3>2. /\ Closes(queue[scan.at])
          /\ r = [seq |-> queue[scan.at].seq, lo |-> scan.from, hi |-> scan.at]
      BY <1>4, <2>1, <2>2, <2>5, <3>1, ScannedRecord
    <3>3. queue[scan.at].seq = scan.seq
      BY <3>2 DEF Closes
    <3>4. PICK rec \in GoodWriteRecord :
                       /\ rec = [seq |-> scan.seq, lo |-> scan.from, hi |-> scan.at]
                       /\ seqState' = InsertGood(seqState, rec)
                       /\ \A c \in Recs : c.lo # rec.lo
      BY <1>4, <3>2, ScanInserts
    <3>5. rec = r /\ r \in Recs'
      BY <3>2, <3>3, <3>4, InsertNew
    <3> QED BY <2>2, <3>5 DEF Cached
  <2>6. r.hi < scan.at \/ r.hi = scan.at
    BY <1>0, <2>2
  <2> QED BY <2>4, <2>5, <2>6
<1> QED
  BY <1>1, <1>2, <1>3, <1>4, ScanSteps DEF TypeInv

\* Every other step keeps what the cache has, and what follows the rest.
LEMMA NextCacheHasAll ==
    ASSUME "scan" \notin Events, MaxSeq < SeqLimit,
           TypeInv, WriteInv, ScanTells, CacheTaken, RangeInv, OncePerStart,
           ScanHasAll, CacheHasAll, RetriesFollow, [Next]_vars
    PROVE  CacheHasAll' /\ RetriesFollow'
<1>0. queue \in Seq(Elem) /\ Len(queue) \in Nat /\ seqState.next \in Nat
  BY StoreTypes
<1>a. ~ Known' => CacheHasAll' /\ RetriesFollow'
  BY DEF CacheHasAll, RetriesFollow
<1>b. ASSUME seqState'.recs = seqState.recs
      PROVE  Recs' = Recs /\ Incomplete' = Incomplete /\ \A r : Cached(r)' <=> Cached(r)
  BY <1>b DEF Recs, Incomplete, Cached
<1>1. CASE Rot
  <2>1. PICK i \in DOMAIN queue : Spoils(queue, queue', i)
    BY <1>1, RotSpoils DEF TypeInv
  <2>2. UNCHANGED << seqState, io >>
    BY <1>1, RotSpoils DEF TypeInv
  <2>3. Good' \subseteq Good
    BY <1>0, <2>1, SpoilsGood DEF Good
  <2>4. \A p \in Starts' : p \in Starts /\ queue'[p] = queue[p]
    BY <1>0, <2>1, SpoilsStarts DEF Starts
  <2> QED BY <1>b, <2>2, <2>3, <2>4 DEF CacheHasAll, RetriesFollow, Known
<1>2. CASE Quiet \/ Ends
  <2>1. UNCHANGED << queue, seqState >>
    BY <1>2 DEF Quiet, Ends
  <2>2. Known' => Known
    <3>1. io = "collect" => ~ ScanCompleted(seqState)
      BY DEF CacheTaken, NewSeqState, ScanCompleted
    <3>2. io \in IoStates
      BY DEF TypeInv, TypeOK
    <3> QED BY <1>2, <2>1, <3>1, <3>2 DEF Quiet, Ends, Known, Scanning, IoStates
  <2> QED BY <1>a, <1>b, <2>1, <2>2 DEF CacheHasAll, RetriesFollow, Good, Starts
<1>3. CASE Forgets
  BY <1>3, <1>a DEF Forgets, NewSeqState, ScanCompleted, Known
<1>4. CASE ScanEnds
  <2>1. /\ UNCHANGED queue /\ seqState'.recs = seqState.recs
        /\ seqState'.next = IF AnySeen(seqState) THEN seqState.next ELSE 1
        /\ Scanning /\ Good \subseteq GoodBelow
    BY <1>4, AllPassed, ScanEndsCache DEF ScanEnds
  <2>2. Incomplete => \A r \in Good : Cached(r)
    BY <2>1 DEF ScanHasAll
  <2>3. ASSUME Incomplete, NEW r \in Good PROVE r.seq # seqState'.next
    <3>1. PICK c \in Recs : c.seq = r.seq
      BY <2>2, <2>3 DEF Cached
    <3>2. AnySeen(seqState)
      BY DEF AnySeen, Recs
    <3>3. c.seq < seqState.next /\ c.seq \in Nat
      BY CachedOlder, StoreTypes
    <3> QED BY <1>0, <2>1, <3>1, <3>2, <3>3
  <2> QED BY <1>b, <2>1, <2>2, <2>3 DEF CacheHasAll, RetriesFollow, Good
<1>5. CASE BeginWrites \/ PushData \/ PushEnd
  <2>1. UNCHANGED seqState /\ Known /\ ~ seqState.gc /\ io \in { "idle", "push" }
    BY <1>5, PushBehind DEF Known
  <2>2. CASE UNCHANGED queue
    BY <1>b, <2>1, <2>2 DEF CacheHasAll, RetriesFollow, Good, Starts
  <2>3. CASE \E e \in Elem :
                    /\ queue' = Append(queue, e) /\ Len(queue') = Len(queue) + 1
                    /\ \A j \in 1 .. Len(queue) : queue'[j] = queue[j]
                    /\ e.kind = "start" => BeginWrites /\ e = Start(seqState.next)
                    /\ e.kind = "end" => PushEnd /\ e = End(wr.seq, wr.crc)
    <3>1. PICK e \in Elem :
                    /\ queue' = Append(queue, e) /\ Len(queue') = Len(queue) + 1
                    /\ \A j \in 1 .. Len(queue) : queue'[j] = queue[j]
                    /\ e.kind = "start" => BeginWrites /\ e = Start(seqState.next)
                    /\ e.kind = "end" => PushEnd /\ e = End(wr.seq, wr.crc)
      BY <2>3
    <3>2. ASSUME NEW r \in Good' PROVE r \in Good \/ (r.seq = seqState.next /\ r.hi = Len(queue) + 1)
      <4>1. r \in Good \/ (r.hi = Len(queue) + 1 /\ e.kind = "end" /\ e.seq = r.seq)
        BY <1>0, <3>1, AppendGood DEF Good
      <4>2. e.kind = "end" => e.seq = seqState.next
        <5>1. ASSUME e.kind = "end" PROVE e.seq = seqState.next
          <6>1. PushEnd /\ e = End(wr.seq, wr.crc)
            BY <3>1, <5>1
          <6>2. wr.seq = seqState.next
            BY <6>1 DEF PushEnd, WriteInv
          <6> QED BY <6>1, <6>2 DEF End
        <5> QED BY <5>1
      <4> QED BY <4>1, <4>2
    <3>3. CacheHasAll'
      <4> SUFFICES ASSUME Known', Incomplete', NEW r \in Good'
                   PROVE  Cached(r)' \/ r.seq = seqState.next
        BY <2>1 DEF CacheHasAll
      <4>1. CASE r \in Good
        BY <1>b, <2>1, <4>1 DEF CacheHasAll
      <4> QED BY <3>2, <4>1
    <3>4. RetriesFollow'
      <4> SUFFICES ASSUME Known', Incomplete', NEW r \in Good', NEW p \in Starts',
                          r.seq = seqState.next, r.lo < p
                   PROVE  queue'[p].seq = seqState.next
        BY <2>1 DEF RetriesFollow
      <4>1. \/ p \in Starts /\ queue'[p] = queue[p]
            \/ p = Len(queue) + 1 /\ queue'[p] = e /\ e.kind = "start"
        BY <1>0, <3>1, AppendStarts DEF Starts
      <4>2. CASE p = Len(queue) + 1 /\ queue'[p] = e /\ e.kind = "start"
        BY <3>1, <4>2 DEF Start
      <4>3. CASE p \in Starts /\ queue'[p] = queue[p]
        <5>1. CASE r \in Good
          BY <1>b, <2>1, <4>3, <5>1 DEF RetriesFollow
        <5>2. CASE r.hi = Len(queue) + 1
          <6>1. queue' \in Seq(Elem)
            BY <1>0, <3>1
          <6>2. IsRecord(queue', r.lo, r.hi) /\ r.lo \in Nat
            BY <6>1, GoodRecordIs DEF Good, RecordAt
          <6>3. p \in 1 .. Len(queue) /\ queue'[p].kind = "start"
            BY <1>0, <4>3 DEF Starts, Positions
          <6>4. p \in r.lo .. r.hi
            BY <1>0, <5>2, <6>2, <6>3
          <6>5. p = r.lo
            BY <6>1, <6>2, <6>3, <6>4, OneStart
          <6> QED BY <6>2, <6>5
        <5> QED BY <3>2, <5>1, <5>2
      <4> QED BY <4>1, <4>2, <4>3
    <3> QED BY <3>3, <3>4
  <2> QED BY <1>5, <2>2, <2>3, PushBehind
<1>6. CASE VerifyGood
  <2>1. UNCHANGED queue /\ io = "verify" /\ ScanCompleted(seqState)
        /\ ~ seqState.gc /\ \A c \in Recs : c.seq < seqState.next
    BY <1>6, VerifyInserts
  <2>2. PICK rec \in GoodWriteRecord :
                 /\ rec.seq = seqState.next
                 /\ seqState' = InsertGood(seqState, rec)
                 /\ \A c \in Recs : c.lo # rec.lo
    BY <1>6, VerifyInserts
  <2>3. /\ Incomplete' => Incomplete /\ Recs' = Recs \cup {rec}
        /\ seqState'.gc
    BY <2>1, <2>2, InsertNew
  <2>4. ASSUME Incomplete', NEW r \in Good PROVE Cached(r)' \/ r.seq \in Nums(Recs')
    <3>1. Cached(r) \/ r.seq = seqState.next
      BY <2>1, <2>3, <2>4 DEF CacheHasAll, Known
    <3>2. rec \in Recs' /\ Recs \subseteq Recs'
      BY <2>3, <2>4
    <3> QED BY <2>2, <3>1, <3>2 DEF Cached, Nums
  <2> QED BY <2>1, <2>3, <2>4 DEF CacheHasAll, RetriesFollow, Good
<1>7. CASE CollectElement \/ BeginScan \/ EndCollect \/ (Scanning /\ ScanElement)
  <2>1. io' \in { "collect", "readScan", "gcScan" }
    BY <1>7 DEF CollectElement, BeginScan, EndCollect, Scanning, ScanElement
  <2> QED BY <1>a, <2>1 DEF Known
<1> QED
  BY <1>1, <1>2, <1>3, <1>4, <1>5, <1>6, <1>7, SpareSteps DEF TypeInv

-----------------------------------------------------------------------------
(***************************************************************************)
(* Faults are counted.                                                     *)
(***************************************************************************)

\* What rots is part of one record of the cache at most, and of none if it is
\* part of what the scan is reading.
LEMMA RotKillsOne ==
    ASSUME TypeInv, RangeInv, OncePerStart, ScanTells, NEW i, Spoils(queue, queue', i),
           UNCHANGED << seqState, io, scan >>
    PROVE  /\ \E x : Dead' \subseteq Dead \cup {x}
           /\ Spoiled' /\ ~ Spoiled => Dead' \subseteq Dead
<1>0. queue \in Seq(Elem) /\ Recs' = Recs /\ scan.from \in Nat /\ scan.at \in Nat
  BY StoreTypes DEF Recs
<1>1. ASSUME NEW c \in Recs, Genuine(queue, c), ~ Genuine(queue', c)
      PROVE  \E hi \in Nat : IsRecord(queue, c.lo, hi) /\ i \in c.lo .. hi /\ hi <= c.hi
  <2>1. PICK hi \in { c.hi - 1, c.hi } : IsRecord(queue, c.lo, hi) /\ queue[c.lo] = Start(c.seq)
    BY <1>1 DEF Genuine
  <2>2. i \in c.lo .. hi
    BY <1>0, <1>1, <2>1, SpoilsRecords DEF Genuine
  <2>3. hi \in 1 .. Len(queue) /\ c.hi \in Nat
    BY <1>0, <2>1, StoreTypes DEF IsRecord
  <2> QED BY <2>1, <2>2, <2>3
<1> DEFINE Lost == { c \in Recs : Genuine(queue, c) /\ ~ Genuine(queue', c) }
<1>2. Dead' \subseteq Dead \cup Lost
  BY <1>0 DEF Dead
<1>3. ASSUME NEW c \in Lost, NEW d \in Lost PROVE c = d
  <2>1. PICK hc \in Nat : IsRecord(queue, c.lo, hc) /\ i \in c.lo .. hc
    BY <1>1
  <2>2. PICK hd \in Nat : IsRecord(queue, d.lo, hd) /\ i \in d.lo .. hd
    BY <1>1
  <2>3. /\ c.lo \in 1 .. Len(queue) /\ d.lo \in 1 .. Len(queue)
        /\ queue[c.lo].kind = "start" /\ queue[d.lo].kind = "start"
    BY <1>0, <2>1, <2>2 DEF IsRecord
  <2>4. c.lo \in d.lo .. hd \/ d.lo \in c.lo .. hc
    BY <2>1, <2>2, <2>3
  <2>5. c.lo = d.lo
    BY <1>0, <2>1, <2>2, <2>3, <2>4, OneStart
  <2> QED BY <2>5 DEF OncePerStart
<1>4. \E x : Lost \subseteq {x}
  <2>1. CASE Lost = {}
    BY <2>1
  <2>2. CASE Lost # {}
    <3>1. PICK x \in Lost : TRUE
      BY <2>2
    <3>2. Lost \subseteq {x}
      BY <1>3
    <3> QED BY <3>2
  <2> QED BY <2>1, <2>2
<1>5. ASSUME Spoiled', ~ Spoiled PROVE Lost = {}
  <2>1. Scanning /\ scan.from # 0 /\ \E j \in scan.from .. scan.at - 1 : queue'[j] = Bad
    BY <1>5 DEF Spoiled, Scanning
  <2>2. PICK j \in scan.from .. scan.at - 1 : queue'[j] = Bad
    BY <2>1
  <2>3. queue[j] # Bad /\ scan.at <= Len(queue) + 1
    BY <1>5, <2>1 DEF Spoiled, ScanTells
  <2>4. j \in DOMAIN queue
    BY <1>0, <2>1, <2>3
  <2>5. j = i
    BY <2>2, <2>3, <2>4 DEF Spoils
  <2> SUFFICES ASSUME NEW c \in Lost PROVE FALSE
    OBVIOUS
  <2>6. PICK hi \in Nat : i \in c.lo .. hi /\ hi <= c.hi
    BY <1>1
  <2>7. c.hi < scan.from /\ c.hi \in Nat
    BY <2>1, StoreTypes DEF RangeInv, InRange
  <2> QED BY <1>0, <2>5, <2>6, <2>7
<1> HIDE DEF Lost
<1> QED
  BY <1>2, <1>4, <1>5

\* Every fault spoils one record at most.
LEMMA NextDeadInv ==
    ASSUME "scan" \notin Events, MaxSeq < SeqLimit,
           TypeInv, NumberInv, WriteInv, ScanOpen, ScanTells, CacheTaken, RangeInv, OncePerStart,
           DeadInv, [Next]_vars
    PROVE  DeadInv'
<1>0. queue \in Seq(Elem) /\ Len(queue) \in Nat
  BY StoreTypes
<1>1. /\ IsFiniteSet(Dead) /\ Cardinality(Dead) \in Nat
      /\ events \in Nat /\ events' \in Nat /\ events <= events'
      /\ Cardinality(Dead) + (IF Spoiled THEN 1 ELSE 0) <= events
  BY CacheFinite, EventsGrow DEF TypeInv, DeadInv
<1>a. ASSUME Dead' \subseteq Dead, Spoiled' => Spoiled PROVE DeadInv'
  <2>1. Cardinality(Dead') \in Nat /\ Cardinality(Dead') <= Cardinality(Dead)
    BY <1>1, <1>a, OneMore
  <2> QED BY <1>1, <1>a, <2>1 DEF DeadInv
<1>b. ASSUME Recs' = {}, ~ Scanning' \/ scan'.from = 0 PROVE DeadInv'
  BY <1>a, <1>b DEF Dead, Spoiled
<1>2. CASE Rot
  <2>1. PICK i \in DOMAIN queue : Spoils(queue, queue', i)
    BY <1>2, RotSpoils DEF TypeInv
  <2>2. UNCHANGED << seqState, io, scan >> /\ events' = events + 1
    BY <1>2, RotSpoils DEF TypeInv
  <2>3. PICK x : Dead' \subseteq Dead \cup {x}
    BY <2>1, <2>2, RotKillsOne
  <2>4. Spoiled' /\ ~ Spoiled => Dead' \subseteq Dead
    BY <2>1, <2>2, RotKillsOne
  <2>5. /\ Cardinality(Dead') \in Nat /\ Cardinality(Dead') <= Cardinality(Dead) + 1
        /\ Dead' \subseteq Dead => Cardinality(Dead') <= Cardinality(Dead)
    BY <1>1, <2>3, OneMore
  <2>6. CASE Spoiled' /\ ~ Spoiled
    BY <1>1, <2>2, <2>4, <2>5, <2>6 DEF DeadInv
  <2>7. CASE Spoiled' => Spoiled
    BY <1>1, <2>2, <2>5, <2>7 DEF DeadInv
  <2> QED BY <2>6, <2>7
<1>3. CASE Quiet
  <2>1. UNCHANGED << queue, seqState, io, scan >>
    BY <1>3 DEF Quiet
  <2>2. Dead' = Dead /\ (Spoiled' <=> Spoiled)
    BY <2>1 DEF Dead, Recs, Spoiled, Scanning
  <2> QED BY <1>a, <2>2
<1>4. CASE Ends \/ ScanEnds
  <2>1. UNCHANGED queue /\ seqState'.recs = seqState.recs /\ io' = "idle"
    BY <1>4, ScanEndsCache DEF Ends, ScanEnds
  <2>2. Dead' = Dead /\ ~ Spoiled'
    BY <2>1 DEF Dead, Recs, Spoiled, Scanning
  <2> QED BY <1>a, <2>2
<1>5. CASE Forgets
  <2>1. seqState'.recs = << >> /\ io' \in { "idle", "collect" }
    BY <1>5 DEF Forgets, NewSeqState, BeginGarbage
  <2> QED BY <1>b, <2>1 DEF Recs, Scanning
<1>6. CASE BeginWrites \/ PushData \/ PushEnd
  <2>1. UNCHANGED seqState /\ ~ Scanning'
        /\ (UNCHANGED queue \/ \E e \in Elem : queue' = Append(queue, e))
    BY <1>6, PushBehind
  <2>2. ASSUME NEW c \in Recs, Genuine(queue, c) PROVE Genuine(queue', c)
    <3>1. PICK hi \in { c.hi - 1, c.hi } : IsRecord(queue, c.lo, hi) /\ queue[c.lo] = Start(c.seq)
      BY <2>2 DEF Genuine
    <3>2. c.lo \in Nat /\ hi \in Int
      BY StoreTypes
    <3>3. IsRecord(queue', c.lo, hi) /\ queue'[c.lo] = queue[c.lo]
      BY <1>0, <2>1, <3>1, <3>2, AppendKeepsRecord
    <3> QED BY <3>1, <3>3 DEF Genuine
  <2>3. Dead' \subseteq Dead /\ ~ Spoiled'
    BY <2>1, <2>2 DEF Dead, Recs, Spoiled
  <2> QED BY <1>a, <2>3
<1>7. CASE VerifyGood
  <2>1. PICK rec \in GoodWriteRecord : \E hi \in DOMAIN queue :
                 /\ rec.seq = seqState.next /\ rec.hi = hi + 1
                 /\ FirstStart(queue, rec.seq, rec.lo) /\ IsRecord(queue, rec.lo, hi)
                 /\ seqState' = InsertGood(seqState, rec)
                 /\ \A c \in Recs : c.lo # rec.lo
    BY <1>7, VerifyInserts
  <2>2. PICK hi \in DOMAIN queue :
                 /\ rec.hi = hi + 1
                 /\ FirstStart(queue, rec.seq, rec.lo) /\ IsRecord(queue, rec.lo, hi)
    BY <2>1
  <2>3. UNCHANGED queue /\ io' = "idle"
    BY <1>7, VerifyInserts
  <2>4. hi = rec.hi - 1
    BY <1>0, <2>2
  <2>5. Genuine(queue, rec)
    BY <2>2, <2>4 DEF Genuine, FirstStart
  <2>6. Recs' \subseteq Recs \cup {rec}
    BY <2>1, InsertNew
  <2>7. Dead' \subseteq Dead /\ ~ Spoiled'
    BY <2>3, <2>5, <2>6 DEF Dead, Spoiled, Scanning
  <2> QED BY <1>a, <2>7
<1>8. CASE CollectElement \/ EndCollect
  <2>1. seqState' = NewSeqState /\ (~ Scanning' \/ scan' = NoScan)
    BY <1>8 DEF CollectElement, EndCollect, CacheTaken, Scanning
  <2>2. seqState'.recs = << >> /\ NoScan.from = 0
    BY <2>1 DEF NewSeqState, NoScan
  <2> QED BY <1>b, <2>1, <2>2 DEF Recs
<1>9. CASE BeginScan
  <2>1. seqState'.recs = << >> /\ scan' = NoScan
    BY <1>9, CachedOlder DEF BeginScan
  <2> QED BY <1>b, <2>1 DEF Recs, NoScan
<1>10. CASE Scanning /\ ScanElement
  <2>1. Spoiled' => Spoiled
    BY <1>10, PastSpoils DEF Spoiled
  <2>2. CASE seqState' = seqState
    <3>1. Dead' = Dead
      BY <1>10, <2>2, ScanInserts DEF Dead, Recs
    <3> QED BY <1>a, <2>1, <3>1
  <2>3. CASE seqState' # seqState
    <3>0. UNCHANGED queue
      BY <1>10, ScanInserts
    <3>1. Closes(queue[scan.at]) /\ scan.from # 0 /\ queue[scan.at].kind = "end"
      BY <1>10, <2>3, ScanInserts
    <3>2. PICK rec \in GoodWriteRecord :
                       /\ rec = [seq |-> scan.seq, lo |-> scan.from, hi |-> scan.at]
                       /\ seqState' = InsertGood(seqState, rec)
                       /\ \A c \in Recs : c.lo # rec.lo
      BY <1>10, <2>3, ScanInserts
    <3>3. Recs' \subseteq Recs \cup {rec}
      BY <3>2, InsertNew
    <3>4. ~ Spoiled'
      <4>1. scan'.from # scan.from
        BY <1>10, <3>1, PastSpoils
      <4> QED BY <1>10, <4>1, PastSpoils
    <3>5. CASE Spoiled
      <4>1. Dead' \subseteq Dead \cup {rec}
        BY <3>0, <3>3 DEF Dead
      <4>2. Cardinality(Dead') \in Nat /\ Cardinality(Dead') <= Cardinality(Dead) + 1
        BY <1>1, <4>1, OneMore
      <4> QED BY <1>1, <3>4, <3>5, <4>2 DEF DeadInv
    <3>6. CASE ~ Spoiled
      <4>1. ScanInv
        BY <3>6, UnspoiledScan
      <4>2. scan.at \in DOMAIN queue /\ io \in { "readScan", "gcScan" }
        BY <1>0, <1>10, PastSpoils DEF Scanning
      <4>3. Genuine(queue, [seq |-> queue[scan.at].seq, lo |-> scan.from, hi |-> scan.at])
        BY <3>1, <4>1, <4>2, ClosesGenuine
      <4>4. Genuine(queue, rec)
        BY <3>1, <3>2, <4>3 DEF Closes
      <4>5. Dead' \subseteq Dead
        BY <3>0, <3>3, <4>4 DEF Dead
      <4> QED BY <1>a, <3>4, <4>5
    <3> QED BY <3>5, <3>6
  <2> QED BY <2>2, <2>3
<1> QED
  BY <1>2, <1>3, <1>4, <1>5, <1>6, <1>7, <1>8, <1>9, <1>10, SpareSteps DEF TypeInv

-----------------------------------------------------------------------------
(***************************************************************************)
(* All of it together.                                                     *)
(***************************************************************************)
\* Nothing is cached at first.
LEMMA InitCacheInv == Init => CacheInv
<1> SUFFICES ASSUME Init PROVE CacheInv
  OBVIOUS
<1>1. /\ queue = << >> /\ seqState = NewSeqState /\ io = "idle" /\ scan = NoScan /\ events = 0
      /\ seqState.recs = << >> /\ ~ seqState.gc /\ seqState.next = 0
  BY DEF Init, NewSeqState
<1>2. TypeInv
  BY InitTypeInv
<1>3. Recs = {} /\ Starts = {} /\ ~ Scanning
  BY <1>1 DEF Recs, Starts, Positions, Scanning
<1>4. Dead = {} /\ Cardinality(Dead) = 0 /\ ~ Spoiled
  BY <1>3, FS_EmptySet DEF Dead, Spoiled
<1>5. DeadInv
  BY <1>1, <1>4 DEF DeadInv
<1>6. ~ Known /\ OncePerStart
  BY <1>1, <1>3 DEF Known, ScanCompleted, OncePerStart, Distinct
<1> QED
  BY <1>1, <1>2, <1>3, <1>5, <1>6 DEF CacheInv, NumberInv, WriteInv, ScanOpen, ScanTells, CacheTaken,
     DueIsSeen, RangeInv, ScanHasAll, CacheHasAll, RetriesFollow

\* Every step keeps all of it.
LEMMA NextCacheInv ==
    ASSUME "scan" \notin Events, MaxSeq < SeqLimit, CacheInv, [Next]_vars
    PROVE  CacheInv'
<1>1. TypeInv'
  BY NextTypeInv DEF CacheInv
<1>2. NumberInv' /\ WriteInv' /\ ScanOpen' /\ ScanTells'
  BY NextScanTells DEF CacheInv
<1>3. CacheTaken' /\ DueIsSeen'
  BY NextCacheTaken DEF CacheInv
<1>4. RangeInv' /\ OncePerStart'
  BY NextRangeInv DEF CacheInv
<1>5. ScanHasAll'
  BY NextScanHasAll DEF CacheInv
<1>6. CacheHasAll' /\ RetriesFollow'
  BY NextCacheHasAll DEF CacheInv
<1>7. DeadInv'
  BY NextDeadInv DEF CacheInv
<1> QED
  BY <1>1, <1>2, <1>3, <1>4, <1>5, <1>6, <1>7 DEF CacheInv

-----------------------------------------------------------------------------
(***************************************************************************)
(* A collection.                                                           *)
(***************************************************************************)

\* The collection keeps what is left of record r.
Safe(g, r) == \A p \in r.lo .. r.hi : p >= g.pos => InKeptRange(g.recs, IndexOf(g, p))

SafeGood(q, g) == { r \in GoodRecords(q) : Safe(g, r) }

\* A collection whose cache was full keeps as many good records as were cached,
\* less those that faults have spoiled.
FullKeeps == io = "collect" /\ Len(gc.recs) >= Kept => Kept <= Cardinality(SafeGood(queue, gc)) + events

\* Any other has a record of the number of every good record that it does not keep.
Accounted(q, g) ==
    LET held == Held(g.recs)  starts == Positions(q, "start") IN
    /\ \A r \in GoodRecords(q) : Safe(g, r) \/ r.seq \in Nums(held)
    /\ \A p \in starts : p < g.pos => q[p].seq \in Nums(held)
    /\ \A p \in starts, c \in held :
          p >= g.pos /\ IndexOf(g, p) \in c.lo .. c.hi => q[p].seq = c.seq
    /\ \A p \in DOMAIN q, c \in held :
          p >= g.pos /\ IndexOf(g, p) = c.lo => BeginsAt(q, p, c.seq)

SomeAccounted == io = "collect" /\ Len(gc.recs) < Kept => Accounted(queue, gc)

\* Indexes are sums of integers.
LEMMA IndexSums ==
    ASSUME NEW i \in Int, NEW o \in Int, NEW p \in Int
    PROVE  /\ i + (p - o) \in Int /\ i + (o - o) = i
           /\ \A x \in Int : i + (x - o) = (i + (p - o)) + (x - p)
           /\ (i + 1) + (p - (o + 1)) = i + (p - o)
           /\ (i + 1) + (p - o) = i + ((p + 1) - o)
  OBVIOUS

\* A range that an index a at p is not in, but that at e is, begins between.
LEMMA BeginsBetween ==
    ASSUME NEW a \in Int, NEW l \in Int, NEW h \in Int, NEW p \in Int, NEW e \in Int,
           p <= e, a + (e - p) \in l .. h, a \notin l .. h
    PROVE  \E x \in p + 1 .. e : a + (x - p) = l
<1>1. a < l /\ l <= a + (e - p)
  OBVIOUS
<1>2. p + (l - a) \in p + 1 .. e /\ a + ((p + (l - a)) - p) = l
  BY <1>1
<1> QED
  BY <1>2

\* The element at the iterator has the iterator's index, the others theirs.
LEMMA IndexMoves ==
    ASSUME NEW g \in GcStates, NEW p \in Int
    PROVE  /\ IndexOf(g, p) \in Int /\ IndexOf(g, g.pos) = g.idx
           /\ \A x \in Int : IndexOf(g, x) = IndexOf(g, p) + (x - p)
           /\ IndexOf(PastKept(g), p) = IndexOf(g, p)
           /\ IndexOf(PastMoved(g), p) = IndexOf(g, p + 1)
<1>1. /\ g.idx \in Int /\ g.pos \in Int
      /\ PastKept(g).idx = g.idx + 1 /\ PastKept(g).pos = g.pos + 1
      /\ PastMoved(g).idx = g.idx + 1 /\ PastMoved(g).pos = g.pos
  BY GcStateTypes
<1> QED
  BY <1>1, IndexSums DEF IndexOf

\* The ranges of a collection and its records.
LEMMA HeldIs ==
    ASSUME NEW g \in GcStates
    PROVE  /\ \A idx : InKeptRange(g.recs, idx) <=> \E c \in Held(g.recs) : idx \in c.lo .. c.hi
           /\ \A c \in Held(g.recs) : c.seq \in Nat /\ c.lo \in Nat /\ c.hi \in Nat
  BY GcStateTypes DEF InKeptRange, Held

\* A range of a collection does not begin inside a record: so a record whose End is in
\* a range of its number is kept, and a collection that knows its number, but has no
\* range of it that its End is in, has another record in its place.
LEMMA SafeOrShadowed ==
    ASSUME NEW q \in Seq(Elem), NEW g \in GcStates, NEW r \in GoodRecords(q), Accounted(q, g)
    PROVE  Safe(g, r) \/ Shadowed(g, r)
<1> SUFFICES ASSUME ~ Safe(g, r) PROVE Shadowed(g, r)
  OBVIOUS
<1>1. /\ r.lo \in 1 .. Len(q) /\ r.hi \in 1 .. Len(q) /\ r.lo < r.hi /\ Len(q) \in Nat
      /\ q[r.hi].kind = "end" /\ \A j \in r.lo + 1 .. r.hi - 1 : q[j].kind = "data"
  BY GoodRecordIs DEF RecordAt, IsRecord
<1>2. g.pos \in Nat
  BY GcStateTypes
<1>3. r.seq \in Nums(Held(g.recs))
  BY DEF Accounted
<1>4. PICK p \in r.lo .. r.hi : p >= g.pos /\ ~ InKeptRange(g.recs, IndexOf(g, p))
  BY DEF Safe
<1>5. ASSUME NEW c \in Held(g.recs), c.seq = r.seq, IndexOf(g, r.hi) \in c.lo .. c.hi PROVE FALSE
  <2>1. c.lo \in Nat /\ c.hi \in Nat
    BY HeldIs
  <2>p. p \in Int
    BY <1>1
  <2>2. /\ IndexOf(g, p) \in Int
        /\ \A x \in Int : IndexOf(g, x) = IndexOf(g, p) + (x - p)
    BY <2>p, IndexMoves
  <2>3. IndexOf(g, r.hi) = IndexOf(g, p) + (r.hi - p)
    BY <1>1, <2>2
  <2>4. IndexOf(g, p) \notin c.lo .. c.hi
    BY <1>4, HeldIs
  <2> DEFINE a == IndexOf(g, p)
             l == c.lo
             h == c.hi
             e == r.hi
  <2>5. /\ a \in Int /\ l \in Int /\ h \in Int /\ p \in Int /\ e \in Int /\ p <= e
        /\ a + (e - p) \in l .. h /\ a \notin l .. h
    <3>1. p \in Int /\ r.hi \in Int /\ p <= r.hi
      BY <1>1, <1>4
    <3>2. IndexOf(g, p) \in Int /\ c.lo \in Int /\ c.hi \in Int
      <4>1. c.lo \in Int /\ c.hi \in Int
        BY <2>1
      <4> QED BY <2>2, <4>1
    <3>3. IndexOf(g, p) + (r.hi - p) \in c.lo .. c.hi
      BY <1>5, <2>3
    <3> QED BY <2>4, <3>1, <3>2, <3>3
  <2>6. PICK x \in p + 1 .. e : a + (x - p) = l
    <3> HIDE DEF a, l, h, e
    <3> QED BY <2>5, BeginsBetween
  <2>7. x \in p + 1 .. r.hi /\ x \in Int /\ IndexOf(g, x) = c.lo
    <3>1. p \in Int /\ r.hi \in Int
      BY <1>1, <1>4
    <3>2. x \in Int /\ x \in p + 1 .. r.hi /\ IndexOf(g, p) + (x - p) = c.lo
      BY <2>6, <3>1
    <3>3. IndexOf(g, x) = IndexOf(g, p) + (x - p)
      BY <2>2, <3>2
    <3> QED BY <3>2, <3>3
  <2> HIDE DEF a, l, h, e
  <2>8. x \in r.lo + 1 .. r.hi /\ x >= g.pos
    BY <1>1, <1>2, <1>4, <2>7
  <2>9. x \in DOMAIN q
    BY <1>1, <2>8
  <2>10. BeginsAt(q, x, c.seq)
    BY <2>7, <2>8, <2>9 DEF Accounted
  <2>11. x = r.hi \/ x \in r.lo + 1 .. r.hi - 1
    BY <1>1, <2>8
  <2> QED BY <1>1, <2>10, <2>11 DEF BeginsAt, Start, Bad
<1>6. \A i \in DOMAIN g.recs : g.recs[i] \in Held(g.recs)
  BY DEF Held
<1>7. \E i \in DOMAIN g.recs : g.recs[i].seq = r.seq
  BY <1>3 DEF Nums, Held
<1> QED
  BY <1>5, <1>6, <1>7 DEF Shadowed

\* Where record r is when the element at p, which is no part of it, has been removed.
Shifted(r, p) ==
    [seq |-> r.seq, lo |-> IF r.lo < p THEN r.lo ELSE r.lo - 1,
                    hi |-> IF r.lo < p THEN r.hi ELSE r.hi - 1]

\* What is removed is no part of a record that is kept.
LEMMA SafeMoves ==
    ASSUME NEW q \in Seq(Elem), NEW g \in GcStates, g.pos \in DOMAIN q,
           q[g.pos] = Bad \/ ~ InKeptRange(g.recs, g.idx), NEW r \in SafeGood(q, g)
    PROVE  /\ r.hi < g.pos \/ g.pos < r.lo
           /\ Shifted(r, g.pos) \in SafeGood(RemoveAt(q, g.pos), PastMoved(g))
<1> DEFINE n == RemoveAt(q, g.pos)
           h == PastMoved(g)
           s == Shifted(r, g.pos)
<1>1. /\ r \in GoodRecords(q) /\ Safe(g, r)
  BY DEF SafeGood
<1>2. /\ r.lo \in 1 .. Len(q) /\ r.hi \in 1 .. Len(q) /\ r.lo < r.hi /\ IsRecord(q, r.lo, r.hi)
      /\ q[r.lo].seq = r.seq /\ Len(q) \in Nat
  BY <1>1, GoodRecordIs DEF RecordAt
<1>3. /\ g.pos \in Nat \ {0} /\ h \in GcStates /\ h.recs = g.recs /\ h.pos = g.pos
  BY GcStateTypes
<1>4. n \in Seq(Elem)
  BY RemoveAtProperties
<1>5. ASSUME g.pos \in r.lo .. r.hi PROVE FALSE
  <2>1. q[g.pos] # Bad
    <3>1. g.pos = r.lo \/ g.pos = r.hi \/ g.pos \in r.lo + 1 .. r.hi - 1
      BY <1>2, <1>3, <1>5
    <3> QED BY <1>2, <3>1 DEF IsRecord, Bad
  <2>2. g.pos >= g.pos /\ g.pos \in Int
    BY <1>3
  <2>3. InKeptRange(g.recs, IndexOf(g, g.pos))
    BY <1>1, <1>5, <2>2 DEF Safe
  <2>4. IndexOf(g, g.pos) = g.idx
    BY <2>2, IndexMoves
  <2> QED BY <2>1, <2>3, <2>4
<1>6. r.hi < g.pos \/ g.pos < r.lo
  BY <1>2, <1>3, <1>5
<1>7. CASE r.hi < g.pos
  <2>1. r.lo < g.pos
    BY <1>2, <1>3, <1>7
  <2>2. s = [seq |-> r.seq, lo |-> r.lo, hi |-> r.hi]
    BY <2>1 DEF Shifted
  <2>3. IsRecord(n, r.lo, r.hi) /\ n[r.lo] = q[r.lo]
    BY <1>2, <1>7, RemoveKeepsFront
  <2>4. s \in GoodRecords(n)
    BY <1>2, <1>4, <2>2, <2>3, RecordIsGood
  <2>5. \A p \in s.lo .. s.hi : ~ p >= h.pos
    BY <1>2, <1>3, <1>7, <2>2
  <2> QED BY <1>6, <2>4, <2>5 DEF SafeGood, Safe
<1>8. CASE g.pos < r.lo
  <2>1. ~ r.lo < g.pos
    BY <1>2, <1>3, <1>8
  <2>2. s = [seq |-> r.seq, lo |-> r.lo - 1, hi |-> r.hi - 1]
    BY <2>1 DEF Shifted
  <2>3. IsRecord(n, r.lo - 1, r.hi - 1) /\ n[r.lo - 1] = q[r.lo]
    BY <1>2, <1>8, RemoveKeepsBack
  <2>4. s \in GoodRecords(n)
    BY <1>2, <1>4, <2>2, <2>3, RecordIsGood
  <2>5. ASSUME NEW p \in s.lo .. s.hi, p >= h.pos PROVE InKeptRange(h.recs, IndexOf(h, p))
    <3>1. p \in Int /\ p + 1 \in r.lo .. r.hi /\ p + 1 >= g.pos
      BY <1>2, <1>3, <2>2, <2>5
    <3>2. InKeptRange(g.recs, IndexOf(g, p + 1))
      BY <1>1, <3>1 DEF Safe
    <3>3. IndexOf(h, p) = IndexOf(g, p + 1)
      BY <3>1, IndexMoves
    <3> QED BY <1>3, <3>2, <3>3
  <2> QED BY <1>6, <2>4, <2>5 DEF SafeGood, Safe
<1> QED
  BY <1>6, <1>7, <1>8

\* The element at the iterator is kept.
LEMMA SafeStays ==
    ASSUME NEW q \in Seq(Elem), NEW g \in GcStates, NEW r \in GoodRecords(q), Safe(g, r)
    PROVE  Safe(PastKept(g), r)
<1>1. /\ g.pos \in Nat /\ PastKept(g).recs = g.recs /\ PastKept(g).pos = g.pos + 1
  BY GcStateTypes
<1>2. r.lo \in Int /\ r.hi \in Int
  BY GoodRecordIs
<1>3. ASSUME NEW p \in r.lo .. r.hi, p >= PastKept(g).pos
      PROVE  InKeptRange(PastKept(g).recs, IndexOf(PastKept(g), p))
  <2>1. p \in Int /\ p >= g.pos
    BY <1>1, <1>2, <1>3
  <2>2. InKeptRange(g.recs, IndexOf(g, p))
    BY <2>1 DEF Safe
  <2>3. IndexOf(PastKept(g), p) = IndexOf(g, p)
    BY <2>1, IndexMoves
  <2> QED BY <1>1, <2>2, <2>3
<1> QED
  BY <1>3 DEF Safe

\* A step of a collection loses no record that is kept.
LEMMA SafeCount ==
    ASSUME NEW q \in Seq(Elem), NEW g \in GcStates, g.pos \in DOMAIN q,
           q[g.pos] = Bad \/ ~ InKeptRange(g.recs, g.idx)
    PROVE  Cardinality(SafeGood(q, g)) <= Cardinality(SafeGood(RemoveAt(q, g.pos), PastMoved(g)))
<1> DEFINE n == RemoveAt(q, g.pos)
           S == SafeGood(q, g)
           T == SafeGood(n, PastMoved(g))
           f == [r \in S |-> Shifted(r, g.pos)]
<1>1. n \in Seq(Elem) /\ g.pos \in Nat
  BY RemoveAtProperties, GcStateTypes
<1>2. IsFiniteSet(T)
  <2>1. T \subseteq GoodRecords(n)
    BY DEF SafeGood
  <2> QED BY <1>1, <2>1, GoodFinite, FS_Subset
<1>3. f \in [S -> T]
  BY SafeMoves
<1>4. ASSUME NEW r \in S, NEW s \in S, f[r] = f[s] PROVE r = s
  <2>1. r \in GoodRecords(q) /\ s \in GoodRecords(q)
    BY DEF SafeGood
  <2>2. r.lo \in Nat /\ s.lo \in Nat /\ r.hi \in Nat /\ s.hi \in Nat /\ r.lo < r.hi /\ s.lo < s.hi
    BY <2>1, GoodRecordIs
  <2>3. (r.hi < g.pos \/ g.pos < r.lo) /\ (s.hi < g.pos \/ g.pos < s.lo)
    BY SafeMoves
  <2>4. Shifted(r, g.pos).lo = Shifted(s, g.pos).lo
    BY <1>4
  <2>5. (IF r.lo < g.pos THEN r.lo ELSE r.lo - 1) = IF s.lo < g.pos THEN s.lo ELSE s.lo - 1
    BY <2>4 DEF Shifted
  <2>6. r.lo = s.lo
    BY <1>1, <2>2, <2>3, <2>5
  <2> QED BY <2>1, <2>6, SameStart
<1>5. f \in Injection(S, T)
  BY <1>3, <1>4 DEF Injection, IsInjective
<1> HIDE DEF f, S, T, n
<1> QED
  BY <1>2, <1>5, FS_Injection DEF S, T, n

\* A collection passes an element and keeps it.
LEMMA AccountedStays ==
    ASSUME NEW q \in Seq(Elem), NEW g \in GcStates,
           InKeptRange(g.recs, g.idx), Accounted(q, g)
    PROVE  Accounted(q, PastKept(g))
<1> DEFINE h == PastKept(g)
<1>1. g.pos \in Nat /\ h \in GcStates /\ h.recs = g.recs /\ h.pos = g.pos + 1
  BY GcStateTypes
<1>2. \A p \in Int : IndexOf(h, p) = IndexOf(g, p)
  BY IndexMoves
<1>3. \A r \in GoodRecords(q) : Safe(h, r) \/ r.seq \in Nums(Held(g.recs))
  BY SafeStays DEF Accounted
<1>4. ASSUME NEW p \in Positions(q, "start"), p < h.pos PROVE q[p].seq \in Nums(Held(g.recs))
  <2>1. p \in Nat
    BY StartsAre
  <2>2. CASE p < g.pos
    BY <2>2 DEF Accounted
  <2>3. CASE p = g.pos
    <3>1. PICK c \in Held(g.recs) : g.idx \in c.lo .. c.hi
      BY HeldIs
    <3>2. IndexOf(g, p) = g.idx
      BY <2>1, <2>3, IndexMoves
    <3>3. p >= g.pos
      BY <1>1, <2>3
    <3>4. q[p].seq = c.seq
      BY <3>1, <3>2, <3>3 DEF Accounted
    <3> QED BY <3>4 DEF Nums
  <2>4. p < g.pos \/ p = g.pos
    BY <1>1, <1>4, <2>1
  <2> QED BY <2>2, <2>3, <2>4
<1>5. ASSUME NEW p \in DOMAIN q, p >= h.pos PROVE p \in Int /\ p >= g.pos /\ IndexOf(h, p) = IndexOf(g, p)
  <2>1. p \in Int
    OBVIOUS
  <2> QED BY <1>1, <1>2, <1>5, <2>1
<1>6. \A p \in Positions(q, "start") : p \in DOMAIN q
  BY DEF Positions
<1>7. \A p \in Positions(q, "start"), c \in Held(g.recs) :
          p >= h.pos /\ IndexOf(h, p) \in c.lo .. c.hi => q[p].seq = c.seq
  BY <1>5, <1>6 DEF Accounted
<1>8. \A p \in DOMAIN q, c \in Held(g.recs) :
          p >= h.pos /\ IndexOf(h, p) = c.lo => BeginsAt(q, p, c.seq)
  BY <1>5 DEF Accounted
<1> HIDE DEF h
<1>9. Accounted(q, h)
  BY <1>1, <1>3, <1>4, <1>7, <1>8 DEF Accounted
<1> QED
  BY <1>9 DEF h

\* A collection removes an element.
LEMMA AccountedMoves ==
    ASSUME NEW q \in Seq(Elem), NEW g \in GcStates, g.pos \in DOMAIN q,
           q[g.pos] = Bad \/ ~ InKeptRange(g.recs, g.idx), Accounted(q, g)
    PROVE  Accounted(RemoveAt(q, g.pos), PastMoved(g))
<1> DEFINE n == RemoveAt(q, g.pos)
           h == PastMoved(g)
<1>1. g.pos \in Nat /\ h \in GcStates /\ h.recs = g.recs /\ h.pos = g.pos
  BY GcStateTypes
<1>2. \A p \in Int : IndexOf(h, p) = IndexOf(g, p + 1)
  BY IndexMoves
<1>3. /\ n \in Seq(Elem) /\ Len(n) = Len(q) - 1 /\ Len(q) \in Nat
      /\ \A j \in 1 .. Len(q) - 1 : n[j] = IF j < g.pos THEN q[j] ELSE q[j + 1]
  <2> DEFINE x == g.pos
  <2>1. x \in DOMAIN q
    OBVIOUS
  <2> HIDE DEF x
  <2>2. /\ RemoveAt(q, x) \in Seq(Elem) /\ Len(RemoveAt(q, x)) = Len(q) - 1
        /\ \A j \in 1 .. Len(q) - 1 : RemoveAt(q, x)[j] = IF j < x THEN q[j] ELSE q[j + 1]
    BY <2>1, RemoveAtProperties
  <2>3. Len(q) \in Nat
    OBVIOUS
  <2> QED BY <2>2, <2>3 DEF x
<1>4. ASSUME NEW p \in Positions(n, "start"), p < h.pos
      PROVE  q[p].seq \in Nums(Held(g.recs)) /\ n[p] = q[p]
  <2>1. p \in Positions(q, "start") /\ n[p] = q[p]
    BY <1>1, <1>4, RemoveStarts
  <2> QED BY <1>1, <1>4, <2>1 DEF Accounted
<1>5. ASSUME NEW p \in DOMAIN n, p >= h.pos
      PROVE  /\ p \in Int /\ p + 1 \in DOMAIN q /\ p + 1 >= g.pos
             /\ n[p] = q[p + 1] /\ IndexOf(h, p) = IndexOf(g, p + 1)
  <2>1. p \in 1 .. Len(q) - 1
    BY <1>3
  <2>2. n[p] = q[p + 1] /\ p \in Int /\ p + 1 \in DOMAIN q /\ p + 1 >= g.pos
    BY <1>1, <1>3, <1>5, <2>1
  <2> QED BY <1>2, <2>2
<1>6. ASSUME NEW r \in GoodRecords(n) PROVE Safe(h, r) \/ r.seq \in Nums(Held(g.recs))
  <2>1. /\ r.lo \in 1 .. Len(n) /\ r.hi \in 1 .. Len(n) /\ IsRecord(n, r.lo, r.hi) /\ n[r.lo].seq = r.seq
    BY <1>3, GoodRecordIs DEF RecordAt
  <2>2. CASE r.lo < g.pos
    <3>1. r.lo \in Positions(n, "start")
      BY <1>3, <2>1 DEF Positions, IsRecord
    <3> QED BY <1>1, <1>4, <2>1, <2>2, <3>1
  <2>3. CASE g.pos <= r.lo
    <3>1. IsRecord(q, r.lo + 1, r.hi + 1) /\ n[r.lo] = q[r.lo + 1]
      BY <2>1, <2>3, RemoveCameFrom
    <3> DEFINE s == [seq |-> r.seq, lo |-> r.lo + 1, hi |-> r.hi + 1]
    <3>2. s \in GoodRecords(q)
      BY <2>1, <3>1, RecordIsGood
    <3>3. CASE s.seq \in Nums(Held(g.recs))
      BY <3>3
    <3>4. CASE Safe(g, s)
      <4>1. ASSUME NEW p \in r.lo .. r.hi, p >= h.pos PROVE InKeptRange(h.recs, IndexOf(h, p))
        <5>1. p \in Int /\ p + 1 \in s.lo .. s.hi /\ p + 1 >= g.pos
          BY <1>1, <2>1, <4>1
        <5>2. InKeptRange(g.recs, IndexOf(g, p + 1))
          BY <3>4, <5>1 DEF Safe
        <5> QED BY <1>1, <1>2, <5>1, <5>2
      <4> QED BY <4>1 DEF Safe
    <3> QED BY <3>2, <3>3, <3>4 DEF Accounted
  <2> QED BY <1>1, <2>1, <2>2, <2>3
<1>7. ASSUME NEW p \in Positions(n, "start"), NEW c \in Held(g.recs),
             p >= h.pos, IndexOf(h, p) \in c.lo .. c.hi
      PROVE  n[p].seq = c.seq
  <2>1. p \in DOMAIN n /\ n[p].kind = "start"
    BY DEF Positions
  <2>2. p + 1 \in Positions(q, "start")
    BY <1>5, <1>7, <2>1 DEF Positions
  <2> QED BY <1>5, <1>7, <2>1, <2>2 DEF Accounted
<1>8. ASSUME NEW p \in DOMAIN n, NEW c \in Held(g.recs), p >= h.pos, IndexOf(h, p) = c.lo
      PROVE  BeginsAt(n, p, c.seq)
  <2>1. BeginsAt(q, p + 1, c.seq)
    BY <1>5, <1>8 DEF Accounted
  <2> QED BY <1>5, <1>8, <2>1 DEF BeginsAt
<1> HIDE DEF h, n
<1>9. Accounted(n, h)
  BY <1>1, <1>4, <1>6, <1>7, <1>8 DEF Accounted
<1> QED
  BY <1>9 DEF h, n

\* An element rots during a collection.
LEMMA AccountedRots ==
    ASSUME NEW q \in Seq(Elem), NEW n, NEW i, Spoils(q, n, i), NEW g, Accounted(q, g)
    PROVE  Accounted(n, g)
<1>1. n \in Seq(Elem) /\ DOMAIN n = DOMAIN q /\ \A p \in DOMAIN q : n[p] = q[p] \/ n[p] = Bad
  BY DEF Spoils
<1>2. GoodRecords(n) \subseteq GoodRecords(q)
  BY SpoilsGood
<1>3. \A p \in Positions(n, "start") : p \in Positions(q, "start") /\ n[p] = q[p]
  BY SpoilsStarts
<1>4. \A p \in DOMAIN n : \A s : BeginsAt(q, p, s) => BeginsAt(n, p, s)
  BY <1>1 DEF BeginsAt
<1> QED
  BY <1>1, <1>2, <1>3, <1>4 DEF Accounted

\* What a collection begins with: all good records, if the cache had room to spare.
LEMMA BeginsAccounted ==
    ASSUME CacheInv, MaxSeq < SeqLimit, BeginGarbage, Incomplete
    PROVE  Accounted(queue, gc')
<1> DEFINE g == [recs |-> seqState.recs, idx |-> 1, pos |-> 1]
<1>1. gc' = g /\ seqState.gc /\ io = "idle"
  BY DEF BeginGarbage
<1>2. /\ TypeInv /\ queue \in Seq(Elem) /\ Len(queue) \in Nat /\ Recs = Held(seqState.recs)
      /\ seqState.recs \in Seq(GoodWriteRecord)
      /\ \A c \in Recs : c.seq \in Nat /\ c.lo \in Nat /\ c.hi \in Nat
  BY StoreTypes DEF CacheInv
<1>3. g \in GcStates /\ g.pos = 1 /\ g.idx = 1 /\ Held(g.recs) = Recs
  BY <1>2 DEF GcStates
<1>4. \A p \in Int : IndexOf(g, p) = p
  BY DEF IndexOf
<1> HIDE DEF g
<1>5. ASSUME NEW r \in Good PROVE Safe(g, r) \/ r.seq \in Nums(Recs)
  <2>1. Known
    <3>1. AnySeen(seqState)
      BY <1>1 DEF CacheInv, DueIsSeen
    <3>2. HighestSeen(seqState) \in Recs
      BY <1>2, <3>1, HighestIsHeld
    <3>3. ScanCompleted(seqState)
      BY <3>2, CachedOlder DEF CacheInv
    <3> QED BY <1>1, <3>3 DEF Known
  <2>2. CASE Cached(r)
    <3>1. PICK c \in Recs : c.lo = r.lo /\ r.hi <= c.hi
      BY <2>2 DEF Cached
    <3>2. r.lo \in Int /\ r.hi \in Int /\ c.hi \in Int
      BY <1>2, GoodRecordIs DEF Good
    <3>3. ASSUME NEW p \in r.lo .. r.hi PROVE InKeptRange(g.recs, IndexOf(g, p))
      <4>1. p \in Int /\ p \in c.lo .. c.hi
        BY <3>1, <3>2
      <4> QED BY <1>3, <1>4, <4>1, HeldIs
    <3> QED BY <3>3 DEF Safe
  <2> QED BY <1>1, <2>1, <2>2 DEF CacheInv, CacheHasAll
<1>6. \A p \in Positions(queue, "start") : p \in Int /\ ~ p < 1
  BY <1>2 DEF Positions
<1>7. ASSUME NEW p \in Positions(queue, "start"), NEW c \in Recs, IndexOf(g, p) \in c.lo .. c.hi
      PROVE  queue[p].seq = c.seq
  BY <1>4, <1>6, <1>7 DEF CacheInv, RangeInv, InRange, Starts
<1>8. ASSUME NEW p \in DOMAIN queue, NEW c \in Recs, IndexOf(g, p) = c.lo
      PROVE  BeginsAt(queue, p, c.seq)
  <2>1. p = c.lo
    BY <1>2, <1>4, <1>8
  <2> QED BY <2>1 DEF CacheInv, RangeInv, InRange
<1>9. Accounted(queue, g)
  BY <1>3, <1>5, <1>6, <1>7, <1>8 DEF Accounted, Good
<1> QED
  BY <1>1, <1>9

\* ... and as many as there are slots, less what has been spoiled, if it was full.
LEMMA BeginsFull ==
    ASSUME CacheInv, BeginGarbage, ~ Incomplete
    PROVE  Kept <= Cardinality(SafeGood(queue, gc')) + events
<1> DEFINE g == [recs |-> seqState.recs, idx |-> 1, pos |-> 1]
           Alive == Recs \ Dead
           S == SafeGood(queue, g)
<1>1. gc' = g /\ io = "idle"
  BY DEF BeginGarbage
<1>2. /\ TypeInv /\ queue \in Seq(Elem) /\ Len(queue) \in Nat /\ Recs = Held(seqState.recs)
      /\ seqState.recs \in Seq(GoodWriteRecord)
      /\ Len(seqState.recs) \in Nat /\ Len(seqState.recs) <= Kept /\ Kept \in Nat
      /\ \A c \in Recs : c.seq \in Nat /\ c.lo \in Nat /\ c.hi \in Nat
  BY StoreTypes, Constants DEF CacheInv
<1>3. g \in GcStates /\ Held(g.recs) = Recs /\ \A p \in Int : IndexOf(g, p) = p
  BY <1>2 DEF GcStates, IndexOf
<1> HIDE DEF g
<1>4. IsFiniteSet(S)
  <2>1. S \subseteq GoodRecords(queue)
    BY DEF SafeGood
  <2> QED BY <1>2, <2>1, GoodFinite, FS_Subset
<1>5. ASSUME NEW c \in Alive PROVE \E r \in S : r.lo = c.lo
  <2>1. Genuine(queue, c) /\ c \in Recs
    BY DEF Dead
  <2>2. PICK hi \in { c.hi - 1, c.hi } : IsRecord(queue, c.lo, hi)
    BY <2>1 DEF Genuine
  <2> DEFINE r == [seq |-> queue[c.lo].seq, lo |-> c.lo, hi |-> hi]
  <2>3. r \in GoodRecords(queue)
    BY <1>2, <2>2, RecordIsGood
  <2>4. ASSUME NEW p \in c.lo .. hi PROVE InKeptRange(g.recs, IndexOf(g, p))
    <3>1. p \in Int /\ p \in c.lo .. c.hi
      BY <1>2, <2>1, <2>2
    <3> QED BY <1>3, <2>1, <3>1, HeldIs
  <2>5. Safe(g, r)
    BY <2>4 DEF Safe
  <2> QED BY <2>3, <2>5 DEF SafeGood
<1> DEFINE f == [c \in Alive |-> CHOOSE r \in S : r.lo = c.lo]
<1>6. \A c \in Alive : f[c] \in S /\ f[c].lo = c.lo
  BY <1>5
<1>7. f \in Injection(Alive, S)
  <2>1. f \in [Alive -> S]
    BY <1>6
  <2>2. ASSUME NEW c \in Alive, NEW d \in Alive, f[c] = f[d] PROVE c = d
    <3>1. c.lo = d.lo
      BY <1>6, <2>2
    <3> QED BY <3>1 DEF CacheInv, OncePerStart
  <2> QED BY <2>1, <2>2 DEF Injection, IsInjective
<1> HIDE DEF f, S
<1>8. IsFiniteSet(Alive) /\ Cardinality(Alive) <= Cardinality(S)
  BY <1>4, <1>7, FS_Injection
<1>9. IsFiniteSet(Recs) /\ Cardinality(Recs) = Kept
  <2>1. Distinct(seqState.recs)
    BY DEF CacheInv, OncePerStart
  <2>2. Len(seqState.recs) = Kept
    BY <1>2 DEF Incomplete
  <2> QED BY <1>2, <2>1, <2>2, HeldCount
<1>10. IsFiniteSet(Dead) /\ Cardinality(Dead) \in Nat /\ Cardinality(Dead) <= events /\ events \in Nat
  <2>1. IsFiniteSet(Dead) /\ Cardinality(Dead) \in Nat
    BY <1>2, CacheFinite
  <2>2. ~ Spoiled
    BY <1>1 DEF Spoiled, Scanning
  <2>3. events \in Nat
    BY <1>2 DEF TypeInv, TypeOK
  <2> QED BY <2>1, <2>2, <2>3 DEF CacheInv, DeadInv
<1>11. Cardinality(Recs) <= Cardinality(Alive) + Cardinality(Dead)
  <2>1. Recs = Alive \cup Dead /\ Alive \cap Dead = {}
    BY DEF Dead
  <2>2. /\ Cardinality(Alive \cup Dead) =
              Cardinality(Alive) + Cardinality(Dead) - Cardinality(Alive \cap Dead)
    BY <1>8, <1>10, FS_Union
  <2>3. Cardinality(Alive \cap Dead) = 0
    BY <2>1, FS_EmptySet
  <2>4. Cardinality(Alive) \in Nat
    BY <1>8, FS_CardinalityType
  <2> HIDE DEF Alive
  <2> QED BY <1>10, <2>1, <2>2, <2>3, <2>4
<1>12. Cardinality(Alive) \in Nat /\ Cardinality(S) \in Nat
  BY <1>4, <1>8, FS_CardinalityType
<1> HIDE DEF Alive
<1>13. Kept <= Cardinality(S) + events
  BY <1>2, <1>8, <1>9, <1>10, <1>11, <1>12
<1> QED
  BY <1>1, <1>13 DEF S

\* There are finitely many good records, so of those that are kept too.
LEMMA SafeFinite ==
    ASSUME NEW q \in Seq(Elem), NEW g
    PROVE  IsFiniteSet(SafeGood(q, g)) /\ Cardinality(SafeGood(q, g)) \in Nat
<1>1. SafeGood(q, g) \subseteq GoodRecords(q)
  BY DEF SafeGood
<1> QED
  BY <1>1, GoodFinite, FS_Subset, FS_CardinalityType

\* An element that rots is part of one record at most.
LEMMA SafeRots ==
    ASSUME NEW q \in Seq(Elem), NEW n, NEW i, Spoils(q, n, i), NEW g
    PROVE  Cardinality(SafeGood(q, g)) <= Cardinality(SafeGood(n, g)) + 1
<1>1. n \in Seq(Elem) /\ i \in Nat
  BY DEF Spoils
<1>2. GoodRecords(n) = { r \in GoodRecords(q) : i \notin r.lo .. r.hi }
  BY SpoilsGood
<1>3. ASSUME NEW r \in GoodRecords(q), NEW s \in GoodRecords(q),
             i \in r.lo .. r.hi, i \in s.lo .. s.hi
      PROVE  r = s
  <2>1. /\ r.lo \in Nat /\ r.hi \in Nat /\ s.lo \in Nat /\ s.hi \in Nat
        /\ IsRecord(q, r.lo, r.hi) /\ IsRecord(q, s.lo, s.hi)
    BY GoodRecordIs DEF RecordAt
  <2>2. q[r.lo].kind = "start" /\ q[s.lo].kind = "start" /\ r.lo < r.hi /\ s.lo < s.hi
    BY <2>1 DEF IsRecord
  <2>3. r.lo \in s.lo .. s.hi \/ s.lo \in r.lo .. r.hi
    BY <1>1, <1>3, <2>1
  <2>4. r.lo = s.lo
    BY <2>1, <2>2, <2>3, OneStart
  <2> QED BY <2>4, SameStart
<1>4. PICK x : SafeGood(q, g) \subseteq SafeGood(n, g) \cup {x}
  <2>1. CASE \E x \in GoodRecords(q) : i \in x.lo .. x.hi
    <3>1. PICK x \in GoodRecords(q) : i \in x.lo .. x.hi
      BY <2>1
    <3>2. \A r \in GoodRecords(q) : r \in GoodRecords(n) \/ r = x
      BY <1>2, <1>3, <3>1
    <3>3. SafeGood(q, g) \subseteq SafeGood(n, g) \cup {x}
      BY <3>2 DEF SafeGood
    <3> QED BY <3>3
  <2>2. CASE ~ \E x \in GoodRecords(q) : i \in x.lo .. x.hi
    <3>1. GoodRecords(q) = GoodRecords(n)
      BY <1>2, <2>2
    <3> QED BY <3>1 DEF SafeGood
  <2> QED BY <2>1, <2>2
<1> QED
  BY <1>1, <1>4, SafeFinite, OneMore

\* Every step keeps what a collection relies on.
LEMMA NextKeeps ==
    ASSUME "scan" \notin Events, MaxSeq < SeqLimit,
           CacheInv, FullKeeps, SomeAccounted, [Next]_vars
    PROVE  FullKeeps' /\ SomeAccounted'
<1>0. /\ TypeOK /\ TypeInv /\ queue \in Seq(Elem) /\ Kept \in Nat
      /\ events \in Nat /\ events' \in Nat /\ events <= events'
      /\ \A g : Cardinality(SafeGood(queue, g)) \in Nat
  BY StoreTypes, EventsGrow, Constants, SafeFinite DEF CacheInv, TypeInv
<1>a. io' # "collect" => FullKeeps' /\ SomeAccounted'
  BY DEF FullKeeps, SomeAccounted
<1>b. UNCHANGED << queue, io, gc >> => FullKeeps' /\ SomeAccounted'
  BY <1>0 DEF FullKeeps, SomeAccounted
<1>1. CASE Rot
  <2>1. PICK i \in DOMAIN queue : Spoils(queue, queue', i)
    BY <1>0, <1>1, RotSpoils
  <2>2. UNCHANGED << io, gc >> /\ events' = events + 1
    BY <1>0, <1>1, RotSpoils
  <2>3. /\ Cardinality(SafeGood(queue, gc)) <= Cardinality(SafeGood(queue', gc)) + 1
        /\ Cardinality(SafeGood(queue', gc)) \in Nat
    BY <1>0, <2>1, SafeRots, SafeFinite DEF Spoils
  <2>4. FullKeeps'
    BY <1>0, <2>2, <2>3 DEF FullKeeps
  <2>5. SomeAccounted'
    BY <1>0, <2>1, <2>2, AccountedRots DEF SomeAccounted
  <2> QED BY <2>4, <2>5
<1>2. CASE Quiet
  BY <1>2, <1>b DEF Quiet
<1>3. CASE Ends \/ ScanEnds
  BY <1>3, <1>a DEF Ends, ScanEnds
<1>4. CASE Forgets
  <2>1. CASE io' = "idle"
    BY <2>1, <1>a
  <2>2. CASE io' = io /\ UNCHANGED gc
    BY <1>4, <1>b, <2>2 DEF Forgets
  <2>3. CASE BeginGarbage
    <3>1. UNCHANGED queue /\ gc'.recs = seqState.recs
      BY <2>3 DEF BeginGarbage
    <3>2. ~ Incomplete => Kept <= Cardinality(SafeGood(queue, gc')) + events
      BY <2>3, BeginsFull
    <3>3. Incomplete => Accounted(queue, gc')
      BY <2>3, BeginsAccounted
    <3>4. Len(seqState.recs) \in Nat
      BY <1>0, StoreTypes
    <3>5. FullKeeps'
      BY <1>0, <3>1, <3>2, <3>4 DEF FullKeeps, Incomplete
    <3>6. SomeAccounted'
      BY <3>1, <3>3 DEF SomeAccounted, Incomplete
    <3> QED BY <3>5, <3>6
  <2> QED BY <1>4, <2>1, <2>2, <2>3 DEF Forgets
<1>5. CASE CollectElement
  <2>1. /\ gc \in GcStates /\ gc.pos \in DOMAIN queue
        /\ \/ /\ InKeptRange(gc.recs, gc.idx)
              /\ gc' = PastKept(gc) /\ UNCHANGED queue
           \/ /\ queue[gc.pos] = Bad \/ ~ InKeptRange(gc.recs, gc.idx)
              /\ gc' = PastMoved(gc) /\ queue' = RemoveAt(queue, gc.pos)
    BY <1>0, <1>5, CollectSteps
  <2>2. io = "collect" /\ io' = "collect" /\ gc'.recs = gc.recs
    BY <1>5, <2>1, GcStateTypes DEF CollectElement
  <2>3. Cardinality(SafeGood(queue, gc)) <= Cardinality(SafeGood(queue', gc'))
    <3>1. CASE gc' = PastKept(gc) /\ UNCHANGED queue
      <4>1. SafeGood(queue, gc) \subseteq SafeGood(queue', gc')
        BY <1>0, <2>1, <3>1, SafeStays DEF SafeGood
      <4> QED BY <1>0, <3>1, <4>1, SafeFinite, FS_Subset
    <3>2. CASE /\ queue[gc.pos] = Bad \/ ~ InKeptRange(gc.recs, gc.idx)
               /\ gc' = PastMoved(gc) /\ queue' = RemoveAt(queue, gc.pos)
      BY <1>0, <2>1, <3>2, SafeCount
    <3> QED BY <2>1, <3>1, <3>2
  <2>4. Accounted(queue, gc) => Accounted(queue', gc')
    BY <1>0, <2>1, AccountedStays, AccountedMoves
  <2>5. queue' \in Seq(Elem)
    BY <1>0, <2>1, RemoveAtProperties
  <2>6. FullKeeps'
    BY <1>0, <2>2, <2>3, <2>5, SafeFinite DEF FullKeeps
  <2>7. SomeAccounted'
    BY <2>2, <2>4 DEF SomeAccounted
  <2> QED BY <2>6, <2>7
<1>6. CASE \/ BeginWrites \/ PushData \/ PushEnd \/ VerifyGood \/ BeginScan \/ EndCollect
           \/ Scanning /\ ScanElement
  <2>1. io' # "collect"
    BY <1>6 DEF BeginWrites, PushData, PushEnd, VerifyGood, BeginScan, EndCollect, Scanning, ScanElement
  <2> QED BY <2>1, <1>a
<1> QED
  BY <1>0, <1>1, <1>2, <1>3, <1>4, <1>5, <1>6, SpareSteps

\* What LastRecordKept says of a step.
LastStays ==
    Good # {} /\ events' < Kept =>
        \/ Good' # {}
        \/ Cardinality(Good) = 1 /\ Len(queue') = Len(queue)
        \/ \A r \in Good : Shadowed(gc, r)

\* A step that leaves no good record had none to lose that counts.
LEMMA NextLastStays ==
    ASSUME "scan" \notin Events, CacheInv, FullKeeps, SomeAccounted, [Next]_vars
    PROVE  UNCHANGED queue \/ LastStays
<1> SUFFICES ASSUME queue' # queue, Good # {}, events' < Kept, Good' = {}
             PROVE  \/ Cardinality(Good) = 1 /\ Len(queue') = Len(queue)
                    \/ \A r \in Good : Shadowed(gc, r)
  BY DEF LastStays
<1>0. /\ TypeOK /\ TypeInv /\ WriteInv /\ RangeInv /\ queue \in Seq(Elem) /\ Kept \in Nat
      /\ events \in Nat /\ events' \in Nat /\ events <= events'
  BY StoreTypes, EventsGrow, Constants DEF CacheInv, TypeInv
<1>1. CASE Rot
  <2>1. PICK i \in DOMAIN queue : Spoils(queue, queue', i)
    BY <1>0, <1>1, RotSpoils
  <2>2. Len(queue') = Len(queue) /\ queue' \in Seq(Elem)
    BY <2>1 DEF Spoils
  <2>3. SafeGood(queue', [NoGc EXCEPT !.pos = Len(queue) + 1]) = {}
    BY DEF SafeGood, Good
  <2>4. SafeGood(queue, [NoGc EXCEPT !.pos = Len(queue) + 1]) = Good
    <3>1. [NoGc EXCEPT !.pos = Len(queue) + 1].pos = Len(queue) + 1
      BY DEF NoGc
    <3>2. ASSUME NEW r \in Good, NEW p \in r.lo .. r.hi PROVE ~ p >= Len(queue) + 1
      <4>1. r.lo \in 1 .. Len(queue) /\ r.hi \in 1 .. Len(queue) /\ Len(queue) \in Nat
        BY <1>0, GoodRecordIs DEF Good
      <4> QED BY <4>1
    <3> QED BY <3>1, <3>2 DEF SafeGood, Safe, Good
  <2>5. Cardinality(Good) <= 1
    <3>1. Cardinality(Good) <= Cardinality({}) + 1
      BY <1>0, <2>1, <2>3, <2>4, SafeRots
    <3> QED BY <3>1, FS_EmptySet
  <2>6. IsFiniteSet(Good) /\ Cardinality(Good) \in Nat /\ Cardinality(Good) # 0
    BY <1>0, GoodFinite, FS_EmptySet DEF Good
  <2> QED BY <2>2, <2>5, <2>6
<1>2. CASE BeginWrites \/ PushData \/ PushEnd
  <2>1. \E e \in Elem : queue' = Append(queue, e)
    BY <1>0, <1>2, PushBehind
  <2>2. Good \subseteq Good'
    BY <1>0, <2>1, AppendGood DEF Good
  <2> QED BY <2>2
<1>3. CASE CollectElement
  <2>1. /\ gc \in GcStates /\ gc.pos \in DOMAIN queue
        /\ queue[gc.pos] = Bad \/ ~ InKeptRange(gc.recs, gc.idx)
        /\ queue' = RemoveAt(queue, gc.pos)
    BY <1>0, <1>3, CollectSteps
  <2>2. SafeGood(queue, gc) = {}
    <3> SUFFICES ASSUME NEW r \in SafeGood(queue, gc) PROVE FALSE
      OBVIOUS
    <3>1. Shifted(r, gc.pos) \in SafeGood(queue', PastMoved(gc))
      BY <1>0, <2>1, SafeMoves
    <3> QED BY <3>1 DEF SafeGood, Good
  <2>3. io = "collect" /\ Len(gc.recs) \in Nat
    BY <1>3, <2>1 DEF CollectElement, GcStates
  <2>4. CASE Len(gc.recs) >= Kept
    <3>1. Kept <= 0 + events
      BY <2>2, <2>3, <2>4, FS_EmptySet DEF FullKeeps
    <3> QED BY <1>0, <3>1
  <2>5. CASE Len(gc.recs) < Kept
    <3>1. Accounted(queue, gc)
      BY <2>3, <2>5 DEF SomeAccounted
    <3>2. \A r \in Good : ~ Safe(gc, r)
      BY <2>2 DEF SafeGood, Good
    <3> QED BY <1>0, <2>1, <3>1, <3>2, SafeOrShadowed DEF Good
  <2> QED BY <1>0, <2>3, <2>4, <2>5
<1>4. CASE \/ Quiet \/ Ends \/ Forgets \/ ScanEnds \/ VerifyGood \/ BeginScan \/ EndCollect
           \/ Scanning /\ ScanElement
  BY <1>4 DEF Quiet, Ends, Forgets, ScanEnds, VerifyGood, BeginScan, EndCollect, ScanElement
<1> QED
  BY <1>0, <1>1, <1>2, <1>3, <1>4, SpareSteps

\* As long as fewer faults have happened than records are kept, the last good record is
\* lost only when it rots, or because the collection has another under its number: process_garbage
\* works from ranges that the cache recorded before elements rotted, and the spare ones suffice.
THEOREM SpareSurvives ==
    ASSUME "scan" \notin Events, MaxSeq < SeqLimit
    PROVE  Spec => LastRecordKept
<1> DEFINE Inv == CacheInv /\ FullKeeps /\ SomeAccounted
<1>1. Init => Inv
  <2>1. Init => io # "collect"
    BY DEF Init
  <2> QED BY <2>1, InitCacheInv DEF FullKeeps, SomeAccounted
<1>2. Inv /\ [Next]_vars => Inv'
  BY NextCacheInv, NextKeeps
<1>3. Inv /\ [Next]_vars =>
        [GoodRecords(queue) # {} /\ events' < Kept =>
         \/ GoodRecords(queue') # {}
         \/ Cardinality(GoodRecords(queue)) = 1 /\ Len(queue') = Len(queue)
         \/ \A r \in GoodRecords(queue) : Shadowed(gc, r)]_queue
  BY NextLastStays DEF LastStays, Good
<1> HIDE DEF Inv
<1> QED
  BY <1>1, <1>2, <1>3, PTL DEF Spec, LastRecordKept

=============================================================================
