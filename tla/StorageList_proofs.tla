-------------------------- MODULE StorageList_proofs --------------------------
(***************************************************************************)
(* Type correctness of StorageList and the soundness of its cache, for any *)
(* number of keys, records, elements and faults.  Before it come facts     *)
(* about sequences that SequencesExt leaves to its reader, what insert_good*)
(* (storage_list.rs:1051-1084) makes of the cache of records, and what the *)
(* queue the records are read from says, whatever the queue.               *)
(***************************************************************************)
EXTENDS StorageList, SequenceTheorems, FiniteSetTheorems, WellFoundedInduction,
        TLAPS

\* A set of numbers that is not empty has a least element.
LEMMA LeastElement ==
    ASSUME NEW T \in SUBSET Nat, T # {}
    PROVE  \E x \in T : \A y \in T : x <= y
<1> DEFINE Less == OpToRel(<, Nat)
<1>1. PICK x \in T : \A y \in T : << y, x >> \notin Less
  <2>1. IsWellFoundedOn(Less, Nat)
    BY NatLessThanWellFounded
  <2> HIDE DEF Less
  <2> QED BY <2>1, WFMin
<1>2. \A y \in T : ~ (y < x)
  BY <1>1 DEF OpToRel
<1> QED
  BY <1>2

\* RemoveAt: the elements in front stay, those behind move up.
LEMMA RemoveAtProperties ==
    ASSUME NEW S, NEW s \in Seq(S), NEW i \in DOMAIN s
    PROVE  /\ RemoveAt(s, i) \in Seq(S)
           /\ Len(RemoveAt(s, i)) = Len(s) - 1
           /\ \A j \in 1 .. Len(s) - 1 :
                 RemoveAt(s, i)[j] = IF j < i THEN s[j] ELSE s[j + 1]
<1> DEFINE front == SubSeq(s, 1, i - 1)
           back  == SubSeq(s, i + 1, Len(s))
<1>0. i \in 1 .. Len(s) /\ Len(s) \in Nat
  OBVIOUS
<1>1. front \in Seq(S) /\ Len(front) = i - 1
  OBVIOUS
<1>2. back \in Seq(S) /\ Len(back) = Len(s) - i
  OBVIOUS
<1>3. RemoveAt(s, i) = front \o back
  BY DEF RemoveAt
<1>4. ASSUME NEW j \in 1 .. i - 1 PROVE front[j] = s[j]
  <2>1. j \in 1 .. Len(s) /\ i - 1 \in 0 .. Len(s)
    BY <1>0
  <2> QED BY <1>0, <2>1
<1>5. ASSUME NEW j \in 1 .. Len(s) - i PROVE back[j] = s[i + j]
  <2>1. /\ i + 1 \in Int /\ Len(s) \in Int /\ i + 1 <= Len(s)
        /\ j \in 1 .. Len(s) - (i + 1) + 1
        /\ (i + 1) + j - 1 = i + j
    BY <1>0
  <2>2. \A x \in Int, y \in Int : x <= y => \A k \in 1 .. y - x + 1 : SubSeq(s, x, y)[k] = s[x + k - 1]
    OBVIOUS
  <2>3. back[j] = s[(i + 1) + j - 1]
    BY <2>1, <2>2
  <2> QED BY <2>1, <2>3
<1> HIDE DEF front, back
<1>6. ASSUME NEW j \in 1 .. Len(s) - 1
      PROVE  (front \o back)[j] = IF j < i THEN s[j] ELSE s[j + 1]
  <2>1. CASE j < i
    BY <1>0, <1>1, <1>2, <1>4, <2>1
  <2>2. CASE ~ j < i
    <3>1. j - (i - 1) \in 1 .. Len(s) - i /\ i + (j - (i - 1)) = j + 1
      BY <1>0, <2>2
    <3>2. (front \o back)[j] = back[j - (i - 1)]
      BY <1>0, <1>1, <1>2, <2>2
    <3> QED BY <1>5, <2>2, <3>1, <3>2
  <2> QED BY <2>1, <2>2
<1> QED
  BY <1>0, <1>1, <1>2, <1>3, <1>6
-----------------------------------------------------------------------------
\* Sequence numbers are integers.
LEMMA SeqIsInt == \A r \in GoodWriteRecord : r.seq \in Int
  BY SeqLimitAssumption DEF GoodWriteRecord, SeqNo

\* The checked increment stays within the width of the counter.
LEMMA CheckedNextType == \A s \in SeqNo : CheckedNext(s) \in 0 .. SeqLimit
  BY SeqLimitAssumption DEF SeqNo, CheckedNext

\* The records that stay when one is inserted: the oldest of a full array goes.
Base(recs) == IF Len(recs) < Kept THEN recs ELSE Tail(recs)

\* What is left of the array when it makes room for one record more.
LEMMA BaseProperties ==
    ASSUME NEW recs \in Seq(GoodWriteRecord), Len(recs) <= Kept
    PROVE  /\ Base(recs) \in Seq(GoodWriteRecord)
           /\ Len(Base(recs)) <= Kept - 1
           /\ \A i \in DOMAIN Base(recs) : \E j \in DOMAIN recs : Base(recs)[i] = recs[j]
           /\ Ordered(recs) => Ordered(Base(recs))
<1>1. CASE Len(recs) < Kept
  BY <1>1, KeptAssumption DEF Base
<1>2. CASE Len(recs) >= Kept
  <2>1. recs # << >> /\ Base(recs) = Tail(recs)
    BY <1>2, KeptAssumption DEF Base
  <2>2. /\ Tail(recs) \in Seq(GoodWriteRecord)
        /\ Len(Tail(recs)) = Len(recs) - 1
        /\ \A i \in 1 .. Len(recs) - 1 : Tail(recs)[i] = recs[i + 1]
    BY <2>1
  <2> QED
    BY <2>1, <2>2, KeptAssumption DEF Ordered
<1> QED
  BY <1>1, <1>2, KeptAssumption

\* How many there are from 1 to n.
LEMMA UpTo == \A n \in Nat : IsFiniteSet(1 .. n) /\ Cardinality(1 .. n) = n
  BY FS_Interval

\* How many records of an array are older than rec: where it is inserted.
LEMMA OlderCount ==
    ASSUME NEW base \in Seq(GoodWriteRecord), NEW rec \in GoodWriteRecord
    PROVE  LET older == { i \in DOMAIN base : Newer(rec, base[i]) } IN
           /\ Cardinality(older) \in 0 .. Len(base)
           /\ Ordered(base) => older = 1 .. Cardinality(older)
<1> DEFINE older == { i \in DOMAIN base : Newer(rec, base[i]) }
<1>1. /\ IsFiniteSet(1 .. Len(base))
      /\ Cardinality(1 .. Len(base)) = Len(base)
  <2>1. Len(base) \in Nat
    OBVIOUS
  <2> QED BY <2>1, UpTo
<1>2. older \in SUBSET (1 .. Len(base))
  OBVIOUS
<1>3. IsFiniteSet(older) /\ Cardinality(older) \in 0 .. Len(base)
  <2> HIDE DEF older
  <2>1. IsFiniteSet(older) /\ Cardinality(older) <= Len(base)
    BY <1>1, <1>2, FS_Subset
  <2> QED BY <2>1, FS_CardinalityType
<1>4. ASSUME Ordered(base)
      PROVE  older = 1 .. Cardinality(older)
  <2>1. ASSUME NEW i \in older
        PROVE  1 .. i \subseteq older
    <3>1. \A j \in 1 .. Len(base) : base[j].seq \in Int /\ rec.seq \in Int
      <4>1. \A j \in 1 .. Len(base) : base[j] \in GoodWriteRecord
        OBVIOUS
      <4> QED BY <4>1, SeqIsInt
    <3>2. \A j \in 1 .. i : base[j].seq <= base[i].seq
      BY <1>2, <1>4, <3>1 DEF Ordered, Newer
    <3> QED
      BY <3>1, <3>2 DEF Newer
  <2> HIDE DEF older
  <2>2. \A i \in older : i <= Cardinality(older)
    <3>1. SUFFICES ASSUME NEW i \in older PROVE i <= Cardinality(older)
      OBVIOUS
    <3>2. Cardinality(1 .. i) = i
      BY <1>2, UpTo
    <3> QED BY <1>3, <2>1, <3>2, FS_Subset
  <2>3. older \subseteq 1 .. Cardinality(older)
    BY <1>2, <1>3, <2>2
  <2>4. /\ IsFiniteSet(1 .. Cardinality(older))
        /\ Cardinality(1 .. Cardinality(older)) = Cardinality(older)
    BY <1>3, UpTo
  <2> QED
    BY <2>3, <2>4, FS_Subset
<1> QED
  BY <1>3, <1>4

-----------------------------------------------------------------------------
\* The slot of the array that the new record is given.
Slot(base, rec) == Cardinality({ i \in DOMAIN base : Newer(rec, base[i]) }) + 1

\* What the insertion of insert_good puts into each slot.
LEMMA InsertRecordElements ==
    ASSUME NEW recs \in Seq(GoodWriteRecord), NEW rec \in GoodWriteRecord,
           Len(recs) <= Kept
    PROVE  LET base == Base(recs)  at == Slot(base, rec)  new == InsertRecord(recs, rec) IN
           /\ at \in 1 .. Len(base) + 1
           /\ Ordered(recs) => { i \in DOMAIN base : Newer(rec, base[i]) } = 1 .. at - 1
           /\ new \in Seq(GoodWriteRecord)
           /\ Len(new) = Len(base) + 1
           /\ \A j \in 1 .. Len(base) + 1 :
                 new[j] = IF j < at THEN base[j] ELSE IF j = at THEN rec ELSE base[j - 1]
<1> DEFINE base == Base(recs)
           at   == Slot(base, rec)
           new  == InsertRecord(recs, rec)
<1>1. /\ base \in Seq(GoodWriteRecord)
      /\ Ordered(recs) => Ordered(base)
  BY BaseProperties
<1>2. /\ at \in 1 .. Len(base) + 1
      /\ Ordered(base) => { i \in DOMAIN base : Newer(rec, base[i]) } = 1 .. at - 1
  <2> DEFINE n == Cardinality({ i \in DOMAIN base : Newer(rec, base[i]) })
  <2>1. /\ n \in 0 .. Len(base)
        /\ Ordered(base) => { i \in DOMAIN base : Newer(rec, base[i]) } = 1 .. n
    BY <1>1, OlderCount
  <2>2. at = n + 1
    BY DEF Slot
  <2> HIDE DEF n, at
  <2>3. Len(base) \in Nat
    BY <1>1
  <2>4. n = at - 1 /\ at \in 1 .. Len(base) + 1
    BY <2>1, <2>2, <2>3
  <2> QED BY <2>1, <2>4
<1>3. new = InsertAt(base, at, rec)
  BY DEF InsertRecord, Base, Slot
<1> HIDE DEF base, at, new
<1>4. /\ new \in Seq(GoodWriteRecord)
      /\ Len(new) = Len(base) + 1
      /\ \A j \in 1 .. Len(base) + 1 :
            new[j] = IF j < at THEN base[j] ELSE IF j = at THEN rec ELSE base[j - 1]
  <2> DEFINE front == SubSeq(base, 1, at - 1)
             back  == SubSeq(base, at, Len(base))
  <2>0. base \in Seq(GoodWriteRecord) /\ at \in 1 .. Len(base) + 1 /\ Len(base) \in Nat
    BY <1>1, <1>2
  <2>1. /\ front \in Seq(GoodWriteRecord) /\ Len(front) = at - 1
        /\ \A j \in 1 .. at - 1 : front[j] = base[j]
    <3>1. at - 1 \in 0 .. Len(base)
      BY <2>0
    <3>2. front \in Seq(GoodWriteRecord) /\ Len(front) = at - 1
      BY <2>0, <3>1
    <3>3. ASSUME NEW j \in 1 .. at - 1 PROVE front[j] = base[j]
      <4>1. j \in 1 .. Len(base)
        BY <2>0
      <4> QED BY <2>0, <3>1, <4>1
    <3> QED BY <3>2, <3>3
  <2>2. /\ back \in Seq(GoodWriteRecord) /\ Len(back) = Len(base) - at + 1
        /\ \A j \in 1 .. Len(base) - at + 1 : back[j] = base[at + j - 1]
    BY <2>0
  <2>3. new = (front \o << rec >>) \o back
    BY <1>3 DEF InsertAt
  <2> HIDE DEF front, back
  <2>4. /\ front \o << rec >> \in Seq(GoodWriteRecord)
        /\ Len(front \o << rec >>) = at
        /\ \A j \in 1 .. at : (front \o << rec >>)[j] = IF j < at THEN base[j] ELSE rec
    BY <2>0, <2>1
  <2> DEFINE head == front \o << rec >>
  <2> HIDE DEF head
  <2>5. /\ head \in Seq(GoodWriteRecord) /\ Len(head) = at /\ new = head \o back
        /\ \A j \in 1 .. at : head[j] = IF j < at THEN base[j] ELSE rec
    BY <2>3, <2>4 DEF head
  <2>6. new \in Seq(GoodWriteRecord) /\ Len(new) = Len(base) + 1
    <3>1. head \in Seq(GoodWriteRecord) /\ back \in Seq(GoodWriteRecord)
      BY <2>2, <2>5
    <3>2. head \o back \in Seq(GoodWriteRecord) /\ Len(head \o back) = Len(head) + Len(back)
      BY <3>1
    <3>3. Len(head) = at /\ Len(back) = Len(base) - at + 1
      BY <2>2, <2>5
    <3>4. at + (Len(base) - at + 1) = Len(base) + 1
      BY <2>0
    <3> QED BY <2>5, <3>2, <3>3, <3>4
  <2>7. ASSUME NEW j \in 1 .. Len(base) + 1
        PROVE  new[j] = IF j < at THEN base[j] ELSE IF j = at THEN rec ELSE base[j - 1]
    <3>1. CASE j <= at
      BY <2>0, <2>2, <2>5, <3>1
    <3>2. CASE j > at
      <4>1. j - at \in 1 .. Len(base) - at + 1 /\ at + (j - at) - 1 = j - 1
        BY <2>0, <3>2
      <4>2. new[j] = back[j - at]
        BY <2>0, <2>2, <2>5, <3>2
      <4> QED BY <2>0, <2>2, <3>2, <4>1, <4>2
    <3> QED BY <2>0, <3>1, <3>2
  <2> QED BY <2>6, <2>7
<1> QED
  BY <1>1, <1>2, <1>4 DEF base, at, new

\* The insertion of insert_good keeps the array a bounded, ordered one of which
\* rec is an element and to which nothing else is added.
THEOREM InsertRecordProperties ==
    ASSUME NEW recs \in Seq(GoodWriteRecord), NEW rec \in GoodWriteRecord,
           Len(recs) <= Kept
    PROVE  LET new == InsertRecord(recs, rec) IN
           /\ new \in Seq(GoodWriteRecord)
           /\ Len(new) \in 1 .. Kept
           /\ \A i \in DOMAIN new : new[i] = rec \/ \E j \in DOMAIN recs : new[i] = recs[j]
           /\ Ordered(recs) => Ordered(new)
<1> DEFINE base == Base(recs)
           at   == Slot(base, rec)
           new  == InsertRecord(recs, rec)
<1>1. /\ base \in Seq(GoodWriteRecord)
      /\ Len(base) <= Kept - 1
      /\ \A i \in DOMAIN base : \E j \in DOMAIN recs : base[i] = recs[j]
      /\ Ordered(recs) => Ordered(base)
  BY BaseProperties
<1>2. /\ at \in 1 .. Len(base) + 1
      /\ Ordered(recs) => { i \in DOMAIN base : Newer(rec, base[i]) } = 1 .. at - 1
  BY InsertRecordElements
<1>4. /\ new \in Seq(GoodWriteRecord)
      /\ Len(new) = Len(base) + 1
      /\ \A j \in 1 .. Len(base) + 1 :
            new[j] = IF j < at THEN base[j] ELSE IF j = at THEN rec ELSE base[j - 1]
  BY InsertRecordElements
<1> HIDE DEF base, at, new
<1>5. Len(new) \in 1 .. Kept
  BY <1>1, <1>4, KeptAssumption
<1>6. ASSUME NEW i \in DOMAIN new
      PROVE  new[i] = rec \/ \E j \in DOMAIN recs : new[i] = recs[j]
  <2>1. i \in 1 .. Len(base) + 1
    BY <1>4
  <2>2. new[i] = rec \/ \E j \in 1 .. Len(base) : new[i] = base[j]
    <3>1. Len(base) \in Nat /\ at \in 1 .. Len(base) + 1
      BY <1>1, <1>2
    <3>2. CASE i < at
      BY <1>4, <2>1, <3>1, <3>2
    <3>3. CASE i > at
      <4>1. i - 1 \in 1 .. Len(base) /\ new[i] = base[i - 1]
        BY <1>4, <2>1, <3>1, <3>3
      <4> QED BY <4>1
    <3> QED BY <1>4, <2>1, <3>1, <3>2, <3>3
  <2> QED BY <1>1, <2>2
<1>7. ASSUME Ordered(recs)
      PROVE  Ordered(new)
  <2>1. Ordered(base) /\ { i \in DOMAIN base : Newer(rec, base[i]) } = 1 .. at - 1
    BY <1>1, <1>2, <1>7
  <2>2. \A i \in 1 .. Len(base) : base[i].seq \in Int /\ rec.seq \in Int
    <3>1. \A i \in 1 .. Len(base) : base[i] \in GoodWriteRecord
      BY <1>1
    <3> QED BY <3>1, SeqIsInt
  <2>3. \A i \in 1 .. Len(base) : i \in 1 .. at - 1 <=> base[i].seq < rec.seq
    <3>1. SUFFICES ASSUME NEW i \in 1 .. Len(base)
                   PROVE  i \in 1 .. at - 1 <=> base[i].seq < rec.seq
      OBVIOUS
    <3>2. DOMAIN base = 1 .. Len(base)
      BY <1>1
    <3>3. i \in 1 .. at - 1 <=> rec.seq > base[i].seq
      BY <2>1, <3>2 DEF Newer
    <3> QED BY <2>2, <3>3
  <2>4. \A i, j \in 1 .. Len(base) : i < j => base[i].seq <= base[j].seq
    <3>1. Ordered(base) /\ DOMAIN base = 1 .. Len(base)
      BY <1>1, <2>1
    <3>2. ASSUME NEW i \in 1 .. Len(base), NEW j \in 1 .. Len(base), i < j
          PROVE  base[i].seq <= base[j].seq
      <4>1. ~ base[i].seq > base[j].seq
        BY <3>1, <3>2 DEF Ordered, Newer
      <4>2. base[i].seq \in Int /\ base[j].seq \in Int
        BY <2>2, <3>2
      <4> QED BY <4>1, <4>2
    <3> QED BY <3>2
  <2>5. SUFFICES ASSUME NEW i \in 1 .. Len(base) + 1, NEW j \in 1 .. Len(base) + 1, i < j
                 PROVE  ~ new[i].seq > new[j].seq
    BY <1>4 DEF Ordered, Newer
  <2>6. Len(base) \in Nat /\ at \in 1 .. Len(base) + 1
    BY <1>1, <1>2
  <2>7. CASE j = at
    <3>1. new[j] = rec /\ i \in 1 .. at - 1 /\ new[i] = base[i]
      BY <1>4, <2>5, <2>6, <2>7
    <3> QED BY <2>2, <2>3, <2>6, <3>1
  <2>8. CASE i = at
    <3>1. new[i] = rec /\ j - 1 \in 1 .. Len(base) /\ j - 1 \notin 1 .. at - 1 /\ new[j] = base[j - 1]
      BY <1>4, <2>5, <2>6, <2>8
    <3> QED BY <2>2, <2>3, <2>6, <3>1
  <2>9. CASE i # at /\ j # at
    <3> DEFINE p == IF i < at THEN i ELSE i - 1
               r == IF j < at THEN j ELSE j - 1
    <3>1. p \in 1 .. Len(base) /\ r \in 1 .. Len(base) /\ p < r
      BY <2>5, <2>6, <2>9
    <3>2. new[i] = base[p] /\ new[j] = base[r]
      BY <1>4, <2>6, <2>9
    <3> HIDE DEF p, r
    <3>3. base[p].seq <= base[r].seq
      BY <2>4, <3>1
    <3>4. base[p].seq \in Int /\ base[r].seq \in Int
      BY <2>2, <3>1
    <3> QED BY <3>2, <3>3, <3>4
  <2> QED BY <2>7, <2>8, <2>9
<1> QED
  BY <1>4, <1>5, <1>6, <1>7 DEF new

\* insert_good keeps a SeqState consistent, and every record it holds was held
\* before or is the new one.
THEOREM InsertGoodProperties ==
    ASSUME NEW ss \in SeqStates, NEW rec \in GoodWriteRecord, Len(ss.recs) <= Kept
    PROVE  LET new == InsertGood(ss, rec) IN
           /\ new \in SeqStates
           /\ \A i \in DOMAIN new.recs :
                 new.recs[i] = rec \/ \E j \in DOMAIN ss.recs : new.recs[i] = ss.recs[j]
           /\ Consistent(ss) => Consistent(new)
           /\ Len(new.recs) <= Kept
<1>1. CASE Len(ss.recs) >= Kept /\ Newer(ss.recs[1], rec)
  BY <1>1 DEF InsertGood
<1>2. CASE ~ (Len(ss.recs) >= Kept /\ Newer(ss.recs[1], rec))
  <2> DEFINE recs == InsertRecord(ss.recs, rec)
             new  == InsertGood(ss, rec)
  <2>1. ss.recs \in Seq(GoodWriteRecord)
    BY DEF SeqStates
  <2>2. /\ recs \in Seq(GoodWriteRecord)
        /\ Len(recs) \in 1 .. Kept
        /\ \A i \in DOMAIN recs :
              recs[i] = rec \/ \E j \in DOMAIN ss.recs : recs[i] = ss.recs[j]
        /\ Ordered(ss.recs) => Ordered(recs)
    BY <2>1, InsertRecordProperties
  <2>3. new = [next |-> CheckedNext(recs[Len(recs)].seq), recs |-> recs, gc |-> TRUE]
    BY <1>2 DEF InsertGood
  <2> HIDE DEF recs, new
  <2>4. recs[Len(recs)] \in GoodWriteRecord
    BY <2>2
  <2>5. CheckedNext(recs[Len(recs)].seq) \in 0 .. SeqLimit
    BY <2>4, CheckedNextType DEF GoodWriteRecord
  <2>6. new \in SeqStates
    BY <2>2, <2>3, <2>5 DEF SeqStates
  <2>7. Consistent(ss) => Consistent(new)
    BY <2>2, <2>3, KeptAssumption DEF Consistent, HighestSeen, AnySeen
  <2>8. Len(new.recs) <= Kept
    BY <2>2, <2>3, KeptAssumption
  <2> QED BY <2>2, <2>3, <2>6, <2>7, <2>8 DEF new
<1> QED
  BY <1>1, <1>2

-----------------------------------------------------------------------------
\* What stays of an array that is full, and of one that is not.
LEMMA BaseElements ==
    ASSUME NEW recs \in Seq(GoodWriteRecord), Len(recs) <= Kept
    PROVE  /\ Len(recs) < Kept => Base(recs) = recs
           /\ Len(recs) >= Kept =>
                 /\ Len(recs) = Kept /\ Len(Base(recs)) = Kept - 1
                 /\ \A i \in 1 .. Kept - 1 : Base(recs)[i] = recs[i + 1]
<1>1. CASE Len(recs) < Kept
  BY <1>1, KeptAssumption DEF Base
<1>2. CASE Len(recs) >= Kept
  <2>1. recs # << >> /\ Base(recs) = Tail(recs) /\ Len(recs) = Kept
    BY <1>2, KeptAssumption DEF Base
  <2>2. /\ Len(Tail(recs)) = Len(recs) - 1
        /\ \A i \in 1 .. Len(recs) - 1 : Tail(recs)[i] = recs[i + 1]
    BY <2>1
  <2> QED
    BY <2>1, <2>2
<1> QED
  BY <1>1, <1>2, KeptAssumption

\* The sequence numbers of an ordered array do not fall.
LEMMA OrderedSeqs ==
    ASSUME NEW recs \in Seq(GoodWriteRecord), Ordered(recs),
           NEW i \in DOMAIN recs, NEW j \in DOMAIN recs, i <= j
    PROVE  recs[i].seq <= recs[j].seq
<1>1. recs[i] \in GoodWriteRecord /\ recs[j] \in GoodWriteRecord
  OBVIOUS
<1>2. recs[i].seq \in Int /\ recs[j].seq \in Int
  BY <1>1, SeqIsInt
<1>3. CASE i = j
  BY <1>2, <1>3
<1>4. CASE i # j
  <2>1. i < j
    BY <1>4
  <2> QED BY <1>2, <2>1 DEF Ordered, Newer
<1> QED BY <1>3, <1>4

\* The record in the last slot after an insertion: the new one if it is newer, or
\* if there is no other slot; among equals the one that was there stays.
LEMMA InsertGoodHighest ==
    ASSUME NEW ss \in SeqStates, NEW rec \in GoodWriteRecord, Consistent(ss)
    PROVE  LET new == InsertGood(ss, rec) IN
           /\ AnySeen(new)
           /\ HighestSeen(new) =
                 IF \/ ~ AnySeen(ss)
                    \/ rec.seq > HighestSeen(ss).seq
                    \/ Kept = 1 /\ rec.seq = HighestSeen(ss).seq
                 THEN rec ELSE HighestSeen(ss)
           /\ \/ new = ss /\ rec.seq < HighestSeen(ss).seq
              \/ new.gc /\ new.next = CheckedNext(HighestSeen(new).seq)
<1> DEFINE recs == ss.recs
           h    == HighestSeen(ss)
           new  == InsertGood(ss, rec)
<1>1. /\ recs \in Seq(GoodWriteRecord) /\ Len(recs) <= Kept /\ Ordered(recs)
      /\ Len(recs) \in Nat
  BY DEF SeqStates, Consistent
<1>2. h = recs[Len(recs)] /\ (AnySeen(ss) <=> Len(recs) # 0)
  BY <1>1 DEF HighestSeen, AnySeen
<1>3. AnySeen(ss) => h \in GoodWriteRecord /\ h.seq \in Int
  <2>1. AnySeen(ss) => h \in GoodWriteRecord
    BY <1>1, <1>2
  <2> QED BY <2>1, SeqIsInt
<1>4. rec.seq \in Int
  BY SeqIsInt
<1>5. CASE Len(recs) >= Kept /\ Newer(recs[1], rec)
  <2>1. new = ss
    BY <1>5 DEF InsertGood
  <2>2. AnySeen(ss) /\ 1 \in DOMAIN recs /\ Len(recs) \in DOMAIN recs /\ 1 <= Len(recs)
    BY <1>1, <1>2, <1>5, KeptAssumption
  <2>3. recs[1].seq <= h.seq /\ recs[1] \in GoodWriteRecord
    BY <1>1, <1>2, <2>2, OrderedSeqs
  <2>4. recs[1].seq \in Int /\ recs[1].seq > rec.seq
    BY <1>5, <2>3, SeqIsInt DEF Newer
  <2>5. rec.seq < h.seq
    BY <1>3, <1>4, <2>2, <2>3, <2>4
  <2> QED BY <1>3, <1>4, <2>1, <2>2, <2>5
<1>6. CASE ~ (Len(recs) >= Kept /\ Newer(recs[1], rec))
  <2> DEFINE all  == InsertRecord(recs, rec)
             base == Base(recs)
             at   == Slot(base, rec)
  <2>1. new = [next |-> CheckedNext(all[Len(all)].seq), recs |-> all, gc |-> TRUE]
    BY <1>6 DEF InsertGood
  <2>2. /\ at \in 1 .. Len(base) + 1
        /\ { i \in DOMAIN base : Newer(rec, base[i]) } = 1 .. at - 1
        /\ all \in Seq(GoodWriteRecord)
        /\ Len(all) = Len(base) + 1
        /\ \A j \in 1 .. Len(base) + 1 :
              all[j] = IF j < at THEN base[j] ELSE IF j = at THEN rec ELSE base[j - 1]
    BY <1>1, InsertRecordElements
  <2>3. base \in Seq(GoodWriteRecord) /\ Len(base) \in Nat
    BY <1>1, BaseProperties
  <2>4. /\ Len(recs) < Kept => base = recs
        /\ Len(recs) >= Kept => /\ Len(recs) = Kept /\ Len(base) = Kept - 1
                                /\ \A i \in 1 .. Kept - 1 : base[i] = recs[i + 1]
    BY <1>1, BaseElements
  <2> HIDE DEF all, base, at, new, recs, h
  <2>5. AnySeen(new) /\ HighestSeen(new) = all[Len(base) + 1] /\ new.gc
        /\ new.next = CheckedNext(HighestSeen(new).seq)
    BY <2>1, <2>2, <2>3 DEF AnySeen, HighestSeen
  <2>6. CASE Len(base) = 0
    <3>1. all[Len(base) + 1] = rec
      BY <2>2, <2>3, <2>6
    <3>2. ~ AnySeen(ss) \/ (Kept = 1 /\ Len(recs) = 1)
      <4>1. CASE Len(recs) < Kept
        BY <1>2, <2>4, <2>6, <4>1
      <4>2. CASE Len(recs) >= Kept
        BY <2>4, <2>6, <4>2, KeptAssumption
      <4> QED BY <1>1, <4>1, <4>2, KeptAssumption
    <3>3. CASE ~ AnySeen(ss)
      BY <2>5, <3>1, <3>3 DEF new
    <3>4. CASE AnySeen(ss) /\ Kept = 1 /\ Len(recs) = 1
      <4>1. ~ h.seq > rec.seq
        BY <1>2, <1>6, <3>4 DEF Newer
      <4> QED BY <1>3, <1>4, <2>5, <3>1, <3>4, <4>1 DEF h, new
    <3> QED BY <3>2, <3>3, <3>4
  <2>7. CASE Len(base) # 0
    <3>1. AnySeen(ss) /\ Kept # 1 /\ base[Len(base)] = h
      <4>1. CASE Len(recs) < Kept
        BY <1>1, <1>2, <2>4, <2>7, <4>1, KeptAssumption
      <4>2. CASE Len(recs) >= Kept
        <5>1. Len(recs) = Kept /\ Len(base) = Kept - 1 /\ Kept - 1 \in 1 .. Kept - 1
          BY <2>3, <2>4, <2>7, <4>2, KeptAssumption
        <5>2. base[Kept - 1] = recs[Kept - 1 + 1]
          BY <2>4, <4>2, <5>1
        <5>3. Kept - 1 + 1 = Kept
          BY KeptAssumption
        <5> QED BY <1>2, <5>1, <5>2, <5>3, KeptAssumption
      <4> QED BY <1>1, <4>1, <4>2, KeptAssumption
    <3>2. Len(base) \in DOMAIN base /\ (Newer(rec, h) <=> Len(base) \in 1 .. at - 1)
      <4>1. Len(base) \in DOMAIN base
        BY <2>3, <2>7
      <4>2. Newer(rec, base[Len(base)]) <=> Len(base) \in 1 .. at - 1
        BY <2>2, <4>1
      <4> QED BY <3>1, <4>1, <4>2
    <3>3. CASE rec.seq > h.seq
      <4>1. at = Len(base) + 1
        BY <2>2, <2>3, <3>2, <3>3 DEF Newer
      <4>2. all[Len(base) + 1] = rec
        BY <2>2, <2>3, <4>1
      <4> QED BY <2>5, <3>3, <4>2 DEF h, new
    <3>4. CASE ~ rec.seq > h.seq
      <4>1. at < Len(base) + 1
        BY <2>2, <2>3, <2>7, <3>2, <3>4 DEF Newer
      <4>2. all[Len(base) + 1] = base[Len(base) + 1 - 1] /\ Len(base) + 1 - 1 = Len(base)
        BY <2>2, <2>3, <4>1
      <4> QED BY <2>5, <3>1, <3>4, <4>2 DEF h, new
    <3> QED BY <3>3, <3>4
  <2> QED BY <2>6, <2>7
<1> QED
  BY <1>5, <1>6

\* The records of an array; an array that holds none of them twice.
Held(recs) == { recs[i] : i \in DOMAIN recs }
Distinct(recs) == \A i, j \in DOMAIN recs : i # j => recs[i] # recs[j]

\* What an insertion adds, what it leaves out, and that no record is in two slots
\* unless it was inserted twice.
LEMMA InsertGoodHeld ==
    ASSUME NEW ss \in SeqStates, NEW rec \in GoodWriteRecord, Consistent(ss)
    PROVE  LET new == InsertGood(ss, rec) IN
           /\ Held(new.recs) \subseteq Held(ss.recs) \cup {rec}
           /\ Len(ss.recs) < Kept => /\ Len(new.recs) = Len(ss.recs) + 1
                                     /\ Held(new.recs) = Held(ss.recs) \cup {rec}
           /\ Len(ss.recs) >= Kept => Len(new.recs) >= Kept
           /\ \A r \in (Held(ss.recs) \cup {rec}) \ Held(new.recs), s \in Held(new.recs) :
                 ~ Newer(r, s)
           /\ Distinct(ss.recs) /\ rec \notin Held(ss.recs) => Distinct(new.recs)
<1> DEFINE recs == ss.recs
           new  == InsertGood(ss, rec)
<1>1. /\ recs \in Seq(GoodWriteRecord) /\ Len(recs) <= Kept /\ Ordered(recs)
      /\ Len(recs) \in Nat
  BY DEF SeqStates, Consistent
<1>2. \A i \in 1 .. Len(recs) : recs[i] \in GoodWriteRecord /\ recs[i].seq \in Int
  <2>1. \A i \in 1 .. Len(recs) : recs[i] \in GoodWriteRecord
    BY <1>1
  <2> QED BY <2>1, SeqIsInt
<1>3. rec.seq \in Int
  BY SeqIsInt
<1>4. \A i, j \in 1 .. Len(recs) : i <= j => recs[i].seq <= recs[j].seq
  BY <1>1, OrderedSeqs
<1>5. CASE Len(recs) >= Kept /\ Newer(recs[1], rec)
  <2>1. new = ss
    BY <1>5 DEF InsertGood
  <2>2. 1 \in 1 .. Len(recs)
    BY <1>1, <1>5, KeptAssumption
  <2>3. \A j \in 1 .. Len(recs) : ~ rec.seq > recs[j].seq
    BY <1>2, <1>3, <1>4, <1>5, <2>2 DEF Newer
  <2>4. \A s \in Held(recs) : ~ Newer(rec, s)
    <3>1. DOMAIN recs = 1 .. Len(recs)
      BY <1>1
    <3> QED BY <2>3, <3>1 DEF Held, Newer
  <2> HIDE DEF new
  <2>5. ~ Len(recs) < Kept
    BY <1>1, <1>5, KeptAssumption
  <2>6. /\ Held(new.recs) = Held(recs) /\ Len(new.recs) >= Kept
        /\ \A r \in (Held(recs) \cup {rec}) \ Held(new.recs), s \in Held(new.recs) : ~ Newer(r, s)
        /\ Distinct(recs) => Distinct(new.recs)
    BY <1>5, <2>1, <2>4
  <2> QED BY <2>5, <2>6 DEF new
<1>6. CASE ~ (Len(recs) >= Kept /\ Newer(recs[1], rec))
  <2> DEFINE all  == InsertRecord(recs, rec)
             base == Base(recs)
             at   == Slot(base, rec)
  <2>1. new.recs = all
    BY <1>6 DEF InsertGood
  <2>2. /\ at \in 1 .. Len(base) + 1
        /\ all \in Seq(GoodWriteRecord)
        /\ Len(all) = Len(base) + 1
        /\ \A j \in 1 .. Len(base) + 1 :
              all[j] = IF j < at THEN base[j] ELSE IF j = at THEN rec ELSE base[j - 1]
    BY <1>1, InsertRecordElements
  <2>3. base \in Seq(GoodWriteRecord) /\ Len(base) \in Nat
    BY <1>1, BaseProperties
  <2>4. /\ Len(recs) < Kept => base = recs
        /\ Len(recs) >= Kept => /\ Len(recs) = Kept /\ Len(base) = Kept - 1
                                /\ \A i \in 1 .. Kept - 1 : base[i] = recs[i + 1]
    BY <1>1, BaseElements
  <2> HIDE DEF all, base, at, new, recs
  <2>5. Held(all) = Held(base) \cup {rec}
    <3>1. \A j \in 1 .. Len(base) + 1 : all[j] \in Held(base) \cup {rec}
      <4>1. SUFFICES ASSUME NEW j \in 1 .. Len(base) + 1 PROVE all[j] \in Held(base) \cup {rec}
        OBVIOUS
      <4>2. CASE j < at
        <5>1. all[j] = base[j] /\ j \in DOMAIN base
          BY <2>2, <2>3, <4>2
        <5> QED BY <5>1 DEF Held
      <4>3. CASE j > at
        <5>1. all[j] = base[j - 1] /\ j - 1 \in DOMAIN base
          BY <2>2, <2>3, <4>3
        <5> QED BY <5>1 DEF Held
      <4> QED BY <2>2, <2>3, <4>2, <4>3
    <3>2. rec \in Held(all)
      <4>1. at \in DOMAIN all /\ all[at] = rec
        BY <2>2, <2>3
      <4> QED BY <4>1 DEF Held
    <3>3. ASSUME NEW i \in DOMAIN base PROVE base[i] \in Held(all)
      <4>1. CASE i < at
        <5>1. i \in DOMAIN all /\ all[i] = base[i]
          BY <2>2, <2>3, <4>1
        <5> QED BY <5>1 DEF Held
      <4>2. CASE ~ i < at
        <5>1. i + 1 \in 1 .. Len(base) + 1 /\ ~ i + 1 < at /\ i + 1 # at /\ i + 1 - 1 = i
          BY <2>2, <2>3, <4>2
        <5>2. i + 1 \in DOMAIN all /\ all[i + 1] = base[i]
          BY <2>2, <2>3, <5>1
        <5> QED BY <5>2 DEF Held
      <4> QED BY <4>1, <4>2
    <3>4. DOMAIN all = 1 .. Len(base) + 1
      BY <2>2
    <3> QED BY <3>1, <3>2, <3>3, <3>4 DEF Held
  <2>6. ASSUME Distinct(base), rec \notin Held(base)
        PROVE  Distinct(all)
    <3>1. SUFFICES ASSUME NEW i \in 1 .. Len(base) + 1, NEW j \in 1 .. Len(base) + 1, i < j
                   PROVE  all[i] # all[j]
      <4>1. \A i, j \in 1 .. Len(base) + 1 : i < j => all[i] # all[j]
        BY <3>1
      <4> QED BY <2>2, <2>3, <4>1 DEF Distinct
    <3>2. \A x \in DOMAIN base : base[x] # rec
      BY <2>6 DEF Held
    <3>3. \A x, y \in DOMAIN base : x # y => base[x] # base[y]
      BY <2>6 DEF Distinct
    <3>4. CASE j = at
      BY <2>2, <2>3, <3>1, <3>2, <3>4
    <3>5. CASE i = at
      <4>1. all[j] = base[j - 1] /\ all[i] = rec /\ j - 1 \in DOMAIN base
        BY <2>2, <2>3, <3>1, <3>5
      <4> QED BY <3>2, <4>1
    <3>6. CASE i # at /\ j # at
      <4> DEFINE x == IF i < at THEN i ELSE i - 1
                 y == IF j < at THEN j ELSE j - 1
      <4>1. x \in DOMAIN base /\ y \in DOMAIN base /\ x # y
        BY <2>2, <2>3, <3>1, <3>6
      <4>2. all[i] = base[x] /\ all[j] = base[y]
        BY <2>2, <2>3, <3>6
      <4> QED BY <3>3, <4>1, <4>2
    <3> QED BY <3>4, <3>5, <3>6
  <2>7. CASE Len(recs) < Kept
    <3>1. base = recs
      BY <2>4, <2>7
    <3> QED BY <1>1, <2>1, <2>2, <2>5, <2>6, <2>7, <3>1, KeptAssumption DEF new, recs
  <2>8. CASE Len(recs) >= Kept
    <3>1. /\ Len(recs) = Kept /\ Len(base) = Kept - 1
          /\ \A i \in 1 .. Kept - 1 : base[i] = recs[i + 1]
          /\ DOMAIN base = 1 .. Kept - 1 /\ DOMAIN recs = 1 .. Kept
      BY <1>1, <2>3, <2>4, <2>8
    <3>2. Held(base) \subseteq Held(recs)
      <4>1. \A i \in 1 .. Kept - 1 : base[i] = recs[i + 1] /\ i + 1 \in 1 .. Kept
        BY <3>1, KeptAssumption
      <4> QED BY <3>1, <4>1 DEF Held
    <3>3. \A r \in Held(recs) : r = recs[1] \/ r \in Held(base)
      <4>1. SUFFICES ASSUME NEW i \in 1 .. Kept, i # 1 PROVE recs[i] \in Held(base)
        BY <3>1 DEF Held
      <4>2. i - 1 \in 1 .. Kept - 1 /\ base[i - 1] = recs[i]
        BY <3>1, <4>1, KeptAssumption
      <4> QED BY <3>1, <4>2 DEF Held
    <3>4. \A s \in Held(recs) \cup {rec} : ~ recs[1].seq > s.seq
      <4>1. 1 \in 1 .. Len(recs)
        BY <3>1, KeptAssumption
      <4>2. ~ recs[1].seq > rec.seq
        BY <1>6, <2>8 DEF Newer
      <4>3. \A i \in 1 .. Len(recs) : ~ recs[1].seq > recs[i].seq
        BY <1>2, <1>4, <4>1
      <4> QED BY <3>1, <4>2, <4>3 DEF Held
    <3>5. Distinct(recs) => Distinct(base)
      <4>1. ASSUME Distinct(recs), NEW i \in 1 .. Kept - 1, NEW j \in 1 .. Kept - 1, i # j
            PROVE  base[i] # base[j]
        <5>1. i + 1 \in DOMAIN recs /\ j + 1 \in DOMAIN recs /\ i + 1 # j + 1
          BY <3>1, <4>1, KeptAssumption
        <5> QED BY <3>1, <4>1, <5>1 DEF Distinct
      <4> QED BY <3>1, <4>1 DEF Distinct
    <3>6. Len(all) = Kept
      BY <2>2, <3>1, KeptAssumption
    <3>7. \A r \in (Held(recs) \cup {rec}) \ Held(all), s \in Held(all) : ~ Newer(r, s)
      BY <2>5, <3>2, <3>3, <3>4 DEF Newer
    <3> QED
      BY <1>1, <2>1, <2>5, <2>6, <2>8, <3>1, <3>2, <3>5, <3>6, <3>7, KeptAssumption
      DEF new, recs
  <2> QED BY <1>1, <2>7, <2>8, KeptAssumption
<1> QED
  BY <1>5, <1>6

-----------------------------------------------------------------------------
(***************************************************************************)
(* What a queue of elements says: which stretches of it are well formed    *)
(* records, and what becomes of them when the queue grows at its end or an *)
(* element is taken out of it, whatever the queue.                         *)
(***************************************************************************)

\* The elements that are pushed, and their kinds.
LEMMA ElemTypes ==
    /\ \A s \in SeqNo : Start(s) \in Elem
    /\ \A k \in Keys, v \in Values : Data(k, v) \in DataElem /\ Data(k, v) \in Elem
    /\ \A s \in SeqNo, c \in Seq(DataElem) : End(s, c) \in Elem
    /\ Bad \in Elem
  BY DEF Elem, StartElem, DataElem, EndElem, BadElem, Start, Data, End, Bad

\* The kind of an element says which fields it has.
LEMMA ElemKinds ==
    ASSUME NEW e \in Elem
    PROVE  /\ e.kind = "start" => e.seq \in SeqNo
           /\ e.kind = "data" => e \in DataElem /\ e.val \in Values
           /\ e.kind = "end" => e.seq \in SeqNo /\ e.crc \in Seq(DataElem)
<1>1. CASE e \in StartElem  BY <1>1 DEF StartElem
<1>2. CASE e \in DataElem   BY <1>2 DEF DataElem
<1>3. CASE e \in EndElem    BY <1>3 DEF EndElem
<1>4. CASE e \in BadElem    BY <1>4 DEF BadElem
<1> QED BY <1>1, <1>2, <1>3, <1>4 DEF Elem

\* A Start is known by its kind.
LEMMA ElemIsStart ==
    ASSUME NEW e \in Elem, e.kind = "start"
    PROVE  e = Start(e.seq)
  BY DEF Elem, StartElem, DataElem, EndElem, BadElem, Start

-----------------------------------------------------------------------------
\* Where the run of data elements after position lo stops.
LEMMA DataStopProperties ==
    ASSUME NEW q \in Seq(Elem), NEW lo \in 0 .. Len(q)
    PROVE  LET stop == DataStop(q, lo) IN
           /\ stop \in lo + 1 .. Len(q) + 1
           /\ \A i \in lo + 1 .. stop - 1 : q[i].kind = "data"
           /\ stop \in DOMAIN q => q[stop].kind # "data"
<1> DEFINE T == { j \in lo + 1 .. Len(q) + 1 : j = Len(q) + 1 \/ q[j].kind # "data" }
<1>1. Len(q) \in Nat /\ DOMAIN q = 1 .. Len(q)
  OBVIOUS
<1>2. PICK stop \in T : \A j \in T : stop <= j
  <2>1. T \in SUBSET Nat /\ Len(q) + 1 \in T
    BY <1>1
  <2> HIDE DEF T
  <2> QED BY <2>1, LeastElement
<1>3. /\ stop \in lo + 1 .. Len(q) + 1
      /\ \A i \in lo + 1 .. stop - 1 : q[i].kind = "data"
      /\ stop \in DOMAIN q => q[stop].kind # "data"
  BY <1>1, <1>2
<1> QED
  BY <1>3 DEF DataStop

-----------------------------------------------------------------------------
\* A record of number s at lo .. hi.
RecordAt(q, lo, hi, s) == IsRecord(q, lo, hi) /\ q[lo] = Start(s)

\* The good records of a queue are the stretches that are well formed records.
LEMMA GoodRecordIs ==
    ASSUME NEW q \in Seq(Elem), NEW r \in GoodRecords(q)
    PROVE  /\ r \in GoodWriteRecord
           /\ r.lo \in 1 .. Len(q) /\ r.hi \in 1 .. Len(q) /\ r.lo < r.hi
           /\ q[r.lo].seq = r.seq
           /\ RecordAt(q, r.lo, r.hi, r.seq)
<1>1. PICK lo \in DOMAIN q, hi \in DOMAIN q :
        /\ r = [seq |-> q[lo].seq, lo |-> lo, hi |-> hi] /\ IsRecord(q, lo, hi)
  BY DEF GoodRecords, Positions
<1>2. lo \in 1 .. Len(q) /\ hi \in 1 .. Len(q) /\ lo < hi /\ q[lo].kind = "start"
  BY <1>1 DEF IsRecord
<1>3. q[lo] \in Elem /\ q[lo].seq \in SeqNo
  BY <1>2, ElemKinds
<1>4. q[lo] = Start(q[lo].seq)
  BY <1>2, <1>3, ElemIsStart
<1>5. r.seq = q[lo].seq /\ r.lo = lo /\ r.hi = hi
  BY <1>1
<1>6. r \in GoodWriteRecord
  BY <1>1, <1>2, <1>3 DEF GoodWriteRecord
<1> QED
  BY <1>1, <1>2, <1>4, <1>5, <1>6 DEF RecordAt

\* A well formed record is one of the good records.
LEMMA RecordIsGood ==
    ASSUME NEW q \in Seq(Elem), NEW lo, NEW hi, IsRecord(q, lo, hi)
    PROVE  [seq |-> q[lo].seq, lo |-> lo, hi |-> hi] \in GoodRecords(q)
<1>1. << lo, hi >> \in { p \in Positions(q, "start") \X Positions(q, "end") :
                            IsRecord(q, p[1], p[2]) }
  BY DEF IsRecord, Positions
<1> QED
  BY <1>1 DEF GoodRecords

\* The Start of a record tells where it ends.
LEMMA OneEnd ==
    ASSUME NEW q \in Seq(Elem), NEW lo, NEW hi, NEW hj,
           IsRecord(q, lo, hi), IsRecord(q, lo, hj)
    PROVE  hi = hj
<1>1. /\ lo \in 1 .. Len(q) /\ hi \in 1 .. Len(q) /\ hj \in 1 .. Len(q)
      /\ lo < hi /\ lo < hj /\ q[hi].kind = "end" /\ q[hj].kind = "end"
      /\ \A i \in lo + 1 .. hi - 1 : q[i].kind = "data"
      /\ \A i \in lo + 1 .. hj - 1 : q[i].kind = "data"
  BY DEF IsRecord
<1>2. ~ hi < hj
  BY <1>1
<1>3. ~ hj < hi
  BY <1>1
<1> QED
  BY <1>1, <1>2, <1>3

\* A record holds no Start but its own.
LEMMA OneStart ==
    ASSUME NEW q \in Seq(Elem), NEW lo, NEW hi, IsRecord(q, lo, hi),
           NEW p \in lo .. hi, q[p].kind = "start"
    PROVE  p = lo
<1>1. /\ lo \in 1 .. Len(q) /\ hi \in 1 .. Len(q) /\ lo < hi /\ q[hi].kind = "end"
      /\ \A i \in lo + 1 .. hi - 1 : q[i].kind = "data"
  BY DEF IsRecord
<1> QED
  BY <1>1

\* The elements strictly between two positions.
LEMMA Between ==
    ASSUME NEW S, NEW s, NEW m \in Int, NEW n \in Int, m < n,
           \A i \in m + 1 .. n - 1 : s[i] \in S
    PROVE  /\ SubSeq(s, m + 1, n - 1) \in Seq(S)
           /\ Len(SubSeq(s, m + 1, n - 1)) = n - m - 1
           /\ \A i \in 1 .. n - m - 1 : SubSeq(s, m + 1, n - 1)[i] = s[m + i]
<1> DEFINE x == m + 1
           y == n - 1
<1>1. /\ x \in Int /\ y \in Int /\ y - x + 1 = n - m - 1 /\ n - m - 1 \in Nat
      /\ x <= y => y - x + 1 = n - m - 1
      /\ ~ x <= y => n - m - 1 = 0
      /\ \A i \in 1 .. n - m - 1 : x + i - 1 = m + i
      /\ \A i \in x .. y : s[i] \in S
  OBVIOUS
<1> HIDE DEF x, y
<1>2. /\ SubSeq(s, x, y) \in Seq(S)
      /\ Len(SubSeq(s, x, y)) = IF x <= y THEN y - x + 1 ELSE 0
      /\ \A i \in 1 .. y - x + 1 : SubSeq(s, x, y)[i] = s[x + i - 1]
  BY <1>1, SubSeqProperties
<1>3. /\ SubSeq(s, x, y) \in Seq(S)
      /\ Len(SubSeq(s, x, y)) = n - m - 1
      /\ \A i \in 1 .. n - m - 1 : SubSeq(s, x, y)[i] = s[m + i]
  BY <1>1, <1>2
<1> QED
  BY <1>3 DEF x, y

\* The elements lo .. hi of q are those at a .. b of n, d further on.
Moved(q, lo, hi, n, a, b, d) ==
    /\ a = lo + d /\ b = hi + d /\ a >= 1 /\ b <= Len(n)
    /\ \A i \in lo .. hi : n[i + d] = q[i]

\* The same elements at another place are a record there.
LEMMA SameRecord ==
    ASSUME NEW q \in Seq(Elem), NEW n \in Seq(Elem), NEW lo, NEW hi,
           NEW d \in Int, NEW a \in Int, NEW b \in Int,
           IsRecord(q, lo, hi), Moved(q, lo, hi, n, a, b, d)
    PROVE  IsRecord(n, a, b) /\ n[a] = q[lo] /\ n[b] = q[hi]
<1>0. /\ a = lo + d /\ b = hi + d /\ a >= 1 /\ b <= Len(n)
      /\ \A i \in lo .. hi : n[i + d] = q[i]
  BY DEF Moved
<1>1. /\ lo \in 1 .. Len(q) /\ hi \in 1 .. Len(q) /\ lo < hi
      /\ q[lo].kind = "start" /\ q[hi].kind = "end" /\ q[lo].seq = q[hi].seq
      /\ \A i \in lo + 1 .. hi - 1 : q[i].kind = "data"
      /\ q[hi].crc = SubSeq(q, lo + 1, hi - 1)
      /\ Len(q) \in Nat /\ Len(n) \in Nat
  BY DEF IsRecord
<1>2. /\ a \in 1 .. Len(n) /\ b \in 1 .. Len(n) /\ a < b
      /\ n[a] = q[lo] /\ n[b] = q[hi]
  <2>1. lo \in Int /\ hi \in Int /\ lo < hi /\ Len(n) \in Nat
    BY <1>1
  <2>2. a >= 1 /\ a < b /\ b <= Len(n)
    BY <1>0, <2>1
  <2>3. lo \in lo .. hi /\ hi \in lo .. hi
    BY <2>1
  <2>4. n[lo + d] = q[lo] /\ n[hi + d] = q[hi]
    BY <1>0, <2>3
  <2> QED BY <1>0, <2>1, <2>2, <2>4
<1>3. ASSUME NEW i \in a + 1 .. b - 1
      PROVE  n[i] = q[i - d] /\ n[i].kind = "data" /\ n[i] \in Elem
  <2>1. i - d \in lo + 1 .. hi - 1 /\ i - d \in lo .. hi /\ (i - d) + d = i
    BY <1>0, <1>1
  <2>2. i \in 1 .. Len(n)
    <3>1. a >= 1 /\ b <= Len(n) /\ Len(n) \in Nat
      BY <1>1, <1>2
    <3> QED BY <3>1
  <2>3. n[(i - d) + d] = q[i - d]
    BY <1>0, <2>1
  <2>4. n[i] = q[i - d]
    BY <2>1, <2>3
  <2>5. q[i - d].kind = "data"
    BY <1>1, <2>1
  <2>6. n[i] \in Elem
    BY <2>2
  <2> QED BY <2>4, <2>5, <2>6
<1>4. SubSeq(n, a + 1, b - 1) = SubSeq(q, lo + 1, hi - 1)
  <2> DEFINE l == b - a - 1
             s == SubSeq(n, a + 1, b - 1)
             t == SubSeq(q, lo + 1, hi - 1)
  <2>1. l \in Nat /\ hi - lo - 1 = l
    <3>1. lo \in Int /\ hi \in Int /\ lo < hi /\ b - a = hi - lo
      BY <1>0, <1>1
    <3> QED BY <3>1
  <2>2. s \in Seq(Elem) /\ Len(s) = l /\ \A i \in 1 .. l : s[i] = n[a + i]
    <3>1. a < b /\ \A i \in a + 1 .. b - 1 : n[i] \in Elem
      BY <1>2, <1>3
    <3> QED BY <3>1, Between
  <2>3. t \in Seq(Elem) /\ Len(t) = l /\ \A i \in 1 .. l : t[i] = q[lo + i]
    <3>1. lo \in Int /\ hi \in Int /\ lo < hi /\ \A i \in lo + 1 .. hi - 1 : q[i] \in Elem
      BY <1>1
    <3>2. /\ t \in Seq(Elem) /\ Len(t) = hi - lo - 1
          /\ \A i \in 1 .. hi - lo - 1 : t[i] = q[lo + i]
      BY <3>1, Between
    <3> HIDE DEF l, t
    <3> QED BY <2>1, <3>2
  <2>4. \A i \in 1 .. l : n[a + i] = q[lo + i]
    <3>1. SUFFICES ASSUME NEW i \in 1 .. l PROVE n[a + i] = q[lo + i]
      OBVIOUS
    <3>2. lo + i \in lo .. hi /\ a + i = (lo + i) + d
      BY <1>0, <1>1
    <3> QED BY <1>0, <3>2
  <2> HIDE DEF s, t, l
  <2>5. s = t
    <3>1. Len(s) = Len(t) /\ \A i \in 1 .. Len(s) : s[i] = t[i]
      BY <2>2, <2>3, <2>4
    <3> QED BY <2>2, <2>3, <3>1, SeqEqual
  <2> QED BY <2>5 DEF s, t
<1>5. a \in DOMAIN n /\ b \in DOMAIN n
  BY <1>2
<1> QED
  BY <1>1, <1>2, <1>3, <1>4, <1>5 DEF IsRecord

\* An element pushed behind a record leaves the record what it is.
LEMMA AppendKeepsRecord ==
    ASSUME NEW q \in Seq(Elem), NEW e \in Elem, NEW lo \in Nat, NEW hi \in Int,
           IsRecord(q, lo, hi)
    PROVE  IsRecord(Append(q, e), lo, hi) /\ Append(q, e)[lo] = q[lo]
<1> DEFINE new == Append(q, e)
<1>1. /\ new \in Seq(Elem) /\ Len(new) = Len(q) + 1
      /\ \A i \in 1 .. Len(q) : new[i] = q[i]
  OBVIOUS
<1>2. /\ lo \in 1 .. Len(q) /\ hi \in 1 .. Len(q) /\ lo < hi
      /\ q[lo].kind = "start" /\ q[hi].kind = "end" /\ q[lo].seq = q[hi].seq
      /\ \A i \in lo + 1 .. hi - 1 : q[i].kind = "data"
      /\ q[hi].crc = SubSeq(q, lo + 1, hi - 1)
  BY DEF IsRecord
<1> HIDE DEF new
<1>3. SubSeq(new, lo + 1, hi - 1) = SubSeq(q, lo + 1, hi - 1)
  <2>1. \A i \in lo + 1 .. hi - 1 : new[i] = q[i] /\ q[i] \in Elem
    BY <1>1, <1>2
  <2>2. /\ lo \in Int /\ hi \in Int /\ lo < hi
        /\ \A i \in lo + 1 .. hi - 1 : new[i] \in Elem
        /\ \A i \in lo + 1 .. hi - 1 : q[i] \in Elem
    BY <1>2, <2>1
  <2> DEFINE l == hi - lo - 1
             s == SubSeq(new, lo + 1, hi - 1)
             u == SubSeq(q, lo + 1, hi - 1)
  <2>3. s \in Seq(Elem) /\ Len(s) = l /\ \A i \in 1 .. l : s[i] = new[lo + i]
    BY <2>2, Between
  <2>4. u \in Seq(Elem) /\ Len(u) = l /\ \A i \in 1 .. l : u[i] = q[lo + i]
    BY <2>2, Between
  <2>5. \A i \in 1 .. l : new[lo + i] = q[lo + i]
    <3>1. \A i \in 1 .. l : lo + i \in lo + 1 .. hi - 1
      BY <2>2
    <3> QED BY <2>1, <3>1
  <2> HIDE DEF s, u, l
  <2>6. s = u
    BY <2>3, <2>4, <2>5, SeqEqual
  <2> QED BY <2>6 DEF s, u
<1>4. IsRecord(new, lo, hi) /\ new[lo] = q[lo]
  <2>1. DOMAIN new = 1 .. Len(q) + 1 /\ Len(q) \in Nat
    BY <1>1
  <2>2. /\ lo \in DOMAIN new /\ hi \in DOMAIN new
        /\ new[lo] = q[lo] /\ new[hi] = q[hi]
    BY <1>1, <1>2, <2>1
  <2>3. ASSUME NEW i \in lo + 1 .. hi - 1 PROVE new[i].kind = "data"
    <3>1. i \in 1 .. Len(q)
      BY <1>2, <2>1
    <3> QED BY <1>1, <1>2, <3>1
  <2> QED BY <1>2, <1>3, <2>2, <2>3 DEF IsRecord
<1> QED
  BY <1>4 DEF new

\* What a queue holds in front of the element that was pushed last was there before.
LEMMA AppendCameFrom ==
    ASSUME NEW q \in Seq(Elem), NEW e \in Elem, NEW lo, NEW hi,
           IsRecord(Append(q, e), lo, hi)
    PROVE  /\ lo \in 1 .. Len(q) /\ Append(q, e)[lo] = q[lo]
           /\ \/ IsRecord(q, lo, hi)
              \/ hi = Len(q) + 1 /\ e.kind = "end" /\ e.seq = q[lo].seq
<1> DEFINE n == Append(q, e)
<1>1. /\ n \in Seq(Elem) /\ Len(n) = Len(q) + 1 /\ Len(q) \in Nat
      /\ \A i \in 1 .. Len(q) : n[i] = q[i]
      /\ n[Len(q) + 1] = e
  OBVIOUS
<1> HIDE DEF n
<1>2. /\ lo \in 1 .. Len(n) /\ hi \in 1 .. Len(n) /\ lo < hi
      /\ n[hi].kind = "end" /\ n[lo].seq = n[hi].seq /\ IsRecord(n, lo, hi)
  BY DEF IsRecord, n
<1>3. lo \in 1 .. Len(q) /\ n[lo] = q[lo]
  BY <1>1, <1>2
<1>4. CASE hi = Len(q) + 1
  BY <1>1, <1>2, <1>3, <1>4 DEF n
<1>5. CASE hi <= Len(q)
  <2>1. \A i \in lo .. hi : q[i + 0] = n[i]
    BY <1>1, <1>2, <1>5
  <2>2. lo \in Int /\ hi \in Int /\ lo = lo + 0 /\ hi = hi + 0 /\ lo >= 1 /\ 0 \in Int
    BY <1>2
  <2>3. Moved(n, lo, hi, q, lo, hi, 0)
    BY <1>5, <2>1, <2>2 DEF Moved
  <2>4. IsRecord(q, lo, hi)
    BY <1>1, <1>2, <2>2, <2>3, SameRecord
  <2> QED BY <1>3, <2>4 DEF n
<1> QED
  BY <1>1, <1>2, <1>4, <1>5

\* A push adds a good record only when it is an End, and then at the very end.
LEMMA AppendGood ==
    ASSUME NEW q \in Seq(Elem), NEW e \in Elem
    PROVE  /\ GoodRecords(q) \subseteq GoodRecords(Append(q, e))
           /\ \A r \in GoodRecords(Append(q, e)) :
                 r \in GoodRecords(q) \/ (r.hi = Len(q) + 1 /\ e.kind = "end" /\ e.seq = r.seq)
<1> DEFINE n == Append(q, e)
<1>1. n \in Seq(Elem)
  OBVIOUS
<1>2. ASSUME NEW r \in GoodRecords(q) PROVE r \in GoodRecords(n)
  <2>1. /\ r \in GoodWriteRecord /\ r.lo \in Nat /\ r.hi \in Int
        /\ q[r.lo].seq = r.seq /\ IsRecord(q, r.lo, r.hi)
    BY GoodRecordIs DEF RecordAt, GoodWriteRecord
  <2>2. IsRecord(n, r.lo, r.hi) /\ n[r.lo] = q[r.lo]
    BY <2>1, AppendKeepsRecord
  <2> HIDE DEF n
  <2>3. [seq |-> n[r.lo].seq, lo |-> r.lo, hi |-> r.hi] \in GoodRecords(n)
    BY <1>1, <2>2, RecordIsGood
  <2>4. r = [seq |-> n[r.lo].seq, lo |-> r.lo, hi |-> r.hi]
    BY <2>1, <2>2 DEF GoodWriteRecord
  <2> QED BY <2>3, <2>4
<1>3. ASSUME NEW r \in GoodRecords(n)
      PROVE  r \in GoodRecords(q) \/ (r.hi = Len(q) + 1 /\ e.kind = "end" /\ e.seq = r.seq)
  <2>1. r \in GoodWriteRecord /\ n[r.lo].seq = r.seq /\ IsRecord(n, r.lo, r.hi)
    BY <1>1, GoodRecordIs DEF RecordAt
  <2>2. /\ n[r.lo] = q[r.lo]
        /\ \/ IsRecord(q, r.lo, r.hi)
           \/ r.hi = Len(q) + 1 /\ e.kind = "end" /\ e.seq = q[r.lo].seq
    BY <2>1, AppendCameFrom
  <2> HIDE DEF n
  <2>3. CASE IsRecord(q, r.lo, r.hi)
    <3>1. [seq |-> q[r.lo].seq, lo |-> r.lo, hi |-> r.hi] \in GoodRecords(q)
      BY <2>3, RecordIsGood
    <3>2. r = [seq |-> q[r.lo].seq, lo |-> r.lo, hi |-> r.hi]
      BY <2>1, <2>2 DEF GoodWriteRecord
    <3> QED BY <3>1, <3>2
  <2> QED BY <2>1, <2>2, <2>3
<1> QED
  BY <1>2, <1>3

-----------------------------------------------------------------------------
\* An element taken out leaves the records in front of it and those behind it.
LEMMA RemoveKeepsFront ==
    ASSUME NEW q \in Seq(Elem), NEW p \in DOMAIN q, NEW lo, NEW hi,
           IsRecord(q, lo, hi), hi < p
    PROVE  /\ IsRecord(RemoveAt(q, p), lo, hi)
           /\ RemoveAt(q, p)[lo] = q[lo] /\ RemoveAt(q, p)[hi] = q[hi]
<1> DEFINE n == RemoveAt(q, p)
<1>1. /\ n \in Seq(Elem) /\ Len(n) = Len(q) - 1 /\ Len(q) \in Nat /\ p \in 1 .. Len(q)
      /\ \A j \in 1 .. Len(q) - 1 : n[j] = IF j < p THEN q[j] ELSE q[j + 1]
  <2>1. /\ n \in Seq(Elem) /\ Len(n) = Len(q) - 1
        /\ \A j \in 1 .. Len(q) - 1 : n[j] = IF j < p THEN q[j] ELSE q[j + 1]
    BY RemoveAtProperties
  <2> HIDE DEF n
  <2> QED BY <2>1
<1>2. lo \in 1 .. Len(q) /\ hi \in 1 .. Len(q) /\ lo < hi
  BY DEF IsRecord
<1> HIDE DEF n
<1>3. \A i \in lo .. hi : n[i + 0] = q[i]
  BY <1>1, <1>2
<1>4. lo \in Int /\ hi \in Int /\ lo = lo + 0 /\ hi = hi + 0 /\ lo >= 1 /\ hi <= Len(n) /\ 0 \in Int
  BY <1>1, <1>2
<1>5. Moved(q, lo, hi, n, lo, hi, 0)
  BY <1>3, <1>4 DEF Moved
<1>6. IsRecord(n, lo, hi) /\ n[lo] = q[lo] /\ n[hi] = q[hi]
  BY <1>1, <1>4, <1>5, SameRecord
<1> QED
  BY <1>6 DEF n

\* Records behind the element that is removed move up by one.
LEMMA RemoveKeepsBack ==
    ASSUME NEW q \in Seq(Elem), NEW p \in DOMAIN q, NEW lo, NEW hi,
           IsRecord(q, lo, hi), p < lo
    PROVE  /\ IsRecord(RemoveAt(q, p), lo - 1, hi - 1)
           /\ RemoveAt(q, p)[lo - 1] = q[lo] /\ RemoveAt(q, p)[hi - 1] = q[hi]
<1> DEFINE n == RemoveAt(q, p)
           a == lo - 1
           b == hi - 1
           d == 0 - 1
<1>1. /\ n \in Seq(Elem) /\ Len(n) = Len(q) - 1 /\ Len(q) \in Nat /\ p \in 1 .. Len(q)
      /\ \A j \in 1 .. Len(q) - 1 : n[j] = IF j < p THEN q[j] ELSE q[j + 1]
  <2>1. /\ n \in Seq(Elem) /\ Len(n) = Len(q) - 1
        /\ \A j \in 1 .. Len(q) - 1 : n[j] = IF j < p THEN q[j] ELSE q[j + 1]
    BY RemoveAtProperties
  <2> HIDE DEF n
  <2> QED BY <2>1
<1>2. lo \in 1 .. Len(q) /\ hi \in 1 .. Len(q) /\ lo < hi
  BY DEF IsRecord
<1> HIDE DEF n
<1>3. \A i \in lo .. hi : n[i + d] = q[i]
  <2>1. SUFFICES ASSUME NEW i \in lo .. hi PROVE n[i + d] = q[i]
    OBVIOUS
  <2>2. i - 1 \in 1 .. Len(q) - 1 /\ ~ i - 1 < p /\ (i - 1) + 1 = i /\ i + d = i - 1
    BY <1>1, <1>2
  <2> QED BY <1>1, <2>2
<1>4. a \in Int /\ b \in Int /\ a = lo + d /\ b = hi + d /\ a >= 1 /\ b <= Len(n) /\ d \in Int
  BY <1>1, <1>2
<1> HIDE DEF a, b, d
<1>5. Moved(q, lo, hi, n, a, b, d)
  BY <1>3, <1>4 DEF Moved
<1>6. IsRecord(n, a, b) /\ n[a] = q[lo] /\ n[b] = q[hi]
  BY <1>1, <1>4, <1>5, SameRecord
<1> QED
  BY <1>6 DEF n, a, b

\* Where a record was before an element was taken out, unless that joined it.
LEMMA RemoveCameFrom ==
    ASSUME NEW q \in Seq(Elem), NEW p \in DOMAIN q, NEW lo, NEW hi,
           IsRecord(RemoveAt(q, p), lo, hi)
    PROVE  /\ lo \in 1 .. Len(q) - 1 /\ hi \in 1 .. Len(q) - 1 /\ lo < hi
           /\ hi < p => IsRecord(q, lo, hi)
           /\ p <= lo => IsRecord(q, lo + 1, hi + 1)
           /\ lo < p => RemoveAt(q, p)[lo] = q[lo]
           /\ p <= lo => RemoveAt(q, p)[lo] = q[lo + 1]
<1> DEFINE n == RemoveAt(q, p)
           a == lo + 1
           b == hi + 1
<1>1. /\ n \in Seq(Elem) /\ Len(n) = Len(q) - 1 /\ Len(q) \in Nat /\ p \in 1 .. Len(q)
      /\ \A j \in 1 .. Len(q) - 1 : n[j] = IF j < p THEN q[j] ELSE q[j + 1]
  <2>1. /\ n \in Seq(Elem) /\ Len(n) = Len(q) - 1
        /\ \A j \in 1 .. Len(q) - 1 : n[j] = IF j < p THEN q[j] ELSE q[j + 1]
    BY RemoveAtProperties
  <2> HIDE DEF n
  <2> QED BY <2>1
<1>2. lo \in 1 .. Len(n) /\ hi \in 1 .. Len(n) /\ lo < hi /\ IsRecord(n, lo, hi)
  BY DEF IsRecord
<1> HIDE DEF n
<1>3. ASSUME hi < p PROVE IsRecord(q, lo, hi)
  <2>1. \A i \in lo .. hi : q[i + 0] = n[i]
    BY <1>1, <1>2, <1>3
  <2>2. lo \in Int /\ hi \in Int /\ lo = lo + 0 /\ hi = hi + 0 /\ lo >= 1 /\ hi <= Len(q) /\ 0 \in Int
    BY <1>1, <1>2
  <2>3. Moved(n, lo, hi, q, lo, hi, 0)
    BY <2>1, <2>2 DEF Moved
  <2> QED BY <1>1, <1>2, <2>2, <2>3, SameRecord
<1>4. ASSUME p <= lo PROVE IsRecord(q, a, b)
  <2>1. \A i \in lo .. hi : q[i + 1] = n[i]
    <3>1. SUFFICES ASSUME NEW i \in lo .. hi PROVE q[i + 1] = n[i]
      OBVIOUS
    <3>2. i \in 1 .. Len(q) - 1 /\ ~ i < p
      BY <1>1, <1>2, <1>4
    <3> QED BY <1>1, <3>2
  <2>2. a \in Int /\ b \in Int /\ a = lo + 1 /\ b = hi + 1 /\ a >= 1 /\ b <= Len(q) /\ 1 \in Int
    BY <1>1, <1>2
  <2>3. Moved(n, lo, hi, q, a, b, 1)
    BY <2>1, <2>2 DEF Moved
  <2> HIDE DEF a, b
  <2> QED BY <1>1, <1>2, <2>2, <2>3, SameRecord
<1>5. /\ lo < p => n[lo] = q[lo]
      /\ p <= lo => n[lo] = q[lo + 1]
  BY <1>1, <1>2
<1> QED
  BY <1>1, <1>2, <1>3, <1>4, <1>5 DEF n

-----------------------------------------------------------------------------
(***************************************************************************)
(* The types of StorageList.                                               *)
(***************************************************************************)

\* The facts about the constants that the proofs use.
LEMMA Constants ==
    /\ Default \in Values /\ NoVal \notin Values
    /\ MaxSeq \in SeqNo /\ MaxEvents \in Nat
    /\ SeqLimit \in Nat \ {0} /\ Kept \in Nat \ {0}
  BY StorageAssumption, SeqLimitAssumption, KeptAssumption

\* Counting the bounded events preserves their type.
LEMMA EventsType ==
    ASSUME TypeOK
    PROVE  /\ NoEvent => events' \in 0 .. MaxEvents
           /\ \A f : Event(f) => events' \in 0 .. MaxEvents
  BY Constants DEF TypeOK, NoEvent, Event

\* A push keeps the queue a queue of elements.
LEMMA PushType ==
    ASSUME TypeOK, NEW e \in Elem, Push(e)
    PROVE  queue' \in Seq(Elem) /\ events' \in 0 .. MaxEvents
<1>1. queue \in Seq(Elem)
  BY DEF TypeOK
<1>2. queue' = Append(queue, e) \/ queue' = Append(queue, Bad)
  BY DEF Push
<1>3. queue' \in Seq(Elem)
  BY <1>1, <1>2, ElemTypes
<1>4. events' \in 0 .. MaxEvents
  BY EventsType DEF Push
<1> QED BY <1>3, <1>4

\* A writable node holds a payload.
LEMMA WritableHolds ==
    ASSUME TypeOK, NEW k \in Keys, Writable(k)
    PROVE  node[k].val \in Values
  BY DEF TypeOK, Nodes, Writable

-----------------------------------------------------------------------------
\* What extract_all makes of the nodes.
LEMMA HydratedType ==
    ASSUME TypeOK, NEW h, NEW stop \in Nat, h.lo \in Nat, NEW broken,
           stop \in 1 .. Len(queue) + 1
    PROVE  Hydrated(h, stop, broken) \in [Keys -> Nodes]
<1> DEFINE new(k) ==
        IF k \in Attached /\ node[k].state = "Initial" /\ Holds(queue, h.lo, stop, k)
        THEN IF k \in broken THEN [node[k] EXCEPT !.state = "NonResident"]
             ELSE [state |-> "ValidNoWriteNeeded", val |-> PayloadOf(queue, h.lo, stop, k)]
        ELSE node[k]
<1>1. SUFFICES ASSUME NEW k \in Keys PROVE new(k) \in Nodes
  BY DEF Hydrated
<1>2. node[k] \in Nodes
  BY DEF TypeOK
<1>3. node[k].state = "Initial" => [node[k] EXCEPT !.state = "NonResident"] \in Nodes
  BY <1>2 DEF Nodes
<1>4. ASSUME Holds(queue, h.lo, stop, k)
      PROVE  PayloadOf(queue, h.lo, stop, k) \in Values
  <2> DEFINE at == CHOOSE i \in h.lo + 1 .. stop - 1 : queue[i].kind = "data" /\ queue[i].key = k
  <2>1. at \in h.lo + 1 .. stop - 1 /\ queue[at].kind = "data"
    BY <1>4 DEF Holds
  <2>2. PayloadOf(queue, h.lo, stop, k) = queue[at].val
    BY DEF PayloadOf
  <2> HIDE DEF at
  <2>3. queue[at] \in Elem
    <3>1. queue \in Seq(Elem) /\ Len(queue) \in Nat
      BY DEF TypeOK
    <3>2. at \in 1 .. Len(queue)
      BY <2>1, <3>1
    <3> QED BY <3>1, <3>2
  <2>4. \A x \in Elem : x.kind = "data" => x.val \in Values
    BY ElemKinds
  <2> QED BY <2>1, <2>2, <2>3, <2>4
<1>5. \A v \in Values : [state |-> "ValidNoWriteNeeded", val |-> v] \in Nodes
  BY DEF Nodes
<1> QED
  BY <1>2, <1>3, <1>4, <1>5

\* mark_initial_nonresident leaves nodes.
LEMMA MarkNonResidentType ==
    ASSUME NEW nodes \in [Keys -> Nodes]
    PROVE  MarkNonResident(nodes) \in [Keys -> Nodes]
<1>1. \A n \in Nodes : n.state = "Initial" => [n EXCEPT !.state = "NonResident"] \in Nodes
  BY DEF Nodes
<1> QED
  BY <1>1 DEF MarkNonResident

\* extract_all leaves nodes, however it ends.
LEMMA ReadRecordType ==
    ASSUME TypeOK, NEW ss \in SeqStates, NEW ok, ReadRecord(ss, ok)
    PROVE  node' \in [Keys -> Nodes] /\ events' \in 0 .. MaxEvents
<1> DEFINE h == HighestSeen(ss)
           stop == DataStop(queue, h.lo)
<1>1. node \in [Keys -> Nodes] /\ queue \in Seq(Elem)
  BY DEF TypeOK
<1>2. ReadAll(ss) \/ ReadFails(ss)
  BY DEF ReadRecord
<1>3. CASE node' = MarkNonResident(node) /\ NoEvent
  BY <1>1, <1>3, MarkNonResidentType, EventsType
<1>4. CASE node' = node /\ NoEvent
  BY <1>1, <1>4, EventsType
<1>5. ASSUME StartsAt(h)
      PROVE  /\ h.lo \in Nat /\ h.lo + 1 \in Nat
             /\ stop \in h.lo + 1 .. Len(queue) + 1 /\ stop \in Nat
             /\ stop \in 1 .. Len(queue) + 1
  <2>1. h.lo \in 0 .. Len(queue) /\ Len(queue) \in Nat
    BY <1>1, <1>5 DEF StartsAt
  <2>2. stop \in h.lo + 1 .. Len(queue) + 1
    BY <1>1, <2>1, DataStopProperties
  <2> HIDE DEF stop, h
  <2> QED BY <2>1, <2>2
<1>6. ASSUME StartsAt(h), NEW broken \in SUBSET Attached, Schema(broken),
             \/ node' = MarkNonResident(Hydrated(h, stop, broken))
             \/ node' = Hydrated(h, stop, broken)
      PROVE  node' \in [Keys -> Nodes] /\ events' \in 0 .. MaxEvents
  <2>1. h.lo \in Nat /\ stop \in Nat /\ stop \in 1 .. Len(queue) + 1
    BY <1>5, <1>6
  <2>2. events' \in 0 .. MaxEvents
    BY <1>6, EventsType DEF Schema
  <2> HIDE DEF h, stop
  <2>3. Hydrated(h, stop, broken) \in [Keys -> Nodes]
    BY <2>1, HydratedType
  <2> QED BY <1>6, <2>2, <2>3, MarkNonResidentType
<1>7. ASSUME StartsAt(h), NEW at \in h.lo + 1 .. stop, NEW broken \in SUBSET Attached,
             node' = Hydrated(h, at, broken), Event("extract")
      PROVE  node' \in [Keys -> Nodes] /\ events' \in 0 .. MaxEvents
  <2>1. h.lo \in Nat /\ h.lo + 1 \in Nat /\ stop \in 1 .. Len(queue) + 1
    BY <1>5, <1>7
  <2>2. events' \in 0 .. MaxEvents
    BY <1>7, EventsType
  <2> HIDE DEF h, stop
  <2>3. at \in Nat /\ at \in 1 .. Len(queue) + 1
    BY <1>7, <2>1
  <2>4. Hydrated(h, at, broken) \in [Keys -> Nodes]
    BY <2>1, <2>3, HydratedType
  <2> QED BY <1>7, <2>2, <2>4
<1>8. CASE ReadAll(ss)
  <2>1. CASE ~ AnySeen(ss)
    BY <1>3, <1>8, <2>1 DEF ReadAll
  <2>2. CASE AnySeen(ss)
    <3>1. PICK broken \in SUBSET Attached :
             /\ StartsAt(h) /\ Schema(broken)
             /\ node' = MarkNonResident(Hydrated(h, stop, broken))
      BY <1>8, <2>2 DEF ReadAll
    <3> HIDE DEF h, stop
    <3> QED BY <1>6, <3>1
  <2> QED BY <2>1, <2>2
<1>9. CASE ReadFails(ss)
  <2>1. CASE ~ StartsAt(h)
    BY <1>4, <1>9, <2>1 DEF ReadFails
  <2>2. CASE StartsAt(h)
    <3>1. \/ \E broken \in SUBSET Attached : node' = Hydrated(h, stop, broken) /\ Schema(broken)
          \/ \E at \in h.lo + 1 .. stop, broken \in SUBSET Attached :
                node' = Hydrated(h, at, broken) /\ Event("extract")
      BY <1>9, <2>2 DEF ReadFails
    <3> HIDE DEF h, stop
    <3> QED BY <1>6, <1>7, <2>2, <3>1
  <2> QED BY <2>1, <2>2
<1> QED
  BY <1>2, <1>8, <1>9

\* What the end of a scan leaves in the cache.
LEMMA PopulatedType ==
    ASSUME TypeOK, CacheOrdered
    PROVE  /\ Populated \in SeqStates /\ Consistent(Populated)
           /\ Populated.recs = seqState.recs
           /\ [Populated EXCEPT !.gc = FALSE] \in SeqStates
           /\ Consistent([Populated EXCEPT !.gc = FALSE])
           /\ [Populated EXCEPT !.gc = FALSE].recs = seqState.recs
<1>1. ASSUME NEW ss \in SeqStates, Consistent(ss)
      PROVE  /\ [ss EXCEPT !.gc = FALSE] \in SeqStates
             /\ [ss EXCEPT !.gc = FALSE].recs = ss.recs
             /\ Consistent([ss EXCEPT !.gc = FALSE])
  <2>1. /\ [ss EXCEPT !.gc = FALSE] \in SeqStates
        /\ [ss EXCEPT !.gc = FALSE].recs = ss.recs
        /\ [ss EXCEPT !.gc = FALSE].next = ss.next
    BY DEF SeqStates
  <2> QED BY <1>1, <2>1 DEF Consistent, AnySeen, HighestSeen
<1>2. /\ Populated \in SeqStates /\ Populated.recs = seqState.recs
      /\ AnySeen(seqState) => Populated = seqState
  <2>1. seqState \in SeqStates
    BY DEF TypeOK
  <2> QED BY <2>1, Constants DEF Populated, SeqStates
<1>3. Consistent(Populated)
  BY <1>2 DEF CacheOrdered, Consistent, AnySeen
<1> QED
  BY <1>1, <1>2, <1>3

\* Once the storage has been scanned the next write has a number.
LEMMA NextNumber ==
    ASSUME TypeOK, ScanCompleted(seqState)
    PROVE  seqState.next \in SeqNo
<1>1. seqState.next \in 0 .. SeqLimit
  BY DEF TypeOK, SeqStates
<1>2. seqState.next # 0 /\ SeqLimit \in Nat
  BY Constants DEF ScanCompleted
<1> QED
  BY <1>1, <1>2 DEF SeqNo

\* An empty cache is consistent.
LEMMA NewSeqStateType == NewSeqState \in SeqStates /\ Consistent(NewSeqState)
  BY Constants DEF NewSeqState, SeqStates, Consistent, Ordered, AnySeen


-----------------------------------------------------------------------------
(***************************************************************************)
(* Type correctness.  The type of the cache needs its bound, and the bound *)
(* comes with its order: both are proved together.                         *)
(***************************************************************************)
TypeInv == TypeOK /\ CacheOrdered

\* The types and the order of the cache at the start.
LEMMA InitTypeInv == Init => TypeInv
<1> SUFFICES ASSUME Init PROVE TypeInv
  OBVIOUS
<1>1. /\ queue = << >> /\ list = << >> /\ node = [k \in Keys |-> Fresh]
      /\ seqState = NewSeqState /\ io = "idle" /\ scan = NoScan /\ wr = NoWr
      /\ gc = NoGc /\ events = 0
  BY DEF Init
<1>2. Fresh \in Nodes
  BY DEF Fresh, Nodes
<1>3. 1 \in SeqNo
  BY Constants DEF SeqNo
<1> QED
  BY <1>1, <1>2, <1>3, NewSeqStateType, Constants
  DEF TypeInv, TypeOK, CacheOrdered, IoStates, NoScan, NoWr, NoGc

\* The steps of user tasks.
LEMMA UserStepType == TypeInv /\ UserStep => TypeInv'
<1> SUFFICES ASSUME TypeInv, UserStep PROVE TypeInv'
  OBVIOUS
<1>0. TypeOK /\ CacheOrdered
  BY DEF TypeInv
<1>1. Fresh \in Nodes /\ \A v \in Values : [state |-> "NeedsWrite", val |-> v] \in Nodes
  BY DEF Fresh, Nodes
<1>2. ASSUME NEW k \in Keys, Attach(k) PROVE TypeInv'
  <2>1. list' \in Seq(Keys)
    BY <1>0, <1>2 DEF Attach, TypeOK
  <2>2. node' \in [Keys -> Nodes]
    BY <1>0, <1>1, <1>2 DEF Attach, TypeOK
  <2> QED BY <1>0, <1>2, <2>1, <2>2, EventsType DEF Attach, TypeInv, TypeOK, CacheOrdered
<1>3. ASSUME NEW k \in Keys, TakeDefault(k) PROVE TypeInv'
  <2>1. node' \in [Keys -> Nodes]
    BY <1>0, <1>1, <1>3, Constants DEF TakeDefault, TypeOK
  <2> QED BY <1>0, <1>3, <2>1, EventsType DEF TakeDefault, TypeInv, TypeOK, CacheOrdered
<1>4. ASSUME NEW k \in Keys, Detach(k) PROVE TypeInv'
  <2>1. list' \in Seq(Keys)
    BY <1>0, <1>4, RemoveAtProperties DEF Detach, TypeOK
  <2>2. node' \in [Keys -> Nodes]
    BY <1>0, <1>1, <1>4 DEF Detach, TypeOK
  <2> QED BY <1>0, <1>4, <2>1, <2>2, EventsType DEF Detach, TypeInv, TypeOK, CacheOrdered
<1>5. ASSUME NEW k \in Keys, NEW v \in Values, Write(k, v) PROVE TypeInv'
  <2>1. node' \in [Keys -> Nodes]
    BY <1>0, <1>1, <1>5 DEF Write, TypeOK
  <2> QED BY <1>0, <1>5, <2>1, EventsType DEF Write, TypeInv, TypeOK, CacheOrdered
<1>6. ASSUME ResetCache PROVE TypeInv'
  BY <1>0, <1>6, NewSeqStateType, EventsType DEF ResetCache, TypeInv, TypeOK, CacheOrdered
<1> QED
  BY <1>2, <1>3, <1>4, <1>5, <1>6 DEF UserStep

\* The steps of process_reads, and the scan it shares with process_garbage.
LEMMA ReadStepType ==
    ASSUME TypeInv, NEW ok \in BOOLEAN,
           ProcessReads(ok) \/ BeginScan \/ ScanElement \/ EndReadScan(ok)
    PROVE  TypeInv'
<1>0. TypeOK /\ CacheOrdered
  BY DEF TypeInv
<1>1. NoScan \in [at : Nat \ {0}, from : Nat, seq : SeqNo, crc : Seq(DataElem)]
  BY Constants DEF NoScan, SeqNo
<1>2. CASE ProcessReads(ok)
  <2>1. node' \in [Keys -> Nodes] /\ events' \in 0 .. MaxEvents
    BY <1>0, <1>2, ReadRecordType DEF ProcessReads, TypeOK
  <2> QED BY <1>0, <1>2, <2>1 DEF ProcessReads, TypeInv, TypeOK, CacheOrdered
<1>3. CASE BeginScan
  BY <1>0, <1>1, <1>3, EventsType DEF BeginScan, TypeInv, TypeOK, CacheOrdered, IoStates
<1>4. CASE ScanElement
  <2> DEFINE e == queue[scan.at]
  <2>1. e \in Elem /\ scan.at \in Nat \ {0} /\ scan.from \in Nat /\ scan.crc \in Seq(DataElem)
    BY <1>0, <1>4 DEF ScanElement, TypeOK
  <2>2. seqState' \in SeqStates /\ Consistent(seqState')
    <3>1. CASE Closes(e)
      <4> DEFINE rec == [seq |-> e.seq, lo |-> scan.from, hi |-> scan.at]
      <4>1. rec \in GoodWriteRecord
        BY <2>1, <3>1, ElemKinds DEF Closes, GoodWriteRecord
      <4>2. seqState' = InsertGood(seqState, rec)
        BY <1>4, <3>1 DEF ScanElement
      <4> HIDE DEF rec
      <4> QED
        BY <1>0, <4>1, <4>2, InsertGoodProperties DEF TypeOK, CacheOrdered, Consistent
    <3>2. CASE ~ Closes(e)
      BY <1>0, <1>4, <3>2 DEF ScanElement, TypeOK, CacheOrdered
    <3> QED BY <3>1, <3>2
  <2>3. scan' \in [at : Nat \ {0}, from : Nat, seq : SeqNo, crc : Seq(DataElem)]
    <3>1. scan' = Past(e)
      BY <1>4 DEF ScanElement
    <3> HIDE DEF e
    <3>2. CASE e.kind = "start"
      BY <2>1, <3>1, <3>2, ElemKinds DEF Past
    <3>3. CASE e.kind = "data" /\ scan.from # 0
      <4>1. Append(scan.crc, e) \in Seq(DataElem)
        BY <2>1, <3>3, ElemKinds
      <4>2. scan' = [scan EXCEPT !.at = @ + 1, !.crc = Append(@, e)]
        BY <3>1, <3>3 DEF Past
      <4>3. scan \in [at : Nat \ {0}, from : Nat, seq : SeqNo, crc : Seq(DataElem)]
        BY <1>0 DEF TypeOK
      <4>4. scan.at + 1 \in Nat \ {0}
        BY <2>1
      <4> QED BY <4>1, <4>2, <4>3, <4>4
    <3>4. CASE e.kind # "start" /\ ~ (e.kind = "data" /\ scan.from # 0)
      <4>1. scan' = [NoScan EXCEPT !.at = scan.at + 1]
        BY <3>1, <3>4 DEF Past
      <4>2. scan.at + 1 \in Nat \ {0}
        BY <2>1
      <4> QED BY <1>1, <4>1, <4>2
    <3> QED BY <3>2, <3>3, <3>4
  <2> QED
    BY <1>0, <1>4, <2>2, <2>3, EventsType DEF ScanElement, TypeInv, TypeOK, CacheOrdered
<1>5. CASE EndReadScan(ok)
  <2>1. seqState' = Populated /\ ReadRecord(Populated, ok)
    BY <1>5 DEF EndReadScan
  <2>2. node' \in [Keys -> Nodes] /\ events' \in 0 .. MaxEvents
    BY <1>0, <2>1, PopulatedType, ReadRecordType
  <2> QED
    BY <1>0, <1>1, <1>5, <2>1, <2>2, PopulatedType
    DEF EndReadScan, TypeInv, TypeOK, CacheOrdered, IoStates
<1> QED
  BY <1>2, <1>3, <1>4, <1>5


\* The steps of process_writes.
LEMMA WriteStepType ==
    TypeInv /\ (BeginWrites \/ PushData \/ PushEnd \/ StorageFull \/ VerifyGood \/ VerifyBad)
        => TypeInv'
<1> SUFFICES ASSUME TypeInv,
                    BeginWrites \/ PushData \/ PushEnd \/ StorageFull \/ VerifyGood \/ VerifyBad
             PROVE  TypeInv'
  OBVIOUS
<1>0. TypeOK /\ CacheOrdered
  BY DEF TypeInv
<1>1. NoWr \in [seq : SeqNo, todo : Seq(Keys), crc : Seq(DataElem)]
  BY Constants DEF NoWr, SeqNo
<1>2. CASE BeginWrites
  <2>1. seqState.next \in SeqNo
    BY <1>0, <1>2, NextNumber DEF BeginWrites
  <2>2. queue' \in Seq(Elem) /\ events' \in 0 .. MaxEvents
    BY <1>0, <1>2, <2>1, ElemTypes, PushType DEF BeginWrites
  <2>3. wr' \in [seq : SeqNo, todo : Seq(Keys), crc : Seq(DataElem)]
    BY <1>0, <1>2, <2>1 DEF BeginWrites, TypeOK
  <2> QED
    BY <1>0, <1>2, <2>2, <2>3 DEF BeginWrites, TypeInv, TypeOK, CacheOrdered, IoStates
<1>3. CASE PushData
  <2> DEFINE k == Head(wr.todo)
             e == Data(k, node[k].val)
  <2>1. k \in Keys /\ Tail(wr.todo) \in Seq(Keys)
    BY <1>0, <1>3 DEF PushData, TypeOK
  <2>2. CASE Writable(k)
    <3>1. e \in DataElem /\ e \in Elem
      BY <1>0, <2>1, <2>2, WritableHolds, ElemTypes
    <3>2. /\ Push(e)
          /\ wr' = [wr EXCEPT !.todo = Tail(@), !.crc = Append(@, e)]
      BY <1>3, <2>2 DEF PushData
    <3> HIDE DEF k, e
    <3>3. queue' \in Seq(Elem) /\ events' \in 0 .. MaxEvents
      BY <1>0, <3>1, <3>2, PushType
    <3>4. Append(wr.crc, e) \in Seq(DataElem)
      BY <1>0, <3>1 DEF TypeOK
    <3>5. wr' \in [seq : SeqNo, todo : Seq(Keys), crc : Seq(DataElem)]
      BY <1>0, <2>1, <3>2, <3>4 DEF TypeOK
    <3> QED BY <1>0, <1>3, <3>3, <3>5 DEF PushData, TypeInv, TypeOK, CacheOrdered
  <2>3. CASE ~ Writable(k)
    <3>1. wr' = [wr EXCEPT !.todo = Tail(@)] /\ queue' = queue /\ NoEvent
      BY <1>3, <2>3 DEF PushData
    <3>2. wr' \in [seq : SeqNo, todo : Seq(Keys), crc : Seq(DataElem)]
      BY <1>0, <2>1, <3>1 DEF TypeOK
    <3> QED
      BY <1>0, <1>3, <3>1, <3>2, EventsType DEF PushData, TypeInv, TypeOK, CacheOrdered
  <2> QED BY <2>2, <2>3
<1>4. CASE PushEnd
  <2>1. queue' \in Seq(Elem) /\ events' \in 0 .. MaxEvents
    BY <1>0, <1>4, ElemTypes, PushType DEF PushEnd, TypeOK
  <2> QED BY <1>0, <1>4, <2>1 DEF PushEnd, TypeInv, TypeOK, CacheOrdered, IoStates
<1>5. CASE StorageFull
  BY <1>0, <1>1, <1>5, EventsType DEF StorageFull, TypeInv, TypeOK, CacheOrdered, IoStates
<1>6. CASE VerifyGood
  <2>1. PICK lo \in DOMAIN queue, hi \in DOMAIN queue :
          seqState' = InsertGood(seqState, [seq |-> wr.seq, lo |-> lo, hi |-> hi + 1])
    BY <1>6 DEF VerifyGood
  <2> DEFINE rec == [seq |-> wr.seq, lo |-> lo, hi |-> hi + 1]
  <2>2. rec \in GoodWriteRecord
    <3>1. lo \in Nat \ {0} /\ hi + 1 \in Nat \ {0} /\ wr.seq \in SeqNo
      BY <1>0 DEF TypeOK
    <3> QED BY <3>1 DEF GoodWriteRecord
  <2> HIDE DEF rec
  <2>3. seqState' \in SeqStates /\ Consistent(seqState')
    <3>1. seqState' = InsertGood(seqState, rec)
      BY <2>1 DEF rec
    <3> QED
      BY <1>0, <2>2, <3>1, InsertGoodProperties DEF TypeOK, CacheOrdered, Consistent
  <2>4. node' \in [Keys -> Nodes]
    <3>1. \A n \in Nodes : n.state = "NeedsWrite" =>
                [n EXCEPT !.state = "ValidNoWriteNeeded"] \in Nodes
      BY DEF Nodes
    <3>2. node' = Cleaned(node)
      BY <1>6 DEF VerifyGood
    <3> QED BY <1>0, <3>1, <3>2 DEF Cleaned, TypeOK
  <2> QED
    BY <1>0, <1>1, <1>6, <2>3, <2>4, EventsType
    DEF VerifyGood, TypeInv, TypeOK, CacheOrdered, IoStates
<1>7. CASE VerifyBad
  BY <1>0, <1>1, <1>7, EventsType DEF VerifyBad, TypeInv, TypeOK, CacheOrdered, IoStates
<1> QED
  BY <1>2, <1>3, <1>4, <1>5, <1>6, <1>7

\* The steps of process_garbage.
LEMMA GarbageStepType ==
    TypeInv /\ (BeginGarbage \/ CollectElement \/ EndCollect \/ EndGcScan) => TypeInv'
<1> SUFFICES ASSUME TypeInv, BeginGarbage \/ CollectElement \/ EndCollect \/ EndGcScan
             PROVE  TypeInv'
  OBVIOUS
<1>0. TypeOK /\ CacheOrdered
  BY DEF TypeInv
<1>1. NoScan \in [at : Nat \ {0}, from : Nat, seq : SeqNo, crc : Seq(DataElem)]
  BY Constants DEF NoScan, SeqNo
<1>2. NoGc \in [recs : Seq(GoodWriteRecord), idx : Nat \ {0}, pos : Nat \ {0}]
  BY DEF NoGc
<1>3. CASE BeginGarbage
  <2>1. seqState.recs \in Seq(GoodWriteRecord)
    BY <1>0 DEF TypeOK, SeqStates
  <2> QED
    BY <1>0, <1>3, <2>1, NewSeqStateType, EventsType
    DEF BeginGarbage, TypeInv, TypeOK, CacheOrdered, IoStates
<1>4. CASE CollectElement
  <2>1. queue' \in Seq(Elem)
    BY <1>0, <1>4, RemoveAtProperties DEF CollectElement, TypeOK
  <2>2. gc' \in [recs : Seq(GoodWriteRecord), idx : Nat \ {0}, pos : Nat \ {0}]
    <3>1. \/ gc' = [gc EXCEPT !.idx = @ + 1, !.pos = @ + 1]
          \/ gc' = [gc EXCEPT !.idx = @ + 1]
      BY <1>4 DEF CollectElement
    <3>2. gc \in [recs : Seq(GoodWriteRecord), idx : Nat \ {0}, pos : Nat \ {0}]
      BY <1>0 DEF TypeOK
    <3>3. gc.idx + 1 \in Nat \ {0} /\ gc.pos + 1 \in Nat \ {0}
      BY <3>2
    <3> QED BY <3>1, <3>2, <3>3
  <2> QED
    BY <1>0, <1>4, <2>1, <2>2, EventsType DEF CollectElement, TypeInv, TypeOK, CacheOrdered
<1>5. CASE EndCollect
  BY <1>0, <1>1, <1>2, <1>5, EventsType DEF EndCollect, TypeInv, TypeOK, CacheOrdered, IoStates
<1>6. CASE EndGcScan
  BY <1>0, <1>1, <1>6, PopulatedType, EventsType
  DEF EndGcScan, TypeInv, TypeOK, CacheOrdered, IoStates
<1> QED
  BY <1>3, <1>4, <1>5, <1>6

\* Faults.
LEMMA FaultStepType == TypeInv /\ FaultStep => TypeInv'
<1> SUFFICES ASSUME TypeInv, FaultStep PROVE TypeInv'
  OBVIOUS
<1>0. TypeOK /\ CacheOrdered
  BY DEF TypeInv
<1>1. /\ NoScan \in [at : Nat \ {0}, from : Nat, seq : SeqNo, crc : Seq(DataElem)]
      /\ NoWr \in [seq : SeqNo, todo : Seq(Keys), crc : Seq(DataElem)]
      /\ NoGc \in [recs : Seq(GoodWriteRecord), idx : Nat \ {0}, pos : Nat \ {0}]
  BY Constants DEF NoScan, NoWr, NoGc, SeqNo
<1>2. CASE Interrupt
  <2>1. events' \in 0 .. MaxEvents
    BY <1>0, <1>2, EventsType DEF Interrupt
  <2> QED
    BY <1>0, <1>1, <1>2, <2>1 DEF Interrupt, TypeInv, TypeOK, CacheOrdered, IoStates
<1>3. CASE Crash
  <2>1. node' \in [Keys -> Nodes]
    BY <1>3 DEF Crash, Fresh, Nodes
  <2>2. events' \in 0 .. MaxEvents
    BY <1>0, <1>3, EventsType DEF Crash
  <2>3. seqState' \in SeqStates /\ Consistent(seqState')
    BY <1>3, NewSeqStateType DEF Crash
  <2>4. /\ queue' = queue /\ list' = << >> /\ io' = "idle"
        /\ scan' = NoScan /\ wr' = NoWr /\ gc' = NoGc
    BY <1>3 DEF Crash
  <2>5. queue' \in Seq(Elem) /\ list' \in Seq(Keys) /\ io' \in IoStates
    BY <1>0, <2>4 DEF TypeOK, IoStates
  <2> QED
    BY <1>1, <2>1, <2>2, <2>3, <2>4, <2>5 DEF TypeInv, TypeOK, CacheOrdered
<1>4. CASE Rot
  <2>1. queue' \in Seq(Elem)
    BY <1>0, <1>4, ElemTypes DEF Rot, ReplaceAt, TypeOK
  <2> QED BY <1>0, <1>4, <2>1, EventsType DEF Rot, TypeInv, TypeOK, CacheOrdered
<1> QED
  BY <1>2, <1>3, <1>4 DEF FaultStep

\* Every step keeps the types and the order of the cache.
LEMMA NextTypeInv == TypeInv /\ [Next]_vars => TypeInv'
<1>1. TypeInv /\ UNCHANGED vars => TypeInv'
  BY DEF TypeInv, TypeOK, CacheOrdered, vars
<1>2. TypeInv /\ IoStep => TypeInv'
  BY ReadStepType, WriteStepType, GarbageStepType DEF IoStep
<1> QED
  BY <1>1, <1>2, UserStepType, FaultStepType DEF Next

\* Every variable keeps its type; above all a node that may be serialized holds
\* a payload, and no sequence number passes u32::MAX (storage_list.rs:1076-1080).
THEOREM TypeCorrect == Spec => []TypeOK
<1>1. TypeInv => TypeOK
  BY DEF TypeInv
<1> QED
  BY <1>1, InitTypeInv, NextTypeInv, PTL DEF Spec

\* The cache of records is bounded and ordered, and numbers the next write.
THEOREM CacheIsOrdered == Spec => []CacheOrdered
<1>1. TypeInv => CacheOrdered
  BY DEF TypeInv
<1> QED
  BY <1>1, InitTypeInv, NextTypeInv, PTL DEF Spec


-----------------------------------------------------------------------------
(***************************************************************************)
(* The cache against the storage, while no stored element rots.  A scan    *)
(* must know that what it has collected since the last Start is what the   *)
(* storage holds between that Start and the iterator, and process_garbage  *)
(* must not leave a record in the cache while it moves elements.           *)
(***************************************************************************)
ScanInv ==
    io \in { "readScan", "gcScan" } =>
        /\ scan.at <= Len(queue) + 1
        /\ scan.from # 0 =>
             /\ scan.from < scan.at
             /\ queue[scan.from] = Start(scan.seq)
             /\ \A i \in scan.from + 1 .. scan.at - 1 : queue[i].kind = "data"
             /\ scan.crc = SubSeq(queue, scan.from + 1, scan.at - 1)

CollectInv == io = "collect" => seqState.recs = << >>

GenuineInv == TypeInv /\ ScanInv /\ CollectInv /\ CacheGenuine

\* A push moves no record.
LEMMA PushKeepsCache ==
    ASSUME TypeInv, CacheGenuine, NEW e \in Elem, Push(e), UNCHANGED seqState
    PROVE  CacheGenuine'
<1>1. PICK x \in Elem : queue' = Append(queue, x)
  BY ElemTypes DEF Push
<1>2. SUFFICES ASSUME NEW r \in Recs PROVE Genuine(queue', r)
  BY DEF CacheGenuine, Recs
<1>3. PICK hi \in { r.hi - 1, r.hi } :
        IsRecord(queue, r.lo, hi) /\ queue[r.lo] = Start(r.seq)
  BY DEF CacheGenuine, Genuine
<1>4. r \in GoodWriteRecord
  BY DEF Recs, TypeInv, TypeOK, SeqStates
<1>5. hi \in Int /\ r.lo \in Nat /\ queue \in Seq(Elem)
  BY <1>4 DEF GoodWriteRecord, TypeInv, TypeOK
<1> QED
  BY <1>1, <1>3, <1>5, AppendKeepsRecord DEF Genuine

\* A record of the storage may be inserted into the cache.
LEMMA InsertKeepsCache ==
    ASSUME TypeInv, CacheGenuine, NEW rec \in GoodWriteRecord, Genuine(queue, rec),
           seqState' = InsertGood(seqState, rec), UNCHANGED queue
    PROVE  CacheGenuine'
<1>1. \A i \in DOMAIN seqState'.recs :
          seqState'.recs[i] = rec \/ \E j \in DOMAIN seqState.recs :
                                        seqState'.recs[i] = seqState.recs[j]
  <2>1. seqState \in SeqStates /\ Len(seqState.recs) <= Kept
    BY DEF TypeInv, TypeOK, CacheOrdered, Consistent
  <2> QED BY <2>1, InsertGoodProperties
<1> QED
  BY <1>1 DEF CacheGenuine, Recs

\* An element that closes a record of the scan does so in the storage.
LEMMA ClosesGenuine ==
    ASSUME TypeInv, ScanInv, io \in { "readScan", "gcScan" }, scan.at \in DOMAIN queue,
           Closes(queue[scan.at])
    PROVE  /\ [seq |-> queue[scan.at].seq, lo |-> scan.from, hi |-> scan.at]
                  \in GoodWriteRecord
           /\ Genuine(queue, [seq |-> queue[scan.at].seq, lo |-> scan.from, hi |-> scan.at])
<1> DEFINE e == queue[scan.at]
<1>1. /\ queue \in Seq(Elem) /\ scan.at \in 1 .. Len(queue) /\ scan.from \in Nat
      /\ Len(queue) \in Nat
  BY DEF TypeInv, TypeOK
<1>2. /\ e.kind = "end" /\ scan.from # 0 /\ e.seq = scan.seq /\ e.crc = scan.crc
  BY DEF Closes
<1>3. /\ scan.from < scan.at
      /\ queue[scan.from] = Start(scan.seq)
      /\ \A i \in scan.from + 1 .. scan.at - 1 : queue[i].kind = "data"
      /\ scan.crc = SubSeq(queue, scan.from + 1, scan.at - 1)
  BY <1>2 DEF ScanInv
<1>4. IsRecord(queue, scan.from, scan.at)
  BY <1>1, <1>2, <1>3 DEF IsRecord, Start
<1>5. e.seq \in SeqNo
  BY <1>1, <1>2, ElemKinds
<1> QED
  BY <1>1, <1>2, <1>3, <1>4, <1>5 DEF Genuine, GoodWriteRecord

\* The next element keeps what the scan knows.
LEMMA PastKeepsScan ==
    ASSUME TypeInv, ScanInv, ScanElement
    PROVE  ScanInv'
<1> DEFINE e == queue[scan.at]
<1>1. /\ queue \in Seq(Elem) /\ scan.at \in 1 .. Len(queue) /\ scan.from \in Nat
      /\ Len(queue) \in Nat /\ scan.crc \in Seq(DataElem) /\ e \in Elem
  BY DEF ScanElement, TypeInv, TypeOK
<1>2. io \in { "readScan", "gcScan" } /\ queue' = queue /\ scan' = Past(e)
  BY DEF ScanElement
<1>3. CASE e.kind = "start"
  <2>1. scan' = [at |-> scan.at + 1, from |-> scan.at, seq |-> e.seq, crc |-> << >>]
    BY <1>2, <1>3 DEF Past
  <2>2. e = Start(e.seq)
    BY <1>1, <1>3 DEF Elem, StartElem, DataElem, EndElem, BadElem, Start
  <2>3. SubSeq(queue, scan.at + 1, scan.at) = << >>
    BY <1>1
  <2> QED BY <1>1, <1>2, <2>1, <2>2, <2>3 DEF ScanInv
<1>4. CASE e.kind = "data" /\ scan.from # 0
  <2>1. scan' = [scan EXCEPT !.at = @ + 1, !.crc = Append(@, e)]
    BY <1>2, <1>4 DEF Past
  <2>2. /\ scan'.at = scan.at + 1 /\ scan'.from = scan.from /\ scan'.seq = scan.seq
        /\ scan'.crc = Append(scan.crc, e)
    BY <2>1 DEF TypeInv, TypeOK
  <2>3. /\ scan.from < scan.at
        /\ queue[scan.from] = Start(scan.seq)
        /\ \A i \in scan.from + 1 .. scan.at - 1 : queue[i].kind = "data"
        /\ scan.crc = SubSeq(queue, scan.from + 1, scan.at - 1)
    BY <1>2, <1>4 DEF ScanInv
  <2>4. Append(scan.crc, e) = SubSeq(queue, scan.from + 1, scan.at)
    <3>1. SubSeq(queue, scan.from + 1, scan.at)
            = SubSeq(queue, scan.from + 1, scan.at - 1) \o << e >>
      <4> DEFINE m == scan.from + 1
                 n == scan.at
      <4>1. m \in 1 .. Len(queue) /\ n \in m .. Len(queue)
        BY <1>1, <2>3
      <4> HIDE DEF m, n
      <4>2. SubSeq(queue, m, n) = SubSeq(queue, m, n - 1) \o << queue[n] >>
        BY <1>1, <4>1, SubSeqRecursiveSecond
      <4> QED BY <4>2 DEF m, n
    <3>2. Append(scan.crc, e) = scan.crc \o << e >>
      <4>1. scan.crc \in Seq(DataElem) /\ e \in DataElem
        BY <1>1, <1>4, ElemKinds
      <4> QED BY <4>1, AppendIsConcat, Zenon
    <3> QED BY <2>3, <3>1, <3>2
  <2>5. \A i \in scan.from + 1 .. scan.at : queue[i].kind = "data"
    BY <1>1, <1>4, <2>3
  <2>6. scan'.at - 1 = scan.at /\ scan'.at <= Len(queue) + 1 /\ scan.from < scan'.at
    <3>1. /\ scan'.at = scan.at + 1 /\ scan.from < scan.at
          /\ scan.from \in Nat /\ scan.at \in 1 .. Len(queue) /\ Len(queue) \in Nat
      BY <1>1, <2>2, <2>3
    <3> QED BY <3>1
  <2>7. queue' = queue /\ scan'.at - 1 = scan.at /\ scan'.from = scan.from
    BY <1>2, <2>2, <2>6
  <2>8. /\ scan'.at <= Len(queue') + 1
        /\ scan'.from < scan'.at
        /\ queue'[scan'.from] = Start(scan'.seq)
    BY <2>2, <2>3, <2>6, <2>7
  <2>9. /\ \A i \in scan'.from + 1 .. scan'.at - 1 : queue'[i].kind = "data"
        /\ scan'.crc = SubSeq(queue', scan'.from + 1, scan'.at - 1)
    BY <2>2, <2>4, <2>5, <2>7
  <2> QED BY <2>8, <2>9 DEF ScanInv
<1>5. CASE e.kind # "start" /\ ~ (e.kind = "data" /\ scan.from # 0)
  <2>1. scan'.at = scan.at + 1 /\ scan'.from = 0
    BY <1>2, <1>5 DEF Past, NoScan
  <2> QED BY <1>1, <1>2, <2>1 DEF ScanInv
<1> QED
  BY <1>3, <1>4, <1>5


\* A step that changes neither cache nor storage, and does not enter a scan or a
\* collection.
LEMMA NothingMoves ==
    ASSUME GenuineInv, UNCHANGED << queue, seqState >>,
           UNCHANGED << io, scan >> \/ io' \in { "idle", "push", "verify" }
    PROVE  ScanInv' /\ CollectInv' /\ CacheGenuine'
  BY DEF GenuineInv, ScanInv, CollectInv, CacheGenuine, Recs

\* An empty cache is genuine.
LEMMA EmptyCacheGenuine ==
    ASSUME seqState'.recs = << >>
    PROVE  CacheGenuine'
  BY DEF CacheGenuine, Recs

\* Every step but the decay of an element keeps the cache genuine.
LEMMA NextGenuine ==
    ASSUME "rot" \notin Events, GenuineInv, [Next]_vars
    PROVE  ScanInv' /\ CollectInv' /\ CacheGenuine'
<1>0. TypeInv /\ ScanInv /\ CollectInv /\ CacheGenuine /\ TypeOK
  BY DEF GenuineInv, TypeInv
<1>1. CASE UNCHANGED vars
  BY <1>1, NothingMoves DEF vars
<1>2. CASE UserStep
  <2>1. CASE ResetCache
    <3>1. seqState'.recs = << >> /\ UNCHANGED << queue, io, scan >>
      BY <2>1 DEF ResetCache, NewSeqState
    <3> QED BY <1>0, <3>1, EmptyCacheGenuine DEF ScanInv, CollectInv
  <2>2. CASE UNCHANGED << queue, seqState, io, scan >>
    BY <2>2, NothingMoves
  <2> QED
    BY <1>2, <2>1, <2>2 DEF UserStep, Attach, TakeDefault, Detach, Write
<1>3. CASE \E ok \in BOOLEAN : ProcessReads(ok)
  BY <1>3, NothingMoves DEF ProcessReads
<1>4. CASE BeginScan
  <2>1. ScanInv'
    <3>1. Len(queue) \in Nat
      BY <1>0 DEF TypeOK
    <3> QED BY <1>4, <3>1 DEF BeginScan, ScanInv, NoScan
  <2> QED BY <1>0, <1>4, <2>1 DEF BeginScan, CollectInv, CacheGenuine, Recs
<1>5. CASE ScanElement
  <2>1. ScanInv'
    BY <1>0, <1>5, PastKeepsScan
  <2>2. CollectInv'
    BY <1>5 DEF ScanElement, CollectInv
  <2>3. CacheGenuine'
    <3>1. CASE Closes(queue[scan.at])
      <4> DEFINE rec == [seq |-> queue[scan.at].seq, lo |-> scan.from, hi |-> scan.at]
      <4>1. rec \in GoodWriteRecord /\ Genuine(queue, rec)
        BY <1>0, <1>5, <3>1, ClosesGenuine DEF ScanElement
      <4>2. seqState' = InsertGood(seqState, rec) /\ UNCHANGED queue
        BY <1>5, <3>1 DEF ScanElement
      <4> HIDE DEF rec
      <4> QED BY <1>0, <4>1, <4>2, InsertKeepsCache
    <3>2. CASE ~ Closes(queue[scan.at])
      BY <1>0, <1>5, <3>2 DEF ScanElement, CacheGenuine, Recs
    <3> QED BY <3>1, <3>2
  <2> QED BY <2>1, <2>2, <2>3
<1>6. CASE \E ok \in BOOLEAN : EndReadScan(ok)
  <2>1. seqState'.recs = seqState.recs /\ UNCHANGED queue /\ io' = "idle"
    BY <1>0, <1>6, PopulatedType DEF EndReadScan, TypeInv
  <2> QED BY <1>0, <2>1 DEF ScanInv, CollectInv, CacheGenuine, Recs
<1>7. CASE BeginWrites
  <2>1. seqState.next \in SeqNo
    BY <1>0, <1>7, NextNumber DEF BeginWrites
  <2>2. CacheGenuine'
    BY <1>0, <1>7, <2>1, ElemTypes, PushKeepsCache DEF BeginWrites
  <2> QED BY <1>7, <2>2 DEF BeginWrites, ScanInv, CollectInv
<1>8. CASE PushData
  <2>1. CacheGenuine'
    <3> DEFINE k == Head(wr.todo)
    <3>1. CASE Writable(k)
      <4>1. k \in Keys
        BY <1>0, <1>8 DEF PushData, TypeOK
      <4>2. Data(k, node[k].val) \in Elem
        BY <1>0, <3>1, <4>1, WritableHolds, ElemTypes
      <4> QED BY <1>0, <1>8, <3>1, <4>2, PushKeepsCache DEF PushData
    <3>2. CASE ~ Writable(k)
      BY <1>0, <1>8, <3>2 DEF PushData, CacheGenuine, Recs
    <3> QED BY <3>1, <3>2
  <2> QED BY <1>8, <2>1 DEF PushData, ScanInv, CollectInv
<1>9. CASE PushEnd
  <2>1. End(wr.seq, wr.crc) \in Elem
    BY <1>0, ElemTypes DEF TypeOK
  <2>2. CacheGenuine'
    BY <1>0, <1>9, <2>1, PushKeepsCache DEF PushEnd
  <2> QED BY <1>9, <2>2 DEF PushEnd, ScanInv, CollectInv
<1>10. CASE StorageFull
  BY <1>10, NothingMoves DEF StorageFull
<1>11. CASE VerifyGood
  <2>1. PICK lo \in DOMAIN queue, hi \in DOMAIN queue :
          /\ Verified(lo, hi)
          /\ seqState' = InsertGood(seqState, [seq |-> wr.seq, lo |-> lo, hi |-> hi + 1])
    BY <1>11 DEF VerifyGood
  <2> DEFINE rec == [seq |-> wr.seq, lo |-> lo, hi |-> hi + 1]
  <2>2. lo \in Nat \ {0} /\ hi \in Nat \ {0} /\ wr.seq \in SeqNo
    BY <1>0 DEF TypeOK
  <2>3. IsRecord(queue, lo, hi) /\ queue[lo] = Start(wr.seq)
    BY <2>1 DEF Verified, VerifiedAt, FirstStart
  <2>4. rec \in GoodWriteRecord
    BY <2>2 DEF GoodWriteRecord
  <2>5. Genuine(queue, rec)
    <3>1. rec.hi - 1 = hi
      BY <2>2
    <3> QED BY <2>3, <3>1 DEF Genuine
  <2>6. CacheGenuine'
    <3>1. seqState' = InsertGood(seqState, rec) /\ UNCHANGED queue
      BY <1>11, <2>1 DEF VerifyGood
    <3> HIDE DEF rec
    <3> QED BY <1>0, <2>4, <2>5, <3>1, InsertKeepsCache
  <2> QED BY <1>11, <2>6 DEF VerifyGood, ScanInv, CollectInv
<1>12. CASE VerifyBad
  BY <1>12, NothingMoves DEF VerifyBad
<1>13. CASE BeginGarbage
  <2>1. seqState'.recs = << >> /\ io' = "collect"
    BY <1>13 DEF BeginGarbage, NewSeqState
  <2> QED BY <2>1, EmptyCacheGenuine DEF ScanInv, CollectInv
<1>14. CASE CollectElement
  <2>1. seqState'.recs = << >> /\ io' = "collect"
    BY <1>0, <1>14 DEF CollectElement, CollectInv
  <2> QED BY <2>1, EmptyCacheGenuine DEF ScanInv, CollectInv
<1>15. CASE EndCollect
  <2>1. seqState'.recs = << >> /\ io' = "gcScan" /\ scan' = NoScan /\ UNCHANGED queue
    BY <1>0, <1>15 DEF EndCollect, CollectInv
  <2>2. Len(queue) \in Nat
    BY <1>0 DEF TypeOK
  <2> QED BY <2>1, <2>2, EmptyCacheGenuine DEF ScanInv, CollectInv, NoScan
<1>16. CASE EndGcScan
  <2>1. seqState'.recs = seqState.recs /\ UNCHANGED queue /\ io' = "idle"
    BY <1>0, <1>16, PopulatedType DEF EndGcScan, TypeInv
  <2> QED BY <1>0, <2>1 DEF ScanInv, CollectInv, CacheGenuine, Recs
<1>17. CASE Interrupt
  BY <1>17, NothingMoves DEF Interrupt
<1>18. CASE Crash
  <2>1. seqState'.recs = << >> /\ io' = "idle"
    BY <1>18 DEF Crash, NewSeqState
  <2> QED BY <2>1, EmptyCacheGenuine DEF ScanInv, CollectInv
<1>19. CASE Rot
  BY <1>19 DEF Rot, Event
<1> QED
  BY <1>1, <1>2, <1>3, <1>4, <1>5, <1>6, <1>7, <1>8, <1>9, <1>10, <1>11, <1>12, <1>13,
     <1>14, <1>15, <1>16, <1>17, <1>18, <1>19
  DEF Next, IoStep, FaultStep

\* The cache is genuine at the start.
LEMMA InitGenuine == Init => ScanInv /\ CollectInv /\ CacheGenuine
<1> SUFFICES ASSUME Init PROVE ScanInv /\ CollectInv /\ CacheGenuine
  OBVIOUS
<1>1. io = "idle" /\ seqState.recs = << >>
  BY DEF Init, NewSeqState
<1> QED
  BY <1>1 DEF ScanInv, CollectInv, CacheGenuine, Recs

\* The inductive invariant holds in every state.
LEMMA AlwaysGenuine ==
    ASSUME "rot" \notin Events
    PROVE  Spec => []GenuineInv
<1>1. Init => GenuineInv
  BY InitTypeInv, InitGenuine DEF GenuineInv
<1>2. GenuineInv /\ [Next]_vars => GenuineInv'
  BY NextTypeInv, NextGenuine DEF GenuineInv
<1> QED
  BY <1>1, <1>2, PTL DEF Spec

\* Every record the cache holds is in the storage, complete and where the cache
\* says it is, through every collection, interrupted call, unreadable push and
\* power failure (storage_list.rs:435-525, 620-713).
THEOREM CacheIsGenuine ==
    ASSUME "rot" \notin Events
    PROVE  Spec => []CacheGenuine
<1>1. GenuineInv => CacheGenuine
  BY DEF GenuineInv
<1> QED
  BY <1>1, AlwaysGenuine, PTL

\* The newest record of a genuine cache reads back without InconsistentFlash.
LEMMA GenuineReads == GenuineInv => ReadsConsistent
<1> SUFFICES ASSUME GenuineInv, AnySeen(seqState)
             PROVE  /\ StartsAt(HighestSeen(seqState))
                    /\ EndsAt(HighestSeen(seqState),
                              DataStop(queue, HighestSeen(seqState).lo))
  BY DEF ReadsConsistent
<1> DEFINE h == HighestSeen(seqState)
           stop == DataStop(queue, h.lo)
<1>1. queue \in Seq(Elem) /\ Len(queue) \in Nat /\ seqState.recs \in Seq(GoodWriteRecord)
  BY DEF GenuineInv, TypeInv, TypeOK, SeqStates
<1>2. h \in Recs /\ h \in GoodWriteRecord
  <2>1. Len(seqState.recs) \in DOMAIN seqState.recs
    BY <1>1 DEF AnySeen
  <2> QED BY <1>1, <2>1 DEF HighestSeen, Recs
<1>3. PICK hi \in { h.hi - 1, h.hi } :
        IsRecord(queue, h.lo, hi) /\ queue[h.lo] = Start(h.seq)
  BY <1>2 DEF GenuineInv, CacheGenuine, Genuine
<1> HIDE DEF h
<1>4. /\ h.lo \in 1 .. Len(queue) /\ hi \in 1 .. Len(queue) /\ h.lo < hi
      /\ queue[hi].kind = "end" /\ queue[hi].seq = h.seq
      /\ \A i \in h.lo + 1 .. hi - 1 : queue[i].kind = "data"
  BY <1>1, <1>3 DEF IsRecord, Start
<1>5. /\ stop \in h.lo + 1 .. Len(queue) + 1
      /\ \A i \in h.lo + 1 .. stop - 1 : queue[i].kind = "data"
      /\ stop \in DOMAIN queue => queue[stop].kind # "data"
  BY <1>1, <1>4, DataStopProperties
<1> HIDE DEF stop
<1>6. stop = hi
  <2>1. ~ hi < stop
    BY <1>4, <1>5
  <2>2. ~ stop < hi
    BY <1>1, <1>4, <1>5
  <2> QED BY <1>1, <1>4, <1>5, <2>1, <2>2
<1>7. StartsAt(h) /\ EndsAt(h, stop)
  BY <1>1, <1>3, <1>4, <1>6 DEF StartsAt, EndsAt
<1> QED
  BY <1>7 DEF h, stop

\* extract_all never meets InconsistentFlash (storage_list.rs:739-797).
THEOREM ReadsAreConsistent ==
    ASSUME "rot" \notin Events
    PROVE  Spec => []ReadsConsistent
  BY AlwaysGenuine, GenuineReads, PTL

=============================================================================
