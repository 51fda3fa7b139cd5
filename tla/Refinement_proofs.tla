-------------------------- MODULE Refinement_proofs --------------------------
(***************************************************************************)
(* That what a restart finds in the storage changes only as a whole, and   *)
(* that the list implements ConfigStore, for any number of keys, payloads, *)
(* records, elements and faults.                                           *)
(***************************************************************************)
EXTENDS Survival_proofs

\* No key has two payloads in the data of a record.
OneEach(crc) == \A i, j \in DOMAIN crc : crc[i].key = crc[j].key => i = j

CrcsOnce(q) == \A p \in Positions(q, "end") : OneEach(q[p].crc)

\* What the data of a record says of each key.
ImageOf(crc) ==
    [k \in Keys |->
        IF \E i \in DOMAIN crc : crc[i].key = k
        THEN crc[CHOOSE i \in DOMAIN crc : crc[i].key = k].val ELSE NoVal]

\* The payload of a key that the data names once, and of one that it does not name.
LEMMA ImageOfKey ==
    ASSUME NEW crc, OneEach(crc), NEW k \in Keys
    PROVE  /\ \A i \in DOMAIN crc : crc[i].key = k => ImageOf(crc)[k] = crc[i].val
           /\ (\A i \in DOMAIN crc : crc[i].key # k) => ImageOf(crc)[k] = NoVal
<1>1. ASSUME NEW i \in DOMAIN crc, crc[i].key = k PROVE ImageOf(crc)[k] = crc[i].val
  <2>1. (CHOOSE j \in DOMAIN crc : crc[j].key = k) = i
    BY <1>1 DEF OneEach
  <2> QED BY <1>1, <2>1 DEF ImageOf
<1> QED
  BY <1>1 DEF ImageOf

\* The End of a record repeats its data.
LEMMA RecordData ==
    ASSUME NEW q \in Seq(Elem), NEW lo, NEW hi, IsRecord(q, lo, hi)
    PROVE  /\ lo \in Nat /\ hi \in Nat /\ q[hi].crc \in Seq(DataElem)
           /\ \A j \in lo + 1 .. hi - 1 :
                 j - lo \in DOMAIN q[hi].crc /\ q[hi].crc[j - lo] = q[j] /\ q[j].kind = "data"
           /\ \A i \in DOMAIN q[hi].crc : lo + i \in lo + 1 .. hi - 1 /\ q[hi].crc[i] = q[lo + i]
<1> DEFINE c == q[hi].crc
<1>1. /\ lo \in 1 .. Len(q) /\ hi \in 1 .. Len(q) /\ lo < hi /\ Len(q) \in Nat
      /\ \A i \in lo + 1 .. hi - 1 : q[i].kind = "data" /\ q[i] \in Elem
      /\ c = SubSeq(q, lo + 1, hi - 1)
  BY DEF IsRecord
<1>2. \A i \in lo + 1 .. hi - 1 : q[i] \in DataElem
  BY <1>1, ElemKinds
<1>3. /\ SubSeq(q, lo + 1, hi - 1) \in Seq(DataElem)
      /\ Len(SubSeq(q, lo + 1, hi - 1)) = hi - lo - 1
      /\ \A i \in 1 .. hi - lo - 1 : SubSeq(q, lo + 1, hi - 1)[i] = q[lo + i]
  BY <1>1, <1>2, Between
<1>4. c \in Seq(DataElem) /\ DOMAIN c = 1 .. hi - lo - 1
  BY <1>1, <1>3
<1>5. \A i \in 1 .. hi - lo - 1 : c[i] = q[lo + i]
  BY <1>1, <1>3
<1> HIDE DEF c
<1>6. ASSUME NEW j \in lo + 1 .. hi - 1
      PROVE  j - lo \in DOMAIN c /\ c[j - lo] = q[j] /\ q[j].kind = "data"
  <2>1. j - lo \in 1 .. hi - lo - 1 /\ lo + (j - lo) = j
    BY <1>1
  <2> QED BY <1>1, <1>4, <1>5, <2>1
<1>7. ASSUME NEW i \in DOMAIN c PROVE lo + i \in lo + 1 .. hi - 1 /\ c[i] = q[lo + i]
  BY <1>1, <1>4, <1>5
<1>8. lo \in Nat /\ hi \in Nat /\ c \in Seq(DataElem)
  BY <1>1, <1>4
<1> QED
  BY <1>6, <1>7, <1>8 DEF c

\* A read of a record, complete or cut short, finds payloads of its image.
LEMMA ReadOfRecord ==
    ASSUME NEW q \in Seq(Elem), NEW lo, NEW hi, IsRecord(q, lo, hi), OneEach(q[hi].crc),
           NEW stop \in Int, stop <= hi, NEW k \in Keys, Holds(q, lo, stop, k)
    PROVE  /\ PayloadOf(q, lo, stop, k) = ImageOf(q[hi].crc)[k]
           /\ PayloadOf(q, lo, stop, k) \in Values
<1> DEFINE j == CHOOSE i \in lo + 1 .. stop - 1 : q[i].kind = "data" /\ q[i].key = k
<1>1. j \in lo + 1 .. stop - 1 /\ q[j].kind = "data" /\ q[j].key = k
  BY DEF Holds
<1>2. PayloadOf(q, lo, stop, k) = q[j].val
  BY DEF PayloadOf
<1> HIDE DEF j
<1>3. j \in lo + 1 .. hi - 1
  BY <1>1, RecordData
<1>4. j - lo \in DOMAIN q[hi].crc /\ q[hi].crc[j - lo] = q[j]
  BY <1>3, RecordData
<1>5. ImageOf(q[hi].crc)[k] = q[j].val
  BY <1>1, <1>4, ImageOfKey
<1>6. q[j].val \in Values
  <2>1. q[j] \in Elem
    BY <1>3, RecordData DEF IsRecord
  <2> QED BY <1>1, <2>1, ElemKinds
<1> QED
  BY <1>2, <1>5, <1>6

\* What a record says of each key is what its End does.
LEMMA ImageIs ==
    ASSUME NEW q \in Seq(Elem), CrcsOnce(q), NEW r \in GoodRecords(q)
    PROVE  Image(q, r) = ImageOf(q[r.hi].crc)
<1> DEFINE lo == r.lo
           hi == r.hi
           c == q[hi].crc
<1>1. IsRecord(q, lo, hi)
  BY GoodRecordIs DEF RecordAt
<1> HIDE DEF lo, hi
<1>2. OneEach(c)
  BY <1>1 DEF CrcsOnce, IsRecord, Positions
<1>3. ASSUME NEW k \in Keys
      PROVE  (IF Holds(q, lo, hi, k) THEN PayloadOf(q, lo, hi, k) ELSE NoVal) = ImageOf(c)[k]
  <2>1. CASE Holds(q, lo, hi, k)
    <3>1. hi \in Int /\ hi <= hi
      BY <1>1, RecordData
    <3> QED BY <1>1, <1>2, <2>1, <3>1, ReadOfRecord
  <2>2. CASE ~ Holds(q, lo, hi, k)
    <3>1. \A i \in DOMAIN c : c[i].key # k
      BY SMTT(30), <1>1, <2>2, RecordData DEF Holds
    <3> QED BY <1>2, <2>2, <3>1, ImageOfKey
  <2> QED BY <2>1, <2>2
<1>4. ImageOf(c) = [k \in Keys |-> ImageOf(c)[k]]
  BY DEF ImageOf
<1>5. Image(q, r) = [k \in Keys |-> IF Holds(q, lo, hi, k) THEN PayloadOf(q, lo, hi, k) ELSE NoVal]
  BY DEF Image, lo, hi
<1> HIDE DEF c
<1>6. Image(q, r) = ImageOf(c)
  BY <1>3, <1>4, <1>5
<1> QED
  BY <1>6 DEF c, hi

-----------------------------------------------------------------------------
\* Record m of q leads all good records of q: a fresh scan reports it as newest.
Foremost(q, m) ==
    m \in GoodRecords(q) /\ \A r \in GoodRecords(q) : Ahead(m.seq, m.lo, r.seq, r.lo)

\* A queue with good records has a foremost one.
LEMMA ForemostExists ==
    ASSUME NEW q \in Seq(Elem), GoodRecords(q) # {}
    PROVE  \E m : Foremost(q, m)
<1> DEFINE good == GoodRecords(q)
           n == NewestSeq(good)
           T == { r.lo : r \in { r \in good : r.seq = n } }
<1>1. /\ \E r \in good : r.seq = n
      /\ \A r \in good : r.seq <= n
  BY NewestSeqIs
<1>2. \A r \in good : r.lo \in Nat /\ r.seq \in Int
  <2>1. \A r \in good : r \in GoodWriteRecord
    BY GoodRecordIs
  <2> QED BY <2>1, SeqIsInt DEF GoodWriteRecord
<1> HIDE DEF good, n
<1>3. T \in SUBSET Nat /\ T # {}
  BY <1>1, <1>2
<1> HIDE DEF T
<1>4. PICK x \in T : \A y \in T : x <= y
  BY <1>3, LeastElement
<1>5. PICK m \in good : m.seq = n /\ m.lo = x
  BY <1>4 DEF T
<1>6. ASSUME NEW r \in good PROVE Ahead(m.seq, m.lo, r.seq, r.lo)
  <2>1. r.seq = n => x <= r.lo
    BY <1>4, <1>6 DEF T
  <2>2. r.seq <= n /\ r.seq \in Int /\ n \in Int /\ r.lo \in Int /\ m.lo \in Int
    BY <1>1, <1>2, <1>5
  <2>3. r.lo < m.lo => r.seq < n
    BY <1>5, <2>1, <2>2
  <2> QED BY <1>5, <2>2, <2>3 DEF Ahead
<1> QED
  BY <1>5, <1>6 DEF Foremost, good

\* With more than one slot it is the one that a restart reads.
LEMMA BootIs ==
    ASSUME Kept > 1, NEW q \in Seq(Elem), NEW m, Foremost(q, m)
    PROVE  Boot(q) = Image(q, m)
<1> DEFINE good == GoodRecords(q)
<1>1. Kept \in Nat /\ Kept # 1
  BY Constants
<1>2. /\ \A r \in good : r.lo \in Int /\ r.seq \in Int
      /\ \A r, s \in good : r.lo = s.lo => r = s
  <2>1. \A r \in good : r \in GoodWriteRecord
    BY GoodRecordIs
  <2>2. ASSUME NEW r \in good, NEW s \in good, r.lo = s.lo PROVE r = s
    <3>1. /\ r \in GoodWriteRecord /\ q[r.lo].seq = r.seq /\ IsRecord(q, r.lo, r.hi)
          /\ s \in GoodWriteRecord /\ q[s.lo].seq = s.seq /\ IsRecord(q, s.lo, s.hi)
      BY GoodRecordIs DEF RecordAt
    <3>2. r.hi = s.hi /\ r.seq = s.seq
      BY <2>2, <3>1, OneEnd
    <3> QED BY <2>2, <3>1, <3>2 DEF GoodWriteRecord
  <2> QED BY <2>1, <2>2, SeqIsInt DEF GoodWriteRecord
<1>3. m \in good /\ \A s \in good : Preferred(m, s)
  <2>1. m \in good /\ \A s \in good : Ahead(m.seq, m.lo, s.seq, s.lo)
    BY DEF Foremost
  <2>2. ASSUME NEW s \in good PROVE Preferred(m, s)
    <3>1. /\ s.seq <= m.seq /\ (s.lo < m.lo => s.seq < m.seq)
      BY <2>1 DEF Ahead
    <3>2. /\ s.lo \in Int /\ s.seq \in Int /\ m.lo \in Int /\ m.seq \in Int
      BY <1>2, <2>1
    <3>3. m.seq > s.seq \/ (m.seq = s.seq /\ m.lo <= s.lo)
      BY <3>1, <3>2
    <3> QED BY <1>1, <3>3 DEF Preferred, Newer
  <2> QED BY <2>1, <2>2
<1>4. ASSUME NEW r \in good, Preferred(r, m) PROVE r = m
  <2>1. /\ r.seq > m.seq \/ (r.seq = m.seq /\ r.lo <= m.lo)
        /\ m.seq > r.seq \/ (r.seq = m.seq /\ m.lo <= r.lo)
    BY <1>1, <1>3, <1>4 DEF Preferred, Newer
  <2>2. r.lo = m.lo
    BY <1>2, <1>3, <2>1
  <2> QED BY <1>2, <1>3, <2>2
<1>5. BootRecords(q) = {m}
  <2>1. m \in BootRecords(q)
    BY <1>3 DEF BootRecords
  <2>2. \A r \in BootRecords(q) : r = m
    BY <1>3, <1>4 DEF BootRecords
  <2> QED BY <2>1, <2>2
<1> QED
  BY <1>5 DEF Boot

\* Without good records a restart finds nothing.
LEMMA BootOfNone ==
    ASSUME NEW q, GoodRecords(q) = {}
    PROVE  Boot(q) = [k \in Keys |-> NoVal]
  BY DEF Boot, BootRecords

-----------------------------------------------------------------------------
(***************************************************************************)
(* What a restart finds, step by step.                                     *)
(***************************************************************************)

\* It depends on nothing but the End of the foremost record.
LEMMA BootCrc ==
    ASSUME Kept > 1, NEW q \in Seq(Elem), CrcsOnce(q), NEW m, Foremost(q, m)
    PROVE  Boot(q) = ImageOf(q[m.hi].crc)
  BY BootIs, ImageIs DEF Foremost

\* An element that does not complete a record changes nothing.
LEMMA AppendBoot ==
    ASSUME Kept > 1, NEW q \in Seq(Elem), NEW e \in Elem, e.kind # "end", CrcsOnce(q)
    PROVE  Boot(Append(q, e)) = Boot(q) /\ CrcsOnce(Append(q, e))
<1> DEFINE n == Append(q, e)
<1>1. /\ n \in Seq(Elem) /\ Len(q) \in Nat /\ \A i \in 1 .. Len(q) : n[i] = q[i]
      /\ \A p \in Positions(n, "end") : p \in Positions(q, "end") /\ n[p] = q[p]
  BY DEF Positions
<1>2. GoodRecords(n) = GoodRecords(q)
  BY AppendGood
<1> HIDE DEF n
<1>3. CrcsOnce(n)
  BY <1>1 DEF CrcsOnce
<1>4. CASE GoodRecords(q) = {}
  BY <1>2, <1>3, <1>4, BootOfNone DEF n
<1>5. CASE GoodRecords(q) # {}
  <2>1. PICK m : Foremost(q, m)
    BY <1>5, ForemostExists
  <2>2. Foremost(n, m)
    BY <1>2, <2>1 DEF Foremost
  <2>3. n[m.hi] = q[m.hi]
    <3>1. m.hi \in 1 .. Len(q)
      BY <2>1, GoodRecordIs DEF Foremost
    <3> QED BY <1>1, <3>1
  <2>4. Boot(n) = ImageOf(n[m.hi].crc) /\ Boot(q) = ImageOf(q[m.hi].crc)
    BY <1>1, <1>3, <2>1, <2>2, BootCrc
  <2>5. Boot(n) = Boot(q)
    BY <2>3, <2>4
  <2> QED BY <1>3, <2>5 DEF n
<1> QED
  BY <1>4, <1>5

\* An End changes nothing or replaces everything, by the data of its record.
LEMMA EndBoot ==
    ASSUME Kept > 1, NEW q \in Seq(Elem), NEW s \in SeqNo, NEW c \in Seq(DataElem),
           CrcsOnce(q), OneEach(c)
    PROVE  /\ Boot(Append(q, End(s, c))) \in { Boot(q), ImageOf(c) }
           /\ CrcsOnce(Append(q, End(s, c)))
<1> DEFINE e == End(s, c)
           n == Append(q, e)
<1>1. e \in Elem /\ e.kind = "end" /\ e.crc = c
  BY ElemTypes DEF End
<1> HIDE DEF e
<1>2. /\ n \in Seq(Elem) /\ Len(q) \in Nat /\ \A i \in 1 .. Len(q) : n[i] = q[i]
      /\ n[Len(q) + 1] = e
      /\ \A p \in Positions(n, "end") :
            (p \in Positions(q, "end") /\ n[p] = q[p]) \/ n[p] = e
  BY <1>1 DEF Positions
<1>3. /\ GoodRecords(q) \subseteq GoodRecords(n)
      /\ \A r \in GoodRecords(n) : r \in GoodRecords(q) \/ r.hi = Len(q) + 1
  BY <1>1, AppendGood
<1> HIDE DEF n
<1>4. CrcsOnce(n)
  BY <1>1, <1>2 DEF CrcsOnce
<1>5. CASE GoodRecords(n) = {}
  <2>1. GoodRecords(q) = {}
    BY <1>3, <1>5
  <2> QED BY <1>4, <1>5, <2>1, BootOfNone DEF n, e
<1>6. CASE GoodRecords(n) # {}
  <2>1. PICK m : Foremost(n, m)
    BY <1>2, <1>6, ForemostExists
  <2>2. Boot(n) = ImageOf(n[m.hi].crc)
    BY <1>2, <1>4, <2>1, BootCrc
  <2>3. CASE m \in GoodRecords(q)
    <3>1. Foremost(q, m)
      BY <1>3, <2>1, <2>3 DEF Foremost
    <3>2. n[m.hi] = q[m.hi]
      <4>1. m.hi \in 1 .. Len(q)
        BY <2>3, GoodRecordIs
      <4> QED BY <1>2, <4>1
    <3> QED BY <1>4, <2>2, <3>1, <3>2, BootCrc DEF n, e
  <2>4. CASE m \notin GoodRecords(q)
    <3>1. m.hi = Len(q) + 1
      BY <1>3, <2>1, <2>4 DEF Foremost
    <3> QED BY <1>1, <1>2, <1>4, <2>2, <3>1 DEF n, e
  <2> QED BY <2>3, <2>4
<1> QED
  BY <1>5, <1>6

\* While a collection works the foremost record is the one it has in mind.
LEMMA KeptIsForemost ==
    ASSUME NEW q \in Seq(Elem), NEW g, NEW e, NEW a, NEW b, NewestKept(q, g, e, a, b)
    PROVE  Foremost(q, [seq |-> HighestSeen(g).seq, lo |-> a, hi |-> b])
<1> DEFINE m == HighestSeen(g)
<1>1. IsRecord(q, a, b) /\ q[a] = Start(m.seq)
  BY DEF NewestKept, HomeAt, RecordAt
<1>2. \A r \in GoodRecords(q) : Ahead(m.seq, a, r.seq, r.lo)
  BY DEF NewestKept
<1> HIDE DEF m
<1>3. [seq |-> m.seq, lo |-> a, hi |-> b] \in GoodRecords(q)
  <2>1. q[a].seq = m.seq
    BY <1>1 DEF Start
  <2> QED BY <1>1, <2>1, RecordIsGood
<1> QED
  BY <1>2, <1>3 DEF Foremost, m

\* A step of a collection leaves it in the storage.
LEMMA CollectBoot ==
    ASSUME Kept > 1, TypeOK, GcInv, CrcsOnce(queue), CollectElement
    PROVE  Boot(queue') = Boot(queue) /\ CrcsOnce(queue')
<1>1. /\ gc \in GcStates /\ gc.pos \in DOMAIN queue /\ queue \in Seq(Elem) /\ gc.recs # << >>
      /\ \E e \in Int : \E a, b \in DOMAIN queue : NewestKept(queue, gc, e, a, b)
  BY CollectSteps DEF GcInv, CollectElement, TypeOK
<1>2. CASE UNCHANGED queue
  BY <1>2
<1>3. CASE /\ queue[gc.pos] = Bad \/ ~ InKeptRange(gc.recs, gc.idx)
           /\ queue' = RemoveAt(queue, gc.pos)
  <2> DEFINE n == RemoveAt(queue, gc.pos)
             s == HighestSeen(gc).seq
  <2>1. PICK e \in Int, a \in DOMAIN queue, b \in DOMAIN queue : NewestKept(queue, gc, e, a, b)
    BY <1>1
  <2>2. PICK c \in DOMAIN n, d \in DOMAIN n :
          /\ NewestKept(n, PastMoved(gc), e, c, d)
          /\ \/ b < gc.pos /\ c = a /\ d = b
             \/ gc.pos < a /\ c = a - 1 /\ d = b - 1
    BY <1>1, <1>3, <2>1, MovesNewest
  <2>3. HighestSeen(PastMoved(gc)).seq = s
    BY <1>1, GcStateTypes DEF HighestSeen
  <2>4. IsRecord(queue, a, b)
    BY <2>1 DEF NewestKept, HomeAt, RecordAt
  <2>5. /\ n \in Seq(Elem)
        /\ Len(queue) \in Nat /\ gc.pos \in 1 .. Len(queue) /\ Len(n) = Len(queue) - 1
        /\ \A j \in 1 .. Len(queue) - 1 : n[j] = IF j < gc.pos THEN queue[j] ELSE queue[j + 1]
    <3>1. Len(queue) \in Nat /\ gc.pos \in 1 .. Len(queue)
      BY <1>1
    <3>2. /\ n \in Seq(Elem) /\ Len(n) = Len(queue) - 1
          /\ \A j \in 1 .. Len(queue) - 1 : n[j] = IF j < gc.pos THEN queue[j] ELSE queue[j + 1]
      BY <1>1, RemoveAtProperties
    <3> QED BY <3>1, <3>2
  <2> HIDE DEF n, s
  <2>6. n[d] = queue[b]
    <3>1. b < gc.pos => n[b] = queue[b]
      BY <1>1, <2>4, RemoveKeepsFront DEF n
    <3>2. gc.pos < a => n[b - 1] = queue[b]
      BY <1>1, <2>4, RemoveKeepsBack DEF n
    <3> QED BY <2>2, <3>1, <3>2
  <2>7. CrcsOnce(n)
    <3>1. ASSUME NEW p \in Positions(n, "end")
          PROVE  \E x \in Positions(queue, "end") : n[p] = queue[x]
      <4>1. p \in 1 .. Len(queue) - 1 /\ n[p].kind = "end"
        BY <2>5 DEF Positions
      <4>2. \E x \in 1 .. Len(queue) : n[p] = queue[x]
        BY <2>5, <4>1
      <4> QED BY <4>1, <4>2 DEF Positions
    <3> QED BY <3>1 DEF CrcsOnce
  <2>8. /\ Foremost(queue, [seq |-> s, lo |-> a, hi |-> b])
        /\ Foremost(n, [seq |-> s, lo |-> c, hi |-> d])
    BY <1>1, <2>1, <2>2, <2>3, <2>5, KeptIsForemost DEF s
  <2>9. Boot(queue) = ImageOf(queue[b].crc) /\ Boot(n) = ImageOf(n[d].crc)
    BY <1>1, <2>5, <2>7, <2>8, BootCrc
  <2> QED BY <1>3, <2>6, <2>7, <2>9 DEF n
<1> QED
  BY <1>2, <1>3, CollectSteps

-----------------------------------------------------------------------------
(***************************************************************************)
(* What the nodes hold while their record is written.                      *)
(***************************************************************************)

\* No key is attached twice; a node that is not attached holds nothing.
NodesInv == IsInjective(list) /\ \A k \in Keys \ Attached : node[k] = Fresh

\* A record that is being written has the payload of every node that holds one,
\* but for those whose turn has not come; and nobody changes them meanwhile.
WrittenInv ==
    io \in { "push", "verify" } =>
        LET left == ToSet(wr.todo) IN
        /\ IsInjective(wr.todo) /\ left \subseteq Attached
        /\ OneEach(wr.crc)
        /\ \A i \in DOMAIN wr.crc : LET k == wr.crc[i].key IN
              k \in Attached \ left /\ Writable(k) /\ wr.crc[i] = Data(k, node[k].val)
        /\ \A k \in Attached \ left : Writable(k) => \E i \in DOMAIN wr.crc : wr.crc[i].key = k
        /\ io = "verify" => wr.todo = << >>

\* attach pushes a node of a new key to the front of the list.
LEMMA FrontKeepsOnce ==
    ASSUME NEW S, NEW s \in Seq(S), NEW x \in S, x \notin ToSet(s), IsInjective(s)
    PROVE  IsInjective(<< x >> \o s) /\ ToSet(<< x >> \o s) = ToSet(s) \cup {x}
<1> DEFINE n == << x >> \o s
<1>1. /\ Len(s) \in Nat /\ DOMAIN s = 1 .. Len(s) /\ DOMAIN n = 1 .. Len(s) + 1
      /\ n[1] = x /\ \A i \in 2 .. Len(s) + 1 : n[i] = s[i - 1]
  OBVIOUS
<1> HIDE DEF n
<1>2. \A i \in DOMAIN s : i + 1 \in DOMAIN n /\ n[i + 1] = s[i]
  BY <1>1
<1>3. IsInjective(n)
  <2> SUFFICES ASSUME NEW i \in DOMAIN n, NEW j \in DOMAIN n, n[i] = n[j] PROVE i = j
    BY DEF IsInjective
  <2>1. ASSUME NEW a \in DOMAIN n, a # 1
        PROVE  a - 1 \in DOMAIN s /\ n[a] = s[a - 1] /\ n[a] # x
    <3>1. a - 1 \in DOMAIN s /\ n[a] = s[a - 1]
      BY <1>1, <2>1
    <3> QED BY <3>1 DEF ToSet
  <2>2. CASE i # 1 /\ j # 1
    <3>1. i - 1 = j - 1
      BY <2>1, <2>2 DEF IsInjective
    <3> QED BY <1>1, <3>1
  <2> QED BY <1>1, <2>1, <2>2
<1>4. ToSet(n) = ToSet(s) \cup {x}
  <2>1. \A i \in DOMAIN n : n[i] = x \/ \E j \in DOMAIN s : n[i] = s[j]
    <3> SUFFICES ASSUME NEW i \in DOMAIN n PROVE n[i] = x \/ \E j \in DOMAIN s : n[i] = s[j]
      OBVIOUS
    <3>1. i = 1 \/ (i \in 2 .. Len(s) + 1 /\ i - 1 \in DOMAIN s)
      BY <1>1
    <3> QED BY <1>1, <3>1
  <2>2. 1 \in DOMAIN n
    BY <1>1
  <2> QED BY <1>1, <1>2, <2>1, <2>2 DEF ToSet
<1> QED
  BY <1>3, <1>4 DEF n

\* A write is done with the first of the nodes left.
LEMMA TailKeepsOnce ==
    ASSUME NEW S, NEW s \in Seq(S), s # << >>, IsInjective(s)
    PROVE  IsInjective(Tail(s)) /\ Head(s) \in ToSet(s) /\ ToSet(Tail(s)) = ToSet(s) \ {Head(s)}
<1> DEFINE n == Tail(s)
           x == Head(s)
<1>1. /\ Len(s) \in Nat /\ Len(s) > 0 /\ DOMAIN s = 1 .. Len(s) /\ DOMAIN n = 1 .. Len(s) - 1
      /\ s[1] = x /\ \A i \in 1 .. Len(s) - 1 : n[i] = s[i + 1]
  OBVIOUS
<1> HIDE DEF n, x
<1>2. \A i \in DOMAIN n : i + 1 \in DOMAIN s /\ i + 1 # 1 /\ n[i] = s[i + 1]
  BY <1>1
<1>3. \A i \in DOMAIN s : i = 1 \/ (i - 1 \in DOMAIN n /\ n[i - 1] = s[i])
  <2> SUFFICES ASSUME NEW i \in DOMAIN s, i # 1 PROVE i - 1 \in DOMAIN n /\ n[i - 1] = s[i]
    OBVIOUS
  <2>1. i - 1 \in 1 .. Len(s) - 1 /\ (i - 1) + 1 = i
    BY <1>1
  <2> QED BY <1>1, <2>1
<1>4. 1 \in DOMAIN s
  BY <1>1
<1>5. IsInjective(n)
  <2> SUFFICES ASSUME NEW i \in DOMAIN n, NEW j \in DOMAIN n, n[i] = n[j] PROVE i = j
    BY DEF IsInjective
  <2>1. i + 1 = j + 1
    BY <1>2 DEF IsInjective
  <2> QED BY <1>1, <2>1
<1>6. ToSet(n) = ToSet(s) \ {x}
  <2>1. ASSUME NEW y \in ToSet(n) PROVE y \in ToSet(s) /\ y # x
    <3>1. PICK i \in DOMAIN n : y = n[i]
      BY DEF ToSet
    <3>2. y = s[i + 1] /\ i + 1 \in DOMAIN s /\ i + 1 # 1
      BY <1>2, <3>1
    <3> QED BY <1>1, <1>4, <3>2 DEF ToSet, IsInjective
  <2>2. ASSUME NEW y \in ToSet(s), y # x PROVE y \in ToSet(n)
    <3>1. PICK i \in DOMAIN s : y = s[i]
      BY DEF ToSet
    <3>2. i # 1
      BY <1>1, <2>2, <3>1
    <3> QED BY <1>3, <3>1, <3>2 DEF ToSet
  <2> QED BY <2>1, <2>2
<1> QED
  BY <1>1, <1>4, <1>5, <1>6 DEF n, x, ToSet

\* detach removes a node from the list.
LEMMA RemoveKeepsOnce ==
    ASSUME NEW S, NEW s \in Seq(S), NEW p \in DOMAIN s, IsInjective(s)
    PROVE  IsInjective(RemoveAt(s, p)) /\ ToSet(RemoveAt(s, p)) = ToSet(s) \ {s[p]}
<1> DEFINE n == RemoveAt(s, p)
           From(i) == IF i < p THEN i ELSE i + 1
           To(i) == IF i < p THEN i ELSE i - 1
<1>1. /\ Len(s) \in Nat /\ DOMAIN s = 1 .. Len(s) /\ DOMAIN n = 1 .. Len(s) - 1
      /\ \A i \in 1 .. Len(s) - 1 : n[i] = IF i < p THEN s[i] ELSE s[i + 1]
  BY RemoveAtProperties
<1> HIDE DEF n
<1>2. ASSUME NEW i \in DOMAIN n
      PROVE  From(i) \in DOMAIN s /\ From(i) # p /\ n[i] = s[From(i)] /\ i \in Int
  BY <1>1
<1>3. ASSUME NEW i \in DOMAIN s, i # p
      PROVE  To(i) \in DOMAIN n /\ n[To(i)] = s[i]
  BY <1>1, <1>3
<1>4. IsInjective(n)
  <2> SUFFICES ASSUME NEW i \in DOMAIN n, NEW j \in DOMAIN n, n[i] = n[j] PROVE i = j
    BY DEF IsInjective
  <2>1. From(i) = From(j) /\ i \in Int /\ j \in Int /\ p \in Int
    BY <1>1, <1>2 DEF IsInjective
  <2> QED BY <2>1
<1>5. ToSet(n) = ToSet(s) \ {s[p]}
  <2>1. ASSUME NEW y \in ToSet(n) PROVE y \in ToSet(s) /\ y # s[p]
    <3>1. PICK i \in DOMAIN n : y = n[i]
      BY DEF ToSet
    <3>2. PICK j \in DOMAIN s : j # p /\ y = s[j]
      BY <1>2, <3>1
    <3> QED BY <3>2 DEF ToSet, IsInjective
  <2>2. ASSUME NEW y \in ToSet(s), y # s[p] PROVE y \in ToSet(n)
    <3>1. PICK i \in DOMAIN s : y = s[i]
      BY DEF ToSet
    <3>2. \E j \in DOMAIN n : n[j] = y
      BY <1>3, <2>2, <3>1
    <3> QED BY <3>2 DEF ToSet
  <2> QED BY <2>1, <2>2
<1> QED
  BY <1>4, <1>5 DEF n

\* A read leaves alone what is not attached.
LEMMA ReadsAttached ==
    ASSUME TypeOK, NEW ss, NEW ok \in BOOLEAN, ReadRecord(ss, ok), NEW k \in Keys \ Attached
    PROVE  node'[k] = node[k]
<1>1. \A nodes : MarkNonResident(nodes)[k] = nodes[k]
  BY DEF MarkNonResident
<1>2. \A h, stop, broken : Hydrated(h, stop, broken)[k] = node[k]
  BY DEF Hydrated
<1> QED
  BY <1>1, <1>2 DEF ReadRecord, ReadAll, ReadFails

\* What a step does to the nodes.
LEMMA NodeSteps ==
    ASSUME [Next]_vars
    PROVE  \/ UNCHANGED << list, node >>
           \/ \E k \in Keys : Attach(k) \/ TakeDefault(k) \/ Detach(k)
           \/ \E k \in Keys, v \in Values : Write(k, v)
           \/ \E ok \in BOOLEAN : ProcessReads(ok)
           \/ \E ok \in BOOLEAN : EndReadScan(ok)
           \/ VerifyGood
           \/ Crash
<1>1. CASE UNCHANGED vars
  BY <1>1 DEF vars
<1>2. CASE ResetCache
  BY <1>2 DEF ResetCache
<1>3. CASE \/ BeginScan \/ ScanElement \/ BeginWrites \/ PushData \/ PushEnd \/ StorageFull
           \/ VerifyBad \/ BeginGarbage \/ CollectElement \/ EndCollect \/ EndGcScan
           \/ Interrupt \/ Rot
  BY <1>3 DEF BeginScan, ScanElement, BeginWrites, PushData, PushEnd, StorageFull, VerifyBad,
              BeginGarbage, CollectElement, EndCollect, EndGcScan, Interrupt, Rot
<1> QED
  BY <1>1, <1>2, <1>3 DEF Next, UserStep, IoStep, FaultStep

\* A key has one node, and what is not attached holds nothing.
LEMMA NextNodesInv ==
    ASSUME TypeOK, NodesInv, [Next]_vars
    PROVE  NodesInv'
<1>0. /\ list \in Seq(Keys) /\ node \in [Keys -> Nodes]
      /\ IsInjective(list) /\ Attached = ToSet(list)
      /\ \A k \in Keys \ ToSet(list) : node[k] = Fresh
  BY DEF TypeOK, NodesInv, Attached, ToSet
<1> SUFFICES IsInjective(list') /\ \A k \in Keys \ ToSet(list') : node'[k] = Fresh
  BY DEF NodesInv, Attached, ToSet
<1>1. CASE UNCHANGED << list, node >>
  BY <1>0, <1>1
<1>2. ASSUME NEW k \in Keys, Attach(k)
      PROVE  IsInjective(list') /\ \A x \in Keys \ ToSet(list') : node'[x] = Fresh
  <2>1. /\ list' = << k >> \o list /\ node' = [node EXCEPT ![k] = Fresh] /\ k \notin ToSet(list)
    BY <1>0, <1>2 DEF Attach
  <2>2. IsInjective(list') /\ ToSet(list') = ToSet(list) \cup {k}
    BY <1>0, <2>1, FrontKeepsOnce
  <2> QED BY <1>0, <2>1, <2>2
<1>3. ASSUME NEW k \in Keys, Detach(k)
      PROVE  IsInjective(list') /\ \A x \in Keys \ ToSet(list') : node'[x] = Fresh
  <2>1. node' = [node EXCEPT ![k] = Fresh]
    BY <1>3 DEF Detach
  <2>2. PICK i \in DOMAIN list : list[i] = k /\ list' = RemoveAt(list, i)
    BY <1>3 DEF Detach
  <2>3. IsInjective(list') /\ ToSet(list') = ToSet(list) \ {k}
    BY <1>0, <2>2, RemoveKeepsOnce
  <2> QED BY <1>0, <2>1, <2>3
<1>4. CASE /\ UNCHANGED list
           /\ \A x \in Keys \ ToSet(list) : node'[x] = node[x]
  BY <1>0, <1>4
<1>5. ASSUME NEW k \in Keys, TakeDefault(k)
      PROVE  UNCHANGED list /\ \A x \in Keys \ ToSet(list) : node'[x] = node[x]
  BY <1>0, <1>5 DEF TakeDefault
<1>6. ASSUME NEW k \in Keys, NEW v \in Values, Write(k, v)
      PROVE  UNCHANGED list /\ \A x \in Keys \ ToSet(list) : node'[x] = node[x]
  BY <1>0, <1>6 DEF Write
<1>7. ASSUME NEW ok \in BOOLEAN, ProcessReads(ok) \/ EndReadScan(ok)
      PROVE  UNCHANGED list /\ \A x \in Keys \ ToSet(list) : node'[x] = node[x]
  <2>1. \E ss : ReadRecord(ss, ok)
    BY <1>7 DEF ProcessReads, EndReadScan
  <2>2. UNCHANGED list
    BY <1>7 DEF ProcessReads, EndReadScan
  <2> QED BY <1>0, <2>1, <2>2, ReadsAttached
<1>8. ASSUME VerifyGood
      PROVE  UNCHANGED list /\ \A x \in Keys \ ToSet(list) : node'[x] = node[x]
  BY <1>0, <1>8 DEF VerifyGood, Cleaned
<1>9. CASE Crash
  <2>1. list' = << >> /\ node' = [k \in Keys |-> Fresh]
    BY <1>9 DEF Crash
  <2> QED BY <2>1 DEF IsInjective
<1> QED
  BY <1>1, <1>2, <1>3, <1>4, <1>5, <1>6, <1>7, <1>8, <1>9, NodeSteps

\* What a step does to a record that is being written.
LEMMA RecordSteps ==
    ASSUME [Next]_vars, io' \in { "push", "verify" }
    PROVE  \/ UNCHANGED << io, wr, list, node >>
           \/ BeginWrites \/ PushData \/ PushEnd
<1>1. CASE UNCHANGED vars
  BY <1>1 DEF vars
<1>2. CASE UserStep
  BY <1>2 DEF UserStep, Attach, TakeDefault, Detach, Write, ResetCache, Locked
<1>3. CASE IoStep
  <2>1. CASE BeginWrites \/ PushData \/ PushEnd
    BY <2>1
  <2>2. CASE \E ok \in BOOLEAN : ProcessReads(ok) \/ EndReadScan(ok)
    BY <2>2 DEF ProcessReads, EndReadScan
  <2>3. CASE \/ BeginScan \/ ScanElement \/ StorageFull \/ VerifyGood
             \/ VerifyBad \/ BeginGarbage \/ CollectElement \/ EndCollect \/ EndGcScan
    BY <2>3 DEF BeginScan, ScanElement, StorageFull, VerifyGood, VerifyBad,
                BeginGarbage, CollectElement, EndCollect, EndGcScan
  <2> QED BY <1>3, <2>1, <2>2, <2>3 DEF IoStep
<1>4. CASE FaultStep
  BY <1>4 DEF FaultStep, Interrupt, Crash, Rot
<1> QED
  BY <1>1, <1>2, <1>3, <1>4 DEF Next

\* A write keeps account of the nodes it has visited.
LEMMA NextWrittenInv ==
    ASSUME TypeOK, NodesInv, WrittenInv, [Next]_vars
    PROVE  WrittenInv'
<1> SUFFICES ASSUME io' \in { "push", "verify" } PROVE WrittenInv'
  BY DEF WrittenInv
<1>0. wr \in [seq : SeqNo, todo : Seq(Keys), crc : Seq(DataElem)] /\ node \in [Keys -> Nodes]
  BY DEF TypeOK
<1>1. CASE UNCHANGED << io, wr, list, node >>
  BY <1>1 DEF WrittenInv, Attached, Writable
<1>2. CASE BeginWrites
  <2>1. /\ wr' = [seq |-> seqState.next, todo |-> list, crc |-> << >>] /\ io' = "push"
        /\ UNCHANGED << list, node >>
    BY <1>2 DEF BeginWrites
  <2>2. wr'.todo = list /\ wr'.crc = << >> /\ Attached = ToSet(list)
    BY <2>1 DEF Attached, ToSet
  <2> QED BY <2>1, <2>2 DEF WrittenInv, NodesInv, OneEach, Attached, Writable
<1>3. CASE PushData
  <2> DEFINE left == ToSet(wr.todo)
             k == Head(wr.todo)
  <2>1. /\ io = "push" /\ io' = "push" /\ wr.todo # << >> /\ UNCHANGED << list, node >>
        /\ wr'.todo = Tail(wr.todo)
        /\ wr'.crc = IF Writable(k) THEN Append(wr.crc, Data(k, node[k].val)) ELSE wr.crc
    BY <1>0, <1>3 DEF PushData
  <2>2. /\ IsInjective(wr.todo) /\ left \subseteq Attached /\ OneEach(wr.crc)
        /\ \A i \in DOMAIN wr.crc :
              /\ wr.crc[i].key \in Attached \ left /\ Writable(wr.crc[i].key)
              /\ wr.crc[i] = Data(wr.crc[i].key, node[wr.crc[i].key].val)
        /\ \A x \in Attached \ left : Writable(x) => \E i \in DOMAIN wr.crc : wr.crc[i].key = x
    BY <2>1 DEF WrittenInv
  <2>3. /\ IsInjective(wr'.todo) /\ k \in left /\ ToSet(wr'.todo) = left \ {k}
    BY <1>0, <2>1, <2>2, TailKeepsOnce
  <2>4. /\ wr.crc \in Seq(DataElem)
        /\ \A i \in DOMAIN wr.crc : i \in DOMAIN wr'.crc /\ wr'.crc[i] = wr.crc[i]
        /\ \A i \in DOMAIN wr'.crc :
              \/ i \in DOMAIN wr.crc /\ wr'.crc[i] = wr.crc[i]
              \/ /\ Writable(k) /\ wr'.crc[i] = Data(k, node[k].val)
                 /\ i = Len(wr.crc) + 1
        /\ Writable(k) => \E i \in DOMAIN wr'.crc : wr'.crc[i] = Data(k, node[k].val)
    <3>1. wr.crc \in Seq(DataElem)
      BY <1>0
    <3> DEFINE e == Data(k, node[k].val)
               c == wr.crc
               n == Append(c, e)
    <3>2. c \in Seq(DataElem) /\ (wr'.crc = IF Writable(k) THEN n ELSE c)
      BY <2>1, <3>1
    <3> HIDE DEF e, c, k
    <3>3. /\ \A i \in DOMAIN c : i \in DOMAIN n /\ n[i] = c[i]
          /\ \A i \in DOMAIN n : (i \in DOMAIN c /\ n[i] = c[i]) \/ (n[i] = e /\ i = Len(c) + 1)
          /\ Len(c) + 1 \in DOMAIN n /\ n[Len(c) + 1] = e
      BY <3>2
    <3> HIDE DEF n
    <3>4. /\ \A i \in DOMAIN c : i \in DOMAIN wr'.crc /\ wr'.crc[i] = c[i]
          /\ \A i \in DOMAIN wr'.crc :
                \/ i \in DOMAIN c /\ wr'.crc[i] = c[i]
                \/ Writable(k) /\ wr'.crc[i] = e /\ i = Len(c) + 1
          /\ Writable(k) => \E i \in DOMAIN wr'.crc : wr'.crc[i] = e
      BY <3>2, <3>3
    <3> QED BY <3>1, <3>4 DEF c, e
  <2>5. \A v : Data(k, v).key = k
    BY DEF Data
  <2> HIDE DEF left, k
  <2>6. OneEach(wr'.crc)
    <3> SUFFICES ASSUME NEW i \in DOMAIN wr'.crc, NEW j \in DOMAIN wr'.crc,
                        wr'.crc[i].key = wr'.crc[j].key
                 PROVE  i = j
      BY DEF OneEach
    <3>1. CASE i \in DOMAIN wr.crc /\ j \in DOMAIN wr.crc
      BY <2>2, <2>4, <3>1 DEF OneEach
    <3>2. CASE i \notin DOMAIN wr.crc /\ j \notin DOMAIN wr.crc
      BY <2>4, <3>2
    <3>3. CASE i \in DOMAIN wr.crc /\ j \notin DOMAIN wr.crc
      BY <2>2, <2>3, <2>4, <2>5, <3>3
    <3>4. CASE i \notin DOMAIN wr.crc /\ j \in DOMAIN wr.crc
      BY <2>2, <2>3, <2>4, <2>5, <3>4
    <3> QED BY <3>1, <3>2, <3>3, <3>4
  <2>7. \A i \in DOMAIN wr'.crc :
              /\ wr'.crc[i].key \in Attached \ (left \ {k}) /\ Writable(wr'.crc[i].key)
              /\ wr'.crc[i] = Data(wr'.crc[i].key, node[wr'.crc[i].key].val)
    BY <2>2, <2>3, <2>4, <2>5
  <2>8. \A x \in Attached \ (left \ {k}) : Writable(x) => \E i \in DOMAIN wr'.crc : wr'.crc[i].key = x
    BY <2>2, <2>3, <2>4, <2>5
  <2>9. UNCHANGED << list, node, Attached >> /\ \A x : Writable(x)' = Writable(x)
    BY <2>1, <2>2 DEF Attached, Writable
  <2> QED
    BY <2>1, <2>2, <2>3, <2>6, <2>7, <2>8, <2>9 DEF WrittenInv
<1>4. CASE PushEnd
  BY <1>4 DEF PushEnd, WrittenInv, Attached, Writable
<1> QED
  BY <1>1, <1>2, <1>3, <1>4, RecordSteps

\* The payloads that are not left to write are what memory holds.
LEMMA WrittenIsRam ==
    ASSUME TypeOK, NodesInv, WrittenInv, io \in { "push", "verify" }, wr.todo = << >>
    PROVE  OneEach(wr.crc) /\ ImageOf(wr.crc) = Ram
<1>1. /\ OneEach(wr.crc)
      /\ \A i \in DOMAIN wr.crc :
              /\ wr.crc[i].key \in Attached /\ Writable(wr.crc[i].key)
              /\ wr.crc[i] = Data(wr.crc[i].key, node[wr.crc[i].key].val)
      /\ \A x \in Attached : Writable(x) => \E i \in DOMAIN wr.crc : wr.crc[i].key = x
  <2>1. ToSet(wr.todo) = {}
    BY DEF ToSet
  <2> QED BY <2>1 DEF WrittenInv
<1>2. ASSUME NEW k \in Keys
      PROVE  ImageOf(wr.crc)[k] = IF k \in Attached THEN node[k].val ELSE NoVal
  <2>1. CASE k \in Attached /\ Writable(k)
    <3>1. PICK i \in DOMAIN wr.crc : wr.crc[i].key = k
      BY <1>1, <2>1
    <3>2. wr.crc[i].val = node[k].val
      <4>1. wr.crc[i] = Data(k, node[k].val)
        BY <1>1, <3>1
      <4> QED BY <4>1 DEF Data
    <3> QED BY <1>1, <2>1, <3>1, <3>2, ImageOfKey
  <2>2. CASE ~ (k \in Attached /\ Writable(k))
    <3>1. ImageOf(wr.crc)[k] = NoVal
      BY <1>1, <2>2, ImageOfKey
    <3>2. ~ Writable(k) => node[k].val = NoVal
      BY DEF TypeOK, Nodes, Writable
    <3> QED BY <2>2, <3>1, <3>2
  <2> QED BY <2>1, <2>2
<1>3. ImageOf(wr.crc) = [k \in Keys |-> ImageOf(wr.crc)[k]]
  BY DEF ImageOf
<1> QED
  BY <1>1, <1>2, <1>3 DEF Ram

-----------------------------------------------------------------------------
\* All that the images need to know of a state, besides StoreInv.
ImageInv == CrcsOnce(queue) /\ NodesInv /\ WrittenInv

\* What a restart finds changes in one step, the one that pushes the End of a
\* record, and it becomes what the nodes hold.
LEMMA NextBoot ==
    ASSUME "rot" \notin Events, Kept > 1, StoreInv, ImageInv, [Next]_vars
    PROVE  /\ CrcsOnce(queue')
           /\ Boot(queue') = Boot(queue) \/ (PushEnd /\ Boot(queue') = Ram)
<1>0. /\ TypeInv /\ TypeOK /\ GcInv /\ queue \in Seq(Elem)
      /\ CrcsOnce(queue) /\ NodesInv /\ WrittenInv
  BY DEF StoreInv, GenuineInv, SurvivalInv, TypeInv, TypeOK, ImageInv
<1>1. CASE UNCHANGED queue
  BY <1>0, <1>1
<1>2. CASE BeginWrites /\ queue' = Append(queue, Start(seqState.next))
  <2>1. Start(seqState.next) \in Elem /\ Start(seqState.next).kind # "end"
    BY <1>0, <1>2, NextNumber, ElemTypes DEF BeginWrites, Start
  <2> QED BY <1>0, <1>2, <2>1, AppendBoot
<1>3. CASE \E e \in Elem : e.kind \in { "data", "bad" } /\ queue' = Append(queue, e)
  BY <1>0, <1>3, AppendBoot
<1>4. CASE PushEnd /\ queue' = Append(queue, End(wr.seq, wr.crc))
  <2>1. wr.seq \in SeqNo /\ wr.crc \in Seq(DataElem)
    BY <1>0 DEF TypeOK
  <2>2. OneEach(wr.crc) /\ ImageOf(wr.crc) = Ram
    BY <1>0, <1>4, WrittenIsRam DEF PushEnd
  <2> QED BY <1>0, <1>4, <2>1, <2>2, EndBoot
<1>5. CASE queue' = Append(queue, Bad)
  <2>1. Bad \in Elem /\ Bad.kind # "end"
    BY ElemTypes DEF Bad
  <2> QED BY <1>0, <1>5, <2>1, AppendBoot
<1>6. CASE CollectElement
  BY <1>0, <1>6, CollectBoot
<1> QED
  BY <1>0, <1>1, <1>2, <1>3, <1>4, <1>5, <1>6, QueueSteps

\* Nothing is written yet.
LEMMA InitImageInv == Init => ImageInv
<1> SUFFICES ASSUME Init PROVE ImageInv
  OBVIOUS
<1>1. queue = << >> /\ list = << >> /\ node = [k \in Keys |-> Fresh] /\ io = "idle"
  BY DEF Init
<1> QED
  BY <1>1 DEF ImageInv, CrcsOnce, Positions, NodesInv, IsInjective, WrittenInv

\* Every step keeps what the images rest on.
LEMMA NextImageInv ==
    ASSUME "rot" \notin Events, Kept > 1, StoreInv, ImageInv, [Next]_vars
    PROVE  ImageInv'
<1>1. TypeOK /\ NodesInv /\ WrittenInv
  BY DEF StoreInv, GenuineInv, TypeInv, ImageInv
<1> QED
  BY <1>1, NextBoot, NextNodesInv, NextWrittenInv DEF ImageInv

\* What the nodes would be hydrated with after a restart is never a mixture of two
\* writes: it changes only when the record of a process_writes is complete
\* (storage_list.rs:884-967), and then to what all nodes held throughout that write.
\* Interrupted writes, elements that do not decode and collections (435-525) leave it
\* alone.  With a single slot a scan keeps, of two records with one number, the one
\* nearest the end of the storage, and a read-back the one nearest its head: then a
\* collection may change what a restart finds.
THEOREM WritesAreAtomic ==
    ASSUME "rot" \notin Events, "scan" \notin Events, MaxSeq < SeqLimit, Kept > 1
    PROVE  Spec => ImagesAreWhole
<1>1. Init => StoreInv /\ ImageInv
  BY InitStoreInv, InitImageInv
<1>2. StoreInv /\ ImageInv /\ [Next]_vars => StoreInv' /\ ImageInv'
  BY NextStoreInv, NextImageInv
<1>3. StoreInv /\ ImageInv /\ [Next]_vars
        => [Boot(queue') # Boot(queue) => Boot(queue') = Ram]_queue
  BY NextBoot
<1> QED
  BY <1>1, <1>2, <1>3, PTL DEF Spec, ImagesAreWhole

-----------------------------------------------------------------------------
(***************************************************************************)
(* What the cache knows when no write fails half way and no scan is cut    *)
(* short: power may still fail at any step, collections and reads may end  *)
(* early, payloads may be of another schema, and the storage may be full.  *)
(***************************************************************************)
WritesComplete == Events \cap { "push", "verify", "badpush", "rot", "scan" } = {}

\* Between calls, and until a write is complete, the cache leads all good records.
BootCached ==
    io \in { "idle", "push" } /\ AnySeen(seqState) => \A r \in Good : Leads(r.seq, r.lo)

\* What a scan finds is a reason to collect.
FoundIsDue == Scanning /\ AnySeen(seqState) => seqState.gc

\* A complete collection leaves no Start beyond the newest record.
CollectedInv == io = "gcScan" => \E s \in Good : \A p \in Starts : queue[p].seq <= s.seq

\* No Start claims the number of the next write, or there is no room for one.
NumberFree ==
    io = "idle" /\ ScanCompleted(seqState) /\ AnySeen(seqState) /\ ~ seqState.gc =>
        (\A p \in Starts : queue[p].seq < seqState.next) \/ Len(queue) >= Capacity

\* The queue ends in a record of number s and data c that has no End yet, and no
\* other Start claims the number before it.
OpenAt(q, s, c, lo) ==
    /\ FirstStart(q, s, lo)
    /\ \A i \in lo + 1 .. Len(q) : q[i].kind = "data"
    /\ c = SubSeq(q, lo + 1, Len(q))

\* So a write that comes after another is read back for what it is.
RecordOpen ==
    AnySeen(seqState) =>
        /\ io = "push" => \E lo \in DOMAIN queue : OpenAt(queue, wr.seq, wr.crc, lo)
        /\ io = "verify" => \E lo \in DOMAIN queue : Verified(lo, Len(queue))

CompleteInv == BootCached /\ FoundIsDue /\ CollectedInv /\ NumberFree /\ RecordOpen

\* The Start of a record opens it.
LEMMA OpenBegins ==
    ASSUME NEW q \in Seq(Elem), NEW s \in SeqNo, \A p \in Positions(q, "start") : q[p].seq # s
    PROVE  /\ OpenAt(Append(q, Start(s)), s, << >>, Len(q) + 1)
           /\ Len(q) + 1 \in DOMAIN Append(q, Start(s))
<1> DEFINE n == Append(q, Start(s))
           l == Len(q)
<1>1. /\ l \in Nat /\ Len(n) = l + 1 /\ DOMAIN n = 1 .. l + 1 /\ n[l + 1] = Start(s)
      /\ \A i \in 1 .. l : n[i] = q[i] /\ i \in DOMAIN q
  OBVIOUS
<1>2. Start(s).seq = s /\ Start(s).kind = "start"
  BY DEF Start
<1> HIDE DEF n
<1>3. \A i \in 1 .. (l + 1) - 1 : n[i] # Start(s)
  <2> SUFFICES ASSUME NEW i \in 1 .. l, n[i] = Start(s) PROVE FALSE
    BY <1>1
  <2>1. i \in Positions(q, "start") /\ q[i].seq = s
    BY <1>1, <1>2 DEF Positions
  <2> QED BY <2>1
<1>4. SubSeq(n, (l + 1) + 1, Len(n)) = << >>
  BY <1>1
<1>5. \A i \in (l + 1) + 1 .. Len(n) : n[i].kind = "data"
  BY <1>1
<1> QED
  BY <1>1, <1>3, <1>4, <1>5 DEF OpenAt, FirstStart, n

\* The stretch of a queue behind a position, when the queue grows.
LEMMA SubSeqGrows ==
    ASSUME NEW q \in Seq(Elem), NEW e \in Elem, NEW lo \in 1 .. Len(q)
    PROVE  /\ SubSeq(Append(q, e), lo + 1, Len(q)) = SubSeq(q, lo + 1, Len(q))
           /\ SubSeq(Append(q, e), lo + 1, Len(q) + 1) = Append(SubSeq(q, lo + 1, Len(q)), e)
<1> DEFINE n == Append(q, e)
           l == Len(q)
           s == SubSeq(q, lo + 1, l)
           t == SubSeq(n, lo + 1, l)
           u == SubSeq(n, lo + 1, l + 1)
<1>1. /\ l \in Nat /\ lo \in Int /\ lo <= l /\ Len(n) = l + 1 /\ n[l + 1] = e
      /\ \A i \in 1 .. l : n[i] = q[i] /\ q[i] \in Elem
      /\ \A i \in 1 .. l + 1 : n[i] \in Elem
  OBVIOUS
<1> HIDE DEF n, l
<1>2. /\ lo < l + 1 /\ (l + 1) - 1 = l /\ lo < l + 2 /\ (l + 2) - 1 = l + 1
      /\ l + 1 \in Int /\ l + 2 \in Int
      /\ (l + 1) - lo - 1 = l - lo /\ (l + 2) - lo - 1 = l - lo + 1
  BY <1>1
<1>3. /\ s \in Seq(Elem) /\ Len(s) = l - lo /\ \A i \in 1 .. l - lo : s[i] = q[lo + i]
  <2>1. \A i \in lo + 1 .. (l + 1) - 1 : q[i] \in Elem
    BY <1>1
  <2> QED BY <1>1, <1>2, <2>1, Between
<1>4. /\ t \in Seq(Elem) /\ Len(t) = l - lo /\ \A i \in 1 .. l - lo : t[i] = n[lo + i]
  <2>1. \A i \in lo + 1 .. (l + 1) - 1 : n[i] \in Elem
    BY <1>1
  <2> QED BY <1>1, <1>2, <2>1, Between
<1>5. /\ u \in Seq(Elem) /\ Len(u) = l - lo + 1 /\ \A i \in 1 .. l - lo + 1 : u[i] = n[lo + i]
  <2>1. \A i \in lo + 1 .. (l + 2) - 1 : n[i] \in Elem
    BY <1>1
  <2> QED BY <1>1, <1>2, <2>1, Between
<1> HIDE DEF s, t, u
<1>6. t = s
  <2>1. \A i \in 1 .. l - lo : t[i] = s[i]
    <3> SUFFICES ASSUME NEW i \in 1 .. l - lo PROVE t[i] = s[i]
      OBVIOUS
    <3>1. lo + i \in 1 .. l
      BY <1>1
    <3> QED BY <1>1, <1>3, <1>4, <3>1
  <2> QED BY <1>3, <1>4, <2>1, SeqEqual
<1>7. u = Append(s, e)
  <2> DEFINE v == Append(s, e)
  <2>1. /\ v \in Seq(Elem) /\ Len(v) = l - lo + 1 /\ v[l - lo + 1] = e
        /\ \A i \in 1 .. l - lo : v[i] = s[i]
    BY <1>1, <1>3
  <2> HIDE DEF v
  <2>2. \A i \in 1 .. l - lo + 1 : u[i] = v[i]
    <3> SUFFICES ASSUME NEW i \in 1 .. l - lo + 1 PROVE u[i] = v[i]
      OBVIOUS
    <3>1. CASE i = l - lo + 1
      <4>1. lo + i = l + 1
        BY <1>1, <3>1
      <4> QED BY <1>1, <1>5, <2>1, <3>1, <4>1
    <3>2. CASE i # l - lo + 1
      <4>1. i \in 1 .. l - lo /\ lo + i \in 1 .. l
        BY <1>1, <3>2
      <4> QED BY <1>1, <1>3, <1>5, <2>1, <4>1
    <3> QED BY <3>1, <3>2
  <2>3. u = v
    BY <1>5, <2>1, <2>2, SeqEqual
  <2> QED BY <2>3 DEF v
<1> QED
  BY <1>6, <1>7 DEF n, l, s, t, u

\* Data elements keep it open.
LEMMA OpenGrows ==
    ASSUME NEW q \in Seq(Elem), NEW s, NEW c, NEW lo, OpenAt(q, s, c, lo),
           NEW e \in Elem, e.kind = "data"
    PROVE  OpenAt(Append(q, e), s, Append(c, e), lo) /\ lo \in DOMAIN Append(q, e)
<1> DEFINE n == Append(q, e)
<1>1. /\ lo \in 1 .. Len(q) /\ q[lo] = Start(s) /\ \A i \in 1 .. lo - 1 : q[i] # Start(s)
      /\ \A i \in lo + 1 .. Len(q) : q[i].kind = "data"
      /\ c = SubSeq(q, lo + 1, Len(q))
  BY DEF OpenAt, FirstStart
<1>2. /\ Len(q) \in Nat /\ Len(n) = Len(q) + 1 /\ DOMAIN n = 1 .. Len(q) + 1 /\ n[Len(q) + 1] = e
      /\ \A i \in 1 .. Len(q) : n[i] = q[i]
  OBVIOUS
<1>3. SubSeq(n, lo + 1, Len(n)) = Append(c, e)
  <2>1. lo \in 1 .. Len(q) /\ c = SubSeq(q, lo + 1, Len(q)) /\ Len(n) = Len(q) + 1
    BY <1>1, <1>2
  <2>2. SubSeq(n, lo + 1, Len(q) + 1) = Append(SubSeq(q, lo + 1, Len(q)), e)
    BY Zenon, <2>1, SubSeqGrows DEF n
  <2> HIDE DEF n
  <2> QED BY Zenon, <2>1, <2>2
<1> HIDE DEF n
<1>4. \A i \in lo + 1 .. Len(n) : n[i].kind = "data"
  <2> SUFFICES ASSUME NEW i \in lo + 1 .. Len(q) + 1 PROVE n[i].kind = "data"
    BY <1>2
  <2>1. CASE i = Len(q) + 1
    BY <1>2, <2>1
  <2>2. CASE i # Len(q) + 1
    <3> DEFINE l == Len(q)
    <3>1. l \in Nat /\ lo \in 1 .. l /\ i \in lo + 1 .. l + 1 /\ i # l + 1
      BY <1>1, <1>2, <2>2
    <3> HIDE DEF l
    <3>2. i \in lo + 1 .. l /\ i \in 1 .. l
      BY <3>1
    <3> QED BY <1>1, <1>2, <3>2 DEF l
  <2> QED BY <2>1, <2>2
<1>5. FirstStart(n, s, lo)
  <2>1. lo \in DOMAIN n /\ n[lo] = Start(s)
    BY <1>1, <1>2
  <2>2. \A i \in 1 .. lo - 1 : n[i] # Start(s)
    <3>1. \A i \in 1 .. lo - 1 : i \in 1 .. Len(q)
      BY <1>1, <1>2
    <3> QED BY <1>1, <1>2, <3>1
  <2> QED BY <2>1, <2>2 DEF FirstStart
<1> QED
  BY <1>3, <1>4, <1>5 DEF OpenAt, FirstStart, n

\* Its End closes it, and it can be read back.
LEMMA OpenCloses ==
    ASSUME NEW q \in Seq(Elem), NEW s \in SeqNo, NEW c \in Seq(DataElem), NEW lo,
           OpenAt(q, s, c, lo)
    PROVE  LET n == Append(q, End(s, c)) IN
           lo \in DOMAIN n /\ VerifiedAt(n, s, c, lo, Len(n))
<1> DEFINE e == End(s, c)
           n == Append(q, e)
           hi == Len(n)
<1>1. /\ lo \in 1 .. Len(q) /\ q[lo] = Start(s) /\ \A i \in 1 .. lo - 1 : q[i] # Start(s)
      /\ \A i \in lo + 1 .. Len(q) : q[i].kind = "data"
      /\ c = SubSeq(q, lo + 1, Len(q))
  BY DEF OpenAt, FirstStart
<1>2. /\ e \in Elem /\ e.kind = "end" /\ e.seq = s /\ e.crc = c
      /\ Start(s).kind = "start" /\ Start(s).seq = s
  BY ElemTypes DEF End, Start
<1> HIDE DEF e
<1>3. /\ Len(q) \in Nat /\ DOMAIN n = 1 .. Len(q) + 1 /\ hi = Len(q) + 1 /\ n[hi] = e
      /\ \A i \in 1 .. Len(q) : n[i] = q[i]
  BY <1>2
<1>4. SubSeq(n, lo + 1, Len(q)) = c
  BY <1>1, <1>2, SubSeqGrows
<1> HIDE DEF n
<1>5. lo \in DOMAIN n /\ hi \in DOMAIN n /\ lo < hi /\ hi - 1 = Len(q) /\ n[lo] = Start(s)
  BY <1>1, <1>3
<1>6. \A i \in lo + 1 .. hi - 1 : n[i].kind = "data"
  <2>1. \A i \in lo + 1 .. hi - 1 : i \in lo + 1 .. Len(q) /\ i \in 1 .. Len(q)
    BY <1>1, <1>3
  <2> QED BY <1>1, <1>3, <2>1
<1>7. \A i \in 1 .. lo - 1 : n[i] # Start(s)
  <2>1. \A i \in 1 .. lo - 1 : i \in 1 .. Len(q)
    BY <1>1, <1>3
  <2> QED BY <1>1, <1>3, <2>1
<1> HIDE DEF hi
<1>8. IsRecord(n, lo, hi)
  BY <1>2, <1>3, <1>4, <1>5, <1>6 DEF IsRecord
<1>9. VerifiedAt(n, s, c, lo, hi)
  BY <1>3, <1>5, <1>7, <1>8 DEF VerifiedAt, FirstStart, e
<1> QED
  BY <1>5, <1>9 DEF n, hi, e

\* The steps that are left, by what they do to the cache.
LEMMA CompleteSteps ==
    ASSUME WritesComplete, TypeOK, [Next]_vars
    PROVE  \/ Quiet \/ Forgets
           \/ ScanEnds /\ (io = "gcScan" \/ seqState' = Populated)
           \/ BeginWrites \/ PushData \/ PushEnd \/ VerifyGood
           \/ CollectElement \/ BeginScan \/ EndCollect \/ (Scanning /\ ScanElement)
           \/ StorageFull \/ VerifyBad
           \/ io = "collect" /\ io' = "idle" /\ UNCHANGED << queue, seqState >>
<1>0. "rot" \notin Events /\ "scan" \notin Events /\ "push" \notin Events /\ "verify" \notin Events
  BY DEF WritesComplete
<1>1. CASE UNCHANGED vars
  BY <1>1 DEF vars, Quiet
<1>2. CASE UserStep
  <2>1. CASE ResetCache
    <3>1. io \in { "idle", "collect" }
      BY <2>1 DEF ResetCache, Locked, TypeOK, IoStates
    <3> QED BY <2>1, <3>1 DEF ResetCache, Forgets
  <2>2. CASE \E k \in Keys : \/ Attach(k) \/ TakeDefault(k) \/ Detach(k)
                             \/ \E v \in Values : Write(k, v)
    BY <2>2 DEF Attach, TakeDefault, Detach, Write, Quiet
  <2> QED BY <1>2, <2>1, <2>2 DEF UserStep
<1>3. CASE \E ok \in BOOLEAN : ProcessReads(ok)
  BY <1>3 DEF ProcessReads, Quiet
<1>4. CASE \E ok \in BOOLEAN : EndReadScan(ok)
  BY <1>4 DEF EndReadScan, ScanEnds, ScanDone
<1>5. CASE EndGcScan
  BY <1>5 DEF EndGcScan, ScanEnds, ScanDone
<1>6. CASE ScanElement
  BY <1>6 DEF ScanElement, Scanning
<1>7. CASE BeginGarbage
  BY <1>7 DEF BeginGarbage, Forgets
<1>8. CASE FaultStep
  BY <1>0, <1>8 DEF FaultStep, Interrupt, Crash, Rot, Event, Forgets
<1> QED
  BY <1>1, <1>2, <1>3, <1>4, <1>5, <1>6, <1>7, <1>8 DEF Next, IoStep

\* A read-back fails only for the first record there is, and then nothing is cached.
LEMMA CompleteVerifies ==
    ASSUME RecordOpen, VerifyBad
    PROVE  ~ AnySeen(seqState)
<1> SUFFICES ASSUME AnySeen(seqState) PROVE FALSE
  OBVIOUS
<1>1. PICK lo \in DOMAIN queue : Verified(lo, Len(queue))
  BY DEF RecordOpen, VerifyBad
<1>2. Len(queue) \in DOMAIN queue
  BY <1>1 DEF Verified, VerifiedAt, IsRecord
<1> QED
  BY <1>1, <1>2 DEF VerifyBad

\* What a push stores, and what it adds to the good records.
LEMMA CompletePushes ==
    ASSUME WritesComplete, TypeOK
    PROVE  /\ BeginWrites => /\ queue' = Append(queue, Start(seqState.next))
                             /\ Start(seqState.next) \in Elem
                             /\ Good' \subseteq Good
           /\ PushData => \/ UNCHANGED queue /\ wr'.crc = wr.crc
                          \/ \E e \in DataElem : /\ e \in Elem /\ e.kind = "data"
                                                 /\ queue' = Append(queue, e)
                                                 /\ wr'.crc = Append(wr.crc, e)
           /\ PushData => Good' \subseteq Good
           /\ PushEnd => queue' = Append(queue, End(wr.seq, wr.crc))
<1>0. queue \in Seq(Elem) /\ "badpush" \notin Events
  BY DEF TypeOK, WritesComplete
<1>1. ASSUME BeginWrites
      PROVE  /\ queue' = Append(queue, Start(seqState.next))
             /\ Start(seqState.next) \in Elem
             /\ Good' \subseteq Good
  <2>1. queue' = Append(queue, Start(seqState.next))
    BY <1>0, <1>1 DEF BeginWrites, Push, Event
  <2>2. Start(seqState.next) \in Elem /\ Start(seqState.next).kind # "end"
    BY <1>1, NextNumber, ElemTypes DEF BeginWrites, Start
  <2> QED BY <1>0, <2>1, <2>2, AppendGood DEF Good
<1>2. ASSUME PushData
      PROVE  \/ UNCHANGED queue /\ wr'.crc = wr.crc
             \/ \E e \in DataElem : /\ e \in Elem /\ e.kind = "data"
                                    /\ queue' = Append(queue, e)
                                    /\ wr'.crc = Append(wr.crc, e)
  <2> DEFINE k == Head(wr.todo)
             e == Data(k, node[k].val)
  <2>1. /\ wr \in [seq : SeqNo, todo : Seq(Keys), crc : Seq(DataElem)]
        /\ wr.todo # << >> /\ node \in [Keys -> Nodes] /\ k \in Keys
    BY <1>2 DEF TypeOK, PushData
  <2>2. CASE Writable(k)
    <3>1. Push(e) /\ wr' = [wr EXCEPT !.todo = Tail(@), !.crc = Append(@, e)]
      BY <1>2, <2>2 DEF PushData
    <3>2. e \in DataElem /\ e \in Elem /\ e.kind = "data"
      <4>1. node[k].val \in Values
        BY <2>1, <2>2, WritableHolds DEF TypeOK
      <4> QED BY <2>1, <4>1, ElemTypes DEF Data
    <3> HIDE DEF e
    <3>3. queue' = Append(queue, e)
      BY <1>0, <3>1 DEF Push, Event
    <3>4. wr'.crc = Append(wr.crc, e)
      BY <2>1, <3>1
    <3> QED BY <3>2, <3>3, <3>4
  <2>3. CASE ~ Writable(k)
    BY <1>2, <2>1, <2>3 DEF PushData
  <2> QED BY <2>2, <2>3
<1>3. ASSUME PushData PROVE Good' \subseteq Good
  <2>1. CASE UNCHANGED queue
    BY <2>1 DEF Good
  <2>2. CASE \E e \in Elem : e.kind = "data" /\ queue' = Append(queue, e)
    BY <1>0, <2>2, AppendGood DEF Good
  <2> QED BY <1>2, <1>3, <2>1, <2>2
<1>4. ASSUME PushEnd PROVE queue' = Append(queue, End(wr.seq, wr.crc))
  BY <1>0, <1>4 DEF PushEnd, Push, Event
<1> QED
  BY <1>1, <1>2, <1>3, <1>4

\* The cache leads the good records whenever a read or a write may trust it.
LEMMA NextBootCached ==
    ASSUME WritesComplete, MaxSeq < SeqLimit, StoreInv, BootCached, RecordOpen, [Next]_vars
    PROVE  BootCached'
<1>0. /\ "rot" \notin Events /\ "scan" \notin Events /\ TypeInv /\ TypeOK /\ GenuineInv
      /\ ScanCovers /\ CacheCovers /\ WriteInv /\ CollectInv
  BY DEF WritesComplete, StoreInv, GenuineInv, SurvivalInv, TypeInv
<1> SUFFICES ASSUME io' \in { "idle", "push" }, AnySeen(seqState'), NEW r \in Good'
             PROVE  Leads(r.seq, r.lo)'
  BY DEF BootCached
<1>1. CASE Quiet \/ StorageFull
  BY <1>1 DEF Quiet, StorageFull, BootCached, Good, Leads
<1>2. CASE Forgets
  BY <1>2 DEF Forgets, NewSeqState, AnySeen
<1>3. CASE ScanEnds
  <2>1. r \in Good
    BY <1>3 DEF ScanEnds, Good
  <2> QED BY <1>0, <1>3, <2>1, ScanEndsLeads
<1>4. CASE BeginWrites \/ PushData
  <2>1. io \in { "idle", "push" } /\ UNCHANGED seqState
    BY <1>4 DEF BeginWrites, PushData
  <2>2. r \in Good
    BY <1>0, <1>4, CompletePushes
  <2> QED BY <2>1, <2>2 DEF BootCached, Leads
<1>5. CASE VerifyGood
  <2>1. seqState'.gc /\ ~ Scanning'
    BY <1>0, <1>5, VerifiedLeads DEF VerifyGood, Scanning
  <2>2. CacheCovers'
    BY <1>0, NextCacheCovers DEF StoreInv, SurvivalInv
  <2> QED BY <2>1, <2>2 DEF CacheCovers
<1>6. CASE VerifyBad
  BY <1>6, CompleteVerifies DEF VerifyBad
<1>7. CASE io = "collect" /\ UNCHANGED seqState
  BY <1>0, <1>7 DEF CollectInv, AnySeen
<1>8. CASE PushEnd \/ CollectElement \/ BeginScan \/ EndCollect \/ (Scanning /\ ScanElement)
  BY <1>8 DEF PushEnd, CollectElement, BeginScan, EndCollect, ScanElement, Scanning
<1> QED
  BY <1>0, <1>1, <1>2, <1>3, <1>4, <1>5, <1>6, <1>7, <1>8, CompleteSteps

\* A record that a scan finds sets needs_gc.
LEMMA NextFoundIsDue ==
    ASSUME "rot" \notin Events, MaxSeq < SeqLimit, StoreInv, FoundIsDue, [Next]_vars
    PROVE  FoundIsDue'
<1> SUFFICES ASSUME Scanning', AnySeen(seqState') PROVE seqState'.gc
  BY DEF FoundIsDue
<1>0. /\ TypeInv /\ GenuineInv /\ ScanInv /\ NumberInv /\ CollectInv
      /\ seqState \in SeqStates /\ Consistent(seqState)
  BY DEF StoreInv, GenuineInv, ScanningInv, TypeInv, TypeOK, CacheOrdered
<1>1. CASE Scanning /\ UNCHANGED << queue, seqState, scan >>
  BY <1>1 DEF FoundIsDue
<1>2. CASE BeginScan
  BY <1>0, <1>2, UnscannedIsEmpty DEF BeginScan, AnySeen
<1>3. CASE EndCollect
  BY <1>0, <1>3 DEF EndCollect, CollectInv, AnySeen
<1>4. CASE Scanning /\ ScanElement
  <2> DEFINE rec == [seq |-> queue[scan.at].seq, lo |-> scan.from, hi |-> scan.at]
  <2>1. CASE ~ Closes(queue[scan.at])
    <3>1. seqState' = seqState
      BY <1>4, <2>1 DEF ScanElement
    <3> QED BY <1>4, <3>1 DEF FoundIsDue
  <2>2. CASE Closes(queue[scan.at])
    <3>1. rec \in GoodWriteRecord
      BY <1>0, <1>4, <2>2, ClosesGenuine DEF ScanElement, Scanning
    <3>2. seqState' = InsertGood(seqState, rec)
      BY <1>4, <2>2 DEF ScanElement
    <3> HIDE DEF rec
    <3>3. seqState' = seqState \/ seqState'.gc
      BY <1>0, <3>1, <3>2, InsertGoodHighest
    <3> QED BY <1>4, <3>3 DEF FoundIsDue
  <2> QED BY <2>1, <2>2
<1> QED
  BY <1>1, <1>2, <1>3, <1>4, ScanSteps

\* A collection that ran to its end has removed every Start beyond the newest record.
LEMMA NextCollectedInv ==
    ASSUME WritesComplete, StoreInv, CollectedInv, [Next]_vars
    PROVE  CollectedInv'
<1>0. /\ "rot" \notin Events /\ TypeOK /\ GcInv /\ queue \in Seq(Elem) /\ Len(queue) \in Nat
  BY DEF WritesComplete, StoreInv, GenuineInv, SurvivalInv, TypeInv, TypeOK
<1> SUFFICES ASSUME io' = "gcScan" PROVE CollectedInv'
  BY DEF CollectedInv
<1>1. CASE io = "gcScan" /\ UNCHANGED queue
  BY <1>1 DEF CollectedInv, Good, Starts
<1>2. CASE EndCollect
  <2> DEFINE m == HighestSeen(gc)
  <2>1. io = "collect" /\ gc.pos \notin DOMAIN queue /\ UNCHANGED queue /\ gc.pos \in Nat \ {0}
    BY <1>0, <1>2 DEF EndCollect, TypeOK
  <2>2. /\ gc.pos <= Len(queue) + 1
        /\ \E e \in Int : \E a, b \in DOMAIN queue : NewestKept(queue, gc, e, a, b)
    BY <1>0, <2>1 DEF GcInv
  <2>3. PICK e \in Int, a \in DOMAIN queue, b \in DOMAIN queue : NewestKept(queue, gc, e, a, b)
    BY <2>2
  <2>4. \A p \in Starts : p < gc.pos
    <3>1. gc.pos = Len(queue) + 1
      BY <1>0, <2>1, <2>2
    <3> QED BY <1>0, <3>1, StartsAre DEF Starts
  <2>5. \A p \in Starts : queue[p].seq <= m.seq
    BY <2>3, <2>4 DEF NewestKept, Ahead, Starts
  <2>6. \E s \in Good : s.seq = m.seq
    <3>1. [seq |-> m.seq, lo |-> a, hi |-> b] \in Good
      BY <1>0, <2>3, KeptIsForemost DEF Foremost, Good
    <3> QED BY <3>1
  <2>7. \E s \in Good : \A p \in Starts : queue[p].seq <= s.seq
    BY <2>5, <2>6
  <2> QED BY <2>1, <2>7 DEF CollectedInv, Good, Starts
<1>3. Scanning'
  BY DEF Scanning
<1>4. CASE Scanning /\ UNCHANGED << queue, seqState, scan >>
  <2>1. io = "gcScan"
    BY <1>0, CompleteSteps, <1>4 DEF Quiet, Forgets, ScanEnds, BeginWrites, PushData, PushEnd,
       VerifyGood, CollectElement, BeginScan, EndCollect, ScanElement, StorageFull, VerifyBad,
       BeginGarbage, Scanning
  <2> QED BY <1>1, <1>4, <2>1
<1>5. CASE Scanning /\ ScanElement
  BY <1>1, <1>5 DEF ScanElement
<1>6. ~ BeginScan
  BY DEF BeginScan
<1> QED
  BY <1>0, <1>2, <1>3, <1>4, <1>5, <1>6, ScanSteps

\* So the number after the newest record is free once needs_gc is clear.
LEMMA NextNumberFree ==
    ASSUME WritesComplete, StoreInv, FoundIsDue, CollectedInv, NumberFree, RecordOpen,
           [Next]_vars
    PROVE  NumberFree'
<1>0. /\ TypeInv /\ TypeOK /\ GenuineInv /\ ScanCovers /\ CacheCovers /\ WriteInv /\ CollectInv
  BY DEF StoreInv, GenuineInv, SurvivalInv, TypeInv
<1> SUFFICES ASSUME io' = "idle", ScanCompleted(seqState'), AnySeen(seqState'), ~ seqState'.gc
             PROVE  \/ \A p \in Starts' : queue'[p].seq < seqState'.next
                    \/ Len(queue') >= Capacity
  BY DEF NumberFree
<1>1. CASE Quiet
  BY <1>1 DEF Quiet, NumberFree, Starts
<1>2. CASE Forgets
  BY <1>2 DEF Forgets, NewSeqState, AnySeen
<1>3. CASE ScanEnds /\ (io = "gcScan" \/ seqState' = Populated)
  <2>1. /\ AnySeen(seqState) /\ seqState.gc /\ UNCHANGED queue
        /\ seqState'.next = seqState.next
        /\ HighestSeen(seqState') = HighestSeen(seqState)
    BY <1>0, <1>3, ScanEndsCache, AllPassed DEF FoundIsDue, ScanEnds
  <2>2. io = "gcScan"
    BY <1>3, <2>1 DEF Populated
  <2>3. PICK s \in Good : \A p \in Starts : queue[p].seq <= s.seq
    BY <2>2 DEF CollectedInv
  <2>4. s.seq <= HighestSeen(seqState).seq
    BY <1>0, <1>3, ScanEndsLeads DEF Leads, Ahead
  <2>5. HighestSeen(seqState) \in GoodWriteRecord /\ seqState.next = HighestSeen(seqState).seq + 1
    BY <1>0, <2>1, NextIsOneMore DEF ScanCompleted
  <2>6. s \in GoodWriteRecord /\ \A p \in Starts : queue[p].seq \in SeqNo
    BY <1>0, GoodRecordIs, StartsAre DEF Good, TypeOK, Starts
  <2>7. \A p \in Starts : queue[p].seq < seqState.next
    <3> SUFFICES ASSUME NEW p \in Starts PROVE queue[p].seq < seqState.next
      OBVIOUS
    <3> DEFINE m == HighestSeen(seqState)
    <3>1. m.seq \in Int /\ s.seq \in Int /\ queue[p].seq \in Int
      BY <2>5, <2>6, SeqIsInt DEF SeqNo
    <3> HIDE DEF m
    <3>2. queue[p].seq <= s.seq /\ s.seq <= m.seq /\ seqState.next = m.seq + 1
      BY <2>3, <2>4, <2>5 DEF m
    <3> QED BY <3>1, <3>2
  <2> QED BY <2>1, <2>7 DEF Starts
<1>4. CASE VerifyGood
  BY <1>0, <1>4, VerifiedLeads
<1>5. CASE StorageFull
  BY <1>5 DEF StorageFull
<1>6. CASE VerifyBad
  BY <1>6, CompleteVerifies DEF VerifyBad
<1>7. CASE io = "collect" /\ UNCHANGED seqState
  BY <1>0, <1>7 DEF CollectInv, AnySeen
<1>8. CASE \/ BeginWrites \/ PushData \/ PushEnd \/ CollectElement \/ BeginScan \/ EndCollect
           \/ Scanning /\ ScanElement
  BY <1>8 DEF BeginWrites, PushData, PushEnd, CollectElement, BeginScan, EndCollect,
     ScanElement, Scanning
<1> QED
  BY <1>0, <1>1, <1>2, <1>3, <1>4, <1>5, <1>6, <1>7, <1>8, CompleteSteps

\* The Start of a write opens its record, if no other Start has its number,
LEMMA StartOpens ==
    ASSUME WritesComplete, TypeOK, BeginWrites, \A p \in Starts : queue[p].seq # seqState.next
    PROVE  \E lo \in DOMAIN queue' : OpenAt(queue', wr'.seq, wr'.crc, lo)
<1>1. /\ queue \in Seq(Elem) /\ ScanCompleted(seqState)
      /\ wr' = [seq |-> seqState.next, todo |-> list, crc |-> << >>]
  BY DEF BeginWrites, TypeOK
<1>2. queue' = Append(queue, Start(seqState.next)) /\ seqState.next \in SeqNo
  BY <1>1, CompletePushes, NextNumber
<1>3. \E lo \in DOMAIN queue' : OpenAt(queue', seqState.next, << >>, lo)
  BY <1>1, <1>2, OpenBegins DEF Starts
<1>4. wr'.seq = seqState.next /\ wr'.crc = << >>
  BY <1>1
<1> QED
  BY <1>3, <1>4

\* its data keep it open,
LEMMA DataKeepsOpen ==
    ASSUME WritesComplete, TypeOK, PushData,
           NEW lo \in DOMAIN queue, OpenAt(queue, wr.seq, wr.crc, lo)
    PROVE  lo \in DOMAIN queue' /\ OpenAt(queue', wr'.seq, wr'.crc, lo)
<1>0. queue \in Seq(Elem) /\ wr \in [seq : SeqNo, todo : Seq(Keys), crc : Seq(DataElem)]
  BY DEF TypeOK
<1>1. wr'.seq = wr.seq
  BY <1>0 DEF PushData
<1>2. CASE UNCHANGED queue /\ wr'.crc = wr.crc
  BY <1>1, <1>2
<1>3. CASE \E e \in DataElem : /\ e \in Elem /\ e.kind = "data"
                               /\ queue' = Append(queue, e)
                               /\ wr'.crc = Append(wr.crc, e)
  <2>1. PICK e \in Elem : /\ e.kind = "data" /\ queue' = Append(queue, e)
                          /\ wr'.crc = Append(wr.crc, e)
    BY <1>3
  <2>2. /\ OpenAt(Append(queue, e), wr.seq, Append(wr.crc, e), lo)
        /\ lo \in DOMAIN Append(queue, e)
    BY <1>0, <2>1, OpenGrows
  <2> QED BY <1>1, <2>1, <2>2
<1> QED
  BY <1>2, <1>3, CompletePushes

\* and its End closes it, so that the read-back finds what was written.
LEMMA EndCloses ==
    ASSUME WritesComplete, TypeOK, PushEnd,
           NEW lo \in DOMAIN queue, OpenAt(queue, wr.seq, wr.crc, lo)
    PROVE  lo \in DOMAIN queue' /\ Verified(lo, Len(queue))'
<1>1. queue \in Seq(Elem) /\ wr.seq \in SeqNo /\ wr.crc \in Seq(DataElem) /\ UNCHANGED wr
  BY DEF TypeOK, PushEnd
<1>2. queue' = Append(queue, End(wr.seq, wr.crc))
  BY CompletePushes
<1>3. lo \in DOMAIN queue' /\ VerifiedAt(queue', wr.seq, wr.crc, lo, Len(queue'))
  BY <1>1, <1>2, OpenCloses
<1> QED
  BY <1>1, <1>3 DEF Verified

\* So the record of a write is the first with its number, up to the read-back.
LEMMA NextRecordOpen ==
    ASSUME WritesComplete, StoreInv, NumberFree, RecordOpen, [Next]_vars
    PROVE  RecordOpen'
<1>0. TypeOK
  BY DEF StoreInv, GenuineInv, TypeInv
<1> SUFFICES ASSUME AnySeen(seqState'), io' \in { "push", "verify" } PROVE RecordOpen'
  BY DEF RecordOpen
<1>1. CASE Quiet
  BY <1>1 DEF Quiet, RecordOpen, Verified
<1>2. CASE BeginWrites
  <2>1. /\ UNCHANGED seqState /\ io = "idle" /\ ScanCompleted(seqState) /\ ~ seqState.gc
        /\ Len(queue) < Capacity /\ io' = "push"
    BY <1>2 DEF BeginWrites, Push
  <2>2. \A p \in Starts : queue[p].seq # seqState.next
    <3>1. ~ Len(queue) >= Capacity
      <4>1. Len(queue) \in Nat /\ Capacity \in Nat
        BY <1>0, StorageAssumption DEF TypeOK
      <4> QED BY <2>1, <4>1
    <3>2. \A p \in Starts : queue[p].seq < seqState.next
      BY <2>1, <3>1 DEF NumberFree
    <3>3. seqState.next \in Int /\ \A p \in Starts : queue[p].seq \in Int
      <4>1. queue \in Seq(Elem)
        BY <1>0 DEF TypeOK
      <4> QED BY <1>0, <2>1, <4>1, NextNumber, StartsAre DEF Starts, SeqNo
    <3> QED BY <3>2, <3>3
  <2> QED BY <1>0, <1>2, <2>1, <2>2, StartOpens DEF RecordOpen
<1>3. CASE PushData
  <2>1. io = "push" /\ io' = "push" /\ UNCHANGED seqState
    BY <1>3 DEF PushData
  <2>2. PICK lo \in DOMAIN queue : OpenAt(queue, wr.seq, wr.crc, lo)
    BY <2>1 DEF RecordOpen
  <2> QED BY <1>0, <1>3, <2>1, <2>2, DataKeepsOpen DEF RecordOpen
<1>4. CASE PushEnd
  <2>1. io = "push" /\ io' = "verify" /\ UNCHANGED << seqState, wr >>
    BY <1>4 DEF PushEnd
  <2>2. PICK lo \in DOMAIN queue : OpenAt(queue, wr.seq, wr.crc, lo)
    BY <2>1 DEF RecordOpen
  <2> QED BY <1>0, <1>4, <2>1, <2>2, EndCloses DEF RecordOpen
<1>5. CASE Forgets
  BY <1>5 DEF Forgets, NewSeqState, AnySeen
<1>6. CASE \/ ScanEnds \/ VerifyGood \/ CollectElement \/ BeginScan \/ EndCollect
           \/ (Scanning /\ ScanElement) \/ StorageFull \/ VerifyBad
           \/ io' = "idle"
  BY <1>6 DEF ScanEnds, VerifyGood, CollectElement, BeginScan, EndCollect, ScanElement,
     Scanning, StorageFull, VerifyBad
<1> QED
  BY <1>0, <1>1, <1>2, <1>3, <1>4, <1>5, <1>6, CompleteSteps

\* Nothing is cached yet.
LEMMA InitCompleteInv == Init => CompleteInv
  BY DEF Init, NewSeqState, CompleteInv, BootCached, FoundIsDue, CollectedInv, NumberFree,
     RecordOpen, AnySeen, Scanning

\* Every step keeps what the refinement rests on.
LEMMA NextCompleteInv ==
    ASSUME WritesComplete, MaxSeq < SeqLimit, StoreInv, CompleteInv, [Next]_vars
    PROVE  CompleteInv'
<1>1. "rot" \notin Events
  BY DEF WritesComplete
<1> QED
  BY <1>1, NextBootCached, NextFoundIsDue, NextCollectedInv, NextNumberFree, NextRecordOpen
     DEF CompleteInv

-----------------------------------------------------------------------------
(***************************************************************************)
(* The list implements ConfigStore.                                        *)
(***************************************************************************)
Clean == { k \in Attached : node[k].state = "ValidNoWriteNeeded" }

\* A node that is not attached holds nothing, so every node may be looked at.
LEMMA Views ==
    ASSUME TypeOK, NodesInv
    PROVE  /\ Ram = [k \in Keys |-> node[k].val]
           /\ Clean = { k \in Keys : node[k].state = "ValidNoWriteNeeded" }
           /\ \A k \in Keys : node[k].val # NoVal <=> Writable(k)
<1>1. Attached \subseteq Keys
  BY DEF TypeOK, Attached
<1>2. \A k \in Keys \ Attached : node[k].val = NoVal /\ node[k].state = "Initial"
  BY DEF NodesInv, Fresh
<1>3. ASSUME NEW k \in Keys PROVE node[k].val # NoVal <=> Writable(k)
  <2>1. node[k] \in Nodes /\ NoVal \notin Values
    BY Constants DEF TypeOK
  <2> QED BY <2>1 DEF Nodes, Writable
<1> QED
  BY <1>1, <1>2, <1>3 DEF Ram, Clean

\* The same after a step.
LEMMA NextViews ==
    ASSUME TypeOK, NodesInv, [Next]_vars, TypeOK'
    PROVE  /\ Ram' = [k \in Keys |-> node'[k].val]
           /\ Clean' = { k \in Keys : node'[k].state = "ValidNoWriteNeeded" }
<1>1. NodesInv'
  BY NextNodesInv
<1>2. Attached' \subseteq Keys
  <2>1. list' \in Seq(Keys)
    BY DEF TypeOK
  <2> QED BY <2>1 DEF Attached
<1>3. \A k \in Keys \ Attached' : node'[k].val = NoVal /\ node'[k].state = "Initial"
  BY <1>1 DEF NodesInv, Fresh
<1> QED
  BY <1>2, <1>3 DEF Ram, Clean

\* Of the nodes a read leaves, those of S hold what a restart would give them.
Recalls(nodes, S) ==
    \A k \in Keys :
        IF k \in S
        THEN nodes[k].val = Boot(queue)[k] /\ nodes[k].state = "ValidNoWriteNeeded"
        ELSE /\ nodes[k].val = node[k].val
             /\ nodes[k].state = "ValidNoWriteNeeded" <=> node[k].state = "ValidNoWriteNeeded"

\* The nodes that a read up to element `at` of the record at lo hydrates.
Due(lo, at, broken) ==
    { k \in Attached \ broken : node[k].state = "Initial" /\ Holds(queue, lo, at, k) }

\* Marking what is left NonResident loads nothing.
LEMMA MarkedRecalls ==
    ASSUME NEW nodes, NEW S, Recalls(nodes, S)
    PROVE  Recalls(MarkNonResident(nodes), S)
<1> SUFFICES ASSUME NEW k \in Keys
             PROVE  /\ MarkNonResident(nodes)[k].val = nodes[k].val
                    /\ \/ MarkNonResident(nodes)[k].state = nodes[k].state
                       \/ /\ nodes[k].state = "Initial"
                          /\ MarkNonResident(nodes)[k].state = "NonResident"
  BY DEF Recalls
<1> QED
  BY DEF MarkNonResident

\* A read of the record that a restart would read, complete or cut short.
LEMMA HydratedRecalls ==
    ASSUME Kept > 1, TypeOK, NodesInv, CrcsOnce(queue), NEW m, Foremost(queue, m),
           NEW h, h.lo = m.lo, NEW at \in Int, at <= DataStop(queue, m.lo), NEW broken
    PROVE  /\ Recalls(Hydrated(h, at, broken), Due(m.lo, at, broken))
           /\ \A k \in Due(m.lo, at, broken) : Boot(queue)[k] # NoVal
<1> DEFINE lo == m.lo
           hi == m.hi
           S == Due(lo, at, broken)
<1>1. /\ queue \in Seq(Elem) /\ node \in [Keys -> Nodes] /\ Attached \subseteq Keys
  BY DEF TypeOK, Attached
<1>2. /\ m \in GoodRecords(queue) /\ IsRecord(queue, lo, hi)
      /\ Boot(queue) = ImageOf(queue[hi].crc)
  BY <1>1, GoodRecordIs, BootCrc DEF Foremost, RecordAt
<1>3. at <= hi
  <2>1. /\ lo \in 1 .. Len(queue) /\ hi \in Int /\ lo < hi /\ queue[hi].kind = "end"
        /\ Len(queue) \in Nat
    BY <1>1, <1>2 DEF IsRecord
  <2> DEFINE stop == DataStop(queue, lo)
  <2>2. stop \in Int /\ \A i \in lo + 1 .. stop - 1 : queue[i].kind = "data"
    BY <1>1, <2>1, DataStopProperties
  <2>3. at <= stop
    OBVIOUS
  <2> HIDE DEF stop, lo, hi
  <2> QED BY <2>1, <2>2, <2>3
<1>4. OneEach(queue[hi].crc)
  BY <1>2 DEF CrcsOnce, IsRecord, Positions
<1>5. ASSUME NEW k \in S
      PROVE  PayloadOf(queue, lo, at, k) = Boot(queue)[k] /\ Boot(queue)[k] \in Values
  <2>1. k \in Keys /\ Holds(queue, lo, at, k)
    BY <1>1 DEF Due
  <2> QED BY <1>1, <1>2, <1>3, <1>4, <2>1, ReadOfRecord
<1>6. Recalls(Hydrated(h, at, broken), S)
  <2> SUFFICES ASSUME NEW k \in Keys
               PROVE  IF k \in S
                      THEN /\ Hydrated(h, at, broken)[k].val = Boot(queue)[k]
                           /\ Hydrated(h, at, broken)[k].state = "ValidNoWriteNeeded"
                      ELSE /\ Hydrated(h, at, broken)[k].val = node[k].val
                           /\ Hydrated(h, at, broken)[k].state = "ValidNoWriteNeeded"
                                  <=> node[k].state = "ValidNoWriteNeeded"
    BY DEF Recalls
  <2>0. node[k] \in Nodes
    BY <1>1
  <2>1. CASE k \in S
    <3>1. Hydrated(h, at, broken)[k]
              = [state |-> "ValidNoWriteNeeded", val |-> PayloadOf(queue, lo, at, k)]
      BY <2>1 DEF Due, Hydrated
    <3> QED BY <1>5, <2>1, <3>1
  <2>2. CASE k \notin S /\ k \in Attached /\ node[k].state = "Initial" /\ Holds(queue, lo, at, k)
    <3>1. Hydrated(h, at, broken)[k] = [node[k] EXCEPT !.state = "NonResident"]
      BY <2>2 DEF Due, Hydrated
    <3> QED BY <2>0, <2>2, <3>1 DEF Nodes
  <2>3. CASE ~ (k \in Attached /\ node[k].state = "Initial" /\ Holds(queue, lo, at, k))
    <3>1. Hydrated(h, at, broken)[k] = node[k] /\ k \notin S
      BY <2>3 DEF Due, Hydrated
    <3> QED BY <3>1
  <2> QED BY <2>1, <2>2, <2>3
<1> QED
  BY <1>5, <1>6, Constants

\* process_reads loads into nodes without payload, and only what a restart would find.
LEMMA ReadRecalls ==
    ASSUME Kept > 1, TypeOK, NodesInv, CrcsOnce(queue), NEW ss, NEW ok \in BOOLEAN,
           ReadRecord(ss, ok),
           AnySeen(ss) => \E m : Foremost(queue, m) /\ m.lo = HighestSeen(ss).lo
    PROVE  \E S \in SUBSET Attached :
               /\ \A k \in S : node[k].state = "Initial" /\ Boot(queue)[k] # NoVal
               /\ Recalls(node', S)
<1> DEFINE h == HighestSeen(ss)
           stop == DataStop(queue, h.lo)
<1>1. Recalls(node, {}) /\ Recalls(MarkNonResident(node), {})
  <2>1. Recalls(node, {})
    BY DEF Recalls
  <2> QED BY <2>1, MarkedRecalls
<1>2. CASE ~ AnySeen(ss) \/ ~ StartsAt(h)
  <2>1. Recalls(node', {})
    BY <1>1, <1>2 DEF ReadRecord, ReadAll, ReadFails
  <2> QED BY <2>1
<1>3. CASE AnySeen(ss) /\ StartsAt(h)
  <2>1. PICK m : Foremost(queue, m) /\ m.lo = h.lo
    BY <1>3
  <2>2. stop \in Int /\ h.lo \in Int
    <3>1. h.lo \in 1 .. Len(queue) /\ Len(queue) \in Nat /\ queue \in Seq(Elem)
      BY <1>3 DEF StartsAt, TypeOK
    <3> QED BY <3>1, DataStopProperties
  <2>3. \E at \in Int, broken \in SUBSET Attached :
            /\ at <= stop
            /\ \/ node' = Hydrated(h, at, broken)
               \/ node' = MarkNonResident(Hydrated(h, at, broken))
    <3>1. stop <= stop /\ \A i \in h.lo + 1 .. stop : i \in Int /\ i <= stop
      <4> HIDE DEF stop
      <4> QED BY <2>2
    <3>2. CASE ok
      <4>1. PICK broken \in SUBSET Attached : node' = MarkNonResident(Hydrated(h, stop, broken))
        BY <1>3, <3>2 DEF ReadRecord, ReadAll
      <4> QED BY <2>2, <3>1, <4>1
    <3>3. CASE ~ ok
      <4>1. \/ \E broken \in SUBSET Attached : node' = Hydrated(h, stop, broken)
            \/ \E at \in h.lo + 1 .. stop, broken \in SUBSET Attached :
                  node' = Hydrated(h, at, broken)
        BY <1>3, <3>3 DEF ReadRecord, ReadFails
      <4> HIDE DEF stop, h
      <4> QED BY <2>2, <3>1, <4>1
    <3> QED BY <3>2, <3>3
  <2>4. PICK at \in Int, broken \in SUBSET Attached :
            /\ at <= stop
            /\ \/ node' = Hydrated(h, at, broken)
               \/ node' = MarkNonResident(Hydrated(h, at, broken))
    BY <2>3
  <2> DEFINE S == Due(m.lo, at, broken)
  <2>5. Recalls(Hydrated(h, at, broken), S) /\ \A k \in S : Boot(queue)[k] # NoVal
    BY <2>1, <2>4, HydratedRecalls
  <2>6. Recalls(node', S)
    BY <2>4, <2>5, MarkedRecalls
  <2>7. S \in SUBSET Attached /\ \A k \in S : node[k].state = "Initial"
    BY DEF Due
  <2> QED BY <2>5, <2>6, <2>7
<1> QED
  BY <1>2, <1>3

\* What a step of the list does to the variables of ConfigStore.
AbstractStep == [Abstract!Next]_(Abstract!vars)

\* The three variables stay as they are.
LEMMA Stutters ==
    ASSUME Ram' = Ram, Clean' = Clean, Boot(queue') = Boot(queue)
    PROVE  AbstractStep
  BY DEF AbstractStep, Abstract!vars, Clean

\* The steps of a user, and a loss of power.
LEMMA NodeStepsRefine ==
    ASSUME TypeOK, NodesInv, [Next]_vars, TypeOK',
           \/ \E k \in Keys : Attach(k) \/ TakeDefault(k) \/ Detach(k)
           \/ \E k \in Keys, v \in Values : Write(k, v)
           \/ Crash
    PROVE  AbstractStep
<1>0. /\ node \in [Keys -> Nodes]
      /\ Ram = [k \in Keys |-> node[k].val] /\ Ram' = [k \in Keys |-> node'[k].val]
      /\ Clean = { k \in Keys : node[k].state = "ValidNoWriteNeeded" }
      /\ Clean' = { k \in Keys : node'[k].state = "ValidNoWriteNeeded" }
  BY Views, NextViews DEF TypeOK
<1>1. Boot(queue') = Boot(queue)
  BY DEF Attach, TakeDefault, Detach, Write, Crash
<1>2. ASSUME NEW k \in Keys, Attach(k) PROVE AbstractStep
  <2>1. node' = [node EXCEPT ![k] = Fresh] /\ node[k] = Fresh
    BY <1>2 DEF Attach, NodesInv
  <2>2. node' = node
    BY <1>0, <2>1
  <2> QED BY <1>0, <1>1, <2>2, Stutters
<1>3. ASSUME NEW k \in Keys, NEW v \in Values,
             node' = [node EXCEPT ![k] = [state |-> "NeedsWrite", val |-> v]]
      PROVE  AbstractStep
  <2>1. Ram' = [Ram EXCEPT ![k] = v]
    BY <1>0, <1>3
  <2>2. Clean' = Clean \ {k}
    BY <1>0, <1>3
  <2>3. Abstract!Set(k, v)
    BY <1>1, <2>1, <2>2 DEF Abstract!Set, Clean
  <2> QED BY <2>3 DEF AbstractStep, Abstract!Next
<1>4. ASSUME NEW k \in Keys, Detach(k) PROVE AbstractStep
  <2>1. node' = [node EXCEPT ![k] = [state |-> "Initial", val |-> NoVal]]
    BY <1>4 DEF Detach, Fresh
  <2>2. Ram' = [x \in Keys |-> IF x \in {k} THEN NoVal ELSE Ram[x]]
    BY <1>0, <2>1
  <2>3. Clean' = Clean \ {k}
    BY <1>0, <2>1
  <2>4. Abstract!Drop({k})
    BY <1>1, <2>2, <2>3 DEF Abstract!Drop, Clean
  <2> QED BY <2>4 DEF AbstractStep, Abstract!Next
<1>5. CASE Crash
  <2>1. node' = [k \in Keys |-> [state |-> "Initial", val |-> NoVal]]
    BY <1>5 DEF Crash, Fresh
  <2>2. Ram' = [x \in Keys |-> IF x \in Keys THEN NoVal ELSE Ram[x]]
    BY <1>0, <2>1
  <2>3. Clean' = Clean \ Keys
    BY <1>0, <2>1
  <2>4. Abstract!Drop(Keys)
    BY <1>1, <2>2, <2>3 DEF Abstract!Drop, Clean
  <2> QED BY <2>4 DEF AbstractStep, Abstract!Next
<1>6. ASSUME NEW k \in Keys, TakeDefault(k) PROVE AbstractStep
  BY <1>3, <1>6, Constants DEF TakeDefault
<1>7. ASSUME NEW k \in Keys, NEW v \in Values, Write(k, v) PROVE AbstractStep
  BY <1>3, <1>7 DEF Write
<1> QED
  BY <1>2, <1>4, <1>5, <1>6, <1>7

\* process_reads recalls payloads of the record that a restart would read.
LEMMA ReadsRefine ==
    ASSUME Kept > 1, StoreInv, ImageInv, BootCached, [Next]_vars, TypeOK',
           NEW ok \in BOOLEAN, ProcessReads(ok) \/ EndReadScan(ok)
    PROVE  AbstractStep
<1>0. /\ TypeInv /\ TypeOK /\ GenuineInv /\ NodesInv /\ ScanCovers /\ CrcsOnce(queue)
      /\ queue \in Seq(Elem)
  BY DEF StoreInv, GenuineInv, SurvivalInv, TypeInv, TypeOK, ImageInv
<1>1. /\ Ram = [k \in Keys |-> node[k].val] /\ Ram' = [k \in Keys |-> node'[k].val]
      /\ Clean = { k \in Keys : node[k].state = "ValidNoWriteNeeded" }
      /\ Clean' = { k \in Keys : node'[k].state = "ValidNoWriteNeeded" }
      /\ \A k \in Keys : node[k].val # NoVal <=> Writable(k)
  BY <1>0, Views, NextViews
<1>2. UNCHANGED queue
  BY DEF ProcessReads, EndReadScan
<1>3. PICK ss : /\ ReadRecord(ss, ok)
                /\ AnySeen(ss) => /\ AnySeen(seqState) /\ HighestSeen(ss) = HighestSeen(seqState)
                                  /\ \A r \in Good : Leads(r.seq, r.lo)
  <2>1. CASE ProcessReads(ok)
    BY <2>1 DEF ProcessReads, BootCached
  <2>2. CASE EndReadScan(ok)
    <3>1. ScanEnds /\ seqState' = Populated /\ ReadRecord(Populated, ok)
      BY <2>2 DEF EndReadScan, ScanEnds, ScanDone
    <3>2. AnySeen(Populated) = AnySeen(seqState) /\ HighestSeen(Populated) = HighestSeen(seqState)
      BY <1>0, <3>1, ScanEndsCache
    <3> QED BY <1>0, <3>1, <3>2, ScanEndsLeads
  <2> QED BY <2>1, <2>2
<1>4. AnySeen(ss) => \E m : Foremost(queue, m) /\ m.lo = HighestSeen(ss).lo
  <2> SUFFICES ASSUME AnySeen(ss)
               PROVE  \E m : Foremost(queue, m) /\ m.lo = HighestSeen(seqState).lo
    BY <1>3
  <2>1. HighestSeen(seqState) \in Recs
    BY <1>0, <1>3, HighestIsHeld
  <2>2. PICK m \in Good : m.seq = HighestSeen(seqState).seq /\ m.lo = HighestSeen(seqState).lo
    BY <1>0, <2>1, CachedIsGood
  <2> QED BY <1>3, <2>2 DEF Foremost, Good, Leads
<1>5. PICK S \in SUBSET Attached :
            /\ \A k \in S : node[k].state = "Initial" /\ Boot(queue)[k] # NoVal
            /\ Recalls(node', S)
  BY <1>0, <1>3, <1>4, ReadRecalls
<1>6. S \in SUBSET Keys
  <2>1. list \in Seq(Keys)
    BY <1>0 DEF TypeOK
  <2>2. Attached \subseteq Keys
    BY <2>1 DEF Attached
  <2> QED BY <2>2
<1>7. \A k \in S : Ram[k] = NoVal
  BY <1>1, <1>5, <1>6 DEF Writable
<1>8. Ram' = [k \in Keys |-> IF k \in S THEN Boot(queue)[k] ELSE Ram[k]]
  BY <1>1, <1>5 DEF Recalls
<1>9. Clean' = Clean \cup S
  BY <1>1, <1>5, <1>6 DEF Recalls
<1>10. Abstract!Recall(S)
  BY <1>2, <1>5, <1>7, <1>8, <1>9 DEF Abstract!Recall, Abstract!Held, Clean
<1> QED
  BY <1>6, <1>10 DEF AbstractStep, Abstract!Next

\* process_writes marks nodes clean when a restart would find what they all hold.
LEMMA VerifyRefines ==
    ASSUME Kept > 1, StoreInv, ImageInv, [Next]_vars, TypeOK', VerifyGood
    PROVE  AbstractStep
<1>0. /\ TypeOK /\ GenuineInv /\ NodesInv /\ WrittenInv /\ CacheCovers /\ WriteInv
      /\ CrcsOnce(queue) /\ queue \in Seq(Elem) /\ node \in [Keys -> Nodes]
  BY DEF StoreInv, GenuineInv, SurvivalInv, TypeInv, TypeOK, ImageInv
<1>1. /\ Ram = [k \in Keys |-> node[k].val] /\ Ram' = [k \in Keys |-> node'[k].val]
      /\ Clean' = { k \in Keys : node'[k].state = "ValidNoWriteNeeded" }
      /\ \A k \in Keys : node[k].val # NoVal <=> Writable(k)
  BY <1>0, Views, NextViews
<1>2. /\ UNCHANGED queue /\ io = "verify" /\ node' = Cleaned(node)
  BY DEF VerifyGood
<1>3. Boot(queue) = Ram
  <2> DEFINE lo == HighestSeen(seqState').lo
  <2>1. /\ HighestSeen(seqState').seq = wr.seq
        /\ \A p \in Starts : Leads(queue[p].seq, p)'
        /\ FirstStart(queue, wr.seq, lo)
        /\ \E hi \in DOMAIN queue : IsRecord(queue, lo, hi) /\ queue[hi] = End(wr.seq, wr.crc)
    BY <1>0, VerifiedLeads
  <2>2. PICK hi \in DOMAIN queue : IsRecord(queue, lo, hi) /\ queue[hi] = End(wr.seq, wr.crc)
    BY <2>1
  <2> DEFINE m == [seq |-> wr.seq, lo |-> lo, hi |-> hi]
  <2>3. m \in GoodRecords(queue)
    <3>1. queue[lo].seq = wr.seq
      BY <2>1 DEF FirstStart, Start
    <3> QED BY <1>0, <2>2, <3>1, RecordIsGood
  <2>4. ASSUME NEW r \in GoodRecords(queue) PROVE Ahead(m.seq, m.lo, r.seq, r.lo)
    <3>1. r.lo \in Starts /\ queue[r.lo].seq = r.seq
      BY <1>0, GoodRecordIs DEF Starts, Positions, RecordAt, IsRecord
    <3>2. Leads(r.seq, r.lo)'
      BY <1>2, <2>1, <3>1
    <3> QED BY <2>1, <3>2 DEF Leads
  <2>5. Foremost(queue, m)
    BY <2>3, <2>4 DEF Foremost
  <2>6. Boot(queue) = ImageOf(wr.crc)
    BY <1>0, <2>2, <2>5, BootCrc DEF End
  <2>7. wr.todo = << >>
    BY <1>0, <1>2 DEF WrittenInv
  <2> QED BY <1>0, <1>2, <2>6, <2>7, WrittenIsRam
<1>4. ASSUME NEW k \in Keys
      PROVE  /\ node'[k].val = node[k].val
             /\ node'[k].state = "ValidNoWriteNeeded" <=> Writable(k)
  <2>1. k \notin Attached => node[k].state = "Initial"
    BY <1>0 DEF NodesInv, Fresh
  <2>2. node[k] \in Nodes
    BY <1>0
  <2> QED BY <1>2, <2>1, <2>2 DEF Cleaned, Nodes, Writable
<1>5. Ram' = Ram
  BY <1>1, <1>4
<1>6. Clean' = { k \in Keys : Ram[k] # NoVal }
  BY <1>1, <1>4
<1>7. Abstract!Confirm
  BY <1>2, <1>3, <1>5, <1>6 DEF Abstract!Confirm, Abstract!Held, Clean
<1> QED
  BY <1>7 DEF AbstractStep, Abstract!Next

\* Every step of the list is one of ConfigStore, or a stutter.
LEMMA NextRefines ==
    ASSUME WritesComplete, Kept > 1, StoreInv, ImageInv, CompleteInv, [Next]_vars, TypeOK'
    PROVE  AbstractStep
<1>0. /\ "rot" \notin Events /\ TypeOK /\ NodesInv /\ BootCached
  BY DEF WritesComplete, StoreInv, GenuineInv, TypeInv, ImageInv, CompleteInv
<1>1. CASE UNCHANGED << list, node >>
  <2>1. Ram' = Ram /\ Clean' = Clean
    BY <1>1 DEF Ram, Clean, Attached
  <2>2. CASE Boot(queue') = Boot(queue)
    BY <2>1, <2>2, Stutters
  <2>3. CASE Boot(queue') = Ram
    <3>1. Abstract!Commit
      BY <2>1, <2>3 DEF Abstract!Commit, Clean
    <3> QED BY <3>1 DEF AbstractStep, Abstract!Next
  <2> QED BY <1>0, <2>2, <2>3, NextBoot
<1>2. CASE \/ \E k \in Keys : Attach(k) \/ TakeDefault(k) \/ Detach(k)
           \/ \E k \in Keys, v \in Values : Write(k, v)
           \/ Crash
  BY <1>0, <1>2, NodeStepsRefine
<1>3. CASE \E ok \in BOOLEAN : ProcessReads(ok) \/ EndReadScan(ok)
  BY <1>0, <1>3, ReadsRefine
<1>4. CASE VerifyGood
  BY <1>4, VerifyRefines
<1> QED
  BY <1>1, <1>2, <1>3, <1>4, NodeSteps

\* An empty list in front of an empty storage is an empty ConfigStore.
LEMMA InitRefines == Init => Abstract!Init
<1> SUFFICES ASSUME Init PROVE Abstract!Init
  OBVIOUS
<1>1. queue = << >> /\ list = << >>
  BY DEF Init
<1>2. Attached = {}
  BY <1>1 DEF Attached
<1>3. Boot(queue) = [k \in Keys |-> NoVal]
  <2>1. GoodRecords(queue) = {}
    <3>1. queue \in Seq(Elem) /\ Len(queue) = 0
      BY <1>1
    <3>2. \A r \in GoodRecords(queue) : r.lo \in 1 .. Len(queue)
      BY <3>1, GoodRecordIs
    <3> QED BY <3>1, <3>2
  <2> QED BY <2>1, BootOfNone
<1> QED
  BY <1>2, <1>3 DEF Abstract!Init, Ram

\* When no write fails half way and no scan is cut short, the list behaves like
\* ConfigStore although power fails at any step and reads and collections end early:
\* process_reads (storage_list.rs:258-310) loads only what a restart would find, and
\* process_writes (336-423) marks nodes clean only when what they all hold is what a
\* restart would find, so what a crash costs was never confirmed.
THEOREM RefinesConfigStore ==
    ASSUME WritesComplete, MaxSeq < SeqLimit, Kept > 1
    PROVE  Spec => ImplementsConfigStore
<1> DEFINE IInv == StoreInv /\ ImageInv /\ CompleteInv
<1>0. "rot" \notin Events /\ "scan" \notin Events
  BY DEF WritesComplete
<1>1. Init => IInv
  BY InitStoreInv, InitImageInv, InitCompleteInv
<1>2. IInv /\ [Next]_vars => IInv'
  BY <1>0, NextStoreInv, NextImageInv, NextCompleteInv
<1>3. IInv => TypeOK
  BY DEF StoreInv, GenuineInv, TypeInv
<1>4. IInv /\ [Next]_vars /\ TypeOK' => [Abstract!Next]_(Abstract!vars)
  BY NextRefines DEF AbstractStep
<1> QED
  BY <1>1, <1>2, <1>3, <1>4, InitRefines, PTL DEF Spec, ImplementsConfigStore, Abstract!Spec

\* So, for the list itself: the payload of a node that process_writes or process_reads
\* marked ValidNoWriteNeeded is the one a restart would find, at any moment at which
\* power may fail ("only unsynced changes at power loss are lost",
\* REQUIREMENTS.md:58-60).
THEOREM CleanSurvives ==
    ASSUME WritesComplete, MaxSeq < SeqLimit, Kept > 1
    PROVE  Spec => []Abstract!CleanIsStored
<1>1. Spec => Abstract!Spec
  BY RefinesConfigStore DEF ImplementsConfigStore
<1>2. Abstract!Spec => []Abstract!CleanIsStored
  BY Abstract!CleanAlwaysStored
<1> QED
  BY <1>1, <1>2, PTL

=============================================================================
