---------------------------- MODULE Survival_proofs ----------------------------
(***************************************************************************)
(* That a scan finds the newest records of the storage, and that they stay *)
(* in it through writes, collections, interrupted calls and power failures,*)
(* for any number of keys, records, elements and faults.                   *)
(***************************************************************************)
EXTENDS StorageList_proofs

\* The good records, and the positions of the Starts.
Good   == GoodRecords(queue)
Starts == Positions(queue, "start")

\* A Start is an element like any other.
LEMMA StartsAre ==
    ASSUME NEW q \in Seq(Elem), NEW p \in Positions(q, "start")
    PROVE  p \in 1 .. Len(q) /\ q[p] = Start(q[p].seq) /\ q[p].seq \in SeqNo
<1>1. p \in 1 .. Len(q) /\ q[p].kind = "start" /\ q[p] \in Elem
  BY DEF Positions
<1> QED
  BY <1>1, ElemKinds, ElemIsStart

\* The Starts of a queue that grows at its end.
LEMMA AppendStarts ==
    ASSUME NEW q \in Seq(Elem), NEW e \in Elem, NEW p \in Positions(Append(q, e), "start")
    PROVE  \/ p \in Positions(q, "start") /\ Append(q, e)[p] = q[p]
           \/ p = Len(q) + 1 /\ Append(q, e)[p] = e /\ e.kind = "start"
  BY DEF Positions

\* The Starts of a queue that loses an element.
LEMMA RemoveStarts ==
    ASSUME NEW q \in Seq(Elem), NEW i \in DOMAIN q, NEW p \in Positions(RemoveAt(q, i), "start")
    PROVE  /\ p < i => p \in Positions(q, "start") /\ RemoveAt(q, i)[p] = q[p]
           /\ i <= p => p + 1 \in Positions(q, "start") /\ RemoveAt(q, i)[p] = q[p + 1]
           /\ p \in 1 .. Len(q) - 1
<1> DEFINE n == RemoveAt(q, i)
<1>1. /\ n \in Seq(Elem) /\ Len(n) = Len(q) - 1
      /\ \A j \in 1 .. Len(q) - 1 : n[j] = IF j < i THEN q[j] ELSE q[j + 1]
  BY RemoveAtProperties
<1>2. p \in DOMAIN n /\ n[p].kind = "start"
  BY DEF Positions
<1> HIDE DEF n
<1>3. p \in 1 .. Len(q) - 1 /\ Len(q) \in Nat
  BY <1>1, <1>2
<1>4. /\ p < i => n[p] = q[p] /\ p \in DOMAIN q
      /\ i <= p => n[p] = q[p + 1] /\ p + 1 \in DOMAIN q
  BY <1>1, <1>3
<1> QED
  BY <1>2, <1>3, <1>4 DEF Positions, n

\* What a step does to the storage, unless something in it rots.
LEMMA QueueSteps ==
    ASSUME "rot" \in Events => ~ Rot, TypeInv, [Next]_vars
    PROVE  \/ UNCHANGED queue
           \/ BeginWrites /\ queue' = Append(queue, Start(seqState.next))
           \/ /\ BeginWrites \/ PushData
              /\ \E e \in Elem : e.kind \in { "data", "bad" } /\ queue' = Append(queue, e)
           \/ PushEnd /\ queue' = Append(queue, End(wr.seq, wr.crc))
           \/ PushEnd /\ queue' = Append(queue, Bad)
           \/ CollectElement /\ queue' = RemoveAt(queue, gc.pos)
<1>0. TypeOK
  BY DEF TypeInv
<1>1. CASE UserStep
  BY <1>1 DEF UserStep, Attach, TakeDefault, Detach, Write, ResetCache
<1>2. CASE BeginWrites
  <2>1. Bad \in Elem /\ Bad.kind = "bad"
    BY ElemTypes DEF Bad
  <2> QED BY <1>2, <2>1 DEF BeginWrites, Push
<1>3. CASE PushData
  <2> DEFINE k == Head(wr.todo)
  <2>1. CASE Writable(k)
    <3>1. k \in Keys
      BY <1>0, <1>3 DEF PushData, TypeOK
    <3>2. Data(k, node[k].val) \in Elem
      BY <1>0, <2>1, <3>1, WritableHolds, ElemTypes
    <3>3. Bad \in Elem /\ Bad.kind = "bad" /\ Data(k, node[k].val).kind = "data"
      BY ElemTypes DEF Bad, Data
    <3>4. \/ queue' = Append(queue, Data(k, node[k].val)) \/ queue' = Append(queue, Bad)
      BY <1>3, <2>1 DEF PushData, Push
    <3> HIDE DEF k
    <3> QED BY <1>3, <3>2, <3>3, <3>4
  <2>2. CASE ~ Writable(k)
    BY <1>3, <2>2 DEF PushData
  <2> QED BY <2>1, <2>2
<1>4. CASE PushEnd
  BY <1>4 DEF PushEnd, Push
<1>5. CASE CollectElement
  BY <1>5 DEF CollectElement
<1>6. CASE \/ UNCHANGED vars \/ (\E ok \in BOOLEAN : ProcessReads(ok) \/ EndReadScan(ok))
           \/ BeginScan \/ ScanElement \/ StorageFull \/ VerifyGood \/ VerifyBad
           \/ BeginGarbage \/ EndCollect \/ EndGcScan
  BY <1>6 DEF vars, ProcessReads, EndReadScan, BeginScan, ScanElement, StorageFull,
              VerifyGood, VerifyBad, BeginGarbage, EndCollect, EndGcScan
<1>7. CASE FaultStep
  BY <1>7 DEF FaultStep, Interrupt, Crash, Rot, Event
<1> QED
  BY <1>1, <1>2, <1>3, <1>4, <1>5, <1>6, <1>7 DEF Next, IoStep

\* The calls that scan, and the steps that leave one of them scanning.
Scanning == io \in { "readScan", "gcScan" }

\* How a scan begins and goes on, unless something rots.
LEMMA ScanSteps ==
    ASSUME "rot" \in Events => ~ Rot, [Next]_vars, Scanning'
    PROVE  \/ Scanning /\ UNCHANGED << queue, seqState, scan >>
           \/ Scanning /\ ScanElement
           \/ BeginScan
           \/ EndCollect
<1>1. CASE UNCHANGED vars
  BY <1>1 DEF vars, Scanning
<1>2. CASE UserStep
  BY <1>2 DEF UserStep, Attach, TakeDefault, Detach, Write, ResetCache, Scanning, Locked
<1>3. CASE ScanElement
  BY <1>3 DEF ScanElement, Scanning
<1>4. CASE \/ (\E ok \in BOOLEAN : ProcessReads(ok) \/ EndReadScan(ok))
           \/ BeginWrites \/ PushData \/ PushEnd \/ StorageFull \/ VerifyGood \/ VerifyBad
           \/ BeginGarbage \/ CollectElement \/ EndGcScan
  BY <1>4 DEF ProcessReads, EndReadScan, BeginWrites, PushData, PushEnd, StorageFull,
              VerifyGood, VerifyBad, BeginGarbage, CollectElement, EndGcScan, Scanning
<1>5. CASE FaultStep
  BY <1>5 DEF FaultStep, Interrupt, Crash, Rot, Event, Scanning
<1> QED
  BY <1>1, <1>2, <1>3, <1>4, <1>5 DEF Next, IoStep

-----------------------------------------------------------------------------
(***************************************************************************)
(* What a scan has found so far.                                           *)
(***************************************************************************)

\* Numbers come from the writes, which stop before they run out.
NumberInv == \A p \in Starts : queue[p].seq <= MaxSeq

\* No Start is numbered past the bound.
LEMMA NextNumberInv ==
    ASSUME "rot" \in Events => ~ Rot, TypeInv, NumberInv, [Next]_vars
    PROVE  NumberInv'
<1>0. queue \in Seq(Elem) /\ TypeOK
  BY DEF TypeInv, TypeOK
<1> SUFFICES ASSUME NEW p \in Positions(queue', "start") PROVE queue'[p].seq <= MaxSeq
  BY DEF NumberInv, Starts
<1>1. CASE UNCHANGED queue
  BY <1>1 DEF NumberInv, Starts
<1>2. ASSUME NEW e \in Elem, queue' = Append(queue, e),
             e.kind = "start" => e.seq <= MaxSeq
      PROVE  queue'[p].seq <= MaxSeq
  <2>1. \/ p \in Starts /\ queue'[p] = queue[p]
        \/ queue'[p] = e /\ e.kind = "start"
    BY <1>0, <1>2, AppendStarts DEF Starts
  <2> QED BY <1>2, <2>1 DEF NumberInv
<1>3. CASE BeginWrites /\ queue' = Append(queue, Start(seqState.next))
  <2>1. Start(seqState.next) \in Elem /\ Start(seqState.next).seq <= MaxSeq
    BY <1>0, <1>3, NextNumber, ElemTypes DEF BeginWrites, Start
  <2> QED BY <1>2, <1>3, <2>1
<1>4. CASE \E e \in Elem : e.kind \in { "data", "bad" } /\ queue' = Append(queue, e)
  BY <1>2, <1>4
<1>5. CASE queue' = Append(queue, End(wr.seq, wr.crc)) \/ queue' = Append(queue, Bad)
  <2>1. /\ End(wr.seq, wr.crc) \in Elem /\ End(wr.seq, wr.crc).kind = "end"
        /\ Bad \in Elem /\ Bad.kind = "bad"
    BY <1>0, ElemTypes DEF TypeOK, End, Bad
  <2> QED BY <1>2, <1>5, <2>1
<1>6. CASE CollectElement /\ queue' = RemoveAt(queue, gc.pos)
  <2>1. gc.pos \in DOMAIN queue
    BY <1>6 DEF CollectElement
  <2>2. \E m \in Starts : queue'[p] = queue[m]
    <3>1. p \in Positions(RemoveAt(queue, gc.pos), "start")
      BY <1>6
    <3>2. /\ p < gc.pos => p \in Starts /\ queue'[p] = queue[p]
          /\ gc.pos <= p => p + 1 \in Starts /\ queue'[p] = queue[p + 1]
          /\ p \in Int
      BY <1>0, <1>6, <2>1, <3>1, RemoveStarts DEF Starts
    <3>3. gc.pos \in Int
      BY <1>0 DEF TypeOK
    <3> QED BY <3>2, <3>3
  <2> QED BY <2>2 DEF NumberInv
<1> QED
  BY <1>1, <1>3, <1>4, <1>5, <1>6, QueueSteps

\* A record of a genuine cache is numbered like its Start.
LEMMA CachedIsStart ==
    ASSUME GenuineInv, NEW r \in Recs
    PROVE  /\ r \in GoodWriteRecord /\ r.lo \in Starts
           /\ queue[r.lo] = Start(r.seq) /\ queue[r.lo].seq = r.seq
<1>1. r \in GoodWriteRecord
  BY DEF Recs, GenuineInv, TypeInv, TypeOK, SeqStates
<1>2. queue[r.lo] = Start(r.seq) /\ \E hi : IsRecord(queue, r.lo, hi)
  BY DEF GenuineInv, CacheGenuine, Genuine
<1>3. queue[r.lo].seq = r.seq
  BY <1>2 DEF Start
<1> QED
  BY <1>1, <1>2, <1>3 DEF IsRecord, Starts, Positions

\* The newest record of the cache.
LEMMA HighestIsHeld ==
    ASSUME TypeInv, AnySeen(seqState)
    PROVE  HighestSeen(seqState) \in Recs
<1>1. seqState.recs \in Seq(GoodWriteRecord) /\ Len(seqState.recs) \in DOMAIN seqState.recs
  BY DEF TypeInv, TypeOK, SeqStates, AnySeen
<1> QED
  BY <1>1 DEF HighestSeen, Recs

\* As long as numbers do not run out, a cache that has no next number is empty.
LEMMA UnscannedIsEmpty ==
    ASSUME GenuineInv, NumberInv, MaxSeq < SeqLimit, ~ ScanCompleted(seqState)
    PROVE  seqState.recs = << >>
<1> SUFFICES ASSUME AnySeen(seqState) PROVE FALSE
  BY DEF AnySeen
<1> DEFINE h == HighestSeen(seqState)
<1>1. h \in Recs
  BY HighestIsHeld DEF GenuineInv
<1>2. seqState.next = CheckedNext(h.seq)
  BY DEF GenuineInv, TypeInv, CacheOrdered, Consistent
<1> HIDE DEF h
<1>3. h \in GoodWriteRecord /\ h.lo \in Starts /\ queue[h.lo].seq = h.seq
  BY <1>1, CachedIsStart
<1>4. h.seq <= MaxSeq /\ h.seq \in SeqNo
  BY <1>3 DEF NumberInv, GoodWriteRecord
<1> QED
  BY <1>2, <1>4, Constants DEF CheckedNext, ScanCompleted, SeqNo

\* The record that begins last among those read so far is the one being read.
ScanOpen ==
    Scanning =>
        \A p \in 1 .. scan.at - 1 :
            queue[p].kind = "start" /\ (\A i \in p + 1 .. scan.at - 1 : queue[i].kind = "data")
                => scan.from = p

\* The scan remembers the record it is in.
LEMMA NextScanOpen ==
    ASSUME "rot" \in Events => ~ Rot, TypeInv, ScanOpen, [Next]_vars
    PROVE  ScanOpen'
<1> SUFFICES ASSUME Scanning' PROVE ScanOpen'
  BY DEF ScanOpen
<1>1. CASE Scanning /\ UNCHANGED << queue, seqState, scan >>
  BY <1>1 DEF ScanOpen
<1>2. CASE BeginScan \/ EndCollect
  <2>1. scan'.at = 1
    BY <1>2 DEF BeginScan, EndCollect, NoScan
  <2> QED BY <2>1 DEF ScanOpen
<1>3. CASE Scanning /\ ScanElement
  <2> DEFINE e == queue[scan.at]
  <2>1. /\ scan.at \in 1 .. Len(queue) /\ scan.from \in Nat /\ Len(queue) \in Nat
        /\ e \in Elem /\ queue' = queue /\ scan' = Past(e)
        /\ scan \in [at : Nat \ {0}, from : Nat, seq : SeqNo, crc : Seq(DataElem)]
    BY <1>3 DEF ScanElement, TypeInv, TypeOK
  <2>2. /\ scan'.at = scan.at + 1
        /\ e.kind = "start" => scan'.from = scan.at
        /\ e.kind = "data" /\ scan.from # 0 => scan'.from = scan.from
    BY <2>1 DEF Past, NoScan
  <2> HIDE DEF e
  <2>3. SUFFICES ASSUME NEW p \in 1 .. scan.at, queue[p].kind = "start",
                        \A i \in p + 1 .. scan.at : queue[i].kind = "data"
                 PROVE  scan'.from = p
    BY <2>1, <2>2 DEF ScanOpen
  <2>4. CASE p = scan.at
    BY <2>2, <2>3, <2>4 DEF e
  <2>5. CASE p < scan.at
    <3>1. /\ e.kind = "data" /\ p \in 1 .. scan.at - 1
          /\ \A i \in p + 1 .. scan.at - 1 : queue[i].kind = "data"
      BY <2>1, <2>3, <2>5 DEF e
    <3>2. scan.from = p
      BY <1>3, <2>3, <3>1 DEF ScanOpen
    <3> QED BY <2>2, <3>1, <3>2
  <2> QED BY <2>1, <2>3, <2>4, <2>5
<1> QED
  BY <1>1, <1>2, <1>3, ScanSteps

\* The good records that end in front of the next element of the scan.
GoodBelow == { r \in Good : r.hi < scan.at }

\* The next element ends a good record exactly when it closes the record being
\* read, and it is that record.
LEMMA ScannedRecord ==
    ASSUME TypeInv, ScanInv, ScanOpen, Scanning, scan.at \in DOMAIN queue
    PROVE  LET e == queue[scan.at]
               rec == [seq |-> e.seq, lo |-> scan.from, hi |-> scan.at]
           IN  /\ Closes(e) => rec \in Good
               /\ \A r \in Good : r.hi = scan.at => Closes(e) /\ r = rec
<1> DEFINE e == queue[scan.at]
           rec == [seq |-> e.seq, lo |-> scan.from, hi |-> scan.at]
<1>1. /\ queue \in Seq(Elem) /\ Len(queue) \in Nat /\ scan.at \in 1 .. Len(queue)
      /\ scan.from \in Nat
  BY DEF TypeInv, TypeOK
<1>2. scan.from # 0 =>
        /\ scan.from < scan.at /\ queue[scan.from] = Start(scan.seq)
        /\ \A i \in scan.from + 1 .. scan.at - 1 : queue[i].kind = "data"
        /\ scan.crc = SubSeq(queue, scan.from + 1, scan.at - 1)
  BY DEF ScanInv, Scanning
<1>3. ASSUME Closes(e) PROVE rec \in Good
  <2>1. e.kind = "end" /\ scan.from # 0 /\ e.seq = scan.seq /\ e.crc = scan.crc
    BY <1>3 DEF Closes
  <2>2. IsRecord(queue, scan.from, scan.at) /\ queue[scan.from].seq = e.seq
    BY <1>1, <1>2, <2>1 DEF IsRecord, Start
  <2>3. [seq |-> queue[scan.from].seq, lo |-> scan.from, hi |-> scan.at] \in Good
    BY <1>1, <2>2, RecordIsGood DEF Good
  <2> QED BY <2>2, <2>3
<1>4. ASSUME NEW r \in Good, r.hi = scan.at PROVE Closes(e) /\ r = rec
  <2>1. r \in GoodWriteRecord /\ r.lo \in 1 .. Len(queue) /\ queue[r.lo] = Start(r.seq)
        /\ IsRecord(queue, r.lo, scan.at)
    BY <1>1, <1>4, GoodRecordIs DEF Good, RecordAt
  <2>2. /\ r.lo < scan.at /\ queue[r.lo].kind = "start" /\ e.kind = "end"
        /\ e.seq = queue[r.lo].seq /\ e.crc = SubSeq(queue, r.lo + 1, scan.at - 1)
        /\ \A i \in r.lo + 1 .. scan.at - 1 : queue[i].kind = "data"
    BY <2>1 DEF IsRecord
  <2>3. r.lo \in 1 .. scan.at - 1
    BY <1>1, <2>1, <2>2
  <2>4. scan.from = r.lo
    BY <2>2, <2>3 DEF ScanOpen
  <2>5. scan.seq = r.seq /\ e.seq = r.seq /\ scan.from # 0 /\ e.crc = scan.crc
    BY <1>2, <2>1, <2>2, <2>3, <2>4 DEF Start
  <2>6. Closes(e)
    BY <2>2, <2>5 DEF Closes
  <2>7. r = rec
    BY <1>4, <2>1, <2>4, <2>5 DEF GoodWriteRecord
  <2> QED BY <2>6, <2>7
<1> QED
  BY <1>3, <1>4

(***************************************************************************)
(* What the cache holds in the middle of a scan: good records that the     *)
(* scan has passed, all of them as long as there is room, and otherwise    *)
(* none that is older than one it has left out.                            *)
(***************************************************************************)
ScanCollects ==
    Scanning =>
        /\ Recs \subseteq GoodBelow
        /\ Distinct(seqState.recs)
        /\ Len(seqState.recs) < Kept => Recs = GoodBelow
        /\ \A r \in GoodBelow \ Recs, s \in Recs : ~ Newer(r, s)

\* An array without duplicates holds as many records as it has slots in use.
LEMMA HeldCount ==
    ASSUME NEW recs \in Seq(GoodWriteRecord), Distinct(recs)
    PROVE  IsFiniteSet(Held(recs)) /\ Cardinality(Held(recs)) = Len(recs)
<1> DEFINE f == [i \in 1 .. Len(recs) |-> recs[i]]
<1>1. Len(recs) \in Nat /\ DOMAIN recs = 1 .. Len(recs)
  OBVIOUS
<1>2. f \in Bijection(1 .. Len(recs), Held(recs))
  BY <1>1 DEF Bijection, Injection, IsInjective, Surjection, Held, Distinct
<1>3. ExistsBijection(1 .. Len(recs), Held(recs))
  BY <1>2 DEF ExistsBijection
<1>4. /\ IsFiniteSet(1 .. Len(recs)) /\ Cardinality(1 .. Len(recs)) = Len(recs)
  BY <1>1, UpTo
<1> QED
  BY <1>3, <1>4, FS_Bijection

\* A queue has finitely many good records.
LEMMA GoodFinite ==
    ASSUME NEW q \in Seq(Elem)
    PROVE  IsFiniteSet(GoodRecords(q)) /\ Cardinality(GoodRecords(q)) \in Nat
<1> DEFINE f == [r \in GoodRecords(q) |-> r.lo]
<1>1. f \in [GoodRecords(q) -> 1 .. Len(q)]
  BY GoodRecordIs
<1>2. ASSUME NEW r \in GoodRecords(q), NEW s \in GoodRecords(q), r.lo = s.lo PROVE r = s
  <2>1. /\ r \in GoodWriteRecord /\ q[r.lo].seq = r.seq /\ IsRecord(q, r.lo, r.hi)
        /\ s \in GoodWriteRecord /\ q[s.lo].seq = s.seq /\ IsRecord(q, s.lo, s.hi)
    BY GoodRecordIs DEF RecordAt
  <2>2. r.hi = s.hi /\ r.seq = s.seq
    BY <1>2, <2>1, OneEnd
  <2> QED BY <1>2, <2>1, <2>2 DEF GoodWriteRecord
<1>3. f \in Injection(GoodRecords(q), 1 .. Len(q))
  BY <1>1, <1>2 DEF Injection, IsInjective
<1>4. IsFiniteSet(1 .. Len(q))
  BY UpTo
<1> QED
  BY <1>3, <1>4, FS_Injection, FS_CardinalityType

\* A scan begins with an empty cache at the head of the queue.
LEMMA ScanStarts ==
    ASSUME TypeInv, seqState'.recs = << >>, scan' = NoScan, UNCHANGED queue
    PROVE  ScanCollects'
<1>1. Recs' = {} /\ Distinct(seqState'.recs)
  BY DEF Recs, Distinct
<1>2. GoodBelow' = {}
  <2>1. \A r \in Good : ~ r.hi < 1
    BY GoodRecordIs DEF Good, TypeInv, TypeOK
  <2>2. Good' = Good /\ scan'.at = 1
    BY DEF Good, NoScan
  <2> QED BY <2>1, <2>2 DEF GoodBelow
<1> QED
  BY <1>1, <1>2 DEF ScanCollects

\* Each element it visits keeps account of the records passed.
LEMMA ScanProceeds ==
    ASSUME TypeInv, ScanInv, ScanOpen, ScanCollects, Scanning, ScanElement
    PROVE  ScanCollects'
<1> DEFINE e == queue[scan.at]
           rec == [seq |-> e.seq, lo |-> scan.from, hi |-> scan.at]
           found == { r \in Good : r.hi = scan.at }
<1>1. /\ scan.at \in 1 .. Len(queue) /\ scan.at \in DOMAIN queue
      /\ queue' = queue /\ scan' = Past(e)
      /\ scan \in [at : Nat \ {0}, from : Nat, seq : SeqNo, crc : Seq(DataElem)]
      /\ queue \in Seq(Elem) /\ seqState \in SeqStates /\ Consistent(seqState)
  BY DEF ScanElement, TypeInv, TypeOK, CacheOrdered
<1>2. scan'.at = scan.at + 1
  BY <1>1 DEF Past, NoScan
<1>3. GoodBelow' = GoodBelow \cup found
  <2>1. \A r \in Good : r.hi \in Nat
    BY <1>1, GoodRecordIs DEF Good, GoodWriteRecord
  <2>2. Good' = Good
    BY <1>1 DEF Good
  <2> QED BY <1>1, <1>2, <2>1, <2>2 DEF GoodBelow
<1>4. /\ Recs \subseteq GoodBelow /\ Distinct(seqState.recs)
      /\ Len(seqState.recs) < Kept => Recs = GoodBelow
      /\ \A r \in GoodBelow \ Recs, s \in Recs : ~ Newer(r, s)
  BY DEF ScanCollects
<1>5. Recs = Held(seqState.recs) /\ Recs' = Held(seqState'.recs)
  BY DEF Recs, Held
<1>6. CASE ~ Closes(e)
  <2>1. found = {}
    BY <1>1, <1>6, ScannedRecord
  <2>2. seqState' = seqState
    BY <1>6 DEF ScanElement
  <2>3. Recs' = Recs /\ GoodBelow' = GoodBelow
    BY <1>3, <2>1, <2>2 DEF Recs
  <2> QED BY <1>4, <2>2, <2>3 DEF ScanCollects
<1>7. CASE Closes(e)
  <2>1. found = {rec} /\ rec \in GoodWriteRecord /\ rec.hi = scan.at
    <3>1. rec \in Good /\ \A r \in Good : r.hi = scan.at => r = rec
      BY <1>1, <1>7, ScannedRecord
    <3>2. rec \in GoodWriteRecord
      BY <1>1, <3>1, GoodRecordIs DEF Good
    <3> QED BY <3>1, <3>2
  <2>2. seqState' = InsertGood(seqState, rec)
    BY <1>7 DEF ScanElement
  <2> HIDE DEF rec, found
  <2>3. rec \notin Recs
    BY <1>1, <1>4, <2>1 DEF GoodBelow
  <2>4. /\ Recs' \subseteq Recs \cup {rec}
        /\ Len(seqState.recs) < Kept => Recs' = Recs \cup {rec}
        /\ Len(seqState.recs) >= Kept => Len(seqState'.recs) >= Kept
        /\ \A r \in (Recs \cup {rec}) \ Recs', s \in Recs' : ~ Newer(r, s)
        /\ Distinct(seqState.recs) /\ rec \notin Recs => Distinct(seqState'.recs)
    BY <1>1, <1>5, <2>1, <2>2, InsertGoodHeld
  <2>5. GoodBelow' = GoodBelow \cup {rec}
    BY <1>3, <2>1
  <2>6. Len(seqState'.recs) < Kept => Recs' = GoodBelow'
    <3>1. seqState' \in SeqStates
      BY <1>1, <2>1, <2>2, InsertGoodProperties DEF Consistent
    <3>2. Len(seqState'.recs) \in Nat /\ Len(seqState.recs) \in Nat
      BY <1>1, <3>1 DEF SeqStates
    <3> QED BY <1>4, <2>4, <2>5, <3>2, Constants
  <2>7. ASSUME NEW r \in GoodBelow' \ Recs', NEW s \in Recs' PROVE ~ Newer(r, s)
    <3>1. CASE r \in Recs \cup {rec}
      BY <2>4, <2>7, <3>1
    <3>2. CASE r \notin Recs \cup {rec}
      <4>1. r \in GoodBelow \ Recs
        BY <2>5, <2>7, <3>2
      <4>2. CASE s \in Recs
        BY <1>4, <4>1, <4>2
      <4>3. CASE s \notin Recs
        \* then the insertion replaced a record by rec, which is no older
        <5>1. s = rec
          BY <2>4, <2>7, <4>3
        <5>2. Len(seqState.recs) >= Kept
          <6>1. Len(seqState.recs) \in Nat /\ Kept \in Nat
            BY <1>1, Constants DEF SeqStates
          <6> QED BY <1>4, <4>1, <6>1
        <5>3. PICK t \in Recs : t \notin Recs'
          <6>1. /\ seqState' \in SeqStates /\ Len(seqState'.recs) <= Kept
                /\ Distinct(seqState'.recs)
            BY <1>1, <1>4, <2>1, <2>2, <2>3, <2>4, InsertGoodProperties DEF Consistent
          <6>2. /\ IsFiniteSet(Recs) /\ Cardinality(Recs) = Len(seqState.recs)
                /\ IsFiniteSet(Recs') /\ Cardinality(Recs') = Len(seqState'.recs)
            BY <1>1, <1>4, <1>5, <6>1, HeldCount DEF SeqStates
          <6>3. /\ IsFiniteSet(Recs \cup {rec})
                /\ Cardinality(Recs \cup {rec}) = Len(seqState.recs) + 1
            BY <2>3, <6>2, FS_AddElement
          <6>4. /\ Len(seqState.recs) \in Nat /\ Len(seqState'.recs) \in Nat
                /\ Len(seqState'.recs) <= Len(seqState.recs)
            <7>1. Len(seqState.recs) \in Nat /\ Len(seqState'.recs) \in Nat /\ Kept \in Nat
              BY <1>1, <6>1, Constants DEF SeqStates
            <7> QED BY <5>2, <6>1, <7>1
          <6>5. ~ (Recs \cup {rec} \subseteq Recs')
            BY <6>2, <6>3, <6>4, FS_Subset
          <6> QED BY <2>7, <5>1, <6>5
        <5>4. /\ ~ Newer(r, t) /\ ~ Newer(t, s)
          BY <1>4, <2>4, <2>7, <4>1, <5>3
        <5>5. r.seq \in Int /\ s.seq \in Int /\ t.seq \in Int
          <6>1. r \in GoodWriteRecord
            BY <1>1, <4>1, GoodRecordIs DEF Good, GoodBelow
          <6>2. t \in GoodWriteRecord /\ s \in GoodWriteRecord
            BY <1>1, <2>1, <5>1, <5>3 DEF Recs, SeqStates
          <6> QED BY <6>1, <6>2, SeqIsInt
        <5> QED BY <5>4, <5>5 DEF Newer
      <4> QED BY <4>2, <4>3
    <3> QED BY <3>1, <3>2
  <2>8. Recs' \subseteq GoodBelow' /\ Distinct(seqState'.recs)
    BY <1>4, <2>3, <2>4, <2>5
  <2> QED BY <2>6, <2>7, <2>8 DEF ScanCollects
<1> QED
  BY <1>6, <1>7

\* So a scan holds the newest of the records it has passed.
LEMMA NextScanCollects ==
    ASSUME "rot" \notin Events, MaxSeq < SeqLimit,
           GenuineInv, NumberInv, ScanOpen, ScanCollects, [Next]_vars
    PROVE  ScanCollects'
<1> SUFFICES ASSUME Scanning' PROVE ScanCollects'
  BY DEF ScanCollects
<1>0. TypeInv /\ ScanInv /\ CollectInv
  BY DEF GenuineInv
<1>1. CASE Scanning /\ UNCHANGED << queue, seqState, scan >>
  BY <1>1 DEF ScanCollects, Recs, GoodBelow, Good
<1>2. CASE Scanning /\ ScanElement
  BY <1>0, <1>2, ScanProceeds
<1>3. CASE BeginScan
  <2>1. seqState.recs = << >>
    BY <1>3, UnscannedIsEmpty DEF BeginScan
  <2> QED BY <1>0, <1>3, <2>1, ScanStarts DEF BeginScan
<1>4. CASE EndCollect
  BY <1>0, <1>4, ScanStarts DEF EndCollect, CollectInv
<1> QED
  BY <1>1, <1>2, <1>3, <1>4, ScanSteps

ScanningInv == NumberInv /\ ScanOpen /\ ScanCollects

\* No scan is going on at the start.
LEMMA InitScanning == Init => ScanningInv
<1> SUFFICES ASSUME Init PROVE ScanningInv
  OBVIOUS
<1>1. queue = << >> /\ io = "idle"
  BY DEF Init
<1> QED
  BY <1>1 DEF ScanningInv, NumberInv, ScanOpen, ScanCollects, Scanning, Starts, Positions

\* At the end of the queue the records in front of the scan are all there are.
LEMMA CollectedIsAll ==
    ASSUME GenuineInv, ScanningInv
    PROVE  ScanFindsNewest
<1> SUFFICES ASSUME ScanDone
             PROVE  /\ Recs \subseteq Good
                    /\ Cardinality(Recs) = IF Cardinality(Good) < Kept
                                           THEN Cardinality(Good) ELSE Kept
                    /\ \A r \in Good \ Recs, s \in Recs : ~ Newer(r, s)
  BY DEF ScanFindsNewest, Good
<1>1. /\ queue \in Seq(Elem) /\ Len(queue) \in Nat /\ scan.at \in Nat \ {0}
      /\ seqState.recs \in Seq(GoodWriteRecord) /\ Len(seqState.recs) <= Kept
  BY DEF GenuineInv, TypeInv, TypeOK, SeqStates, CacheOrdered, Consistent
<1>2. Scanning /\ scan.at = Len(queue) + 1
  <2>1. Scanning /\ scan.at \notin DOMAIN queue
    BY DEF ScanDone, Scanning
  <2>2. scan.at <= Len(queue) + 1
    BY <2>1 DEF GenuineInv, ScanInv, Scanning
  <2> QED BY <1>1, <2>1, <2>2
<1>3. GoodBelow = Good
  <2>1. \A r \in Good : r.hi < scan.at
    BY <1>1, <1>2, GoodRecordIs DEF Good
  <2> QED BY <2>1 DEF GoodBelow
<1>4. /\ Recs \subseteq Good
      /\ Distinct(seqState.recs)
      /\ Len(seqState.recs) < Kept => Recs = Good
      /\ \A r \in Good \ Recs, s \in Recs : ~ Newer(r, s)
  BY <1>2, <1>3 DEF ScanningInv, ScanCollects
<1>5. IsFiniteSet(Recs) /\ Cardinality(Recs) = Len(seqState.recs)
  <2>1. Recs = Held(seqState.recs)
    BY DEF Recs, Held
  <2> QED BY <1>1, <1>4, <2>1, HeldCount
<1>6. IsFiniteSet(Good) /\ Cardinality(Good) \in Nat
  BY <1>1, GoodFinite DEF Good
<1>7. Cardinality(Recs) <= Cardinality(Good)
  BY <1>4, <1>6, FS_Subset
<1>8. Len(seqState.recs) \in Nat /\ Kept \in Nat
  BY <1>1, Constants
<1>9. Cardinality(Recs) = IF Cardinality(Good) < Kept THEN Cardinality(Good) ELSE Kept
  BY <1>1, <1>4, <1>5, <1>6, <1>7, <1>8
<1> QED
  BY <1>4, <1>9

\* A step keeps what is known of the cache.
LEMMA NextGenuineInv ==
    ASSUME "rot" \notin Events, GenuineInv, [Next]_vars
    PROVE  GenuineInv'
  BY NextTypeInv, NextGenuine DEF GenuineInv

\* The element by element scan (storage_list.rs:634-705) ends with the newest good
\* records of the storage in the cache, as many as it has slots for, whatever the
\* storage holds between them, and however often a scan was cut short before.  It
\* needs that the numbers have not run out: past the last one the list has no next
\* number, and the next read inserts again what the cache already holds.
THEOREM ScanIsComplete ==
    ASSUME "rot" \notin Events, MaxSeq < SeqLimit
    PROVE  Spec => []ScanFindsNewest
<1>1. Init => GenuineInv /\ ScanningInv
  BY InitTypeInv, InitGenuine, InitScanning DEF GenuineInv
<1>2. GenuineInv /\ ScanningInv /\ [Next]_vars => GenuineInv' /\ ScanningInv'
  <2>1. ASSUME GenuineInv, ScanningInv, [Next]_vars PROVE ScanningInv'
    <3>1. TypeInv /\ ScanInv /\ NumberInv /\ ScanOpen /\ ScanCollects
      BY <2>1 DEF GenuineInv, ScanningInv
    <3> QED BY <2>1, <3>1, NextNumberInv, NextScanOpen, NextScanCollects DEF ScanningInv
  <2> QED BY <2>1, NextGenuineInv
<1>3. GenuineInv /\ ScanningInv => ScanFindsNewest
  BY CollectedIsAll
<1> QED
  BY <1>1, <1>2, <1>3, PTL DEF Spec

-----------------------------------------------------------------------------
(***************************************************************************)
(* The steps, by what they do to the cache.                                *)
(***************************************************************************)

\* Nothing of the storage, the cache or the call in progress changes.
Quiet == UNCHANGED << queue, seqState, io, scan, wr, gc >>

\* A call other than a scan ends without having found anything.
Ends == ~ Scanning /\ io' = "idle" /\ UNCHANGED << queue, seqState >>

\* The cache is given up: by a crash, a reset, or a collection that begins.
Forgets ==
    /\ seqState' = NewSeqState /\ UNCHANGED queue
    /\ \/ io' = "idle"
       \/ io' = io /\ UNCHANGED gc /\ io \in { "idle", "collect" }
       \/ BeginGarbage

\* The scan of process_reads or of process_garbage is complete.
ScanEnds ==
    /\ ScanDone /\ io' = "idle" /\ UNCHANGED queue
    /\ seqState' \in { Populated, [Populated EXCEPT !.gc = FALSE] }

\* The steps other than rot, by what they do to the cache and the storage.
LEMMA StoreSteps ==
    ASSUME "rot" \in Events => ~ Rot, "scan" \notin Events, TypeOK, [Next]_vars
    PROVE  \/ Quiet \/ Ends \/ Forgets \/ ScanEnds
           \/ BeginWrites \/ PushData \/ PushEnd \/ VerifyGood
           \/ CollectElement \/ BeginScan \/ EndCollect \/ (Scanning /\ ScanElement)
<1>1. CASE UNCHANGED vars
  BY <1>1 DEF vars, Quiet
<1>2. CASE UserStep
  <2>1. CASE ResetCache
    <3>1. io \in { "idle", "collect" }
      BY <2>1 DEF ResetCache, Locked, TypeOK, IoStates
    <3> QED BY <2>1, <3>1 DEF ResetCache, Forgets
  <2>2. CASE \E k \in Keys : \/ Attach(k) \/ TakeDefault(k) \/ Detach(k)
                             \/ \E v \in Values : Write(k, v)
    BY <2>2 DEF Attach, TakeDefault, Detach, Write, Quiet
  <2> QED BY <1>2, <2>1, <2>2 DEF UserStep
<1>3. CASE \E ok \in BOOLEAN : ProcessReads(ok)
  BY <1>3 DEF ProcessReads, Quiet
<1>4. CASE \E ok \in BOOLEAN : EndReadScan(ok)
  BY <1>4 DEF EndReadScan, ScanEnds, ScanDone
<1>5. CASE EndGcScan
  BY <1>5 DEF EndGcScan, ScanEnds, ScanDone
<1>6. CASE ScanElement
  BY <1>6 DEF ScanElement, Scanning
<1>7. CASE StorageFull \/ VerifyBad
  BY <1>7 DEF StorageFull, VerifyBad, Ends, Scanning
<1>8. CASE BeginGarbage
  BY <1>8 DEF BeginGarbage, Forgets
<1>9. CASE FaultStep
  BY <1>9 DEF FaultStep, Interrupt, Crash, Rot, Event, Ends, Forgets, Scanning
<1> QED
  BY <1>1, <1>2, <1>3, <1>4, <1>5, <1>6, <1>7, <1>8, <1>9 DEF Next, IoStep

\* Until numbers run out the next one is one more than the newest of the cache.
LEMMA NextIsOneMore ==
    ASSUME GenuineInv, AnySeen(seqState), ScanCompleted(seqState)
    PROVE  /\ HighestSeen(seqState) \in GoodWriteRecord
           /\ seqState.next = HighestSeen(seqState).seq + 1
<1> DEFINE h == HighestSeen(seqState)
<1>1. h \in Recs /\ seqState.next = CheckedNext(h.seq)
  BY HighestIsHeld DEF GenuineInv, TypeInv, CacheOrdered, Consistent
<1> HIDE DEF h
<1>2. h \in GoodWriteRecord
  BY <1>1, CachedIsStart
<1>3. seqState.next = h.seq + 1
  BY <1>1, <1>2 DEF CheckedNext, ScanCompleted
<1> QED
  BY <1>2, <1>3 DEF h

\* A record of a genuine cache is a good record of the storage.
LEMMA CachedIsGood ==
    ASSUME GenuineInv, NEW r \in Recs
    PROVE  \E s \in Good : s.seq = r.seq /\ s.lo = r.lo /\ s.hi \in { r.hi - 1, r.hi }
<1>1. PICK hi \in { r.hi - 1, r.hi } : IsRecord(queue, r.lo, hi) /\ queue[r.lo] = Start(r.seq)
  BY DEF GenuineInv, CacheGenuine, Genuine
<1>2. queue \in Seq(Elem)
  BY DEF GenuineInv, TypeInv, TypeOK
<1>3. [seq |-> queue[r.lo].seq, lo |-> r.lo, hi |-> hi] \in Good
  BY <1>1, <1>2, RecordIsGood DEF Good
<1>4. queue[r.lo].seq = r.seq
  BY <1>1 DEF Start
<1> QED
  BY <1>1, <1>3, <1>4

-----------------------------------------------------------------------------
(***************************************************************************)
(* The invariant behind what survives.  It follows the number of a write   *)
(* from the Start that claims it to the collection that keeps its record.  *)
(***************************************************************************)

\* Number n at position a is at least s at position p; with more than one slot
\* the cache prefers, of one number, the record nearest the head of the queue.
Ahead(n, a, s, p) == s <= n /\ (Kept > 1 /\ p < a => s < n)

Leads(s, p) == AnySeen(seqState) /\ Ahead(HighestSeen(seqState).seq, HighestSeen(seqState).lo, s, p)

\* An empty cache claims nothing.
EmptyInv == ~ AnySeen(seqState) => ~ seqState.gc /\ seqState.next \in { 0, 1 }

\* No Start claims a number that is not the next one of some good record.
StartsFollow ==
    \A p \in Starts : queue[p].seq = 1 \/ \E r \in Good : queue[p].seq <= r.seq + 1

\* The cache leads the good records a scan has passed ...
ScanCovers == Scanning => \A r \in GoodBelow : Leads(r.seq, r.lo)

\* ... and after it no Start is past the next number, and when a collection is
\* due the cache leads all good records.
CacheCovers ==
    ~ Scanning =>
        /\ ScanCompleted(seqState) => \A p \in Starts : queue[p].seq <= seqState.next
        /\ seqState.gc => \A r \in Good : Leads(r.seq, r.lo)

\* A write is under the next number, and nothing of it is in the cache.
WriteInv ==
    io \in { "push", "verify" } =>
        ~ seqState.gc /\ ScanCompleted(seqState) /\ wr.seq = seqState.next

\* The ranges of the cache are exact, or the newest is the last write's, which
\* leads every Start: then the element past its End is not the Start of another
\* record that the collection would keep for nothing but could not have led.
ExactInv ==
    ~ Scanning =>
        \/ \A r \in Recs : RecordAt(queue, r.lo, r.hi, r.seq)
        \/ seqState.gc /\ \A p \in Starts : Leads(queue[p].seq, p)

\* An empty cache has nothing to collect, and writes number from 1.
LEMMA NextEmptyInv ==
    ASSUME "rot" \notin Events, "scan" \notin Events, GenuineInv, EmptyInv, [Next]_vars
    PROVE  EmptyInv'
<1>0. TypeInv /\ TypeOK
  BY DEF GenuineInv, TypeInv
<1>1. CASE UNCHANGED seqState
  BY <1>1 DEF EmptyInv, AnySeen
<1>2. CASE seqState' = NewSeqState
  BY <1>2 DEF EmptyInv, NewSeqState
<1>3. CASE ScanEnds
  <2>1. seqState \in SeqStates
    BY <1>0 DEF TypeOK
  <2>2. CASE AnySeen(seqState)
    <3>1. Populated = seqState
      BY <2>2 DEF Populated
    <3>2. seqState'.recs = seqState.recs
      BY <1>3, <2>1, <3>1 DEF ScanEnds, SeqStates
    <3> QED BY <2>2, <3>2 DEF EmptyInv, AnySeen
  <2>3. CASE ~ AnySeen(seqState)
    <3>1. Populated = [seqState EXCEPT !.next = 1]
      BY <2>3 DEF Populated
    <3>2. seqState'.next = 1 /\ (seqState'.gc = seqState.gc \/ seqState'.gc = FALSE)
      BY <1>3, <2>1, <3>1 DEF ScanEnds, SeqStates
    <3> QED BY <2>3, <3>2 DEF EmptyInv
  <2> QED BY <2>2, <2>3
<1>4. CASE \E rec \in GoodWriteRecord : seqState' = InsertGood(seqState, rec)
  <2>1. seqState \in SeqStates /\ Consistent(seqState)
    BY <1>0 DEF TypeOK, TypeInv, CacheOrdered
  <2> QED BY <1>4, <2>1, InsertGoodHighest DEF EmptyInv
<1>5. CASE Scanning /\ ScanElement
  <2>1. CASE Closes(queue[scan.at])
    <3>1. [seq |-> queue[scan.at].seq, lo |-> scan.from, hi |-> scan.at] \in GoodWriteRecord
      BY <1>5, <2>1, ClosesGenuine DEF ScanElement, GenuineInv
    <3> QED BY <1>4, <1>5, <2>1, <3>1 DEF ScanElement
  <2>2. CASE ~ Closes(queue[scan.at])
    BY <1>1, <1>5, <2>2 DEF ScanElement
  <2> QED BY <2>1, <2>2
<1>6. CASE VerifyGood
  <2>1. PICK lo \in DOMAIN queue, hi \in DOMAIN queue :
          seqState' = InsertGood(seqState, [seq |-> wr.seq, lo |-> lo, hi |-> hi + 1])
    BY <1>6 DEF VerifyGood
  <2>2. [seq |-> wr.seq, lo |-> lo, hi |-> hi + 1] \in GoodWriteRecord
    <3>1. wr.seq \in SeqNo
      BY <1>0 DEF TypeOK
    <3>2. lo \in Nat \ {0} /\ hi + 1 \in Nat \ {0}
      <4>1. queue \in Seq(Elem)
        BY <1>0 DEF TypeOK
      <4>2. lo \in 1 .. Len(queue) /\ hi \in 1 .. Len(queue) /\ Len(queue) \in Nat
        BY <4>1
      <4> QED BY <4>2
    <3> QED BY <3>1, <3>2 DEF GoodWriteRecord
  <2> QED BY <1>4, <2>1, <2>2
<1>7. CASE Quiet \/ Ends \/ BeginWrites \/ PushData \/ PushEnd \/ CollectElement
           \/ BeginScan \/ EndCollect
  BY <1>1, <1>7 DEF Quiet, Ends, BeginWrites, PushData, PushEnd, CollectElement, BeginScan,
                    EndCollect
<1>8. CASE Forgets
  BY <1>2, <1>8 DEF Forgets
<1> QED
  BY <1>0, <1>3, <1>5, <1>6, <1>7, <1>8, StoreSteps

-----------------------------------------------------------------------------
(***************************************************************************)
(* The collection.  It walks the queue as it was when it began (gc.idx)    *)
(* and as it is now (gc.pos).                                              *)
(***************************************************************************)

\* A record that was at r.lo .. e when the collection began is now at a .. b of q.
HomeAt(q, g, r, e, a, b) ==
    /\ RecordAt(q, a, b, r.seq)
    /\ IF e < g.idx THEN b < g.pos
       ELSE a = r.lo - (g.idx - g.pos) /\ b = e - (g.idx - g.pos)

\* Every range that is kept is the range of a record.
KeptExact(q, g) ==
    \A i \in DOMAIN g.recs : \E a, b \in DOMAIN q : HomeAt(q, g, g.recs[i], g.recs[i].hi, a, b)

\* The newest record is in the storage and leads all good records, every Start the
\* collection has kept, and every Start there is, unless the ranges are exact.
NewestKept(q, g, e, a, b) ==
    LET m == HighestSeen(g)  starts == Positions(q, "start") IN
    /\ e \in { m.hi, m.hi - 1 } /\ HomeAt(q, g, m, e, a, b)
    /\ \A r \in GoodRecords(q) : Ahead(m.seq, a, r.seq, r.lo)
    /\ \A p \in starts : p < g.pos => Ahead(m.seq, a, q[p].seq, p)
    /\ \/ \A p \in starts : Ahead(m.seq, a, q[p].seq, p)
       \/ e = m.hi /\ KeptExact(q, g)

GcInv ==
    io = "collect" =>
        /\ gc.pos <= gc.idx /\ gc.pos <= Len(queue) + 1 /\ gc.recs # << >>
        /\ \E e \in Int : \E a, b \in DOMAIN queue : NewestKept(queue, gc, e, a, b)

\* What process_garbage works with.
GcStates == [recs : Seq(GoodWriteRecord), idx : Nat \ {0}, pos : Nat \ {0}]

\* The state after an element was kept, and after one was invalidated.
PastKept(g)  == [g EXCEPT !.idx = @ + 1, !.pos = @ + 1]
PastMoved(g) == [g EXCEPT !.idx = @ + 1]

\* Where a record is now follows from how far the iterator is ahead of the queue.
LEMMA Shifts ==
    ASSUME NEW l \in Int, NEW i \in Int, NEW p \in Int
    PROVE  /\ l - (i - p) = l - ((i + 1) - (p + 1))
           /\ (l - (i - p)) - 1 = l - ((i + 1) - p)
           /\ l - (i - p) <= p => l <= i
           /\ p <= l - (i - p) => i <= l
           /\ p < l - (i - p) => i < l
           /\ l <= i => l - (i - p) <= p
           /\ i <= l => p <= l - (i - p)
  OBVIOUS

\* Naturals are integers.
LEMMA NatIsInt == \A n \in Nat : n \in Int
  OBVIOUS

\* An element is before, at or behind the iterator now if it was when the
\* collection began.
LEMMA Offset ==
    ASSUME NEW l \in Int, NEW i \in Int, NEW p \in Int, NEW a \in Int, a = l - (i - p)
    PROVE  /\ l <= i <=> a <= p
           /\ i <= l <=> p <= a
           /\ i < l <=> p < a
  OBVIOUS

\* The types of the state of a collection, before and after an element.
LEMMA GcStateTypes ==
    ASSUME NEW g \in GcStates
    PROVE  /\ g.idx \in Nat \ {0} /\ g.pos \in Nat \ {0}
           /\ \A i \in DOMAIN g.recs :
                 /\ g.recs[i] \in GoodWriteRecord /\ g.recs[i].seq \in Nat
                 /\ g.recs[i].lo \in Nat /\ g.recs[i].hi \in Nat
           /\ g.recs # << >> =>
                 Len(g.recs) \in DOMAIN g.recs /\ HighestSeen(g) = g.recs[Len(g.recs)]
           /\ PastKept(g) \in GcStates /\ PastKept(g).recs = g.recs
           /\ PastKept(g).idx = g.idx + 1 /\ PastKept(g).pos = g.pos + 1
           /\ PastMoved(g) \in GcStates /\ PastMoved(g).recs = g.recs
           /\ PastMoved(g).idx = g.idx + 1 /\ PastMoved(g).pos = g.pos
<1>1. g.recs \in Seq(GoodWriteRecord) /\ g.idx \in Nat \ {0} /\ g.pos \in Nat \ {0}
  BY DEF GcStates
<1>2. ASSUME NEW i \in DOMAIN g.recs
      PROVE  /\ g.recs[i] \in GoodWriteRecord /\ g.recs[i].seq \in Nat
             /\ g.recs[i].lo \in Nat /\ g.recs[i].hi \in Nat
  <2> DEFINE r == g.recs[i]
  <2>1. r \in GoodWriteRecord
    BY <1>1
  <2> HIDE DEF r
  <2>2. r.seq \in Nat /\ r.lo \in Nat /\ r.hi \in Nat
    BY <2>1 DEF GoodWriteRecord, SeqNo
  <2> QED BY <2>1, <2>2 DEF r
<1>3. g.recs # << >> => Len(g.recs) \in DOMAIN g.recs /\ HighestSeen(g) = g.recs[Len(g.recs)]
  BY <1>1 DEF HighestSeen
<1>4. /\ PastKept(g) \in GcStates /\ PastKept(g).recs = g.recs
      /\ PastKept(g).idx = g.idx + 1 /\ PastKept(g).pos = g.pos + 1
  <2>1. g.idx + 1 \in Nat \ {0} /\ g.pos + 1 \in Nat \ {0}
    BY <1>1
  <2> DEFINE i == g.idx + 1
             p == g.pos + 1
  <2>2. PastKept(g) = [g EXCEPT !.idx = i, !.pos = p]
    BY DEF PastKept
  <2> HIDE DEF i, p
  <2>3. /\ PastKept(g) \in GcStates /\ PastKept(g).recs = g.recs
        /\ PastKept(g).idx = i /\ PastKept(g).pos = p
    BY <2>1, <2>2 DEF GcStates, i, p
  <2> QED BY <2>3 DEF i, p
<1>5. /\ PastMoved(g) \in GcStates /\ PastMoved(g).recs = g.recs
      /\ PastMoved(g).idx = g.idx + 1 /\ PastMoved(g).pos = g.pos
  BY <1>1 DEF PastMoved, GcStates
<1> QED
  BY <1>1, <1>2, <1>3, <1>4, <1>5

\* An element that is kept does not move its record.
LEMMA KeepsHome ==
    ASSUME NEW q, NEW g \in GcStates, NEW i \in DOMAIN g.recs,
           NEW e \in Int, NEW a \in Int, NEW b \in Int,
           HomeAt(q, g, g.recs[i], e, a, b)
    PROVE  HomeAt(q, PastKept(g), g.recs[i], e, a, b)
<1> DEFINE r == g.recs[i]
           l == r.lo
           h == PastKept(g)
<1>1. g.idx \in Nat /\ g.pos \in Nat /\ h.idx = g.idx + 1 /\ h.pos = g.pos + 1 /\ l \in Nat
  BY GcStateTypes
<1>2. /\ RecordAt(q, a, b, r.seq)
      /\ IF e < g.idx THEN b < g.pos
         ELSE a = l - (g.idx - g.pos) /\ b = e - (g.idx - g.pos)
  BY DEF HomeAt
<1> HIDE DEF l, h
<1>3. IF e < h.idx THEN b < h.pos ELSE a = l - (h.idx - h.pos) /\ b = e - (h.idx - h.pos)
  <2>1. CASE e < g.idx
    BY <1>1, <1>2, <2>1
  <2>2. CASE e >= g.idx
    <3>1. a = l - (g.idx - g.pos) /\ b = e - (g.idx - g.pos)
      BY <1>1, <1>2, <2>2
    <3>2. a = l - (h.idx - h.pos) /\ b = e - (h.idx - h.pos)
      BY <1>1, <3>1, Shifts
    <3>3. e < h.idx => b <= g.pos
      <4>1. e < h.idx => e <= g.idx
        BY <1>1
      <4> QED BY <1>1, <3>1, <4>1, Shifts
    <3>4. e < h.idx => b < h.pos
      BY <1>1, <3>3
    <3> QED BY <3>2, <3>4
  <2> QED BY <1>1, <2>1, <2>2
<1> QED
  BY <1>2, <1>3 DEF HomeAt, l, h

\* An element that is invalidated belongs to no record whose range is kept: it is
\* outside the range, or it does not decode and no such record holds it.
LEMMA MovesHome ==
    ASSUME NEW q \in Seq(Elem), NEW g \in GcStates, g.pos \in DOMAIN q,
           q[g.pos] = Bad \/ ~ InKeptRange(g.recs, g.idx),
           NEW i \in DOMAIN g.recs, NEW e \in Int, e <= g.recs[i].hi,
           NEW a \in DOMAIN q, NEW b \in DOMAIN q, HomeAt(q, g, g.recs[i], e, a, b)
    PROVE  LET n == RemoveAt(q, g.pos) IN
           \E c, d \in DOMAIN n :
               /\ HomeAt(n, PastMoved(g), g.recs[i], e, c, d)
               /\ \/ b < g.pos /\ c = a /\ d = b
                  \/ g.pos < a /\ c = a - 1 /\ d = b - 1
               /\ n[c] = q[a]
<1> DEFINE r == g.recs[i]
           l == r.lo
           h == PastMoved(g)
           n == RemoveAt(q, g.pos)
<1>1. /\ Len(q) \in Nat /\ g.idx \in Nat /\ g.pos \in Nat /\ g.pos \in 1 .. Len(q)
      /\ a \in 1 .. Len(q) /\ b \in 1 .. Len(q) /\ h.idx = g.idx + 1 /\ h.pos = g.pos
      /\ l \in Nat /\ r.hi \in Nat
  <2>1. DOMAIN q = 1 .. Len(q) /\ Len(q) \in Nat
    OBVIOUS
  <2>2. g.idx \in Nat /\ g.pos \in Nat /\ h.idx = g.idx + 1 /\ h.pos = g.pos
    BY GcStateTypes
  <2>3. l \in Nat /\ r.hi \in Nat
    BY GcStateTypes
  <2> HIDE DEF l, h, r
  <2> QED BY <2>1, <2>2, <2>3
<1>2. /\ RecordAt(q, a, b, r.seq)
      /\ IF e < g.idx THEN b < g.pos
         ELSE a = l - (g.idx - g.pos) /\ b = e - (g.idx - g.pos)
  BY DEF HomeAt
<1>3. /\ IsRecord(q, a, b) /\ q[a] = Start(r.seq)
      /\ a < b /\ q[a].kind = "start" /\ q[b].kind = "end"
      /\ \A j \in a + 1 .. b - 1 : q[j].kind = "data"
  BY <1>2 DEF RecordAt, IsRecord
<1>4. g.pos \notin a .. b
  <2> SUFFICES ASSUME g.pos \in a .. b PROVE FALSE
    OBVIOUS
  <2>1. q[g.pos].kind \in { "start", "data", "end" }
    BY <1>1, <1>3
  <2>2. q[g.pos] # Bad
    BY <2>1 DEF Bad
  <2>3. g.idx \in l .. r.hi
    <3> DEFINE k == r.hi
    <3>1. k \in Nat /\ e <= k
      BY <1>1
    <3>2. /\ a <= g.pos /\ g.pos <= b
          /\ a = l - (g.idx - g.pos) /\ b = e - (g.idx - g.pos)
      BY <1>1, <1>2
    <3> HIDE DEF l, k
    <3>0. g.idx \in Int /\ g.pos \in Int /\ l \in Int
      BY Zenon, <1>1, NatIsInt
    <3>5. a \in Int /\ b \in Int
      BY <1>1
    <3>3. l <= g.idx /\ g.idx <= e
      BY <3>0, <3>2, <3>5, Offset
    <3>4. g.idx \in l .. k
      BY <1>1, <3>1, <3>3
    <3> QED BY <3>4 DEF k
  <2> QED BY <2>2, <2>3 DEF InKeptRange
<1>5. CASE b < g.pos
  <2>1. IsRecord(n, a, b) /\ n[a] = q[a]
    BY <1>1, <1>3, <1>5, RemoveKeepsFront
  <2>2. a \in DOMAIN n /\ b \in DOMAIN n
    BY <2>1 DEF IsRecord
  <2> HIDE DEF l, h, n
  <2>3. e < h.idx /\ b < h.pos
    BY <1>1, <1>2, <1>5
  <2>4. HomeAt(n, h, r, e, a, b)
    BY <1>3, <2>1, <2>3 DEF HomeAt, RecordAt
  <2> QED BY <1>5, <2>1, <2>2, <2>4 DEF h, n
<1>6. CASE g.pos < a
  <2>1. IsRecord(n, a - 1, b - 1) /\ n[a - 1] = q[a]
    BY <1>1, <1>3, <1>6, RemoveKeepsBack
  <2>2. a - 1 \in DOMAIN n /\ b - 1 \in DOMAIN n
    BY <2>1 DEF IsRecord
  <2> HIDE DEF l, h, n
  <2>3. /\ ~ b < g.pos /\ g.pos < b /\ a \in Int /\ b \in Int
        /\ a = l - (g.idx - g.pos) /\ b = e - (g.idx - g.pos)
    BY <1>1, <1>2, <1>3, <1>6
  <2>4. ~ e < h.idx
    <3>1. g.idx < e
      <4>1. g.idx \in Int /\ g.pos \in Int
        BY Zenon, <1>1, NatIsInt
      <4>2. g.pos < b /\ b \in Int /\ b = e - (g.idx - g.pos)
        BY Zenon, <2>3
      <4> QED BY <4>1, <4>2, Offset
    <3> QED BY <1>1, <3>1
  <2>5. a - 1 = l - (h.idx - h.pos) /\ b - 1 = e - (h.idx - h.pos)
    <3>1. \A x \in Int : (x - (g.idx - g.pos)) - 1 = x - ((g.idx + 1) - g.pos)
      BY <1>1, Shifts
    <3>2. (l - (g.idx - g.pos)) - 1 = l - ((g.idx + 1) - g.pos)
      BY <1>1, <3>1
    <3>3. (e - (g.idx - g.pos)) - 1 = e - ((g.idx + 1) - g.pos)
      BY <3>1
    <3> QED BY <1>1, <2>3, <3>2, <3>3
  <2>6. HomeAt(n, h, r, e, a - 1, b - 1)
    BY <1>3, <2>1, <2>4, <2>5 DEF HomeAt, RecordAt, l
  <2> QED BY <1>6, <2>1, <2>2, <2>6 DEF h, n
<1> QED
  BY <1>1, <1>3, <1>4, <1>5, <1>6

\* Every Start that the collection keeps is one the newest record leads.
LEMMA KeepsNewest ==
    ASSUME NEW q \in Seq(Elem), NEW g \in GcStates, g.recs # << >>, g.pos \in DOMAIN q,
           InKeptRange(g.recs, g.idx),
           NEW e \in Int, NEW a \in DOMAIN q, NEW b \in DOMAIN q,
           NewestKept(q, g, e, a, b)
    PROVE  NewestKept(q, PastKept(g), e, a, b)
<1> DEFINE m == HighestSeen(g)
           h == PastKept(g)
           starts == Positions(q, "start")
<1>1. /\ Len(q) \in Nat /\ a \in Int /\ b \in Int
      /\ g.idx \in Nat /\ g.pos \in Nat /\ g.pos \in 1 .. Len(q)
      /\ h.idx = g.idx + 1 /\ h.pos = g.pos + 1 /\ h.recs = g.recs
      /\ Len(g.recs) \in DOMAIN g.recs /\ m = g.recs[Len(g.recs)]
  <2>1. Len(q) \in Nat /\ DOMAIN q = 1 .. Len(q)
    OBVIOUS
  <2>2. /\ g.idx \in Nat /\ g.pos \in Nat
        /\ h.idx = g.idx + 1 /\ h.pos = g.pos + 1 /\ h.recs = g.recs
    BY GcStateTypes
  <2>3. Len(g.recs) \in DOMAIN g.recs /\ m = g.recs[Len(g.recs)]
    BY GcStateTypes
  <2> HIDE DEF h, m
  <2> QED BY <2>1, <2>2, <2>3
<1>2. HighestSeen(h) = m
  BY <1>1 DEF HighestSeen
<1>3. /\ e \in { m.hi, m.hi - 1 } /\ HomeAt(q, g, m, e, a, b)
      /\ \A r \in GoodRecords(q) : Ahead(m.seq, a, r.seq, r.lo)
      /\ \A p \in starts : p < g.pos => Ahead(m.seq, a, q[p].seq, p)
      /\ \/ \A p \in starts : Ahead(m.seq, a, q[p].seq, p)
         \/ e = m.hi /\ KeptExact(q, g)
  BY DEF NewestKept
<1> HIDE DEF m
<1>4. HomeAt(q, h, m, e, a, b)
  BY <1>1, <1>3, KeepsHome
<1>5. ASSUME KeptExact(q, g) PROVE KeptExact(q, h)
  <2> SUFFICES ASSUME NEW i \in DOMAIN g.recs
               PROVE  \E c, d \in DOMAIN q : HomeAt(q, h, g.recs[i], g.recs[i].hi, c, d)
    BY <1>1 DEF KeptExact
  <2>1. PICK c \in DOMAIN q, d \in DOMAIN q : HomeAt(q, g, g.recs[i], g.recs[i].hi, c, d)
    BY <1>5 DEF KeptExact
  <2>2. c \in Int /\ d \in Int /\ g.recs[i].hi \in Int
    <3>1. g.recs[i].hi \in Nat
      BY GcStateTypes
    <3>2. c \in 1 .. Len(q) /\ d \in 1 .. Len(q)
      OBVIOUS
    <3> QED BY <3>1, <3>2
  <2> QED BY <2>1, <2>2, KeepsHome
<1>6. ASSUME NEW p \in starts, p = g.pos, KeptExact(q, g)
      PROVE  Ahead(m.seq, a, q[p].seq, p)
  <2>1. PICK i \in DOMAIN g.recs : g.idx \in g.recs[i].lo .. g.recs[i].hi
    BY DEF InKeptRange
  <2>2. PICK c \in DOMAIN q, d \in DOMAIN q : HomeAt(q, g, g.recs[i], g.recs[i].hi, c, d)
    BY <1>6 DEF KeptExact
  <2> DEFINE lo == g.recs[i].lo
             hi == g.recs[i].hi
  <2>3. IsRecord(q, c, d)
    BY <2>2 DEF HomeAt, RecordAt
  <2>4. /\ g.idx \in lo .. hi /\ lo \in Nat /\ hi \in Nat /\ c \in Int /\ d \in Int
        /\ IF hi < g.idx THEN d < g.pos
           ELSE c = lo - (g.idx - g.pos) /\ d = hi - (g.idx - g.pos)
    <3>1. lo \in Nat /\ hi \in Nat
      BY GcStateTypes
    <3>2. c \in 1 .. Len(q) /\ d \in 1 .. Len(q)
      OBVIOUS
    <3>3. IF hi < g.idx THEN d < g.pos
          ELSE c = lo - (g.idx - g.pos) /\ d = hi - (g.idx - g.pos)
      BY <2>2 DEF HomeAt
    <3> HIDE DEF lo, hi
    <3> QED BY <2>1, <3>1, <3>2, <3>3 DEF lo, hi
  <2> HIDE DEF lo, hi
  <2>5. g.pos \in c .. d
    <3>1. lo <= g.idx /\ g.idx <= hi
      BY <1>1, <2>4
    <3>0. g.idx \in Int /\ g.pos \in Int /\ lo \in Int /\ hi \in Int /\ c \in Int /\ d \in Int
      BY Zenon, <1>1, <2>4, NatIsInt
    <3>2. c = lo - (g.idx - g.pos) /\ d = hi - (g.idx - g.pos)
      BY <2>4, <3>0, <3>1
    <3>3. c <= g.pos
      BY <3>0, <3>1, <3>2, Offset
    <3>4. g.pos <= d
      BY <3>0, <3>1, <3>2, Offset
    <3> QED BY <3>0, <3>3, <3>4
  <2>6. p = c
    BY <1>1, <1>6, <2>3, <2>5, OneStart DEF Positions
  <2>7. [seq |-> q[c].seq, lo |-> c, hi |-> d] \in GoodRecords(q)
    BY <2>3, RecordIsGood
  <2> QED BY <1>3, <2>6, <2>7
<1>7. ASSUME NEW p \in starts, p < h.pos PROVE Ahead(m.seq, a, q[p].seq, p)
  <2>1. p \in Int
    BY <1>1 DEF Positions
  <2>2. p < g.pos \/ p = g.pos
    BY <1>1, <1>7, <2>1
  <2> QED BY <1>3, <1>6, <2>2
<1> QED
  BY <1>2, <1>3, <1>4, <1>5, <1>7 DEF NewestKept

\* Every record that an invalidation makes has its Start among those already kept,
\* and all others were there before, in the same order.
LEMMA MovesNewest ==
    ASSUME NEW q \in Seq(Elem), NEW g \in GcStates, g.recs # << >>, g.pos \in DOMAIN q,
           q[g.pos] = Bad \/ ~ InKeptRange(g.recs, g.idx),
           NEW e \in Int, NEW a \in DOMAIN q, NEW b \in DOMAIN q,
           NewestKept(q, g, e, a, b)
    PROVE  LET n == RemoveAt(q, g.pos) IN
           \E c, d \in DOMAIN n :
               /\ NewestKept(n, PastMoved(g), e, c, d)
               /\ \/ b < g.pos /\ c = a /\ d = b
                  \/ g.pos < a /\ c = a - 1 /\ d = b - 1
<1> DEFINE m == HighestSeen(g)
           h == PastMoved(g)
           n == RemoveAt(q, g.pos)
           starts == Positions(q, "start")
<1>1. /\ Len(q) \in Nat /\ a \in Int /\ b \in Int /\ g.pos \in 1 .. Len(q)
      /\ h.pos = g.pos /\ h.recs = g.recs
      /\ Len(g.recs) \in DOMAIN g.recs /\ m = g.recs[Len(g.recs)]
  <2>1. Len(q) \in Nat /\ DOMAIN q = 1 .. Len(q)
    OBVIOUS
  <2>2. h.pos = g.pos /\ h.recs = g.recs
    BY GcStateTypes
  <2>3. Len(g.recs) \in DOMAIN g.recs /\ m = g.recs[Len(g.recs)]
    BY GcStateTypes
  <2> HIDE DEF h, m
  <2> QED BY <2>1, <2>2, <2>3
<1>2. HighestSeen(h) = m
  BY <1>1 DEF HighestSeen
<1>3. /\ e \in { m.hi, m.hi - 1 } /\ HomeAt(q, g, m, e, a, b)
      /\ \A r \in GoodRecords(q) : Ahead(m.seq, a, r.seq, r.lo)
      /\ \A p \in starts : p < g.pos => Ahead(m.seq, a, q[p].seq, p)
      /\ \/ \A p \in starts : Ahead(m.seq, a, q[p].seq, p)
         \/ e = m.hi /\ KeptExact(q, g)
  BY DEF NewestKept
<1>4. m.hi \in Nat /\ m.seq \in Nat
  BY <1>1, GcStateTypes
<1> HIDE DEF m
<1>5. e <= m.hi /\ a < b
  <2>1. a < b
    BY <1>3 DEF HomeAt, RecordAt, IsRecord
  <2> QED BY <1>3, <1>4, <2>1
<1>6. PICK c \in DOMAIN n, d \in DOMAIN n :
        /\ HomeAt(n, h, m, e, c, d)
        /\ \/ b < g.pos /\ c = a /\ d = b
           \/ g.pos < a /\ c = a - 1 /\ d = b - 1
  BY <1>1, <1>3, <1>5, MovesHome
<1>7. /\ c \in Int
      /\ \A p \in Int : p < c => p < a
      /\ \A p \in Int : g.pos <= p /\ p < c => p + 1 < a
  BY <1>1, <1>5, <1>6
<1>8. n \in Seq(Elem)
  BY RemoveAtProperties
<1> HIDE DEF n, h
<1>9. ASSUME NEW s \in Int, NEW p \in Int, NEW x \in Int, Ahead(m.seq, a, s, x),
             p = x \/ (g.pos <= p /\ x = p + 1)
      PROVE  Ahead(m.seq, c, s, p)
  <2>1. p < c => x < a
    BY <1>1, <1>7, <1>9
  <2> QED BY <1>9, <2>1 DEF Ahead
<1>10. ASSUME NEW p \in Positions(n, "start"),
              p < g.pos \/ \A x \in starts : Ahead(m.seq, a, q[x].seq, x)
       PROVE  Ahead(m.seq, c, n[p].seq, p)
  <2>1. /\ p < g.pos => p \in starts /\ n[p] = q[p]
        /\ g.pos <= p => p + 1 \in starts /\ n[p] = q[p + 1]
        /\ p \in Int
    <3>1. p \in Positions(RemoveAt(q, g.pos), "start")
      BY DEF n
    <3> QED BY <1>1, <3>1, RemoveStarts DEF n
  <2>2. \E x \in starts : /\ n[p] = q[x] /\ (p = x \/ (g.pos <= p /\ x = p + 1))
                          /\ (p < g.pos => p = x)
    <3>1. CASE p < g.pos
      BY <2>1, <3>1
    <3>2. CASE ~ p < g.pos
      <4>1. g.pos <= p
        BY <1>1, <2>1, <3>2
      <4> QED BY <2>1, <3>2, <4>1
    <3> QED BY <3>1, <3>2
  <2>3. PICK x \in starts : /\ n[p] = q[x] /\ (p = x \/ (g.pos <= p /\ x = p + 1))
                           /\ (p < g.pos => p = x)
    BY <2>2
  <2>4. x \in Int /\ q[x].seq \in Int
    BY <1>1, StartsAre DEF SeqNo
  <2>5. Ahead(m.seq, a, q[x].seq, x)
    BY <1>3, <1>10, <2>3
  <2> QED BY <1>9, <2>1, <2>3, <2>4, <2>5
<1>11. ASSUME NEW r \in GoodRecords(n) PROVE Ahead(m.seq, c, r.seq, r.lo)
  <2> DEFINE lo == r.lo
             hi == r.hi
  <2>1. /\ r \in GoodWriteRecord /\ n[lo].seq = r.seq /\ IsRecord(n, lo, hi)
    BY <1>8, GoodRecordIs DEF RecordAt
  <2>2. /\ lo \in Int /\ hi \in Int /\ r.seq \in Int
    BY <2>1 DEF GoodWriteRecord, SeqNo
  <2>3. lo \in Positions(n, "start")
    BY <2>1 DEF Positions, IsRecord
  <2> HIDE DEF lo, hi
  <2>4. /\ g.pos <= lo => IsRecord(q, lo + 1, hi + 1)
        /\ g.pos <= lo => n[lo] = q[lo + 1]
    BY <2>1, RemoveCameFrom DEF n
  <2>5. CASE lo < g.pos
    BY <1>10, <2>1, <2>3, <2>5 DEF lo
  <2>6. CASE g.pos <= lo
    <3>1. [seq |-> q[lo + 1].seq, lo |-> lo + 1, hi |-> hi + 1] \in GoodRecords(q)
      BY <2>4, <2>6, RecordIsGood
    <3>2. Ahead(m.seq, a, r.seq, lo + 1) /\ lo + 1 \in Int
      BY <1>3, <2>1, <2>2, <2>4, <2>6, <3>1
    <3>3. Ahead(m.seq, c, r.seq, lo)
      BY <1>9, <2>2, <2>6, <3>2
    <3> QED BY <3>3 DEF lo
  <2> QED BY <1>1, <2>2, <2>5, <2>6
<1>12. ASSUME KeptExact(q, g) PROVE KeptExact(n, h)
  <2> SUFFICES ASSUME NEW i \in DOMAIN g.recs
               PROVE  \E x, y \in DOMAIN n : HomeAt(n, h, g.recs[i], g.recs[i].hi, x, y)
    BY <1>1 DEF KeptExact
  <2>1. PICK x \in DOMAIN q, y \in DOMAIN q : HomeAt(q, g, g.recs[i], g.recs[i].hi, x, y)
    BY <1>12 DEF KeptExact
  <2>2. g.recs[i].hi \in Int /\ g.recs[i].hi <= g.recs[i].hi
    <3>1. g.recs[i].hi \in Nat
      BY GcStateTypes
    <3> QED BY <3>1
  <2> QED BY <2>1, <2>2, MovesHome DEF n, h
<1>13. NewestKept(n, h, e, c, d)
  BY <1>1, <1>2, <1>3, <1>6, <1>10, <1>11, <1>12 DEF NewestKept
<1> QED
  BY <1>6, <1>13 DEF n, h

\* What process_garbage does with an element, as a step of GcStates.
LEMMA CollectSteps ==
    ASSUME TypeOK, CollectElement
    PROVE  /\ gc \in GcStates /\ gc.pos \in DOMAIN queue
           /\ \/ /\ InKeptRange(gc.recs, gc.idx)
                 /\ gc' = PastKept(gc) /\ UNCHANGED queue
              \/ /\ queue[gc.pos] = Bad \/ ~ InKeptRange(gc.recs, gc.idx)
                 /\ gc' = PastMoved(gc) /\ queue' = RemoveAt(queue, gc.pos)
<1>1. gc \in GcStates
  BY DEF TypeOK, GcStates
<1>2. \/ /\ InKeptRange(gc.recs, gc.idx)
         /\ gc' = PastKept(gc) /\ UNCHANGED queue
      \/ /\ queue[gc.pos] = Bad \/ ~ InKeptRange(gc.recs, gc.idx)
         /\ gc' = PastMoved(gc) /\ queue' = RemoveAt(queue, gc.pos)
  BY DEF CollectElement, PastKept, PastMoved
<1> QED
  BY <1>1, <1>2 DEF CollectElement

\* Each element that a collection visits leaves the newest record.
LEMMA CollectKeepsGc ==
    ASSUME TypeOK, GcInv, CollectElement
    PROVE  GcInv'
<1>1. /\ gc \in GcStates /\ gc.pos \in 1 .. Len(queue) /\ queue \in Seq(Elem)
      /\ gc.pos \in Nat /\ gc.idx \in Nat /\ Len(queue) \in Nat
  BY CollectSteps DEF TypeOK
<1>2. /\ gc.pos <= gc.idx /\ gc.recs # << >>
      /\ \E e \in Int : \E a, b \in DOMAIN queue : NewestKept(queue, gc, e, a, b)
  BY DEF GcInv, CollectElement
<1>3. PICK e \in Int, a \in DOMAIN queue, b \in DOMAIN queue : NewestKept(queue, gc, e, a, b)
  BY <1>2
<1>4. CASE InKeptRange(gc.recs, gc.idx) /\ gc' = PastKept(gc) /\ UNCHANGED queue
  <2>1. NewestKept(queue, PastKept(gc), e, a, b)
    BY <1>1, <1>2, <1>3, <1>4, KeepsNewest
  <2>2. gc'.pos = gc.pos + 1 /\ gc'.idx = gc.idx + 1 /\ gc'.recs = gc.recs
    BY <1>1, <1>4, GcStateTypes
  <2>3. gc'.pos <= gc'.idx /\ gc'.pos <= Len(queue') + 1
    BY <1>1, <1>2, <1>4, <2>2
  <2> QED BY <1>2, <1>4, <2>1, <2>2, <2>3 DEF GcInv
<1>5. CASE /\ queue[gc.pos] = Bad \/ ~ InKeptRange(gc.recs, gc.idx)
           /\ gc' = PastMoved(gc) /\ queue' = RemoveAt(queue, gc.pos)
  <2>1. \E c, d \in DOMAIN RemoveAt(queue, gc.pos) :
            NewestKept(RemoveAt(queue, gc.pos), PastMoved(gc), e, c, d)
    BY <1>1, <1>2, <1>3, <1>5, MovesNewest
  <2>2. gc'.pos = gc.pos /\ gc'.idx = gc.idx + 1 /\ gc'.recs = gc.recs
    BY <1>1, <1>5, GcStateTypes
  <2>3. Len(queue') = Len(queue) - 1
    BY <1>1, <1>5, RemoveAtProperties
  <2>4. gc'.pos <= gc'.idx /\ gc'.pos <= Len(queue') + 1
    BY <1>1, <1>2, <2>2, <2>3
  <2> QED BY <1>2, <1>5, <2>1, <2>2, <2>4 DEF GcInv
<1> QED
  BY <1>4, <1>5, CollectSteps

\* A collection that is due begins with a record that leads all the others.
LEMMA CollectBegins ==
    ASSUME GenuineInv, EmptyInv, CacheCovers, ExactInv, BeginGarbage
    PROVE  GcInv'
<1> DEFINE h == HighestSeen(seqState)
           g == [recs |-> seqState.recs, idx |-> 1, pos |-> 1]
<1>1. /\ ~ Scanning /\ seqState.gc /\ gc' = g /\ UNCHANGED queue
      /\ queue \in Seq(Elem) /\ Len(queue) \in Nat /\ seqState.recs \in Seq(GoodWriteRecord)
  BY DEF BeginGarbage, Scanning, GenuineInv, TypeInv, TypeOK, SeqStates
<1>2. AnySeen(seqState)
  BY <1>1 DEF EmptyInv
<1>3. h \in Recs /\ HighestSeen(g) = h
  BY <1>2, HighestIsHeld DEF GenuineInv, HighestSeen
<1>4. /\ g.recs = seqState.recs /\ g.idx = 1 /\ g.pos = 1
  OBVIOUS
<1> HIDE DEF g, h
<1>5. /\ \A r \in Good : Ahead(h.seq, h.lo, r.seq, r.lo)
      /\ \/ \A r \in Recs : RecordAt(queue, r.lo, r.hi, r.seq)
         \/ \A p \in Starts : Ahead(h.seq, h.lo, queue[p].seq, p)
  BY <1>1 DEF CacheCovers, ExactInv, Leads, h
<1>6. \A p \in Starts : ~ p < g.pos
  BY <1>1, <1>4, StartsAre DEF Starts
<1>7. ASSUME NEW r \in Recs, NEW hi \in Int, RecordAt(queue, r.lo, hi, r.seq), hi <= r.hi
      PROVE  /\ r.lo \in DOMAIN queue /\ hi \in DOMAIN queue
             /\ HomeAt(queue, g, r, hi, r.lo, hi)
  <2>1. r.lo \in Int
    BY CachedIsStart DEF GoodWriteRecord
  <2>2. r.lo \in DOMAIN queue /\ hi \in DOMAIN queue
    BY <1>7 DEF RecordAt, IsRecord
  <2>3. ~ hi < g.idx
    BY <1>1, <1>4, <2>2
  <2>4. r.lo = r.lo - (g.idx - g.pos) /\ hi = hi - (g.idx - g.pos)
    BY <1>4, <1>7, <2>1
  <2> QED BY <1>7, <2>2, <2>3, <2>4 DEF HomeAt
<1>8. h.hi \in Int /\ \A r \in Recs : r.hi \in Int
  <2>1. \A r \in Recs : r \in GoodWriteRecord
    BY CachedIsStart
  <2> QED BY <1>3, <2>1 DEF GoodWriteRecord
<1>9. CASE \A r \in Recs : RecordAt(queue, r.lo, r.hi, r.seq)
  <2>1. KeptExact(queue, g)
    <3> SUFFICES ASSUME NEW i \in DOMAIN g.recs
                 PROVE  \E a, b \in DOMAIN queue :
                            HomeAt(queue, g, g.recs[i], g.recs[i].hi, a, b)
      BY DEF KeptExact
    <3>1. g.recs[i] \in Recs
      BY <1>4 DEF Recs
    <3>2. g.recs[i].hi \in Int /\ g.recs[i].hi <= g.recs[i].hi
      BY <1>8, <3>1
    <3> QED BY <1>7, <1>9, <3>1, <3>2
  <2>2. /\ h.lo \in DOMAIN queue /\ h.hi \in DOMAIN queue
        /\ HomeAt(queue, g, h, h.hi, h.lo, h.hi)
    <3>1. h.hi <= h.hi
      BY <1>8
    <3> QED BY <1>3, <1>7, <1>8, <1>9, <3>1
  <2>3. NewestKept(queue, g, h.hi, h.lo, h.hi)
    BY <1>3, <1>5, <1>6, <2>1, <2>2 DEF NewestKept, Good, Starts
  <2>4. 1 <= 1 /\ 1 <= Len(queue) + 1
    BY <1>1
  <2> QED BY <1>1, <1>2, <1>4, <1>8, <2>2, <2>3, <2>4 DEF GcInv, AnySeen
<1>10. CASE \A p \in Starts : Ahead(h.seq, h.lo, queue[p].seq, p)
  <2>1. PICK e \in { h.hi - 1, h.hi } : RecordAt(queue, h.lo, e, h.seq)
    BY <1>3 DEF GenuineInv, CacheGenuine, Genuine, RecordAt
  <2>2. e \in Int /\ e <= h.hi
    BY <1>8
  <2>3. h.lo \in DOMAIN queue /\ e \in DOMAIN queue /\ HomeAt(queue, g, h, e, h.lo, e)
    BY <1>3, <1>7, <2>1, <2>2
  <2>4. NewestKept(queue, g, e, h.lo, e)
    BY <1>3, <1>5, <1>6, <1>10, <2>3 DEF NewestKept, Good, Starts
  <2>5. 1 <= 1 /\ 1 <= Len(queue) + 1
    BY <1>1
  <2> QED BY <1>1, <1>2, <1>4, <2>2, <2>3, <2>4, <2>5 DEF GcInv, AnySeen
<1> QED
  BY <1>5, <1>9, <1>10

\* From its beginning to its end a collection has the newest record.
LEMMA NextGcInv ==
    ASSUME "rot" \notin Events, "scan" \notin Events,
           GenuineInv, EmptyInv, CacheCovers, ExactInv, GcInv, [Next]_vars
    PROVE  GcInv'
<1>0. TypeOK
  BY DEF GenuineInv, TypeInv
<1>1. CASE UNCHANGED << queue, io, gc >>
  BY <1>1 DEF GcInv
<1>2. CASE io' # "collect"
  BY <1>2 DEF GcInv
<1>3. CASE CollectElement
  BY <1>0, <1>3, CollectKeepsGc
<1>4. CASE BeginGarbage
  BY <1>4, CollectBegins
<1>5. CASE ScanEnds \/ Ends \/ BeginWrites \/ PushData \/ PushEnd \/ VerifyGood \/ BeginScan
           \/ EndCollect \/ (Scanning /\ ScanElement)
  BY <1>2, <1>5 DEF ScanEnds, Ends, BeginWrites, PushData, PushEnd, VerifyGood, BeginScan,
                    EndCollect, ScanElement, Scanning
<1>6. CASE Quiet
  BY <1>1, <1>6 DEF Quiet
<1>7. CASE Forgets
  BY <1>1, <1>2, <1>4, <1>7 DEF Forgets
<1> QED
  BY <1>0, <1>3, <1>5, <1>6, <1>7, StoreSteps

\* A step of a collection keeps a good record no older than any there was.
LEMMA NewestStays ==
    ASSUME TypeOK, GcInv, CollectElement
    PROVE  \E s \in Good' : \A r \in Good : r.seq <= s.seq
<1> DEFINE m == HighestSeen(gc)
<1>1. /\ \E e \in Int : \E a, b \in DOMAIN queue : NewestKept(queue, gc, e, a, b)
      /\ gc \in GcStates /\ queue \in Seq(Elem)
  BY CollectSteps DEF GcInv, CollectElement, TypeOK
<1>2. \A r \in Good : r.seq <= m.seq
  BY <1>1 DEF NewestKept, Ahead, Good
<1>3. PICK e \in Int, a \in DOMAIN queue', b \in DOMAIN queue' :
        NewestKept(queue', gc', e, a, b)
  <2>1. GcInv' /\ io' = "collect"
    BY CollectKeepsGc DEF CollectElement
  <2> QED BY <2>1 DEF GcInv
<1>4. HighestSeen(gc') = m /\ queue' \in Seq(Elem)
  <2>1. gc'.recs = gc.recs
    BY <1>1, CollectSteps, GcStateTypes
  <2>2. queue' \in Seq(Elem)
    BY <1>1, CollectSteps, RemoveAtProperties
  <2> QED BY <2>1, <2>2 DEF HighestSeen
<1> HIDE DEF m
<1>5. IsRecord(queue', a, b) /\ queue'[a] = Start(m.seq)
  BY <1>3, <1>4 DEF NewestKept, HomeAt, RecordAt
<1>6. [seq |-> queue'[a].seq, lo |-> a, hi |-> b] \in Good' /\ queue'[a].seq = m.seq
  BY <1>4, <1>5, RecordIsGood DEF Good, Start
<1> QED
  BY <1>2, <1>6

\* The Starts of the storage after a step of a collection were there before it.
LEMMA CollectStarts ==
    ASSUME TypeOK, CollectElement, NEW p \in Starts'
    PROVE  \E x \in Starts : queue'[p] = queue[x]
<1>1. queue \in Seq(Elem) /\ gc.pos \in DOMAIN queue
  BY CollectSteps DEF TypeOK
<1>2. CASE UNCHANGED queue
  BY <1>2 DEF Starts
<1>3. CASE queue' = RemoveAt(queue, gc.pos)
  <2>1. p \in Positions(RemoveAt(queue, gc.pos), "start")
    BY <1>3 DEF Starts
  <2>2. /\ p < gc.pos => p \in Starts /\ queue'[p] = queue[p]
        /\ gc.pos <= p => p + 1 \in Starts /\ queue'[p] = queue[p + 1]
        /\ p \in Int /\ gc.pos \in Int
    BY <1>1, <1>3, <2>1, RemoveStarts DEF Starts
  <2> QED BY <2>2
<1> QED
  BY <1>2, <1>3, CollectSteps

\* No Start is numbered more than one past some good record.
LEMMA NextStartsFollow ==
    ASSUME "rot" \notin Events, GenuineInv, EmptyInv, StartsFollow, GcInv, [Next]_vars
    PROVE  StartsFollow'
<1>0. TypeInv /\ TypeOK /\ queue \in Seq(Elem) /\ seqState.next \in Nat
  BY DEF GenuineInv, TypeInv, TypeOK, SeqStates
<1>1. CASE UNCHANGED queue
  BY <1>1 DEF StartsFollow, Starts, Good
<1>2. ASSUME NEW e \in Elem, queue' = Append(queue, e),
             e.kind = "start" => e.seq = 1 \/ \E r \in Good : e.seq <= r.seq + 1
      PROVE  StartsFollow'
  <2> SUFFICES ASSUME NEW p \in Starts'
               PROVE  queue'[p].seq = 1 \/ \E r \in Good' : queue'[p].seq <= r.seq + 1
    BY DEF StartsFollow
  <2>1. Good \subseteq Good'
    BY <1>0, <1>2, AppendGood DEF Good
  <2>2. \/ p \in Starts /\ queue'[p] = queue[p]
        \/ queue'[p] = e /\ e.kind = "start"
    BY <1>0, <1>2, AppendStarts DEF Starts
  <2>3. queue'[p].seq = 1 \/ \E r \in Good : queue'[p].seq <= r.seq + 1
    BY <1>2, <2>2 DEF StartsFollow
  <2> QED BY <2>1, <2>3
<1>3. CASE BeginWrites /\ queue' = Append(queue, Start(seqState.next))
  <2> DEFINE n == seqState.next
  <2>1. Start(n) \in Elem /\ Start(n).seq = n /\ ScanCompleted(seqState)
    BY <1>0, <1>3, NextNumber, ElemTypes DEF BeginWrites, Start
  <2>2. CASE AnySeen(seqState)
    <3>1. /\ HighestSeen(seqState) \in Recs /\ n = HighestSeen(seqState).seq + 1
      BY <1>0, <2>1, <2>2, HighestIsHeld, NextIsOneMore
    <3>2. \E r \in Good : r.seq = HighestSeen(seqState).seq
      BY <3>1, CachedIsGood
    <3>3. \E r \in Good : n <= r.seq + 1
      BY <1>0, <3>1, <3>2
    <3> QED BY <1>2, <1>3, <2>1, <3>3
  <2>3. CASE ~ AnySeen(seqState)
    <3>1. n = 1
      BY <2>1, <2>3 DEF EmptyInv, ScanCompleted
    <3> QED BY <1>2, <1>3, <2>1, <3>1
  <2> QED BY <2>2, <2>3
<1>4. CASE \E e \in Elem : e.kind \in { "data", "bad" } /\ queue' = Append(queue, e)
  BY <1>2, <1>4
<1>5. CASE queue' = Append(queue, End(wr.seq, wr.crc)) \/ queue' = Append(queue, Bad)
  <2>1. /\ End(wr.seq, wr.crc) \in Elem /\ End(wr.seq, wr.crc).kind = "end"
        /\ Bad \in Elem /\ Bad.kind = "bad"
    BY <1>0, ElemTypes DEF TypeOK, End, Bad
  <2> QED BY <1>2, <1>5, <2>1
<1>6. CASE CollectElement
  <2> SUFFICES ASSUME NEW p \in Starts'
               PROVE  queue'[p].seq = 1 \/ \E r \in Good' : queue'[p].seq <= r.seq + 1
    BY DEF StartsFollow
  <2>1. PICK x \in Starts : queue'[p] = queue[x]
    BY <1>0, <1>6, CollectStarts
  <2>2. PICK s \in Good' : \A r \in Good : r.seq <= s.seq
    BY <1>0, <1>6, NewestStays
  <2>3. s.seq \in Int /\ queue[x].seq \in Int /\ \A r \in Good : r.seq \in Int
    <3>1. queue' \in Seq(Elem)
      BY <1>0, <1>6, CollectSteps, RemoveAtProperties
    <3>2. s \in GoodWriteRecord /\ \A r \in Good : r \in GoodWriteRecord
      BY <1>0, <3>1, GoodRecordIs DEF Good
    <3> QED BY <1>0, <3>2, SeqIsInt, StartsAre DEF Starts, SeqNo
  <2>4. queue[x].seq = 1 \/ \E r \in Good : queue[x].seq <= r.seq + 1
    BY DEF StartsFollow
  <2> QED BY <2>1, <2>2, <2>3, <2>4
<1> QED
  BY <1>0, <1>1, <1>3, <1>4, <1>5, <1>6, QueueSteps

\* A scan meets records in the order of their positions.
LEMMA ClosesBehind ==
    ASSUME GenuineInv, ScanCollects, Scanning, scan.at \in DOMAIN queue,
           Closes(queue[scan.at]), NEW r \in Recs
    PROVE  r.lo < scan.from
<1>1. /\ queue \in Seq(Elem) /\ scan.at \in Nat /\ scan.from \in Nat /\ scan.from # 0
  BY DEF GenuineInv, TypeInv, TypeOK, Closes
<1>2. /\ scan.from < scan.at
      /\ \A i \in scan.from + 1 .. scan.at - 1 : queue[i].kind = "data"
  BY <1>1 DEF GenuineInv, ScanInv, Scanning
<1>3. r \in Good /\ r.hi < scan.at
  BY DEF ScanCollects, GoodBelow
<1>4. r.lo \in 1 .. Len(queue) /\ r.hi \in 1 .. Len(queue) /\ r.lo < r.hi /\ queue[r.hi].kind = "end"
  <2>1. /\ r.lo \in 1 .. Len(queue) /\ r.hi \in 1 .. Len(queue) /\ r.lo < r.hi
        /\ IsRecord(queue, r.lo, r.hi)
    BY <1>1, <1>3, GoodRecordIs DEF Good, RecordAt
  <2> QED BY <2>1 DEF IsRecord
<1>5. r.hi <= scan.from
  BY <1>1, <1>2, <1>3, <1>4
<1> QED
  BY <1>1, <1>4, <1>5

\* The cache leads the good records that the scan has passed.
LEMMA NextScanCovers ==
    ASSUME "rot" \notin Events, MaxSeq < SeqLimit, GenuineInv, ScanningInv, ScanCovers, [Next]_vars
    PROVE  ScanCovers'
<1> SUFFICES ASSUME Scanning', NEW r \in GoodBelow' PROVE Leads(r.seq, r.lo)'
  BY DEF ScanCovers
<1>0. /\ queue \in Seq(Elem) /\ seqState \in SeqStates /\ Consistent(seqState)
      /\ TypeInv /\ ScanInv /\ ScanOpen /\ ScanCollects
  BY DEF GenuineInv, TypeInv, TypeOK, CacheOrdered, ScanningInv
<1>1. CASE Scanning /\ UNCHANGED << queue, seqState, scan >>
  BY <1>1 DEF ScanCovers, GoodBelow, Good, Leads
<1>2. CASE BeginScan \/ EndCollect
  <2>1. scan'.at = 1 /\ queue' = queue
    BY <1>2 DEF BeginScan, EndCollect, NoScan
  <2>2. r \in Good /\ r.hi < 1
    BY <2>1 DEF GoodBelow, Good
  <2>3. r.hi \in 1 .. Len(queue)
    BY <1>0, <2>2, GoodRecordIs DEF Good
  <2> QED BY <2>2, <2>3
<1>3. CASE Scanning /\ ScanElement
  <2> DEFINE e == queue[scan.at]
             rec == [seq |-> e.seq, lo |-> scan.from, hi |-> scan.at]
             h == HighestSeen(seqState)
  <2>1. /\ scan.at \in DOMAIN queue /\ scan.at \in Nat /\ queue' = queue /\ scan'.at = scan.at + 1
    BY <1>0, <1>3 DEF ScanElement, TypeInv, TypeOK, Past, NoScan
  <2>2. r \in Good /\ r.hi \in Nat /\ (r \in GoodBelow \/ r.hi = scan.at)
    <3>1. r \in Good /\ r.hi < scan.at + 1
      BY <2>1 DEF GoodBelow, Good
    <3>2. r.hi \in Nat
      BY <1>0, <3>1, GoodRecordIs DEF Good, GoodWriteRecord
    <3> QED BY <2>1, <3>1, <3>2 DEF GoodBelow
  <2>3. CASE ~ Closes(e)
    <3>1. seqState' = seqState /\ r \in GoodBelow
      BY <1>0, <1>3, <2>1, <2>2, <2>3, ScannedRecord DEF ScanElement
    <3> QED BY <1>3, <3>1 DEF ScanCovers, Leads
  <2>4. CASE Closes(e)
    <3>1. seqState' = InsertGood(seqState, rec) /\ (r \in GoodBelow \/ r = rec)
      BY <1>0, <1>3, <2>1, <2>2, <2>4, ScannedRecord DEF ScanElement
    <3>2. rec \in GoodWriteRecord /\ rec.lo = scan.from
      BY <1>0, <1>3, <2>1, <2>4, ClosesGenuine DEF Scanning
    <3>3. AnySeen(seqState) => h \in GoodWriteRecord /\ h.lo < rec.lo
      <4>1. ASSUME AnySeen(seqState) PROVE h \in Recs
        BY <1>0, <4>1, HighestIsHeld
      <4>2. ASSUME NEW x \in Recs PROVE x \in GoodWriteRecord /\ x.lo < rec.lo
        BY <1>0, <1>3, <2>1, <2>4, <3>2, CachedIsStart, ClosesBehind
      <4> HIDE DEF h, rec
      <4> QED BY <4>1, <4>2
    <3>4. r \in GoodWriteRecord
      BY <1>0, <2>2, GoodRecordIs DEF Good
    <3> HIDE DEF rec, h
    <3>5. /\ AnySeen(seqState')
          /\ HighestSeen(seqState') =
                IF \/ ~ AnySeen(seqState) \/ rec.seq > h.seq
                   \/ Kept = 1 /\ rec.seq = h.seq
                THEN rec ELSE h
      BY <1>0, <3>1, <3>2, InsertGoodHighest DEF h
    <3>6. r \in GoodBelow => AnySeen(seqState) /\ Ahead(h.seq, h.lo, r.seq, r.lo)
      BY <1>3 DEF ScanCovers, Leads, h
    <3>7. /\ rec.seq \in Int /\ rec.lo \in Int /\ r.seq \in Int /\ r.lo \in Int
          /\ AnySeen(seqState) => h.seq \in Int /\ h.lo \in Int
      BY <3>2, <3>3, <3>4, SeqIsInt DEF GoodWriteRecord
    <3>8. Ahead(HighestSeen(seqState').seq, HighestSeen(seqState').lo, r.seq, r.lo)
      <4>1. CASE HighestSeen(seqState') = rec
        <5>1. r = rec \/ (r.seq <= rec.seq /\ (r.seq < rec.seq \/ Kept = 1))
          <6>1. r \in GoodBelow => /\ r.seq <= h.seq /\ AnySeen(seqState) /\ h.seq \in Int
            BY <3>6, <3>7 DEF Ahead
          <6>2. CASE r \in GoodBelow /\ (rec.seq > h.seq \/ (Kept = 1 /\ rec.seq = h.seq))
            BY <3>7, <6>1, <6>2
          <6>3. CASE r \in GoodBelow /\ ~ (rec.seq > h.seq \/ (Kept = 1 /\ rec.seq = h.seq))
            <7>1. rec = h
              BY <3>5, <4>1, <6>1, <6>3
            <7>2. rec.lo < rec.lo
              BY <3>3, <6>1, <6>3, <7>1
            <7> QED BY <3>7, <7>2
          <6> QED BY <3>1, <6>2, <6>3
        <5> QED BY <3>7, <4>1, <5>1 DEF Ahead
      <4>2. CASE HighestSeen(seqState') # rec
        <5>1. /\ HighestSeen(seqState') = h /\ AnySeen(seqState) /\ ~ rec.seq > h.seq
          BY <3>5, <4>2
        <5>2. r = rec => Ahead(h.seq, h.lo, r.seq, r.lo)
          BY <3>3, <3>7, <5>1 DEF Ahead
        <5> QED BY <3>1, <3>6, <5>1, <5>2
      <4> QED BY <4>1, <4>2
    <3> QED BY <3>5, <3>8 DEF Leads
  <2> QED BY <2>3, <2>4
<1> QED
  BY <1>1, <1>2, <1>3, ScanSteps

\* A write that was read back is the newest, and leads every Start.
LEMMA VerifiedLeads ==
    ASSUME GenuineInv, CacheCovers, WriteInv, VerifyGood
    PROVE  /\ AnySeen(seqState') /\ seqState'.gc
           /\ seqState'.next = CheckedNext(HighestSeen(seqState').seq)
           /\ HighestSeen(seqState').seq = wr.seq
           /\ \A p \in Starts : Leads(queue[p].seq, p)' /\ queue[p].seq <= wr.seq
           /\ FirstStart(queue, wr.seq, HighestSeen(seqState').lo)
           /\ \E hi \in DOMAIN queue : /\ IsRecord(queue, HighestSeen(seqState').lo, hi)
                                      /\ queue[hi] = End(wr.seq, wr.crc)
<1>1. PICK lo \in DOMAIN queue, hi \in DOMAIN queue :
        /\ Verified(lo, hi)
        /\ seqState' = InsertGood(seqState, [seq |-> wr.seq, lo |-> lo, hi |-> hi + 1])
  BY DEF VerifyGood
<1> DEFINE rec == [seq |-> wr.seq, lo |-> lo, hi |-> hi + 1]
           h == HighestSeen(seqState)
<1>2. /\ queue \in Seq(Elem) /\ seqState \in SeqStates /\ Consistent(seqState)
      /\ lo \in Nat \ {0} /\ wr.seq \in SeqNo /\ wr.seq \in Int
  BY DEF GenuineInv, TypeInv, TypeOK, CacheOrdered, SeqNo
<1>3. rec \in GoodWriteRecord /\ rec.seq = wr.seq /\ rec.lo = lo
  BY <1>2 DEF GoodWriteRecord
<1>4. /\ ScanCompleted(seqState) /\ wr.seq = seqState.next /\ ~ Scanning
      /\ \A p \in Starts : queue[p].seq <= wr.seq
  BY DEF VerifyGood, WriteInv, CacheCovers, Scanning
<1>5. AnySeen(seqState) => h \in GoodWriteRecord /\ wr.seq = h.seq + 1
  BY <1>4, NextIsOneMore
<1>6. FirstStart(queue, wr.seq, lo) /\ IsRecord(queue, lo, hi) /\ queue[hi] = End(wr.seq, wr.crc)
  BY <1>1 DEF Verified, VerifiedAt
<1> HIDE DEF rec, h
<1>7. AnySeen(seqState) => rec.seq > h.seq
  BY <1>2, <1>3, <1>5, SeqIsInt
<1>8. /\ AnySeen(seqState') /\ HighestSeen(seqState') = rec
      /\ \/ seqState' = seqState /\ rec.seq < h.seq
         \/ seqState'.gc /\ seqState'.next = CheckedNext(HighestSeen(seqState').seq)
  BY <1>1, <1>2, <1>3, <1>7, InsertGoodHighest DEF rec, h
<1>9. seqState'.gc /\ seqState'.next = CheckedNext(rec.seq)
  <2>1. CASE AnySeen(seqState)
    <3>1. ~ rec.seq < h.seq
      BY <1>2, <1>3, <1>5, <2>1, SeqIsInt
    <3> QED BY <1>8, <3>1
  <2>2. CASE ~ AnySeen(seqState)
    BY <1>8, <2>2
  <2> QED BY <2>1, <2>2
<1>10. ASSUME NEW p \in Starts PROVE Leads(queue[p].seq, p)'
  <2>1. p \in 1 .. Len(queue) /\ queue[p] = Start(queue[p].seq) /\ queue[p].seq \in SeqNo
    BY <1>2, StartsAre DEF Starts
  <2>2. p < lo => queue[p].seq # wr.seq
    BY <1>2, <1>6, <2>1 DEF FirstStart
  <2>3. queue[p].seq \in Int /\ queue[p].seq <= wr.seq
    BY <1>4, <2>1 DEF SeqNo
  <2>4. Ahead(wr.seq, lo, queue[p].seq, p)
    BY <1>2, <2>2, <2>3 DEF Ahead
  <2>5. queue' = queue
    BY DEF VerifyGood
  <2> QED BY <1>3, <1>8, <2>4, <2>5 DEF Leads
<1> QED
  BY <1>3, <1>4, <1>6, <1>8, <1>9, <1>10

\* At the end of a scan the records it has passed are all there are.
LEMMA AllPassed ==
    ASSUME TypeInv, ScanDone
    PROVE  Scanning /\ Good \subseteq GoodBelow
<1>1. queue \in Seq(Elem) /\ Len(queue) \in Nat /\ scan.at \in Nat \ {0}
  BY DEF TypeInv, TypeOK
<1>2. Scanning /\ scan.at > Len(queue)
  BY <1>1 DEF ScanDone, Scanning
<1>3. \A r \in Good : r.hi \in 1 .. Len(queue)
  BY <1>1, GoodRecordIs DEF Good
<1> QED
  BY <1>1, <1>2, <1>3 DEF GoodBelow

\* What the end of a scan makes of the cache.
LEMMA ScanEndsCache ==
    ASSUME TypeInv, ScanEnds
    PROVE  /\ seqState'.recs = seqState.recs
           /\ AnySeen(seqState') = AnySeen(seqState)
           /\ HighestSeen(seqState') = HighestSeen(seqState)
           /\ seqState'.next = IF AnySeen(seqState) THEN seqState.next ELSE 1
           /\ seqState'.gc => seqState.gc
<1>1. seqState \in SeqStates
  BY DEF TypeInv, TypeOK
<1>2. /\ Populated.recs = seqState.recs /\ Populated.gc = seqState.gc
      /\ Populated.next = IF AnySeen(seqState) THEN seqState.next ELSE 1
      /\ Populated \in SeqStates
  <2>1. Populated \in SeqStates
    BY PopulatedType DEF TypeInv
  <2> QED BY <1>1, <2>1 DEF Populated, SeqStates
<1> HIDE DEF Populated
<1>3. /\ seqState'.recs = seqState.recs /\ seqState'.next = Populated.next
      /\ seqState'.gc => seqState.gc
  BY <1>2 DEF ScanEnds, SeqStates
<1> QED
  BY <1>2, <1>3 DEF AnySeen, HighestSeen

\* A cache that a scan has filled leads all good records.
LEMMA ScanEndsLeads ==
    ASSUME TypeInv, ScanCovers, ScanEnds
    PROVE  \A r \in Good : Leads(r.seq, r.lo) /\ Leads(r.seq, r.lo)'
<1>1. \A r \in Good : Leads(r.seq, r.lo)
  BY AllPassed DEF ScanCovers, ScanEnds
<1> QED
  BY <1>1, ScanEndsCache DEF Leads

\* At the end of a scan the next number is past every Start.
LEMMA ScanEndsCovers ==
    ASSUME GenuineInv, EmptyInv, StartsFollow, ScanCovers, ScanEnds
    PROVE  CacheCovers'
<1> DEFINE h == HighestSeen(seqState)
<1>1. TypeInv /\ queue \in Seq(Elem) /\ UNCHANGED queue
  BY DEF GenuineInv, TypeInv, TypeOK, ScanEnds
<1>2. \A r \in Good : Leads(r.seq, r.lo)
  BY <1>1, ScanEndsLeads
<1>3. \A r \in Good : Leads(r.seq, r.lo)'
  BY <1>1, ScanEndsLeads
<1>4. ASSUME ScanCompleted(seqState'), NEW p \in Starts PROVE queue[p].seq <= seqState'.next
  <2> DEFINE s == queue[p].seq
  <2>1. s \in Int /\ (s = 1 \/ \E r \in Good : s <= r.seq + 1)
    BY <1>1, StartsAre DEF StartsFollow, Starts, SeqNo
  <2> HIDE DEF s, h
  <2>2. CASE AnySeen(seqState)
    <3>1. seqState'.next = seqState.next /\ ScanCompleted(seqState)
      BY <1>1, <1>4, <2>2, ScanEndsCache DEF ScanCompleted
    <3>2. seqState.next = h.seq + 1 /\ h \in GoodWriteRecord
      BY <2>2, <3>1, NextIsOneMore DEF h
    <3>3. h.seq \in Int /\ h.seq >= 1
      BY <3>2, Constants DEF GoodWriteRecord, SeqNo
    <3>4. \A r \in Good : r.seq \in Int /\ r.seq <= h.seq
      <4>1. \A r \in Good : r \in GoodWriteRecord
        BY <1>1, GoodRecordIs DEF Good
      <4> QED BY <1>2, <4>1, SeqIsInt DEF Leads, Ahead, h
    <3>5. s <= h.seq + 1
      BY <2>1, <3>3, <3>4
    <3> QED BY <3>1, <3>2, <3>5 DEF s
  <2>3. CASE ~ AnySeen(seqState)
    <3>1. seqState'.next = 1 /\ Good = {}
      BY <1>1, <1>2, <2>3, ScanEndsCache DEF Leads
    <3>2. s = 1
      BY <2>1, <3>1
    <3> QED BY <3>1, <3>2 DEF s
  <2> QED BY <2>2, <2>3
<1> QED
  BY <1>1, <1>3, <1>4 DEF CacheCovers, Starts, Good

\* Nothing but the read-back of a write makes a collection due outside a scan, and
\* a Start is the only element that claims a number.
LEMMA NextCacheCovers ==
    ASSUME "rot" \notin Events, "scan" \notin Events,
           GenuineInv, EmptyInv, StartsFollow, ScanCovers, CacheCovers, WriteInv, [Next]_vars
    PROVE  CacheCovers'
<1>0. TypeInv /\ TypeOK /\ queue \in Seq(Elem) /\ seqState \in SeqStates /\ seqState.next \in Nat
  BY DEF GenuineInv, TypeInv, TypeOK, SeqStates
<1>1. CASE Quiet \/ Ends
  BY <1>1 DEF Quiet, Ends, CacheCovers, Scanning, Starts, Good, Leads
<1>2. CASE Forgets
  BY <1>2 DEF Forgets, CacheCovers, NewSeqState, ScanCompleted
<1>3. CASE ScanEnds
  BY <1>3, ScanEndsCovers
<1>4. CASE BeginScan \/ EndCollect \/ (Scanning /\ ScanElement)
  BY <1>4 DEF BeginScan, EndCollect, ScanElement, CacheCovers, Scanning
<1>5. ASSUME NEW e \in Elem, queue' = Append(queue, e), UNCHANGED seqState, ~ Scanning,
             ~ seqState.gc, e.kind = "start" => e.seq <= seqState.next
      PROVE  CacheCovers'
  <2> SUFFICES ASSUME ScanCompleted(seqState), NEW p \in Starts'
               PROVE  queue'[p].seq <= seqState.next
    BY <1>5 DEF CacheCovers
  <2>1. \/ p \in Starts /\ queue'[p] = queue[p]
        \/ queue'[p] = e /\ e.kind = "start"
    <3>1. queue \in Seq(Elem) /\ p \in Positions(Append(queue, e), "start")
      BY <1>0, <1>5 DEF Starts
    <3>2. \/ p \in Positions(queue, "start") /\ Append(queue, e)[p] = queue[p]
          \/ p = Len(queue) + 1 /\ Append(queue, e)[p] = e /\ e.kind = "start"
      BY Zenon, <3>1, AppendStarts
    <3> QED BY <1>5, <3>2 DEF Starts
  <2> QED BY <1>5, <2>1 DEF CacheCovers
<1>6. CASE BeginWrites \/ PushData \/ PushEnd
  <2>1. UNCHANGED seqState /\ ~ Scanning /\ ~ seqState.gc
    BY <1>6 DEF BeginWrites, PushData, PushEnd, WriteInv, Scanning
  <2>2. CASE UNCHANGED queue
    BY <2>1, <2>2 DEF CacheCovers, Starts
  <2>3. CASE BeginWrites /\ queue' = Append(queue, Start(seqState.next))
    <3>1. Start(seqState.next) \in Elem /\ Start(seqState.next).seq = seqState.next
      BY <1>0, <2>3, NextNumber, ElemTypes DEF BeginWrites, Start
    <3> QED BY <1>0, <1>5, <2>1, <2>3, <3>1
  <2>4. CASE \E e \in Elem : e.kind \in { "data", "bad" } /\ queue' = Append(queue, e)
    BY <1>5, <2>1, <2>4
  <2>5. CASE queue' = Append(queue, End(wr.seq, wr.crc)) \/ queue' = Append(queue, Bad)
    <3>1. /\ End(wr.seq, wr.crc) \in Elem /\ End(wr.seq, wr.crc).kind = "end"
          /\ Bad \in Elem /\ Bad.kind = "bad"
      BY <1>0, ElemTypes DEF TypeOK, End, Bad
    <3> QED BY <1>5, <2>1, <2>5, <3>1
  <2>6. ~ CollectElement
    BY <1>6 DEF CollectElement, BeginWrites, PushData, PushEnd
  <2> QED BY <1>0, <2>2, <2>3, <2>4, <2>5, <2>6, QueueSteps
<1>7. CASE VerifyGood
  <2>1. UNCHANGED queue /\ seqState'.gc
    BY <1>7, VerifiedLeads DEF VerifyGood
  <2>2. \A p \in Starts : Leads(queue[p].seq, p)' /\ queue[p].seq <= wr.seq
    BY <1>7, VerifiedLeads
  <2>3. ASSUME ScanCompleted(seqState'), NEW p \in Starts PROVE queue[p].seq <= seqState'.next
    <3>1. seqState'.next = wr.seq + 1 /\ wr.seq \in Int
      BY <1>0, <1>7, <2>3, VerifiedLeads, Constants DEF CheckedNext, ScanCompleted, TypeOK, SeqNo
    <3>2. queue[p].seq <= wr.seq /\ queue[p].seq \in Int
      BY <1>0, <2>2, StartsAre DEF Starts, SeqNo
    <3> QED BY <3>1, <3>2
  <2>4. ASSUME NEW r \in Good PROVE Leads(r.seq, r.lo)'
    <3>1. r.lo \in Starts /\ queue[r.lo].seq = r.seq
      BY <1>0, GoodRecordIs DEF Good, Starts, Positions, RecordAt, IsRecord
    <3>2. Leads(queue[r.lo].seq, r.lo)'
      BY <2>2, <3>1
    <3> QED BY <2>1, <3>1, <3>2
  <2> QED BY <2>1, <2>3, <2>4 DEF CacheCovers, Starts, Good
<1>8. CASE CollectElement
  <2>1. UNCHANGED seqState /\ ~ Scanning /\ io = "collect"
    BY <1>8 DEF CollectElement, Scanning
  <2>2. ~ seqState.gc
    BY <2>1 DEF GenuineInv, CollectInv, EmptyInv, AnySeen
  <2>3. \A p \in Starts' : \E x \in Starts : queue'[p] = queue[x]
    BY <1>0, <1>8, CollectStarts
  <2> QED BY <2>1, <2>2, <2>3 DEF CacheCovers
<1> QED
  BY <1>0, <1>1, <1>2, <1>3, <1>4, <1>6, <1>7, <1>8, StoreSteps

\* A write has the next number of the cache, which has nothing to collect.
LEMMA NextWriteInv ==
    ASSUME "rot" \in Events => ~ Rot, "scan" \notin Events, TypeOK, WriteInv, [Next]_vars
    PROVE  WriteInv'
<1>1. CASE Quiet
  BY <1>1 DEF Quiet, WriteInv
<1>2. CASE io' \notin { "push", "verify" }
  BY <1>2 DEF WriteInv
<1>3. CASE BeginWrites
  BY <1>3 DEF BeginWrites, WriteInv
<1>4. CASE PushData \/ PushEnd
  <2>1. io = "push" /\ UNCHANGED seqState
    BY <1>4 DEF PushData, PushEnd
  <2>2. wr'.seq = wr.seq
    BY <1>4 DEF PushData, PushEnd, TypeOK
  <2> QED BY <2>1, <2>2 DEF WriteInv
<1>5. CASE Ends \/ Forgets \/ ScanEnds \/ VerifyGood \/ CollectElement \/ BeginScan
           \/ EndCollect \/ (Scanning /\ ScanElement)
  BY <1>2, <1>5 DEF Ends, Forgets, ScanEnds, VerifyGood, CollectElement, BeginScan,
                    EndCollect, ScanElement, Scanning, BeginGarbage
<1> QED
  BY <1>1, <1>3, <1>4, <1>5, StoreSteps

\* Until a read-back records a range the cache only holds what a scan recorded.
LEMMA NextExactInv ==
    ASSUME "rot" \notin Events, "scan" \notin Events,
           GenuineInv, ScanningInv, CacheCovers, WriteInv, ExactInv, [Next]_vars
    PROVE  ExactInv'
<1>0. TypeInv /\ TypeOK /\ queue \in Seq(Elem)
  BY DEF GenuineInv, TypeInv, TypeOK
<1>1. CASE Quiet \/ Ends
  BY <1>1 DEF Quiet, Ends, ExactInv, Scanning, Recs, Starts, Leads
<1>2. CASE Forgets
  BY <1>2 DEF Forgets, ExactInv, Recs, NewSeqState
<1>3. CASE ScanEnds
  <2>1. seqState'.recs = seqState.recs /\ UNCHANGED queue
    BY <1>0, <1>3, ScanEndsCache DEF ScanEnds
  <2>2. Recs \subseteq Good
    BY <1>0, <1>3, AllPassed DEF ScanEnds, ScanningInv, ScanCollects, GoodBelow
  <2>3. \A r \in Recs : RecordAt(queue, r.lo, r.hi, r.seq)
    BY <1>0, <2>2, GoodRecordIs DEF Good
  <2> QED BY <2>1, <2>3 DEF ExactInv, Recs
<1>4. CASE BeginScan \/ EndCollect \/ (Scanning /\ ScanElement)
  BY <1>4 DEF BeginScan, EndCollect, ScanElement, ExactInv, Scanning
<1>5. ASSUME NEW e \in Elem, queue' = Append(queue, e), UNCHANGED seqState, ~ Scanning,
             ~ seqState.gc
      PROVE  ExactInv'
  <2>1. \A r \in Recs : RecordAt(queue, r.lo, r.hi, r.seq)
    BY <1>5 DEF ExactInv
  <2>2. ASSUME NEW r \in Recs PROVE RecordAt(queue', r.lo, r.hi, r.seq)
    <3>1. r.lo \in Nat /\ r.hi \in Int
      BY CachedIsStart DEF GoodWriteRecord
    <3> QED BY <1>0, <1>5, <2>1, <3>1, AppendKeepsRecord DEF RecordAt
  <2> QED BY <1>5, <2>2 DEF ExactInv, Recs
<1>6. CASE BeginWrites \/ PushData \/ PushEnd
  <2>1. UNCHANGED seqState /\ ~ Scanning /\ ~ seqState.gc
    BY <1>6 DEF BeginWrites, PushData, PushEnd, WriteInv, Scanning
  <2>2. CASE UNCHANGED queue
    BY <2>1, <2>2 DEF ExactInv, Recs
  <2>3. CASE queue' = Append(queue, Start(seqState.next)) /\ BeginWrites
    BY <1>0, <1>5, <2>1, <2>3, NextNumber, ElemTypes DEF BeginWrites
  <2>4. CASE \E e \in Elem : e.kind \in { "data", "bad" } /\ queue' = Append(queue, e)
    BY <1>5, <2>1, <2>4
  <2>5. CASE queue' = Append(queue, End(wr.seq, wr.crc)) \/ queue' = Append(queue, Bad)
    <3>1. End(wr.seq, wr.crc) \in Elem /\ Bad \in Elem
      BY <1>0, ElemTypes DEF TypeOK
    <3> QED BY <1>5, <2>1, <2>5, <3>1
  <2>6. ~ CollectElement
    BY <1>6 DEF CollectElement, BeginWrites, PushData, PushEnd
  <2> QED BY <1>0, <2>2, <2>3, <2>4, <2>5, <2>6, QueueSteps
<1>7. CASE VerifyGood
  <2>1. UNCHANGED queue /\ seqState'.gc
    BY <1>7, VerifiedLeads DEF VerifyGood
  <2>2. \A p \in Starts : Leads(queue[p].seq, p)'
    BY <1>7, VerifiedLeads
  <2> QED BY <2>1, <2>2 DEF ExactInv, Starts
<1>8. CASE CollectElement
  <2>1. UNCHANGED seqState /\ seqState.recs = << >>
    BY <1>8 DEF CollectElement, GenuineInv, CollectInv
  <2> QED BY <2>1 DEF ExactInv, Recs
<1> QED
  BY <1>0, <1>1, <1>2, <1>3, <1>4, <1>6, <1>7, <1>8, StoreSteps

-----------------------------------------------------------------------------
\* The inductive invariant.
SurvivalInv ==
    /\ EmptyInv /\ StartsFollow /\ ScanCovers /\ CacheCovers
    /\ WriteInv /\ ExactInv /\ GcInv

\* There is nothing to lose at the start.
LEMMA InitSurvival == Init => SurvivalInv
<1> SUFFICES ASSUME Init PROVE SurvivalInv
  OBVIOUS
<1>1. queue = << >> /\ seqState = NewSeqState /\ io = "idle"
  BY DEF Init
<1>2. EmptyInv /\ Recs = {} /\ ~ Scanning /\ Starts = {} /\ ~ seqState.gc
  BY <1>1 DEF EmptyInv, Recs, Scanning, Starts, Positions, NewSeqState
<1> QED
  BY <1>1, <1>2 DEF SurvivalInv, StartsFollow, ScanCovers, CacheCovers, WriteInv, ExactInv, GcInv

\* Every step keeps what the survival of the newest record rests on.
LEMMA NextSurvival ==
    ASSUME "rot" \notin Events, "scan" \notin Events, MaxSeq < SeqLimit,
           GenuineInv, ScanningInv, SurvivalInv, [Next]_vars
    PROVE  SurvivalInv'
<1>1. /\ EmptyInv /\ StartsFollow /\ ScanCovers /\ CacheCovers
      /\ WriteInv /\ ExactInv /\ GcInv /\ TypeOK
  BY DEF SurvivalInv, GenuineInv, TypeInv
<1>2. EmptyInv' /\ StartsFollow'
  BY <1>1, NextEmptyInv, NextStartsFollow
<1>3. ScanCovers' /\ CacheCovers'
  BY <1>1, NextScanCovers, NextCacheCovers
<1>4. WriteInv' /\ ExactInv' /\ GcInv'
  BY <1>1, NextWriteInv, NextExactInv, NextGcInv
<1> QED
  BY <1>2, <1>3, <1>4 DEF SurvivalInv

\* All that is known of a reachable state when nothing rots and no scan is cut short.
StoreInv == GenuineInv /\ ScanningInv /\ SurvivalInv

\* The whole invariant of the storage at the start.
LEMMA InitStoreInv == Init => StoreInv
  BY InitTypeInv, InitGenuine, InitScanning, InitSurvival DEF GenuineInv, StoreInv

\* Every step keeps the whole invariant of the storage.
LEMMA NextStoreInv ==
    ASSUME "rot" \notin Events, "scan" \notin Events, MaxSeq < SeqLimit,
           StoreInv, [Next]_vars
    PROVE  StoreInv'
<1>1. GenuineInv /\ ScanningInv /\ SurvivalInv
  BY DEF StoreInv
<1>2. TypeInv /\ ScanInv /\ NumberInv /\ ScanOpen /\ ScanCollects
  BY <1>1 DEF GenuineInv, ScanningInv
<1>3. ScanningInv'
  BY <1>1, <1>2, NextNumberInv, NextScanOpen, NextScanCollects DEF ScanningInv
<1> QED
  BY <1>1, <1>3, NextGenuineInv, NextSurvival DEF StoreInv

\* The newest of the good records of a queue.
LEMMA NewestSeqIs ==
    ASSUME NEW q \in Seq(Elem)
    PROVE  /\ GoodRecords(q) = {} => NewestSeq(GoodRecords(q)) = 0
           /\ GoodRecords(q) # {} =>
                 /\ \E r \in GoodRecords(q) : r.seq = NewestSeq(GoodRecords(q))
                 /\ \A r \in GoodRecords(q) : r.seq <= NewestSeq(GoodRecords(q))
<1> DEFINE good == GoodRecords(q)
           T == { SeqLimit - r.seq : r \in good }
<1>1. \A r \in good : r.seq \in 1 .. SeqLimit
  BY GoodRecordIs DEF GoodWriteRecord, SeqNo
<1> HIDE DEF good
<1>2. ASSUME good # {} PROVE \E s \in good : \A r \in good : r.seq <= s.seq
  <2>1. T \in SUBSET Nat /\ T # {}
    BY <1>1, <1>2, Constants
  <2> HIDE DEF T
  <2>2. PICK x \in T : \A y \in T : x <= y
    BY <2>1, LeastElement
  <2>3. PICK s \in good : x = SeqLimit - s.seq
    BY <2>2 DEF T
  <2>4. ASSUME NEW r \in good PROVE r.seq <= s.seq
    <3>1. SeqLimit - r.seq \in T
      BY DEF T
    <3> QED BY <1>1, <2>2, <2>3, <3>1, Constants
  <2> QED BY <2>4
<1>3. ASSUME good # {}
      PROVE  /\ NewestSeq(good) \in { r.seq : r \in good }
             /\ \A r \in good : r.seq <= NewestSeq(good)
  <2>1. PICK s \in good : \A r \in good : r.seq <= s.seq
    BY <1>2, <1>3
  <2>2. \E n \in { r.seq : r \in good } : \A r \in good : r.seq <= n
    BY <2>1
  <2> QED BY <1>3, <2>2 DEF NewestSeq
<1> QED
  BY <1>3 DEF NewestSeq, good

\* The newest number does not fall when no good record is left without a successor.
LEMMA NewestSeqGrows ==
    ASSUME NEW q \in Seq(Elem), NEW n \in Seq(Elem),
           \A r \in GoodRecords(q) : \E s \in GoodRecords(n) : r.seq <= s.seq
    PROVE  NewestSeq(GoodRecords(n)) >= NewestSeq(GoodRecords(q))
<1>1. /\ \A r \in GoodRecords(q) : r.seq \in Int
      /\ \A r \in GoodRecords(n) : r.seq \in Int /\ r.seq > 0
  <2>1. /\ \A r \in GoodRecords(q) : r \in GoodWriteRecord
        /\ \A r \in GoodRecords(n) : r \in GoodWriteRecord
    BY GoodRecordIs
  <2> QED BY <2>1, Constants DEF GoodWriteRecord, SeqNo
<1>2. CASE GoodRecords(q) = {}
  <2>1. NewestSeq(GoodRecords(q)) = 0
    BY <1>2, NewestSeqIs
  <2>2. NewestSeq(GoodRecords(n)) >= 0
    BY <1>1, NewestSeqIs
  <2> QED BY <2>1, <2>2
<1>3. CASE GoodRecords(q) # {}
  <2>1. PICK r \in GoodRecords(q) : r.seq = NewestSeq(GoodRecords(q))
    BY <1>3, NewestSeqIs
  <2>2. PICK s \in GoodRecords(n) : r.seq <= s.seq
    OBVIOUS
  <2>3. /\ s.seq <= NewestSeq(GoodRecords(n))
        /\ \E t \in GoodRecords(n) : t.seq = NewestSeq(GoodRecords(n))
    BY <2>2, NewestSeqIs
  <2> QED BY <1>1, <2>1, <2>2, <2>3
<1> QED
  BY <1>2, <1>3

\* No step leaves the storage without a record at least as new as each there was.
LEMMA NextNewest ==
    ASSUME "rot" \notin Events, "scan" \notin Events, StoreInv, [Next]_vars
    PROVE  NewestSeq(GoodRecords(queue')) >= NewestSeq(GoodRecords(queue))
<1>0. /\ TypeInv /\ TypeOK /\ GcInv /\ queue \in Seq(Elem)
      /\ TypeInv' /\ queue' \in Seq(Elem)
  <2>1. TypeInv /\ GcInv
    BY DEF StoreInv, GenuineInv, SurvivalInv
  <2>2. TypeInv'
    BY <2>1, NextTypeInv
  <2> QED BY <2>1, <2>2 DEF TypeInv, TypeOK
<1> SUFFICES \A r \in Good : \E s \in Good' : r.seq <= s.seq
  BY <1>0, NewestSeqGrows DEF Good
<1>1. ASSUME Good \subseteq Good'
      PROVE  \A r \in Good : \E s \in Good' : r.seq <= s.seq
  <2>1. \A r \in Good : r.seq \in Int
    <3>1. \A r \in Good : r \in GoodWriteRecord
      BY <1>0, GoodRecordIs DEF Good
    <3> QED BY <3>1, SeqIsInt
  <2> QED BY <1>1, <2>1
<1>2. CASE UNCHANGED queue
  BY <1>2, <1>1 DEF Good
<1>3. ASSUME NEW e \in Elem, queue' = Append(queue, e) PROVE Good \subseteq Good'
  BY <1>0, <1>3, AppendGood DEF Good
<1>4. CASE BeginWrites /\ queue' = Append(queue, Start(seqState.next))
  <2>1. Start(seqState.next) \in Elem
    BY <1>0, <1>4, NextNumber, ElemTypes DEF BeginWrites
  <2> QED BY <1>1, <1>3, <1>4, <2>1
<1>5. CASE \E e \in Elem : e.kind \in { "data", "bad" } /\ queue' = Append(queue, e)
  BY <1>1, <1>3, <1>5
<1>6. CASE queue' = Append(queue, End(wr.seq, wr.crc)) \/ queue' = Append(queue, Bad)
  <2>1. End(wr.seq, wr.crc) \in Elem /\ Bad \in Elem
    BY <1>0, ElemTypes DEF TypeOK
  <2> QED BY <1>1, <1>3, <1>6, <2>1
<1>7. CASE CollectElement
  BY <1>0, <1>7, NewestStays
<1> QED
  BY <1>0, <1>1, <1>2, <1>4, <1>5, <1>6, <1>7, QueueSteps

\* The newest complete record of the storage is only ever superseded, never lost: not
\* by an invalidation of process_garbage (storage_list.rs:435-525), which works from
\* ranges that a scan or a read-back recorded, not by a write that was cut short, and
\* not by a write that takes up the number of one that was.  An element that
\* rots may be part of that record; and a scan that is cut short leaves a cache that
\* knows only the head of the storage, from which a collection may then begin.
THEOREM NewestRecordSurvives ==
    ASSUME "rot" \notin Events, "scan" \notin Events, MaxSeq < SeqLimit
    PROVE  Spec => NewestSurvives
<1>1. Init => StoreInv
  BY InitStoreInv
<1>2. StoreInv /\ [Next]_vars => StoreInv'
  BY NextStoreInv
<1>3. StoreInv /\ [Next]_vars => [NewestSeq(GoodRecords(queue')) >= NewestSeq(GoodRecords(queue))]_queue
  BY NextNewest
<1> QED
  BY <1>1, <1>2, <1>3, PTL DEF Spec, NewestSurvives

=============================================================================
