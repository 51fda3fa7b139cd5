------------------------------ MODULE SeqState ------------------------------
(***************************************************************************)
(* SeqState, the cache of the newest valid Write Records that StorageList  *)
(* keeps: the next sequence number, the Kept newest records with the range *)
(* of elements each occupies, and whether garbage collection is due.       *)
(*                                                                         *)
(* The code holds `last_records: [Option<GoodWriteRecord>; KEPT_RECORDS]`  *)
(* sorted with the empty slots first; it is modelled by the sequence of    *)
(* the records it holds, the newest last.  next = 0 stands for None.       *)
(***************************************************************************)
EXTENDS FlashQueue

CONSTANT Kept      \* KEPT_RECORDS

\* StorageList::try_new refuses KEPT_RECORDS = 0.
ASSUME KeptAssumption == Kept \in Nat \ {0}

GoodWriteRecord == [seq : SeqNo, lo : Nat \ {0}, hi : Nat \ {0}]

SeqStates == [next : 0 .. SeqLimit, recs : Seq(GoodWriteRecord), gc : BOOLEAN]

\* SeqState::new
NewSeqState == [next |-> 0, recs |-> << >>, gc |-> FALSE]

\* SeqState::initial_scan_completed
ScanCompleted(ss) == ss.next # 0

\* SeqState::highest_seen is Some
AnySeen(ss) == ss.recs # << >>

\* SeqState::highest_seen
HighestSeen(ss) == ss.recs[Len(ss.recs)]

\* A mistake, for the mutants of PROJECT.json: the addition does not stop.
UncheckedNext(s) == s + 1

\* u32::checked_add(1): None (0) past the largest number.
CheckedNext(s) == IF s = SeqLimit THEN 0 ELSE s + 1

-----------------------------------------------------------------------------
(***************************************************************************)
(* Plausible mistakes in insert_good, for the mutants.                     *)
(***************************************************************************)
\* The oldest record is kept and the new one dropped once the array is full.
OldestFirst(recs, rec) ==
    IF Len(recs) < Kept THEN Append(recs, rec) ELSE recs

\* The array is not sorted: the new record goes to the slot it replaced.
UnsortedInsert(recs, rec) ==
    << rec >> \o (IF Len(recs) < Kept THEN recs ELSE Tail(recs))

-----------------------------------------------------------------------------
(***************************************************************************)
(* The insertion of insert_good.  An empty slot is the minimum while there *)
(* is one, otherwise the first record is replaced; the sort moves the new  *)
(* record, which is in front of the others, past those that are older and  *)
(* past none that has the same sequence number.                            *)
(* sort_unstable_by_key gives records of one sequence number no order; for *)
(* at most 20 slots the standard library's is an insertion sort, which     *)
(* keeps theirs.  Larger values of Kept are taken to behave the same.      *)
(***************************************************************************)
InsertRecord(recs, rec) ==
    LET base  == IF Len(recs) < Kept THEN recs ELSE Tail(recs)
        older == { i \in DOMAIN base : Newer(rec, base[i]) }
    IN  InsertAt(base, Cardinality(older) + 1, rec)

\* SeqState::insert_good.  It returns early when even the oldest record held
\* is newer than rec.
InsertGood(ss, rec) ==
    IF Len(ss.recs) >= Kept /\ Newer(ss.recs[1], rec) THEN ss
    ELSE LET recs == InsertRecord(ss.recs, rec)
         IN  [next |-> CheckedNext(recs[Len(recs)].seq), recs |-> recs, gc |-> TRUE]

-----------------------------------------------------------------------------
\* The array is ordered by sequence number, duplicates allowed.
Ordered(recs) ==
    \A i, j \in DOMAIN recs : i < j => ~ Newer(recs[i], recs[j])

\* What the fields of a SeqState owe each other.
Consistent(ss) ==
    /\ Len(ss.recs) <= Kept
    /\ Ordered(ss.recs)
    /\ AnySeen(ss) => ss.next = CheckedNext(HighestSeen(ss).seq)

=============================================================================
