----------------------------- MODULE StorageList -----------------------------
(***************************************************************************)
(* The write-record store of cfg-noodle: a StorageList, the nodes attached *)
(* to it, and the flash queue its I/O worker reads, writes and collects.   *)
(*                                                                         *)
(* One task owns the storage (`&mut S`) and runs one process_* call at a   *)
(* time; user tasks attach, write and detach nodes whenever the mutex of   *)
(* the list is free.  process_reads and process_writes hold the mutex for  *)
(* the whole call; process_garbage holds it when it takes the SeqState and *)
(* again for the final rescan, but not while it invalidates elements.  A   *)
(* step is one access to the storage (one await).  A call may end at any   *)
(* of them: a storage error is returned with `?`, or the future is dropped *)
(* (default_worker_task does both), and power may fail.                    *)
(***************************************************************************)
EXTENDS SeqState

CONSTANTS
    Default,     \* the payload a node takes when the storage has none for it
    NoVal,       \* the payload of a node that holds none
    Capacity,    \* how many elements the storage has room for
    Events,      \* the kinds of fault and of rare call that may happen
    MaxEvents,   \* bound: how many of them a behaviour has
    MaxSeq       \* bound: no record is begun with a larger sequence number

EventKinds ==
    { "detach",     \* a node is detached
      "reset",      \* reset_cache is called
      "crash",      \* loss of power, at any step
      "scan",       \* get_or_populate_latest ends at an element
      "extract",    \* extract_all ends at an element
      "push",       \* write_to_flash ends at an element
      "verify",     \* verify_list_in_flash ends before its verdict
      "collect",    \* process_garbage ends at an element
      "badpush",    \* an element is stored so that it does not decode
      "rot",        \* a stored element stops decoding
      "schema" }    \* a stored payload fails to deserialize into its node

ASSUME StorageAssumption ==
    /\ Default \in Values /\ NoVal \notin Values
    /\ Capacity \in Nat
    /\ Events \subseteq EventKinds /\ MaxEvents \in Nat
    /\ MaxSeq \in SeqNo

VARIABLES
    queue,      \* the elements in the storage, oldest first: all that survives a crash
    list,       \* the keys of the attached nodes, the last attached first
    node,       \* per key, the State and the payload of the node
    seqState,   \* StorageListInner::seq_state
    io,         \* what the task that owns the storage is doing
    scan,       \* get_or_populate_latest: the next element; where the record being
                \* read began (0 outside one), its number and its data so far
    wr,         \* process_writes: sequence number, nodes left to visit, data so far
    gc,         \* process_garbage: the records taken, iterator index, queue position
    events      \* how many of the bounded events have happened

vars == << queue, list, node, seqState, io, scan, wr, gc, events >>

-----------------------------------------------------------------------------
\* State, storage_node.rs:62-139, says in which states the payload exists.
Nodes == [state : { "Initial", "NonResident" }, val : {NoVal}]
    \cup [state : { "ValidNoWriteNeeded", "NeedsWrite" }, val : Values]

\* A node that is not attached, or attached and not hydrated.
Fresh == [state |-> "Initial", val |-> NoVal]

Attached == { list[i] : i \in DOMAIN list }

\* Only these nodes hold a payload that may be serialized.
Writable(k) == node[k].state \in { "ValidNoWriteNeeded", "NeedsWrite" }

IoStates == { "idle", "readScan", "push", "verify", "collect", "gcScan" }

\* The calls during which the owner of the storage holds the mutex.
Locked == io \in { "readScan", "push", "verify", "gcScan" }

NoScan == [at |-> 1, from |-> 0, seq |-> 1, crc |-> << >>]
NoWr   == [seq |-> 1, todo |-> << >>, crc |-> << >>]
NoGc   == [recs |-> << >>, idx |-> 1, pos |-> 1]

TypeOK ==
    /\ queue \in Seq(Elem)
    /\ list \in Seq(Keys)
    /\ node \in [Keys -> Nodes]
    /\ seqState \in SeqStates
    /\ io \in IoStates
    /\ scan \in [at : Nat \ {0}, from : Nat, seq : SeqNo, crc : Seq(DataElem)]
    /\ wr \in [seq : SeqNo, todo : Seq(Keys), crc : Seq(DataElem)]
    /\ gc \in [recs : Seq(GoodWriteRecord), idx : Nat \ {0}, pos : Nat \ {0}]
    /\ events \in 0 .. MaxEvents

\* A bounded event of kind f happens in this step, or (NoEvent) none does.
Event(f) == f \in Events /\ events < MaxEvents /\ events' = events + 1
NoEvent  == UNCHANGED events

Init ==
    /\ queue = << >>
    /\ list = << >>
    /\ node = [k \in Keys |-> Fresh]
    /\ seqState = NewSeqState
    /\ io = "idle" /\ scan = NoScan /\ wr = NoWr /\ gc = NoGc
    /\ events = 0

-----------------------------------------------------------------------------
(***************************************************************************)
(* User tasks.  Each of these takes the mutex of the list.                 *)
(***************************************************************************)

\* attach: a node of a new key is pushed to the front of the list.
Attach(k) ==
    /\ ~ Locked
    /\ k \notin Attached
    /\ list' = << k >> \o list
    /\ node' = [node EXCEPT ![k] = Fresh]
    /\ UNCHANGED << queue, seqState, io, scan, wr, gc >> /\ NoEvent

\* attach, second half: the storage had nothing for the node.
TakeDefault(k) ==
    /\ ~ Locked
    /\ k \in Attached /\ node[k].state = "NonResident"
    /\ node' = [node EXCEPT ![k] = [state |-> "NeedsWrite", val |-> Default]]
    /\ UNCHANGED << queue, list, seqState, io, scan, wr, gc >> /\ NoEvent

\* A mistake, for the mutants: write does not take the mutex.
WriteUnlocked(k, v) ==
    /\ k \in Attached /\ Writable(k)
    /\ node' = [node EXCEPT ![k] = [state |-> "NeedsWrite", val |-> v]]
    /\ UNCHANGED << queue, list, seqState, io, scan, wr, gc >> /\ NoEvent

\* StorageListNodeHandle::write; in the other states it returns InvalidState.
Write(k, v) ==
    /\ ~ Locked
    /\ k \in Attached /\ Writable(k)
    /\ node' = [node EXCEPT ![k] = [state |-> "NeedsWrite", val |-> v]]
    /\ UNCHANGED << queue, list, seqState, io, scan, wr, gc >> /\ NoEvent

\* detach, once the handle (which attach returned, so Writable) is dropped.
Detach(k) ==
    /\ ~ Locked
    /\ k \in Attached /\ Writable(k)
    /\ \E i \in DOMAIN list : list[i] = k /\ list' = RemoveAt(list, i)
    /\ node' = [node EXCEPT ![k] = Fresh]
    /\ UNCHANGED << queue, seqState, io, scan, wr, gc >> /\ Event("detach")

\* reset_cache.
ResetCache ==
    /\ ~ Locked
    /\ seqState' = NewSeqState
    /\ UNCHANGED << queue, list, node, io, scan, wr, gc >> /\ Event("reset")

-----------------------------------------------------------------------------
(***************************************************************************)
(* process_reads.  get_or_populate_latest visits one element per step (it  *)
(* is shared with process_garbage); extract_all and the marking of what is *)
(* left belong to its last step.                                           *)
(***************************************************************************)

Hydrated(h, stop, broken) ==
    [k \in Keys |->
        IF k \in Attached /\ node[k].state = "Initial" /\ Holds(queue, h.lo, stop, k)
        THEN IF k \in broken THEN [node[k] EXCEPT !.state = "NonResident"]
             ELSE [state |-> "ValidNoWriteNeeded", val |-> PayloadOf(queue, h.lo, stop, k)]
        ELSE node[k]]

\* mark_initial_nonresident
MarkNonResident(nodes) ==
    [k \in Keys |->
        IF k \in Attached /\ nodes[k].state = "Initial"
        THEN [nodes[k] EXCEPT !.state = "NonResident"] ELSE nodes[k]]

\* The record that the cache calls newest starts where the cache says.
StartsAt(h) == h.lo \in DOMAIN queue /\ queue[h.lo] = Start(h.seq)

\* ... and ends with an End of its own: otherwise InconsistentFlash.
EndsAt(h, stop) ==
    stop \in DOMAIN queue /\ queue[stop].kind = "end" /\ queue[stop].seq = h.seq

\* The keys whose payload does not deserialize: a fault, unless there are none.
Schema(broken) == IF broken = {} THEN NoEvent ELSE Event("schema")

\* extract_all, with ss as the SeqState, reaches the End of the newest record, or
\* there is none: what is left Initial has nothing in the storage.
ReadAll(ss) ==
    LET h == HighestSeen(ss)  stop == DataStop(queue, h.lo) IN
    IF ~ AnySeen(ss) THEN node' = MarkNonResident(node) /\ NoEvent
    ELSE /\ StartsAt(h) /\ EndsAt(h, stop)
         /\ \E broken \in SUBSET Attached :
              node' = MarkNonResident(Hydrated(h, stop, broken)) /\ Schema(broken)

\* extract_all returns an error: InconsistentFlash, or one of the storage.
ReadFails(ss) ==
    LET h == HighestSeen(ss)  stop == DataStop(queue, h.lo) IN
    /\ AnySeen(ss)
    /\ IF ~ StartsAt(h) THEN UNCHANGED node /\ NoEvent
       ELSE \/ /\ ~ EndsAt(h, stop)
               /\ \E broken \in SUBSET Attached :
                    node' = Hydrated(h, stop, broken) /\ Schema(broken)
            \/ \E at \in h.lo + 1 .. stop, broken \in SUBSET Attached :
                    /\ broken # {} => "schema" \in Events
                    /\ node' = Hydrated(h, at, broken) /\ Event("extract")

ReadRecord(ss, ok) == IF ok THEN ReadAll(ss) ELSE ReadFails(ss)

\* process_reads when the SeqState is known; ok says what it returns.
ProcessReads(ok) ==
    /\ io = "idle"
    /\ ScanCompleted(seqState)
    /\ ReadRecord(seqState, ok)
    /\ UNCHANGED << queue, list, seqState, io, scan, wr, gc >>

BeginScan ==
    /\ io = "idle"
    /\ ~ ScanCompleted(seqState)
    /\ io' = "readScan" /\ scan' = NoScan
    /\ UNCHANGED << queue, list, node, seqState, wr, gc >> /\ NoEvent

\* A mistake, for the mutants: the CRC is not compared.
ClosesUnchecked(e) == e.kind = "end" /\ scan.from # 0 /\ e.seq = scan.seq

\* Element e closes the record that is being read.
Closes(e) ==
    /\ e.kind = "end" /\ scan.from # 0
    /\ e.seq = scan.seq /\ e.crc = scan.crc

\* What the iteration remembers past element e.
Past(e) ==
    CASE e.kind = "start" ->
            [at |-> scan.at + 1, from |-> scan.at, seq |-> e.seq, crc |-> << >>]
      [] e.kind = "data" /\ scan.from # 0 ->
            [scan EXCEPT !.at = @ + 1, !.crc = Append(@, e)]
      [] OTHER -> [NoScan EXCEPT !.at = scan.at + 1]

ScanElement ==
    /\ io \in { "readScan", "gcScan" }
    /\ scan.at \in DOMAIN queue
    /\ LET e == queue[scan.at] IN
         /\ seqState' = IF Closes(e)
                        THEN InsertGood(seqState, [seq |-> e.seq, lo |-> scan.from,
                                                   hi |-> scan.at])
                        ELSE seqState
         /\ scan' = Past(e)
    /\ UNCHANGED << queue, list, node, io, wr, gc >> /\ NoEvent

\* The end of the queue: with no valid record numbering starts at 1.
Populated == IF AnySeen(seqState) THEN seqState ELSE [seqState EXCEPT !.next = 1]

EndReadScan(ok) ==
    /\ io = "readScan"
    /\ scan.at \notin DOMAIN queue
    /\ seqState' = Populated
    /\ ReadRecord(Populated, ok)
    /\ io' = "idle" /\ scan' = NoScan
    /\ UNCHANGED << queue, list, wr, gc >>

-----------------------------------------------------------------------------
(***************************************************************************)
(* process_writes: Start, one element per writable node in list order, End,*)
(* then the read-back.  Every push may find the storage full.              *)
(***************************************************************************)

\* NdlDataStorage::push, of an element that may end up unreadable.
Push(e) ==
    /\ Len(queue) < Capacity
    /\ \/ queue' = Append(queue, e) /\ NoEvent
       \/ queue' = Append(queue, Bad) /\ Event("badpush")

NeedsWriting ==
    \/ \E k \in Attached : node[k].state = "NeedsWrite"
    \/ ~ AnySeen(seqState)

BeginWrites ==
    /\ io = "idle"
    /\ ScanCompleted(seqState)                            \* else NeedsFirstRead
    /\ ~ seqState.gc                                      \* else NeedsGarbageCollect
    /\ \A k \in Attached : node[k].state # "Initial"      \* else NeedsFirstRead
    /\ NeedsWriting
    /\ seqState.next <= MaxSeq                            \* bound
    /\ Push(Start(seqState.next))
    /\ io' = "push" /\ wr' = [seq |-> seqState.next, todo |-> list, crc |-> << >>]
    /\ UNCHANGED << list, node, seqState, scan, gc >>

\* A mistake, for the mutants: a node is marked when its element is pushed.
PushCleans ==
    /\ io = "push" /\ wr.todo # << >>
    /\ LET k == Head(wr.todo)  e == Data(k, node[k].val) IN
         IF Writable(k)
         THEN /\ Push(e)
              /\ wr' = [wr EXCEPT !.todo = Tail(@), !.crc = Append(@, e)]
              /\ node' = [node EXCEPT ![k].state = "ValidNoWriteNeeded"]
         ELSE /\ wr' = [wr EXCEPT !.todo = Tail(@)]
              /\ UNCHANGED << queue, node >> /\ NoEvent
    /\ UNCHANGED << list, seqState, io, scan, gc >>

PushData ==
    /\ io = "push" /\ wr.todo # << >>
    /\ LET k == Head(wr.todo)  e == Data(k, node[k].val) IN
         IF Writable(k)
         THEN /\ Push(e)
              /\ wr' = [wr EXCEPT !.todo = Tail(@), !.crc = Append(@, e)]
         ELSE /\ wr' = [wr EXCEPT !.todo = Tail(@)]
              /\ UNCHANGED queue /\ NoEvent
    /\ UNCHANGED << list, node, seqState, io, scan, gc >>

PushEnd ==
    /\ io = "push" /\ wr.todo = << >>
    /\ Push(End(wr.seq, wr.crc))
    /\ io' = "verify"
    /\ UNCHANGED << list, node, seqState, scan, wr, gc >>

\* The storage has no room for the next element.
StorageFull ==
    /\ io = "push" /\ Len(queue) >= Capacity
    /\ io' = "idle" /\ wr' = NoWr
    /\ UNCHANGED << queue, list, node, seqState, scan, gc >> /\ NoEvent

Verified(lo, hi) == VerifiedAt(queue, wr.seq, wr.crc, lo, hi)

\* Every node that holds a payload is marked, whatever its state was.
Cleaned(nodes) ==
    [k \in Keys |->
        IF k \in Attached /\ nodes[k].state = "NeedsWrite"
        THEN [nodes[k] EXCEPT !.state = "ValidNoWriteNeeded"] ELSE nodes[k]]

\* The range that verify_list_in_flash returns ends one past the End.
VerifyGood ==
    /\ io = "verify"
    /\ \E lo, hi \in DOMAIN queue :
         /\ Verified(lo, hi)
         /\ seqState' = InsertGood(seqState, [seq |-> wr.seq, lo |-> lo, hi |-> hi + 1])
    /\ node' = Cleaned(node)
    /\ io' = "idle" /\ wr' = NoWr
    /\ UNCHANGED << queue, list, scan, gc >> /\ NoEvent

\* InconsistentFlash or WriteVerificationFailed: nothing is recorded.
VerifyBad ==
    /\ io = "verify"
    /\ ~ \E lo, hi \in DOMAIN queue : Verified(lo, hi)
    /\ io' = "idle" /\ wr' = NoWr
    /\ UNCHANGED << queue, list, node, seqState, scan, gc >> /\ NoEvent

-----------------------------------------------------------------------------
(***************************************************************************)
(* process_garbage.  gc.idx is the iterator's index (it counts invalidated *)
(* elements too), gc.pos the position of that element in the queue now.    *)
(***************************************************************************)

\* A mistake, for the mutants: the SeqState is copied, not taken.
BeginGarbageCached ==
    /\ io = "idle"
    /\ seqState.gc
    /\ gc' = [recs |-> seqState.recs, idx |-> 1, pos |-> 1]
    /\ seqState' = [seqState EXCEPT !.gc = FALSE]
    /\ io' = "collect"
    /\ UNCHANGED << queue, list, node, scan, wr >> /\ NoEvent

BeginGarbage ==
    /\ io = "idle"
    /\ seqState.gc
    /\ gc' = [recs |-> seqState.recs, idx |-> 1, pos |-> 1]
    /\ seqState' = NewSeqState
    /\ io' = "collect"
    /\ UNCHANGED << queue, list, node, scan, wr >> /\ NoEvent

\* Mistakes, for the mutants: only the newest record is kept; the last element
\* of a range is not.
NewestOnly(recs, idx) ==
    recs # << >> /\ idx \in recs[Len(recs)].lo .. recs[Len(recs)].hi

EndExcluded(recs, idx) == \E i \in DOMAIN recs : idx \in recs[i].lo .. recs[i].hi - 1

\* last_records_contain
InKeptRange(recs, idx) == \E i \in DOMAIN recs : idx \in recs[i].lo .. recs[i].hi

CollectElement ==
    /\ io = "collect" /\ gc.pos \in DOMAIN queue
    /\ IF queue[gc.pos] # Bad /\ InKeptRange(gc.recs, gc.idx)
       THEN /\ gc' = [gc EXCEPT !.idx = @ + 1, !.pos = @ + 1]
            /\ UNCHANGED queue
       ELSE /\ gc' = [gc EXCEPT !.idx = @ + 1]
            /\ queue' = RemoveAt(queue, gc.pos)
    /\ UNCHANGED << list, node, seqState, io, scan, wr >> /\ NoEvent

\* The mutex is taken again; the SeqState is still empty, so a scan follows.
EndCollect ==
    /\ io = "collect" /\ gc.pos \notin DOMAIN queue
    /\ io' = "gcScan" /\ scan' = NoScan /\ gc' = NoGc
    /\ UNCHANGED << queue, list, node, seqState, wr >> /\ NoEvent

\* A mistake, for the mutants: needs_gc stays set after the final scan.
GcStaysDue ==
    /\ io = "gcScan"
    /\ scan.at \notin DOMAIN queue
    /\ seqState' = Populated
    /\ io' = "idle" /\ scan' = NoScan
    /\ UNCHANGED << queue, list, node, wr, gc >> /\ NoEvent

EndGcScan ==
    /\ io = "gcScan"
    /\ scan.at \notin DOMAIN queue
    /\ seqState' = [Populated EXCEPT !.gc = FALSE]
    /\ io' = "idle" /\ scan' = NoScan
    /\ UNCHANGED << queue, list, node, wr, gc >> /\ NoEvent

-----------------------------------------------------------------------------
(***************************************************************************)
(* Faults.                                                                 *)
(***************************************************************************)

\* A storage error or the drop of the future ends a call where it is.
Interrupt ==
    /\ CASE io \in { "readScan", "gcScan" } -> Event("scan")
         [] io = "push"                     -> Event("push")
         [] io = "verify"                   -> Event("verify")
         [] io = "collect"                  -> Event("collect")
         [] OTHER                           -> FALSE
    /\ io' = "idle" /\ scan' = NoScan /\ wr' = NoWr /\ gc' = NoGc
    /\ UNCHANGED << queue, list, node, seqState >>

\* Power fails: memory starts anew, the storage keeps its elements.
Crash ==
    /\ Event("crash")
    /\ list' = << >> /\ node' = [k \in Keys |-> Fresh]
    /\ seqState' = NewSeqState
    /\ io' = "idle" /\ scan' = NoScan /\ wr' = NoWr /\ gc' = NoGc
    /\ UNCHANGED queue

Rot ==
    /\ Event("rot")
    /\ \E i \in DOMAIN queue : queue[i] # Bad /\ queue' = ReplaceAt(queue, i, Bad)
    /\ UNCHANGED << list, node, seqState, io, scan, wr, gc >>

-----------------------------------------------------------------------------
UserStep ==
    \/ \E k \in Keys : Attach(k) \/ TakeDefault(k) \/ Detach(k)
    \/ \E k \in Keys, v \in Values : Write(k, v)
    \/ ResetCache

IoStep ==
    \/ \E ok \in BOOLEAN : ProcessReads(ok) \/ EndReadScan(ok)
    \/ BeginScan \/ ScanElement
    \/ BeginWrites \/ PushData \/ PushEnd \/ StorageFull \/ VerifyGood \/ VerifyBad
    \/ BeginGarbage \/ CollectElement \/ EndCollect \/ EndGcScan

FaultStep == Interrupt \/ Crash \/ Rot

Next == UserStep \/ IoStep \/ FaultStep

Spec == Init /\ [][Next]_vars

-----------------------------------------------------------------------------
(***************************************************************************)
(* The cache of the newest records against the storage.                    *)
(***************************************************************************)
Recs == { seqState.recs[i] : i \in DOMAIN seqState.recs }

\* The cache never holds more records than it has slots, its last slot is the
\* newest record, and the next write is numbered after it, whatever order scans,
\* duplicated sequence numbers and overflow insert in (storage_list.rs:130-154).
CacheOrdered == Consistent(seqState)

\* Record r of a cache is a well formed record of q, at its range.
Genuine(q, r) ==
    \E hi \in { r.hi - 1, r.hi } : IsRecord(q, r.lo, hi) /\ q[r.lo] = Start(r.seq)

\* Every record the cache holds (storage_list.rs:122-139) is a well formed
\* record of the storage, where the cache says it is.  A range recorded by a
\* write ends one element past the End, one recorded by a scan ends at it.
\* Positions go stale as soon as an element is invalidated, which is why
\* process_garbage gives its cache up before it starts.
CacheGenuine == \A r \in Recs : Genuine(queue, r)

\* extract_all never ends in InconsistentFlash (storage_list.rs:739-797):
\* whenever a read trusts the cache, the record is there, complete.
ReadsConsistent ==
    AnySeen(seqState) =>
        LET h == HighestSeen(seqState) IN
        StartsAt(h) /\ EndsAt(h, DataStop(queue, h.lo))

ScanDone == io \in { "readScan", "gcScan" } /\ scan.at \notin DOMAIN queue

\* The element by element scan (storage_list.rs:634-705) with its insertion
\* into a sorted array finds what the definition of a well formed record says:
\* only such records, as many as the array holds, and none newer left out.
ScanFindsNewest ==
    ScanDone =>
        LET good == GoodRecords(queue) IN
        /\ Recs \subseteq good
        /\ Cardinality(Recs) = IF Cardinality(good) < Kept
                               THEN Cardinality(good) ELSE Kept
        /\ \A r \in good \ Recs, s \in Recs : ~ Newer(r, s)

-----------------------------------------------------------------------------
(***************************************************************************)
(* What survives in the storage.                                           *)
(***************************************************************************)
Numbers(q) == { r.seq : r \in GoodRecords(q) }

\* No step, and above all no invalidation by process_garbage, leaves fewer
\* than Kept records of different numbers when there were as many: the spare
\* records that storage_list.rs:145-147 retains are really there.
BackupsKept ==
    [][LET n == Cardinality(Numbers(queue)) IN
       Cardinality(Numbers(queue')) >= IF n < Kept THEN n ELSE Kept]_queue

\* The newest complete record of the storage is never lost, only superseded
\* ("no older/existing data is lost", REQUIREMENTS.md:58-60).
NewestSurvives ==
    [][NewestSeq(GoodRecords(queue')) >= NewestSeq(GoodRecords(queue))]_queue

\* The index that the iterator of a collection gives the element at position p.
IndexOf(g, p) == g.idx + (p - g.pos)

\* The collection has another record under the number of r, and knows nothing of r.
Shadowed(g, r) ==
    LET same == { i \in DOMAIN g.recs : g.recs[i].seq = r.seq } IN
    /\ same # {}
    /\ \A i \in same : IndexOf(g, r.hi) \notin g.recs[i].lo .. g.recs[i].hi

\* As long as fewer faults have happened than records are kept, the last good record
\* is lost only when it rots: a collection that works from the cache, which knows
\* nothing of what has rotted since, does not remove it (DESIGN.md:238-272).  This is
\* what the spare records are for.  A read-back that found another record of its
\* number is the exception: the record it found is cached instead of its own.
LastRecordKept ==
    [][GoodRecords(queue) # {} /\ events' < Kept =>
         \/ GoodRecords(queue') # {}
         \/ Cardinality(GoodRecords(queue)) = 1 /\ Len(queue') = Len(queue)
         \/ \A r \in GoodRecords(queue) : Shadowed(gc, r)]_queue

\* The record a fresh scan of q reports as highest_seen.  Among records with
\* one sequence number insert_good leaves the one nearest the head of the
\* queue in the last slot; with a single slot the last one seen replaces it.
Preferred(r, s) ==
    \/ Newer(r, s)
    \/ r.seq = s.seq /\ IF Kept = 1 THEN r.lo >= s.lo ELSE r.lo <= s.lo

BootRecords(q) == { r \in GoodRecords(q) : \A s \in GoodRecords(q) : Preferred(r, s) }

Image(q, r) ==
    [k \in Keys |-> IF Holds(q, r.lo, r.hi, k) THEN PayloadOf(q, r.lo, r.hi, k) ELSE NoVal]

\* What the nodes would be hydrated with if power failed now.
Boot(q) ==
    IF BootRecords(q) = {} THEN [k \in Keys |-> NoVal]
    ELSE CHOOSE image \in { Image(q, r) : r \in BootRecords(q) } : TRUE

Ram == [k \in Keys |-> IF k \in Attached THEN node[k].val ELSE NoVal]

\* What a restart would find changes only by a complete write, and then to
\* what all nodes held during that write: never a mixture of two writes, and
\* never because of an interrupted write, a collection or a scan.
ImagesAreWhole ==
    [][Boot(queue') # Boot(queue) => Boot(queue') = Ram]_queue

\* The list implements ConfigStore: clean nodes are those whose state is
\* ValidNoWriteNeeded, and the stored image is what a restart would find.
Abstract == INSTANCE ConfigStore WITH
    ram    <- Ram,
    clean  <- { k \in Attached : node[k].state = "ValidNoWriteNeeded" },
    stored <- Boot(queue)

\* So process_writes marks nodes clean only when what they hold is what a
\* restart finds, and process_reads loads only what a restart would find.
ImplementsConfigStore == Abstract!Spec

-----------------------------------------------------------------------------
(***************************************************************************)
(* What the documents say of writes that fail.                             *)
(***************************************************************************)

\* The elements the write has just pushed are all in the storage, readable.
OwnRecordStored == IsRecord(queue, Len(queue) - Len(wr.crc) - 1, Len(queue))

\* A write whose elements all reached the storage passes the read-back, also
\* when it is a retry ("This write succeeds", DESIGN.md:152-164).
StoredWritesVerify ==
    io = "verify" /\ OwnRecordStored =>
        \E lo, hi \in DOMAIN queue : Verified(lo, hi)

-----------------------------------------------------------------------------
(***************************************************************************)
(* Progress.  The calls are made by an I/O worker, which is user code; the *)
(* list tells it what to do with "recoverable" errors (NeedsFirstRead and  *)
(* NeedsGarbageCollect, error.rs:14-20).  The assumption is a worker that  *)
(* does so and tries again: a call in progress takes its next step, and a  *)
(* call that has something to do again and again is made.  A task waiting  *)
(* in attach is polled again.  default_worker_task, which waits for signals*)
(* and never retries, guarantees less.                                     *)
(***************************************************************************)
CallProgress ==
    \/ ScanElement \/ (\E ok \in BOOLEAN : EndReadScan(ok))
    \/ PushData \/ PushEnd \/ StorageFull
    \/ VerifyGood \/ VerifyBad \/ CollectElement \/ EndCollect \/ EndGcScan

Fairness ==
    /\ WF_vars(CallProgress)
    /\ SF_vars(BeginScan) /\ SF_vars(\E ok \in BOOLEAN : ProcessReads(ok))
    /\ SF_vars(BeginGarbage) /\ SF_vars(BeginWrites)
    /\ \A k \in Keys : SF_vars(TakeDefault(k))

FairSpec == Spec /\ Fairness

AllSaved == \A k \in Attached : node[k].state = "ValidNoWriteNeeded"

\* A torn record bears the number of the next write: verify_list_in_flash will
\* compare with it, and no write of that number passes.
NumberSpoilt ==
    /\ io = "idle"
    /\ \E i \in DOMAIN queue :
          queue[i] = Start(seqState.next) /\ \A hi \in DOMAIN queue : ~ IsRecord(queue, i, hi)

\* The list never locks a persistent worker out: whatever users attach and
\* write, and although power fails and reads and collections are cut short, there
\* comes a moment when every attached node holds a payload that is stored.
\* NeedsGarbageCollect, NeedsFirstRead and the space that collections free never
\* block each other for good (storage_list.rs:357-363, 435-525).  MaxSeq, the bound
\* on records, may stop it, and so may the number of a torn record, which the
\* next write is given again.
SavedInTheEnd == []<>(AllSaved \/ seqState.next > MaxSeq \/ NumberSpoilt)
=============================================================================
