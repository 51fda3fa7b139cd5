# cfg-noodle in TLA+

`cfg-noodle` keeps configuration data of a microcontroller in flash. User tasks
own *nodes*, typed payloads with a key, and attach them to a *list*; an I/O
worker owns the storage, loads payloads into nodes and writes the whole list as
one *write record*: `Start(seq)`, one `Data` per node, `End(seq, crc)`. Nothing
is updated in place. The newest complete record is the configuration, older ones
are invalidated by garbage collection, a few are kept as spares.

This directory specifies the store, checks it with TLC and proves part of it
with TLAPS. Sources are quoted as `file:line` below `src/crates/cfg-noodle/src/`.

## 1. Inventory

| Component | State | Operations | Interacts by |
| --- | --- | --- | --- |
| Elements and write records (`lib.rs`, `flash.rs`) | the queue in flash | push, iterate, invalidate an iterated element | `NdlDataStorage`, awaited by the list |
| `SeqState` (`storage_list.rs:130-154, 1020-1085`) | next number, `KEPT_RECORDS` newest records with their ranges, `needs_gc` | `insert_good`, `highest_seen`, reset | a field of the list, under its mutex |
| `StorageList` (`storage_list.rs`) | the linked nodes, `SeqState`, three wait queues | `process_reads`, `process_writes`, `process_garbage`, `reset_cache` | mutex with user tasks, exclusive `&mut` storage |
| `StorageListNode`, handle (`storage_node.rs`) | `State`, payload, `taken_for_list` | attach, default, load, write, detach, drop | locks the list, wakes the worker, waits for `reading_done` |
| `default_worker_task`, the workers of the two demos (`worker_task.rs`, `demos/`) | signals, debounce and garbage timers, `first_gc_done` | select, arms of `process_*` calls, shutdown | wait queues of the list, `stopper` |
| `no_op_worker_task`, `AlwaysEmptyFlash` (`worker_task.rs`, `flash.rs:294-358`) | none | `process_reads` of an empty storage | `needs_read` |
| codec (`flash.rs:234-271`, `lib.rs:145-208`) | none | encode and decode elements, key/value split | called by push and iteration |

What is hard here: every storage access is an await at which the call may fail or
be dropped, and at which power may fail; the cache of record positions goes
stale as soon as an element is invalidated; user tasks run between the steps of
a collection, which releases the mutex; failed attempts leave elements behind
that share a sequence number with their retry; sequence numbers and space are
finite. `PROJECT.json` lists each hazard at its line, with the properties that
watch it or the reason why none does yet.

What makes each component correct:

* scan and `SeqState`: the cache holds the newest well formed records, ordered,
  and where it says they are;
* reads: nodes are hydrated from one complete record, and the storage the cache
  describes is never found inconsistent;
* writes: what a restart finds changes only to a complete snapshot of memory, and
  nodes are marked saved only when it has;
* garbage: the newest record is never destroyed, nor are the spares;
* together: the store behaves like one image of all payloads that is replaced
  atomically (`ConfigStore`), and what has been attached or written is saved in
  the end;
* nodes: one owner per node, whatever lists it is taken to; one list per node, one
  node per key in a list; a payload that is initialized exactly when its state
  says so; every attach returns (`NodeOwnership` is the promise as a lock);
* worker: what is asked for is read, written and collected in the end, and a
  shutdown flushes, but for the losses section 3 lists;
* codec: bytes are decoded to the element that was encoded, or to nothing.

## 2. Modules

| Module | Models | Proofs |
| --- | --- | --- |
| `FlashQueue` | elements, well formed records, the walks of the read-back and of the hydration over a queue (pure) | `StorageList_proofs` |
| `SeqState` | the cache: its order, tie-break, eviction and overflow (pure) | `StorageList_proofs` |
| `StorageList` | the list, its nodes, the storage and the I/O owner as a state machine | `StorageList_proofs`, `Survival_proofs`, `Refinement_proofs`, `Backups_proofs` |
| `ConfigStore` | the abstract store: memory, clean keys, one stored image | with it |
| `NodeLifecycle` | attach, handle, detach over several lists: every access to `taken_for_list` and to a node's state | `NodeLifecycle_proofs` |
| `NodeOwnership` | what that promises: a lock per node | |
| `Worker` | the workers, composed with `StorageList`: signals, select, arms, shutdown | `Worker_proofs` |
| `ElemCodec` | the bytes of an element | with it |
| `MCStorageList`, `MCNodeLifecycle`, `MCWorker` | the instances TLC checks | |

`FlashQueue` <- `SeqState` <- `StorageList` <- `Worker` extend each other;
`StorageList` instantiates `ConfigStore`, and `NodeLifecycle` instantiates
`NodeOwnership`, each under a refinement mapping. `NodeLifecycle` leaves open what
the storage holds, and `StorageList` leaves out the word that says whose a node
is: they share the states of a node and the mutex.

### How StorageList corresponds to the code

* `queue` is the storage, all that survives `Crash`. `list` and `node` are the
  linked list and, per key, the `State` and payload; `Fresh` is a node that is
  not attached, or is and waits for its first read. `seqState` is `SeqState`.
* `io`, `scan`, `wr` and `gc` are the local variables of the call that the owner
  of the storage is in. `&mut S` makes it one call at a time.
* A step is one access to the storage: one element of the scan (`ScanElement`),
  one push (`BeginWrites`, `PushData`, `PushEnd`), one iterated element of the
  collection (`CollectElement`). `Locked` says in which calls the mutex is held:
  user steps interleave with the collection only. The read-back and
  `extract_all` read under the mutex, and nothing they have read can become good
  again, so each is one step.
* `get_or_populate_latest` is shared: `readScan` is its use in `process_reads`,
  `gcScan` its use at the end of `process_garbage`. It keeps the number and the
  data of the record it is inside in `scan`, as the code keeps them in `current`
  and `crc`: elements that rot behind the iterator are not noticed.
* Positions start at 1 and the iterator indexes of the code at 0. `next = 0` is
  `None`. A CRC is the sequence of the data it was computed over, so equal CRCs
  mean equal data: collisions are not modelled.
* Faults, and calls that are rare, are *events* of a kind, and a behaviour has
  at most `MaxEvents` of the kinds in `Events`: a cut short scan, push, read-back,
  collection or hydration (`scan`, `push`, `verify`, `collect`, `extract`), a
  stored element that does not decode (`badpush`) or no longer does (`rot`), a
  payload its node cannot deserialize (`schema`), `crash`, `detach`, `reset`. A
  full storage is no event: it happens whenever `Capacity` is reached.

### How NodeLifecycle corresponds to the code

* `taken` is `taken_for_list`: a list pointer and its lowest bit, so that `Null`,
  `Detaching` (null + 1), `Taken(l)` and `Free(l)` are the values of the pointer.
  `members` are the linked lists, `state` and `init` the `State` and the
  `MaybeUninit` of a node.
* A task makes one call after another. `pc` says at which await or atomic access
  it is, `at` with which node and list. A step is one access to a word, or what is
  done under the mutex of a list. The mutex is taken by the first step that needs
  it and released by the last one (`Unlocked`): `DetachTake` to `DetachRelease`, the
  two steps of `TakeDefault`, and `AttachTake` with `AttachLink` or `AttachRefused` are
  critical sections. Their words are still written to, and read, by tasks with
  another list's mutex, or none, in between.
* The payload (`init`) and the `state` of a node are stored one after the other, in the
  order of the code: the payload first where it comes (`ReadNode`, with the phase `filled`
  between the two, and `TakeDefault`, with the place `stored`), the payload first also
  where it goes (`DetachReset`, with `drop` and `reset`).
* A call that is refused (`AlreadyTaken`, `NodeInOtherList`) changes nothing and is
  no action. `DropAttach` drops the future of an attach at either of its later
  awaits.
* `ReadNode`, `MarkNode` and `ReadEnd` are `process_reads` node by node, since attach
  reads states without the mutex.
* `poll` is where `reading_done.wait_for_value` is, in three steps: the waiter enters the
  queue (`Subscribe`), the task looks at the state, and sleeps (`Look`). A `wake_all` may
  come between any two of them. It reaches whoever is in the queue: a sleeping task
  starts again, and one that has yet to look will not sleep (`woken`).
* `wanted` are the lists whose `needs_read` is stored. `ReadBegin` takes the signal. It may
  also come without one, which the fairness does not rely on.

### How Worker corresponds to the code

* The variables of `StorageList` keep their meaning, and every step of a call is a
  step of it: `ReadsStep`, `GarbageStep` and `WritesStep` are calls in progress, the
  other actions of `CallStep` return from one.
* `pending` are the wake-ups stored in the wait queues. `settling` are the futures of
  the current select that have consumed theirs and wait for a timer: this is
  where a dropped future loses a signal. `TimerFires` completes one and drops the
  others. `arm` and `calls` say which arm runs and what it has still to call.
* Durations are left out: any timer that runs may fire first. A 10 s timer may
  do so before a 100 ms one, as it does when it was started earlier.
* `lost` is history, and no guard reads it: `"read"` and `"write"` while nothing will
  be done about a request before a new signal, `"cache"` once a collection has failed,
  `"scan"` once an error or the stop has cut a scan short.
* The shutdown's three calls are in `calls` from the start; `AfterWrites` drops the last
  two unless the first answers `NeedsGarbageCollect`. It collects and retries once.
* Users attach, take a default, write, and detach when they drop the handle.
  `asleep` are those parked in `reading_done`.
* Power loss is the initial state: `Found` has storages that a crash has left.

### The properties

| Property | Says |
| --- | --- |
| `TypeOK` | types; above all, a node that may be serialized holds a payload |
| `CacheOrdered` | the cache is bounded and ordered, and the next number follows its newest record |
| `CacheGenuine` | each cached record is in the storage, complete, where the cache says |
| `ReadsConsistent` | `extract_all` never ends in `InconsistentFlash` |
| `ScanFindsNewest` | the element by element scan finds what the definition of a good record says, and the newest of those |
| `BackupsKept` | no step leaves fewer than `Kept` records when there were as many |
| `NewestSurvives` | the newest complete record is superseded, never lost |
| `LastRecordKept` | with fewer faults than spares, collections do not destroy the last good record, whatever has rotted unnoticed, unless a read-back cached another of its number |
| `ImagesAreWhole` | what a restart finds changes only to the payloads of memory, as a whole |
| `ImplementsConfigStore` | refinement of `ConfigStore` |
| `SavedInTheEnd` | all that is attached is saved, again and again, unless a torn record has the number of the next write |
| `StoredWritesVerify` | violated: a write that is completely stored passes its read-back |
| `Exclusive` | one task at a time attaches, has the handle of, or detaches a node, through whatever lists |
| `OneList` | a node is linked into the list its word points to, and no other |
| `KeysUnique` | no list has two nodes with one key |
| `AssertionsHold` | `unreachable!` and `debug_assert!` of attach, load, list, drop and detach |
| `PayloadMatchesState` | a state that promises a payload is stored after it and reset after it is dropped, and payloads are neither overwritten nor forgotten: without the mutex nobody reads one that is not there |
| `ImplementsOwnership` | refinement of `NodeOwnership` |
| `AttachReturns` | every attach ends with a handle or an error, by the one read it asks for, if reads do not fail |
| `TakenMeansLive` | violated: the bit of the word is set only while a task has the node |
| `AttachServed` | every attach returns, unless its signal was dropped or its read failed |
| `WritesSaved` | once the writes pause they are saved, unless the signal was dropped, or the write or a scan failed |
| `GarbageCollected` | a collection that is due is made, unless a collection or a scan fails |
| `StopFlushes` | a shutdown between two calls saves all that can be saved, collecting once if it must |
| `StopStores` | after a shutdown, also in mid-write, a restart finds what the nodes hold, if one record is kept and no scan was cut short |
| `EveryAttachReturns` | violated: every attach returns |

## 3. Runs

Those of `StorageList`, and `stopping`, have two payloads, of which one is the default;
for `worker` and `lost_signal` the value does not matter, and one is enough.

| Run | Instance | Events, at most | Result |
| --- | --- | --- | --- |
| `power_loss` | 2 keys (symmetric), 2 kept, numbers to 2, 8 elements | 2 of crash, collect, extract, schema, detach | holds |
| `backups` | 1 key, 2 kept, numbers to 4, 11 elements | 2 of crash, collect, extract, schema, reset, detach | holds |
| `faults` | 1 key, 2 kept, numbers to 3 = u32::MAX, 9 elements | 2 of crash, push, verify, badpush, collect, extract, schema, detach, reset | holds |
| `rot` | 1 key, 4 kept, numbers to 4, 13 elements, one payload | 3 of rot, crash, reset | holds |
| `retry_never_verifies` | 1 key, 2 kept, numbers to 3, 9 elements | 1 push | violated |
| `scan_cut_short` | 1 key, 2 kept, numbers to 3, 9 elements | 1 scan | violated |
| `nodes` | 3 nodes of which 2 have one key, 2 lists, 2 tasks (tasks and these nodes symmetric) | attaches are dropped and reads fail freely | holds |
| `attaching` | 2 nodes, 2 lists, 2 tasks | attaches are dropped freely, no read fails | holds |
| `dropped_attach` | 1 node, 1 list, 2 tasks | attaches are dropped freely | violated |
| `worker` | 2 keys, 1 kept, numbers to 3, 8 elements, 4 workers, two records and a torn one found | 1 of scan, collect, extract, detach | holds |
| `stopping` | 1 key, 1 kept, numbers to 5, 16 elements, the default worker, five storages found, stopper | 2 of scan, collect, extract, detach | holds |
| `lost_signal` | 2 keys, 1 kept, numbers to 1, 5 elements, the default worker, empty storage | none | violated |

Bounds. `MaxSeq` ends the sequence of writes (`BeginWrites`), `Capacity` the
storage, `MaxEvents` the faults; there is no state constraint. Two keys are
needed for an image that mixes two writes, and one is enough to tell records
apart. Eviction needs one record more than is kept: `backups` and `rot`
have it. The number of `faults` runs out within the run (`SeqLimit = MaxSeq`).
In `backups` the storage has room for three records of three elements and the
remains of a torn one: without collections the fourth record would not fit. Two events are enough for a fault during
the recovery from a fault. `rot` has three, and keeps four because `LastRecordKept`
needs more records than faults: with a crash and two elements that rot the read-back
that caches an earlier record of its number happens, and is lost.

Two tasks and two lists suffice for every race on one word: a third task could
only do what the second one does. The proofs cover all other numbers. In `worker`
the two keys make a second attach, and with it a second select, meet the timers
of the first; the storage it finds is two whole records, one more than is kept and
each of another node, and a torn one, whose number the next write has.
`Capacity` and `MaxSeq` are reached there, and `Full` excuses the writes that meet them.

`stopping` has room to spare, because `Full` must not excuse what it is about: before
the stop there may be two verified writes, an attempt that the stop or a full
collection cuts short, and the shutdown's own record, and 16 elements hold all of
these and what was found. Two complete records of one number, found in the storage
or left by a stop in mid-write and its retry, then differ in their payload; one node
is enough for that, and the runs of `StorageList` have two for records of several
nodes.

`nodes` and `attaching` do not check deadlock: once every attach of every node was
dropped no task can take a node any more, which is what `dropped_attach` is about.
`worker`, `stopping` and `lost_signal` do not either: a worker waits for a signal that
need not come, or has been stopped. The other runs check it.

Fairness of `backups`. The calls are made by an I/O worker that the user
writes; the list answers a call that comes too early with a "recoverable error to
tell the caller" what to do first (`error.rs:14-20`). `Fairness` is a worker that
follows this: a call in progress goes on, a call that is again and again useful
is made, the executor polls a task that waits in attach. Strong fairness is
needed where user steps or other calls make a call useless for a while.
`default_worker_task` gives less (it waits for signals and does not retry), so
`SavedInTheEnd` speaks of the list, and `Worker` of that worker. After a crash in a write
the torn record has the number of its retry: no write passes its read-back until a
number is found that is free (`retry_never_verifies`). Where it was the first record,
nothing is ever collected either, and the retries, stored one after the other, fill the
storage. `SavedInTheEnd` excuses this state, and only this, as `NumberSpoilt`.

Fairness of `attaching`. A task in a call goes on when it can; the mutex of a list is
fair, so a step that needs it and can take it again and again takes it. A worker
that has a signal reads its list, once (`l \in wanted /\ ReadBegin(l)`), and its call
goes on. A read that nobody asked for may happen and need not: a wake-up that is
missed is not made good by a later read. Failed reads are left out of this run (`MayFail`),
since the code wakes nobody then and reads no more.

Fairness of `worker`. A call in progress goes on. Whenever the loop is back at its
select, the select polls all of its futures and they take stored signals: strong,
since arms intervene. A timer fires unless it is dropped or restarted: weak, since
both disable it. A task that was woken is polled; the mutex is fair (strong for
the default, which needs it). Nothing is assumed of the users, the storage or the
stopper: failures may come at any time within the bound.

Where the properties are not promised. `BackupsKept` does not hold when a write is
cut short after its `End`: the retry has the same number and a duplicate takes
the slot of an older backup. Late attached nodes may then load from an older
record than a restart would choose, so `ImplementsConfigStore` is checked with
the faults of reads, collections and power, and `faults` checks
`ImagesAreWhole` instead. `ScanFindsNewest` is about numbers that do not run out.

### Where code and documents disagree

* `retry_never_verifies`: `DESIGN.md:152-164` shows a failed attempt 7 followed by
  a successful attempt 8. The code retries with the same number
  (`storage_list.rs:357-380`) and its read-back compares the *first* `Start` with
  that number (`1232-1248`), so that every write fails until a restart. A payload
  that is too large for the buffer, found after `Start` is pushed, has the same
  effect.
* `scan_cut_short`: a scan that a read error ends leaves the records found so far
  in the cache (`641-647`), `initial_scan_completed` takes it for complete (`626`),
  and the next collection destroys all newer records. Comments say that
  `next_seq` is `None` until the scan is done (`142`) and that a failed collection
  forces a new one (`453-455`).

* `dropped_attach`: attach sets the bit of `taken_for_list` before it waits
  (`storage_node.rs:378-390`), and a future dropped while it waits never clears it:
  the node can neither be attached nor detached again. The word's doc says the bit
  tracks "whether a handle for this node is currently live" (`37-38`), and detach's
  that it succeeds when none is (`526`).
* `lost_signal`: a debouncing future has consumed its signal, and `select3` drops it
  with the future when another timer fires first (`worker_task.rs:117`). The attach
  that sent it waits until another node attaches, the write until another write. The doc
  says that read signals trigger a read (`36`).

Further consequences that the properties of `worker` and `stopping` excuse by name, because no
sentence of the documents is flatly contradicted:

* A default value taken by attach is `NeedsWrite`, and nothing wakes `needs_write`
  (`storage_node.rs:487-489`). It is saved when something else is written. A comment of
  the demo expects it to be "written back to flash on first boot"
  (`demos/nrf52840/src/noodle.rs:82-83`).
* A failed read wakes nobody (`storage_list.rs:282-296`), and the default worker does
  not read again before the next attach.
* After a failed collection the cache is empty and every write is refused with
  `NeedsFirstRead` until the next attach, although "the task will continue processing
  subsequent signals" (`worker_task.rs:46-47`).
* A stop in the middle of a write flushes with the number of the cut attempt, and
  its read-back fails; a stop in the middle of a collection warns that there was
  no first read. A stop in the middle of the scan that follows a collection leaves
  a partial cache with `needs_gc` set: the shutdown's own collection then trusts
  it, which is `scan_cut_short` once more. So does a stop in a later `process_reads`,
  which scans again where a failed collection has emptied the cache: it may leave the
  oldest record in the cache, and the newest, whose values the nodes hold, is destroyed,
  even where one record is kept. `StopStores` excuses a scan that an error or the stop
  cut short.
* A first record that was torn is never collected, and the write after the restart has
  its number: stored, but not verified, and found by the next restart.
* When two complete writes have one number and more than one record is kept, a restart
  prefers the *older* (`Preferred`, `storage_list.rs:1051-1071`): a shutdown that writes
  after a write whose read-back failed may lose its own values. This is why `StopStores`
  is about lists that keep one record.

One more, in `rot`: a read-back compares the first `Start` with its number
(`storage_list.rs:1232-1248`). If the crash of an attempt left a `Start` in front,
one retry is stored without being found (`a`), and if that `Start` then rots, the next
retry's read-back finds `a` in place of its own record `b` and caches `a`. The
cache knows nothing of `b`; when `a` rots too, a collection destroys `b`, the last
good record, although fewer elements have rotted than there are spares (`DESIGN.md:238-272`).
`LastRecordKept` excuses this, and only this, as `Shadowed`.

## 4. Proofs

TLAPS proves these for every number of keys, payloads and kept records, every
capacity, every largest number and every bound on events:

* `TypeCorrect`, `CacheIsOrdered`: `Spec => []TypeOK`, `Spec => []CacheOrdered`. The
  invariant is their conjunction `TypeInv`: the result of `insert_good` has its
  type only if the array is not over-full. `StorageList_proofs` has the lemma about
  insertion, `InsertGoodProperties`; its core is that in an ordered array the
  records older than the new one are a prefix, and `insert_good` puts the new one
  right behind it (`OlderCount`).
* `CacheIsGenuine`, `ReadsAreConsistent`: for `"rot" \notin Events`. `CacheGenuine` is
  not inductive: a scan inserts what it *remembers*, and a collection moves
  elements. `GenuineInv` adds that the scan remembers what is between its `Start`
  and its iterator (`ScanInv`) and that the cache is empty during a collection
  (`CollectInv`). There is one step per action; the pushes need that appending
  leaves a record what it is (`AppendKeepsRecord`), and the reads that a good
  record ends where its data stops (`DataStopProperties`).
* `ScanIsComplete`: `Spec => []ScanFindsNewest`, for `"rot" \notin Events` and
  `MaxSeq < SeqLimit`. What `insert_good` holds back or evicts is not newer than what
  it keeps (`InsertGoodHeld`), so after every element the array is the newest of the
  records seen so far (`ScanningInv`); every good record is closed by the scan at its
  `End`, because the scan remembers the `Start` in front of its data and their CRC.
* `NewestRecordSurvives`: `Spec => NewestSurvives`, if moreover no scan is cut short.
  The invariant is `StoreInv = GenuineInv /\ ScanningInv /\ SurvivalInv`. A write cannot
  lower the newest number; a collection could. `SurvivalInv` says that no `Start` has a
  number past the next one, and that while a collection is due the newest record of
  the cache leads every good record (`CacheCovers`); and that, while elements go, that
  record still stands in the queue, at its range less what was removed before the
  iterator (`GcInv`, `HomeAt`), so that what is removed is no part of it
  (`CollectKeepsGc`). The range that a read-back records is one element too long;
  `ExactInv` says that the newest record leads every `Start` when it is.
* `WritesAreAtomic`: `Spec => ImagesAreWhole`, for `Kept > 1` on top of that. What a
  restart finds depends on the data of the foremost record of the largest number
  only (`BootIs`): appending anything but an `End` leaves it alone, a collection keeps
  that very record (`CollectBoot`), and the `End` of a write gives what the nodes
  hold. `ImageInv` has what the last needs: no record names a key twice, nodes that are
  not attached hold nothing, and a write in progress has exactly what the writable
  nodes it has passed still hold, since it has the mutex (`WrittenInv`).
* `RefinesConfigStore`: `Spec => ImplementsConfigStore`, for `Kept > 1`,
  `MaxSeq < SeqLimit` and `WritesComplete`: no event is of the kinds `push`, `verify`,
  `badpush`, `scan`, `rot`, though power may fail at any step and a full storage end a
  write. The invariant is `StoreInv /\ ImageInv /\ CompleteInv`. `CompleteInv` makes the cache
  agree with a restart: the record it calls newest is the one a restart finds
  (`BootCached`), which holds because the number of the next write is free
  (`NumberFree`), so that the record being written is the only one of its number and
  the read-back finds that one (`RecordOpen`), and because a scan that found
  something leads to a collection before the next write (`FoundIsDue`,
  `CollectedInv`). Hydration is then `Recall`, a read-back `Confirm`, the `End` of a write
  `Commit`, and every other step a step of memory or a stutter.
* `SparesAreKept`: `Spec => BackupsKept`, for `MaxSeq < SeqLimit` and `WritesComplete`, on top
  of `StoreInv` and `CompleteInv`. A collection can only lose a number if the ranges it
  works from miss a record or point elsewhere. `BackupInv` says that no two records
  have one number (`OneNumber`: a scan and a write insert each record once, since the
  number of a write is free), that the cache has all numbers or enough of them
  (`CacheTop`), and that at most one of its ranges is too long, the last write's, which
  reaches past the end of the queue (`Ragged`). A collection then begins with every
  record at home and stays so (`Homes`): what it removes is part of none of them, and
  no record comes into being from what it leaves (`RemoveMakesNone`). The number 1 is
  the exception: a first write that was torn is followed by others of that number, and
  while all numbers are 1 the newest record is enough.
* `SpareSurvives`: `Spec => LastRecordKept`, for `MaxSeq < SeqLimit`, if no scan is cut short.
  Here elements rot, writes fail and power fails, so almost nothing of `StoreInv` is left:
  the cache is what the storage was. `CacheInv` is what stays true of it. Every cached
  record has its own range, which began with a `Start` of its number, whatever stands
  there now (`RangeInv`, `OncePerStart`); no other `Start` but one of its number is in it
  while there is room to spare. Each fault makes at most one cached record untrue
  (`DeadInv`; an element that rots behind the iterator of a scan spoils the record being
  read). A cache with room to spare has every good record (`ScanHasAll`, `CacheHasAll`)
  but those of a write whose read-back failed, which all have the next number
  (`RetriesFollow`). A collection that began with a full cache therefore keeps
  at least `Kept` good records less the faults (`FullKeeps`, `SafeCount`); one that began
  with room to spare keeps every good record or has its number (`SomeAccounted`),
  and the latter is `Shadowed` (`SafeOrShadowed`), since no range begins inside a record.
* `ShutdownFlushes`: `WorkerSpec => StopFlushes`, for `MaxSeq < SeqLimit`, `WritesComplete` and
  storages that are `LeftBehind`. What a worker does to the list are steps of `Spec`
  without resets, rot and power failure, so `StoreInv` and `CompleteInv` hold until a
  stop cuts a call (`Over`). `FlushInv` adds that the call in progress is the next of the
  arm (`CallIo`), that no call leaves local variables behind (`LocalsClean`), and that
  with no good record the only `Start` is that of the write in progress (`Bare`). Hence
  the write of a shutdown meets no foreign record of its number: its read-back succeeds,
  also that of the very first record (`FirstOpen`), and marks everything that was
  written. If the first attempt finds a collection due, the second does not: a collection
  gives the cache up when it begins and clears `needs_gc` when it ends (`Recollected`),
  unless its scan is cut short.
  `LeftBehind` excludes what no shutdown can mend: a first record that was torn, which
  is never collected, and whose number the next write takes.
* `CleanAlwaysStored` in `ConfigStore`, and by the refinement `CleanSurvives` in
  `StorageList`: a node marked `ValidNoWriteNeeded` holds what a restart would find.

The conditions on `Events`, `Kept` and `MaxSeq` are those under which the code
promises this, and each of them is needed. An element that rots may belong to the
newest record. A cut short scan is what `scan_cut_short` shows. A write that was cut
short leaves a record or a torn one with the number of its retry, and nodes attached
later may load it. With `Kept = 1` a scan leaves the last of several records with one
number in the slot and the read-back records the first, so a collection may change
what a restart finds. At `SeqLimit` the list has no next number; `faults`
reaches that limit, and checks what is promised there.

* `NodeLifecycle_proofs`, for all sets of nodes, lists and tasks and all keys:
  `AlwaysExclusive`, `AlwaysOneList`, `AlwaysKeysUnique`, `NoAssertionFails`,
  `AlwaysPayloadMatchesState`. None of them is inductive alone. The invariant `Inv`
  says, per place a task can be at, what word, list and state its node has
  (`TaskInv`), and per node what its word promises while nobody works on it
  (`NodeInv`): the payload is there when the state says so, or a task is half way between
  the two. `FillInv` says the same of a worker, which has one such node at most.
  The argument is the one for a lock: a step of a task touches its own
  node only, `Exclusive` says that nobody else's place speaks of that node, so the
  places and nodes of all others are untouched (`LocalStep`), and each action owes
  its own place and its own node. Only hydration and marking change nodes of others;
  they do it while no place of those nodes forbids it (`HydratesInv`).
* `RefinesOwnership`: `Spec => ImplementsOwnership`. The owner of a node is the task at
  work on it, and a bit that nobody set out to clear is a lock whose holder is gone.
  The invariant makes both functions of the state well defined (the owner and the
  list of a node are unique), and every action maps to one step of `NodeOwnership`
  or a stutter.
* `ElemCodec`: `RoundTrip`, an element that was pushed is read back as what it was;
  `DecodesOnlyEncodings`, bytes that decode are the encoding of what they decode to.
  Four bytes are handled one at a time, as a low byte and a rest (`SplitJoin`,
  `JoinSplit`).

Assumptions: the named ASSUMEs on the constants, which every run evaluates.
Model-checked only: `StopStores`, all liveness, and what is expected to be violated.
Liveness under fairness is out of the prover's reach. Least elements of sets of
numbers (`LeastElement`) are had from the library's well-foundedness theorem,
because its induction theorems take operators the provers cannot instantiate.

## 5. Not modelled, and the plan

Not modelled, and why:

* inside `sequential-storage`: sector erase, wear, the layout of its items. It is a
  dependency, and the list sees an ordered queue;
* CRC collisions; the contents of CBOR and the split of key and value
  (`lib.rs:187-204`), which are opaque: what fails to decode is a `schema` event;
* durations: a timer that fires early is a superset of what a clock does. That a stream
  of signals restarts a debounce for ever is what the fairness of timers excludes;
* re-attaching a node without detaching it, in `Worker`: there a handle is dropped
  and its node detached as one step. `NodeLifecycle` has both;
* the inside of the wait queues, a dependency: that a wake-up is stored when nobody waits,
  and that `wait_for_value` subscribes before it looks, is modelled from how the code
  relies on it;
* more than 20 kept records: the cache is sorted with `sort_unstable_by_key`
  (`storage_list.rs:1070-1071`), an insertion sort up to that length, which is stable.
  `InsertRecord` takes longer arrays to be sorted alike, so that of records with
  one number the slot is determined;
* the wipe of the storage that may precede `reset_cache`, pointer provenance and memory
  orderings (`safety_guide.rs`: the rules about who may touch what, and when, are
  `Exclusive`, `AssertionsHold` and `PayloadMatchesState`), `data_portability.rs` (a
  guide), errors and their wording, demos other than their workers, test fixtures.

Planned, in this order:

1. Proofs: `StopStores`, which needs an invariant for lists whose writes and read-backs
   may be cut by a stop, after which the storage and the nodes differ.
2. Storages that collections cannot help: a full storage without a good record.
3. `Worker` with handles that are dropped and taken again.
