---------------------------- MODULE NodeLifecycle ----------------------------
(***************************************************************************)
(* The life of a StorageListNode: attach, the handle it returns, detach,   *)
(* and the I/O worker of each list, which hydrates and cleans the nodes.   *)
(*                                                                         *)
(* Whose a node is, is decided by one atomic word, taken_for_list, that    *)
(* every task updates without a lock in common: tasks that work on two     *)
(* lists hold two different mutexes, a handle is dropped without any, and  *)
(* an attach that waits for its payload reads the state of the node with   *)
(* no mutex at all.  A step is one access to such a word, to the state of  *)
(* a node or to its payload, or what is done to a list while its mutex is  *)
(* held; taking the mutex belongs to the first step that needs it and      *)
(* releasing it to the last.                                               *)
(*                                                                         *)
(* A Task is one sequence of calls: attach a node, use the handle, drop it,*)
(* detach a node.  What the storage says of a node is left open: for the   *)
(* records behind it see StorageList.                                      *)
(***************************************************************************)
EXTENDS Integers, FiniteSets

CONSTANTS
    Nodes, Lists, Tasks,
    KeyOf,     \* the key of each node
    None,      \* the null list pointer, the task with no node, a node with no owner
    Gone,      \* the owner of a node whose attach was dropped
    MayDrop,   \* whether a task may drop the future of an attach
    MayFail    \* whether process_reads may fail

ASSUME LifecycleAssumption ==
    /\ None \notin Nodes \cup Lists \cup Tasks
    /\ Gone \notin Tasks \cup {None}
    /\ MayDrop \in BOOLEAN /\ MayFail \in BOOLEAN

VARIABLES
    taken,     \* per node, taken_for_list: a list pointer and its lowest bit
    members,   \* per list, the nodes linked into it
    state,     \* per node, its State
    init,      \* the nodes whose `t: MaybeUninit<T>` is initialized
    pc,        \* per task, where it is
    at,        \* per task, the node and the list it works on
    poll,      \* per task, how far it is in reading_done.wait_for_value
    wanted,    \* the lists whose needs_read is stored
    worker     \* per list, what its I/O worker is doing

vars == << taken, members, state, init, pc, at, poll, wanted, worker >>

-----------------------------------------------------------------------------
Word(l, bit) == [list |-> l, bit |-> bit]

Null      == Word(None, FALSE)    \* attached to nothing
Detaching == Word(None, TRUE)     \* null + 1: "NON NULL but NEVER VALID"
Taken(l)  == Word(l, TRUE)        \* in list l, with a handle or an attach
Free(l)   == Word(l, FALSE)       \* in list l, without

States == { "Initial", "NonResident", "ValidNoWriteNeeded", "NeedsWrite" }
Valid  == { "ValidNoWriteNeeded", "NeedsWrite" }

PCs == { "idle",
         "link",       \* attach: the node is taken for the first time
         "first",      \* attach: linked, waiting for the state to leave Initial
         "again",      \* attach of a node that is in the list already: waiting
         "default",    \* attach: NonResident was read, the mutex comes next
         "stored",     \* attach: the default is written, the state is not
         "handle",     \* the task holds the handle
         "remove",     \* detach: the exchange succeeded
         "drop",       \* detach: the node is out of the list, its payload comes next
         "reset",      \* detach: the payload is dropped, the state comes next
         "release" }   \* detach: the word comes next

Polls == { "subscribe",
           "look",       \* the waiter is in the queue of reading_done
           "woken",      \* it was woken before the task looked
           "await" }     \* the waiter is in the queue, the task sleeps

\* What the worker of a list does: it hydrates nodes, and has the payload of one in
\* place but not its state; it marks the rest.
Phases == { "idle", "read", "filled", "mark", "write" }

\* The mutex of list l is held inside attach and detach, and by a busy worker.
Unlocked(l) ==
    /\ worker[l] = "idle"
    /\ \A t \in Tasks :
          at[t].list = l => pc[t] \notin { "link", "stored", "remove", "drop", "reset", "release" }

Nowhere == [node |-> None, list |-> None]

TypeOK ==
    /\ taken \in [Nodes -> [list : Lists \cup {None}, bit : BOOLEAN]]
    /\ members \in [Lists -> SUBSET Nodes]
    /\ state \in [Nodes -> States]
    /\ init \in SUBSET Nodes
    /\ pc \in [Tasks -> PCs]
    /\ at \in [Tasks -> [node : Nodes \cup {None}, list : Lists \cup {None}]]
    /\ poll \in [Tasks -> Polls]
    /\ wanted \in SUBSET Lists
    /\ worker \in [Lists -> Phases]

Init ==
    /\ taken = [n \in Nodes |-> Null]
    /\ members = [l \in Lists |-> {}]
    /\ state = [n \in Nodes |-> "Initial"]
    /\ init = {}
    /\ pc = [t \in Tasks |-> "idle"]
    /\ at = [t \in Tasks |-> Nowhere]
    /\ poll = [t \in Tasks |-> "subscribe"]
    /\ wanted = {}
    /\ worker = [l \in Lists |-> "idle"]

Goto(t, place) == pc' = [pc EXCEPT ![t] = place]
WorkOn(t, n, l) == at' = [at EXCEPT ![t] = [node |-> n, list |-> l]]
Return(t) == Goto(t, "idle") /\ at' = [at EXCEPT ![t] = Nowhere]
Polled(t, stage) == poll' = [poll EXCEPT ![t] = stage]

-----------------------------------------------------------------------------
(***************************************************************************)
(* attach_with_default.                                                    *)
(***************************************************************************)

\* Mistakes, for the mutants: a word that carries the bit passes for one that
\* does not; a node without a handle is taken from another list.
MaskedTake(t, n, l) ==
    /\ pc[t] = "idle" /\ Unlocked(l)
    /\ taken[n].list \in { None, l }
    /\ taken' = [taken EXCEPT ![n] = Taken(l)]
    /\ Goto(t, IF taken[n] = Null THEN "link" ELSE "again") /\ WorkOn(t, n, l)
    /\ wanted' = IF taken[n] = Null THEN wanted ELSE wanted \cup {l}
    /\ UNCHANGED << members, state, init, poll, worker >>

StealingTake(t, n, l) ==
    /\ pc[t] = "idle" /\ Unlocked(l)
    /\ ~ taken[n].bit
    /\ taken' = [taken EXCEPT ![n] = Taken(l)]
    /\ Goto(t, IF taken[n].list = l THEN "again" ELSE "link") /\ WorkOn(t, n, l)
    /\ wanted' = IF taken[n].list = l THEN wanted \cup {l} ELSE wanted
    /\ UNCHANGED << members, state, init, poll, worker >>

\* fetch_update; otherwise AlreadyTaken or NodeInOtherList is returned.  A node that is in
\* the list already needs no more than needs_read.wake().
AttachTake(t, n, l) ==
    /\ pc[t] = "idle" /\ Unlocked(l)
    /\ taken[n] \in { Null, Free(l) }
    /\ taken' = [taken EXCEPT ![n] = Taken(l)]
    /\ Goto(t, IF taken[n] = Null THEN "link" ELSE "again") /\ WorkOn(t, n, l)
    /\ wanted' = IF taken[n] = Null THEN wanted ELSE wanted \cup {l}
    /\ UNCHANGED << members, state, init, poll, worker >>

\* A mistake, for the mutants: nodes are compared, not their keys.
SameNode(n, l) == n \in members[l]

KeyInUse(n, l) == \E m \in members[l] : KeyOf[m] = KeyOf[n]

\* find_node finds the key: DuplicateKey.
AttachRefused(t) ==
    LET n == at[t].node IN
    /\ pc[t] = "link" /\ KeyInUse(n, at[t].list)
    /\ taken' = [taken EXCEPT ![n] = Null]
    /\ Return(t)
    /\ UNCHANGED << members, state, init, poll, wanted, worker >>

\* push_front, and needs_read.wake()
AttachLink(t) ==
    LET n == at[t].node  l == at[t].list IN
    /\ pc[t] = "link" /\ ~ KeyInUse(n, l)
    /\ members' = [members EXCEPT ![l] = @ \cup {n}]
    /\ wanted' = wanted \cup {l}
    /\ Goto(t, "first")
    /\ UNCHANGED << taken, state, init, at, poll, worker >>

\* wait_for_value: the waiter is put into the queue,
Subscribe(t) ==
    /\ poll[t] = "subscribe"
    /\ Polled(t, "look")
    /\ UNCHANGED pc

\* then the state is read, and where it is Initial the task sleeps until it is woken,
\* and starts again.
Look(t) ==
    LET s == state[at[t].node] IN
    /\ poll[t] \in { "look", "woken" }
    /\ \/ /\ s = "Initial"
          /\ Polled(t, IF poll[t] = "look" THEN "await" ELSE "subscribe")
          /\ UNCHANGED pc
       \/ s = "NonResident" /\ Goto(t, "default") /\ Polled(t, "subscribe")
       \/ s \in Valid /\ Goto(t, "handle") /\ Polled(t, "subscribe")

\* A mistake, for the mutants: the waiter is put into the queue after the look.
LookFirst(t) ==
    LET s == state[at[t].node] IN
    /\ pc[t] \in { "first", "again" }
    /\ \/ /\ poll[t] = "subscribe"
          /\ \/ s = "Initial" /\ Polled(t, "look") /\ UNCHANGED pc
             \/ s = "NonResident" /\ Goto(t, "default") /\ UNCHANGED poll
             \/ s \in Valid /\ Goto(t, "handle") /\ UNCHANGED poll
       \/ poll[t] \in { "look", "woken" } /\ Polled(t, "await") /\ UNCHANGED pc
    /\ UNCHANGED << taken, members, state, init, at, wanted, worker >>

AttachPoll(t) ==
    /\ pc[t] \in { "first", "again" }
    /\ Subscribe(t) \/ Look(t)
    /\ UNCHANGED << taken, members, state, init, at, wanted, worker >>

\* body.write(f()) under the mutex, then the state.
TakeDefault(t) ==
    LET n == at[t].node IN
    /\ \/ /\ pc[t] = "default" /\ Unlocked(at[t].list)
          /\ init' = init \cup {n} /\ Goto(t, "stored")
          /\ UNCHANGED state
       \/ /\ pc[t] = "stored"
          /\ state' = [state EXCEPT ![n] = "NeedsWrite"] /\ Goto(t, "handle")
          /\ UNCHANGED init
    /\ UNCHANGED << taken, members, at, poll, wanted, worker >>

\* The future of attach is dropped while it waits: nothing clears the bit.  Its waiter
\* leaves the queue.
DropAttach(t) ==
    /\ MayDrop
    /\ pc[t] \in { "first", "again", "default" }
    /\ Polled(t, "subscribe") /\ Return(t)
    /\ UNCHANGED << taken, members, state, init, wanted, worker >>

-----------------------------------------------------------------------------
(***************************************************************************)
(* The handle.                                                             *)
(***************************************************************************)

\* write, under the mutex of the list that taken_for_list points to; in the other
\* states InvalidState is returned.
HandleWrite(t) ==
    LET n == at[t].node IN
    /\ pc[t] = "handle" /\ Unlocked(taken[n].list)
    /\ state[n] \in Valid
    /\ state' = [state EXCEPT ![n] = "NeedsWrite"]
    /\ UNCHANGED << taken, members, init, pc, at, poll, wanted, worker >>

\* drop: one bit is cleared, with no mutex.
HandleDrop(t) ==
    LET n == at[t].node IN
    /\ pc[t] = "handle"
    /\ taken' = [taken EXCEPT ![n] = Word(taken[n].list, FALSE)]
    /\ Return(t)
    /\ UNCHANGED << members, state, init, poll, wanted, worker >>

-----------------------------------------------------------------------------
(***************************************************************************)
(* detach.                                                                 *)
(***************************************************************************)

\* Mistakes, for the mutants: the exchange ignores the handle bit; it stores null
\* while the node is still linked.
DetachBlindly(t, n, l) ==
    /\ pc[t] = "idle" /\ Unlocked(l)
    /\ taken[n].list = l
    /\ taken' = [taken EXCEPT ![n] = Detaching]
    /\ Goto(t, "remove") /\ WorkOn(t, n, l)
    /\ UNCHANGED << members, state, init, poll, wanted, worker >>

DetachToNull(t, n, l) ==
    /\ pc[t] = "idle" /\ Unlocked(l)
    /\ taken[n] = Free(l)
    /\ taken' = [taken EXCEPT ![n] = Null]
    /\ Goto(t, "remove") /\ WorkOn(t, n, l)
    /\ UNCHANGED << members, state, init, poll, wanted, worker >>

\* compare_exchange; otherwise AlreadyTaken, Ok (null) or NodeInOtherList.
DetachTake(t, n, l) ==
    /\ pc[t] = "idle" /\ Unlocked(l)
    /\ taken[n] = Free(l)
    /\ taken' = [taken EXCEPT ![n] = Detaching]
    /\ Goto(t, "remove") /\ WorkOn(t, n, l)
    /\ UNCHANGED << members, state, init, poll, wanted, worker >>

\* list.remove
DetachRemove(t) ==
    LET n == at[t].node  l == at[t].list IN
    /\ pc[t] = "remove"
    /\ members' = [members EXCEPT ![l] = @ \ {n}]
    /\ Goto(t, "drop")
    /\ UNCHANGED << taken, state, init, at, poll, wanted, worker >>

\* The payload is dropped if the state says that there is one, then the state is reset.
DetachReset(t) ==
    LET n == at[t].node IN
    /\ \/ /\ pc[t] = "drop"
          /\ init' = IF state[n] \in Valid THEN init \ {n} ELSE init
          /\ Goto(t, "reset")
          /\ UNCHANGED state
       \/ /\ pc[t] = "reset"
          /\ state' = [state EXCEPT ![n] = "Initial"] /\ Goto(t, "release")
          /\ UNCHANGED init
    /\ UNCHANGED << taken, members, at, poll, wanted, worker >>

DetachRelease(t) ==
    /\ pc[t] = "release"
    /\ taken' = [taken EXCEPT ![at[t].node] = Null]
    /\ Return(t)
    /\ UNCHANGED << members, state, init, poll, wanted, worker >>

-----------------------------------------------------------------------------
(***************************************************************************)
(* The I/O worker of list l.                                               *)
(***************************************************************************)
Become(l, phase) == worker' = [worker EXCEPT ![l] = phase]

\* process_reads.  The worker has taken the signals that came until it had the mutex; it
\* may also read without one (a signal that came once it had stopped to listen, and stays
\* for a read that finds nothing left to do, is such a read).
ReadBegin(l) ==
    /\ Unlocked(l)
    /\ wanted' = wanted \ {l}
    /\ Become(l, "read")
    /\ UNCHANGED << taken, members, state, init, pc, at, poll >>

\* A mistake, for the mutants: the state is stored before the payload.
StateFirst(l, n) ==
    /\ n \in members[l]
    /\ \/ /\ worker[l] = "read" /\ state[n] = "Initial"
          /\ state' = [state EXCEPT ![n] = "ValidNoWriteNeeded"] /\ Become(l, "filled")
          /\ UNCHANGED init
       \/ /\ worker[l] = "filled" /\ state[n] \in Valid /\ n \notin init
          /\ init' = init \cup {n} /\ Become(l, "read")
          /\ UNCHANGED state
    /\ UNCHANGED << taken, members, pc, at, poll, wanted >>

\* extract_all finds the key of n in the record: the payload is deserialized into the
\* node, then the state is stored.  Where it does not deserialize the node is NonResident.
ReadNode(l, n) ==
    /\ n \in members[l] /\ state[n] = "Initial"
    /\ \/ /\ worker[l] = "read"
          /\ init' = init \cup {n} /\ Become(l, "filled")
          /\ UNCHANGED state
       \/ /\ worker[l] = "filled" /\ n \in init
          /\ state' = [state EXCEPT ![n] = "ValidNoWriteNeeded"] /\ Become(l, "read")
          /\ UNCHANGED init
       \/ /\ worker[l] = "read"
          /\ state' = [state EXCEPT ![n] = "NonResident"]
          /\ UNCHANGED << init, worker >>
    /\ UNCHANGED << taken, members, pc, at, poll, wanted >>

\* extract_all is done, or the storage holds no record.
ReadDone(l) ==
    /\ worker[l] = "read"
    /\ Become(l, "mark")
    /\ UNCHANGED << taken, members, state, init, pc, at, poll, wanted >>

\* mark_initial_nonresident
MarkNode(l, n) ==
    /\ worker[l] = "mark"
    /\ n \in members[l] /\ state[n] = "Initial"
    /\ state' = [state EXCEPT ![n] = "NonResident"]
    /\ UNCHANGED << taken, members, init, pc, at, poll, wanted, worker >>

\* reading_done.wake_all
ReadEnd(l) ==
    /\ worker[l] = "mark"
    /\ \A n \in members[l] : state[n] # "Initial"
    /\ poll' = [t \in Tasks |->
                   IF at[t].list # l THEN poll[t]
                   ELSE CASE poll[t] = "look"  -> "woken"
                          [] poll[t] = "await" -> "subscribe"
                          [] OTHER             -> poll[t]]
    /\ Become(l, "idle")
    /\ UNCHANGED << taken, members, state, init, pc, at, wanted >>

\* An error of the storage: the nodes read so far keep what they got, and no
\* attach is woken.
ReadFails(l) ==
    /\ MayFail
    /\ worker[l] = "read"
    /\ Become(l, "idle")
    /\ UNCHANGED << taken, members, state, init, pc, at, poll, wanted >>

\* process_writes, which NeedsFirstRead refuses; serialize_node reads `t`.
WriteBegin(l) ==
    /\ Unlocked(l)
    /\ \A n \in members[l] : state[n] # "Initial"
    /\ \E n \in members[l] : state[n] = "NeedsWrite"
    /\ Become(l, "write")
    /\ UNCHANGED << taken, members, state, init, pc, at, poll, wanted >>

\* After the read-back every node is marked; an error comes before it.
WriteEnd(l) ==
    /\ worker[l] = "write"
    /\ \/ state' = [n \in Nodes |-> IF n \in members[l] /\ state[n] = "NeedsWrite"
                                    THEN "ValidNoWriteNeeded" ELSE state[n]]
       \/ UNCHANGED state
    /\ Become(l, "idle")
    /\ UNCHANGED << taken, members, init, pc, at, poll, wanted >>

-----------------------------------------------------------------------------
AttachStep(t) ==
    \/ \E n \in Nodes, l \in Lists : AttachTake(t, n, l)
    \/ AttachRefused(t) \/ AttachLink(t) \/ AttachPoll(t) \/ TakeDefault(t)
    \/ DropAttach(t)

HandleStep(t) == HandleWrite(t) \/ HandleDrop(t)

DetachStep(t) ==
    \/ \E n \in Nodes, l \in Lists : DetachTake(t, n, l)
    \/ DetachRemove(t) \/ DetachReset(t) \/ DetachRelease(t)

\* A call of the worker in progress.
CallStep(l) ==
    \/ ReadDone(l) \/ ReadEnd(l) \/ ReadFails(l)
    \/ \E n \in Nodes : ReadNode(l, n) \/ MarkNode(l, n)
    \/ WriteEnd(l)

WorkerStep(l) == ReadBegin(l) \/ WriteBegin(l) \/ CallStep(l)

Next ==
    \/ \E t \in Tasks : AttachStep(t) \/ HandleStep(t) \/ DetachStep(t)
    \/ \E l \in Lists : WorkerStep(l)

Spec == Init /\ [][Next]_vars

-----------------------------------------------------------------------------
(***************************************************************************)
(* Safety.                                                                 *)
(***************************************************************************)

\* No task is ever in attach, with a handle, or in detach of a node while another
\* one is, through however many lists they go (Rules 2.1, 5.2.1 and 6.2 of the
\* safety guide, storage_node.rs:378-413, 562-591).
Exclusive ==
    \A t, u \in Tasks : t # u /\ pc[t] # "idle" /\ pc[u] # "idle" => at[t].node # at[u].node

\* A node is linked into one list at most, the one taken_for_list points to; while
\* it is taken out of it, taken_for_list points to none.
OneList ==
    \A l \in Lists : \A n \in members[l] :
        /\ \A m \in Lists : n \in members[m] => m = l
        /\ \/ taken[n].list = l
           \/ taken[n] = Detaching /\ \E t \in Tasks : pc[t] = "remove" /\ at[t].node = n

\* find_node and push_front never leave two nodes with one key in a list: a record
\* holds one payload per key (storage_node.rs:417-430).
KeysUnique ==
    \A l \in Lists : \A m, n \in members[l] : KeyOf[m] = KeyOf[n] => m = n

\* What the code asserts of the state it finds, at the moments it may look:
\* attach (unreachable!, :491-495), load (unreachable!, :676-678; with no mutex),
\* list() and drop of a handle (debug_assert!, :647-648, :770-771) and detach
\* (debug_assert!, :600).
AssertionsHold ==
    \A t \in Tasks :
        LET n == at[t].node  l == at[t].list IN
        /\ pc[t] = "first" => state[n] # "NeedsWrite"
        /\ pc[t] = "handle" => state[n] \in Valid /\ taken[n] = Taken(l) /\ n \in members[l]
        /\ pc[t] = "remove" => n \in members[l]

\* A node has no payload and Initial as its state when it leaves the hands of whoever works
\* on it, or both a payload and a state that says so; only those who hold the mutex find
\* one without the other, in the order in which payload and state are stored: `load`,
\* which looks without the mutex, never reads a payload that is not there, no payload is
\* overwritten, and none is forgotten (Rules 3.1, 3.2; storage_list.rs:837-850,
\* storage_node.rs:487-489, 600-619).
PayloadMatchesState ==
    \A n \in Nodes :
        /\ state[n] \in Valid /\ n \notin init =>
              \E t \in Tasks : pc[t] = "reset" /\ at[t].node = n
        /\ n \in init /\ state[n] \notin Valid =>
              \/ state[n] = "NonResident" /\ \E t \in Tasks : pc[t] = "stored" /\ at[t].node = n
              \/ state[n] = "Initial" /\ \E l \in Lists : worker[l] = "filled" /\ n \in members[l]

\* Each node behaves as if it had a lock of its own, held from attach to the drop
\* of the handle and during detach: the tagged word and the mutexes of the lists
\* implement it together.
OwnerOf(n) ==
    LET owners == { t \in Tasks : pc[t] # "idle" /\ at[t].node = n } IN
    IF owners # {} THEN CHOOSE t \in owners : TRUE
    ELSE IF taken[n].bit THEN Gone ELSE None

HomeOf(n) ==
    LET homes == { l \in Lists : n \in members[l] } IN
    IF homes = {} THEN None ELSE CHOOSE l \in homes : TRUE

Ownership == INSTANCE NodeOwnership WITH
    home  <- [n \in Nodes |-> HomeOf(n)],
    owner <- [n \in Nodes |-> OwnerOf(n)],
    full  <- { n \in init : HomeOf(n) # None }

ImplementsOwnership == Ownership!Spec

\* The documents say that the lowest bit tells whether a handle is live
\* (storage_node.rs:38-39), and that detach succeeds when none is (:521-523).
TakenMeansLive ==
    \A n \in Nodes : taken[n].bit => \E t \in Tasks : pc[t] # "idle" /\ at[t].node = n

-----------------------------------------------------------------------------
(***************************************************************************)
(* Progress.  A task that is in a call and may take its next step does so, *)
(* the mutexes are fair, a worker hears a signal that is stored and reads  *)
(* once for it, and a call it makes goes on.  Nothing relies on a read     *)
(* that was not asked for.                                                 *)
(***************************************************************************)
Fairness ==
    /\ \A t \in Tasks :
        /\ WF_vars(AttachRefused(t) \/ AttachLink(t) \/ AttachPoll(t))
        /\ SF_vars(TakeDefault(t))
        /\ WF_vars(DetachRemove(t) \/ DetachReset(t) \/ DetachRelease(t))
    /\ \A l \in Lists :
        /\ SF_vars(l \in wanted /\ ReadBegin(l))
        /\ WF_vars(CallStep(l))

FairSpec == Spec /\ Fairness

\* Every attach returns, with a handle or an error, where no read of the storage fails: it
\* signals the worker, which reads once for it.  A hydration that ends after the attach
\* has looked and before it sleeps must not be missed, because no other one need
\* follow (storage_node.rs:448-467).
AttachReturns ==
    \A t \in Tasks :
        pc[t] \in { "link", "first", "again", "default", "stored" }
            ~> pc[t] \in { "handle", "idle" }
=============================================================================
