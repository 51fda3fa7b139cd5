------------------------------- MODULE Worker -------------------------------
(***************************************************************************)
(* The I/O workers of the repository, over a StorageList: the loop that    *)
(* waits for signals, lets them settle, and then makes process_* calls.    *)
(*                                                                         *)
(*    default  default_worker_task                                         *)
(*    demo     the worker of demos/nrf52840                                *)
(*    load     the worker of demos/nrf52840-load                           *)
(*    noop     no_op_worker_task, whose storage is always empty            *)
(*                                                                         *)
(* A worker selects between futures, one per signal: each waits for its    *)
(* signal and then until a timer fires.  The first that completes decides  *)
(* which calls are made (the arm), and the others are dropped.  Time is    *)
(* left out: a timer may fire whenever no newer signal is there to restart *)
(* it.  A signal is a WaitQueue, which stores a wake-up nobody waits for.  *)
(***************************************************************************)
EXTENDS StorageList

CONSTANTS
    Found,      \* what the storage may hold when the program starts
    Kinds,      \* the workers considered
    MayStop     \* whether the stopper of default_worker_task may complete

WorkerKinds == { "default", "demo", "load", "noop" }

ASSUME WorkerAssumption ==
    /\ Found \subseteq Seq(Elem)
    /\ Kinds \subseteq WorkerKinds /\ MayStop \in BOOLEAN

VARIABLES
    kind,       \* the worker that runs
    pending,    \* the signals that are stored: "read", "write", "gc"
    settling,   \* the futures of the select that have their signal, and a timer
    arm,        \* "select", the arm that runs, or why and that the worker stopped
    calls,      \* the calls left to the arm; the first is next or in progress
    firstGc,    \* first_gc_done
    user,       \* per key, the task that owns the node: "none", "attach", "handle"
    asleep,     \* the keys whose attach is parked in reading_done.wait_for_value
    lost        \* history: what nothing will be done about before a new signal, and
                \* "scan" once a scan was cut short

wvars == << kind, pending, settling, arm, calls, firstGc, user, asleep, lost >>
avars == << vars, wvars >>

Signals == { "read", "write", "gc" }

WorkerTypeOK ==
    /\ kind \in Kinds
    /\ pending \subseteq Signals /\ settling \subseteq Signals
    /\ arm \in Signals \cup { "select", "stop", "abort", "stopped" }
    /\ calls \in Seq({ "reads", "writes", "garbage" })
    /\ firstGc \in BOOLEAN
    /\ user \in [Keys -> { "none", "attach", "handle" }]
    /\ asleep \subseteq Keys
    /\ lost \subseteq { "read", "write", "cache", "scan" }

\* The program starts, with what an earlier life of it has left in the storage;
\* AlwaysEmptyFlash holds nothing.
WorkerInit ==
    /\ kind \in Kinds
    /\ queue \in IF kind = "noop" THEN { << >> } ELSE Found
    /\ list = << >> /\ node = [k \in Keys |-> Fresh]
    /\ seqState = NewSeqState
    /\ io = "idle" /\ scan = NoScan /\ wr = NoWr /\ gc = NoGc
    /\ events = 0
    /\ pending = {} /\ settling = {} /\ arm = "select" /\ calls = << >>
    /\ firstGc = FALSE
    /\ user = [k \in Keys |-> "none"] /\ asleep = {} /\ lost = {}

-----------------------------------------------------------------------------
(***************************************************************************)
(* User tasks.                                                             *)
(***************************************************************************)

\* attach, up to its first poll: needs_read.wake()
UserAttach(k) ==
    /\ Attach(k) /\ user' = [user EXCEPT ![k] = "attach"]
    /\ pending' = pending \cup {"read"}
    /\ UNCHANGED << kind, settling, arm, calls, firstGc, asleep, lost >>

\* A poll finds the node not hydrated, or finds a payload.
UserPoll(k) ==
    /\ user[k] = "attach" /\ k \notin asleep
    /\ \/ node[k].state = "Initial" /\ asleep' = asleep \cup {k} /\ UNCHANGED user
       \/ Writable(k) /\ user' = [user EXCEPT ![k] = "handle"] /\ UNCHANGED asleep
    /\ UNCHANGED << vars, kind, pending, settling, arm, calls, firstGc, lost >>

\* It finds the node NonResident.  No signal says that there is something to write.
UserDefault(k) ==
    /\ user[k] = "attach" /\ k \notin asleep
    /\ TakeDefault(k)
    /\ user' = [user EXCEPT ![k] = "handle"]
    /\ lost' = lost \cup {"write"}
    /\ UNCHANGED << kind, pending, settling, arm, calls, firstGc, asleep >>

\* write of a handle: needs_write.wake()
UserWrite(k, v) ==
    /\ user[k] = "handle" /\ Write(k, v)
    /\ pending' = pending \cup {"write"}
    /\ UNCHANGED << kind, settling, arm, calls, firstGc, user, asleep, lost >>

\* The handle is dropped and the node detached.
UserDetach(k) ==
    /\ user[k] = "handle" /\ Detach(k)
    /\ user' = [user EXCEPT ![k] = "none"]
    /\ UNCHANGED << kind, pending, settling, arm, calls, firstGc, asleep, lost >>

-----------------------------------------------------------------------------
(***************************************************************************)
(* The select.                                                             *)
(***************************************************************************)

\* Timers that a new signal does not restart, nor hold up.
PlainTimer(s) == s = "gc" \/ (s = "write" /\ kind = "load")

\* A future takes its signal; a timer that runs is restarted.
Hear(s) ==
    /\ arm = "select" /\ kind # "noop"
    /\ s \in pending /\ (s \in settling => ~ PlainTimer(s))
    /\ pending' = pending \ {s}
    /\ settling' = settling \cup {s}
    /\ UNCHANGED << vars, kind, arm, calls, firstGc, user, asleep, lost >>

\* Mistakes, for the mutants: nothing is collected before a write; or after one.
WritesFirst(s) ==
    CASE s = "read" -> IF kind = "default" THEN << "reads" >> ELSE << "reads", "garbage" >>
      [] s = "write" -> << "writes", "garbage" >>
      [] s = "gc" -> << "garbage" >>

WritesLast(s) ==
    CASE s = "read" -> IF kind = "default" THEN << "reads" >> ELSE << "reads", "garbage" >>
      [] s = "write" -> << "garbage", "writes" >>
      [] s = "gc" -> << "garbage" >>

\* What each arm calls, in this order.
CallsOf(s) ==
    CASE s = "read" -> IF kind \in { "demo", "load" } /\ ~ firstGc
                       THEN << "reads", "garbage" >> ELSE << "reads" >>
      [] s = "write" -> IF kind = "default" THEN << "garbage", "writes", "garbage" >>
                        ELSE << "writes", "garbage" >>
      [] s = "gc" -> << "garbage" >>

\* with_timeout polls the signal first; when the timer wins, the future completes
\* and the other futures are dropped, with the signals they have taken.
TimerFires(s) ==
    /\ arm = "select"
    /\ s \in settling /\ (s \in pending => PlainTimer(s))
    /\ arm' = s /\ calls' = CallsOf(s)
    /\ settling' = {}
    /\ lost' = lost \cup ((settling \ {s}) \cap { "read", "write" })
    /\ UNCHANGED << vars, kind, pending, firstGc, user, asleep >>

\* no_op_worker_task does not let anything settle.
HearAtOnce ==
    /\ arm = "select" /\ kind = "noop" /\ "read" \in pending
    /\ pending' = pending \ {"read"}
    /\ arm' = "read" /\ calls' = << "reads" >>
    /\ UNCHANGED << vars, kind, settling, firstGc, user, asleep, lost >>

-----------------------------------------------------------------------------
(***************************************************************************)
(* The calls of an arm.  Errors are logged, and the next call is made.     *)
(***************************************************************************)
InCall(call) == calls # << >> /\ Head(calls) = call

\* The arm goes on to its next call, or the worker goes round.
NextCall(rest) ==
    /\ calls' = rest
    /\ arm' = IF rest # << >> THEN arm
              ELSE IF arm \in { "stop", "abort" } THEN "stopped" ELSE "select"

\* default_worker_task: every read arm signals needs_gc until the first collection.
ReadsReturn ==
    /\ NextCall(Tail(calls))
    /\ pending' = IF kind = "default" /\ arm = "read" /\ ~ firstGc
                  THEN pending \cup {"gc"} ELSE pending

ReadsStep ==
    /\ InCall("reads")
    /\ BeginScan \/ (io = "readScan" /\ ScanElement)
    /\ UNCHANGED wvars

\* A mistake, for the mutants: reading_done is not woken.
ReadsEndQuietly ==
    /\ InCall("reads")
    /\ ProcessReads(TRUE) \/ EndReadScan(TRUE)
    /\ ReadsReturn
    /\ lost' = lost \ {"read"}
    /\ UNCHANGED << kind, settling, firstGc, user, asleep >>

\* reading_done.wake_all()
ReadsEnd ==
    /\ InCall("reads")
    /\ ProcessReads(TRUE) \/ EndReadScan(TRUE)
    /\ ReadsReturn
    /\ asleep' = {} /\ lost' = lost \ {"read"}
    /\ UNCHANGED << kind, settling, firstGc, user >>

\* An error: nobody is woken.
ReadsFail ==
    /\ InCall("reads")
    /\ ProcessReads(FALSE) \/ EndReadScan(FALSE)
    /\ ReadsReturn
    /\ lost' = lost \cup {"read"}
    /\ UNCHANGED << kind, settling, firstGc, user, asleep >>

GarbageStep ==
    /\ InCall("garbage")
    /\ BeginGarbage \/ CollectElement \/ EndCollect \/ (io = "gcScan" /\ ScanElement)
    /\ UNCHANGED wvars

\* Which arm sets first_gc_done.
FirstGcArm == arm = IF kind = "default" THEN "gc" ELSE "read"

\* The collection is complete, or none was due.
GarbageEnd ==
    /\ InCall("garbage")
    /\ EndGcScan \/ (io = "idle" /\ ~ seqState.gc /\ UNCHANGED vars)
    /\ NextCall(Tail(calls))
    /\ firstGc' = (firstGc \/ FirstGcArm)
    /\ UNCHANGED << kind, pending, settling, user, asleep, lost >>

Shutdown == arm \in { "stop", "abort" }

\* Of the shutdown's first process_writes only one answer leads to a collection and a
\* second one: NeedsGarbageCollect.
AfterWrites(due) == IF Shutdown /\ ~ due THEN << >> ELSE Tail(calls)

WritesStep ==
    /\ InCall("writes")
    /\ BeginWrites \/ PushData \/ PushEnd
    /\ UNCHANGED wvars

WritesGood ==
    /\ InCall("writes")
    /\ VerifyGood
    /\ NextCall(AfterWrites(FALSE)) /\ lost' = lost \ {"write"}
    /\ UNCHANGED << kind, pending, settling, firstGc, user, asleep >>

WritesBad ==
    /\ InCall("writes")
    /\ VerifyBad \/ StorageFull
    /\ NextCall(AfterWrites(FALSE)) /\ lost' = lost \cup {"write"}
    /\ UNCHANGED << kind, pending, settling, firstGc, user, asleep >>

NothingUnsaved == \A k \in Attached : node[k].state # "NeedsWrite"

Unread == ~ ScanCompleted(seqState) \/ \E k \in Attached : node[k].state = "Initial"

Full == Len(queue) >= Capacity \/ seqState.next > MaxSeq

\* process_writes returns at once: with an error, with nothing to do, or because
\* the first push finds the storage full.
NothingBegins == Unread \/ seqState.gc \/ ~ NeedsWriting \/ Full

\* process_writes checks that a scan was completed before it checks needs_gc.
NeedsGarbageCollect == ScanCompleted(seqState) /\ seqState.gc

\* A mistake, for the mutants: the shutdown does not collect and try again.
WritesRefused ==
    /\ InCall("writes") /\ io = "idle" /\ NothingBegins
    /\ NextCall(AfterWrites(FALSE))
    /\ lost' = IF ~ NothingUnsaved /\ ~ NeedsGarbageCollect THEN lost \cup {"write"} ELSE lost
    /\ UNCHANGED << vars, kind, pending, settling, firstGc, user, asleep >>

WritesReturn ==
    /\ InCall("writes") /\ io = "idle" /\ NothingBegins
    /\ NextCall(AfterWrites(NeedsGarbageCollect))
    /\ lost' = IF ~ NothingUnsaved /\ ~ NeedsGarbageCollect THEN lost \cup {"write"} ELSE lost
    /\ UNCHANGED << vars, kind, pending, settling, firstGc, user, asleep >>

CutScan == IF io \in { "readScan", "gcScan" } THEN { "scan" } ELSE {}

\* An error of the storage.
CallFails ==
    /\ Interrupt
    /\ \/ InCall("reads") /\ ReadsReturn /\ lost' = lost \cup {"read"} \cup CutScan
       \/ /\ InCall("writes") /\ NextCall(AfterWrites(FALSE)) /\ UNCHANGED pending
          /\ lost' = lost \cup {"write"}
       \/ /\ InCall("garbage") /\ NextCall(Tail(calls)) /\ UNCHANGED pending
          /\ lost' = lost \cup {"cache"} \cup CutScan
    /\ UNCHANGED << kind, settling, firstGc, user, asleep >>

-----------------------------------------------------------------------------
(***************************************************************************)
(* The stopper of default_worker_task.                                     *)
(***************************************************************************)

\* The outer select drops waker_future where it is, a process_* call included
\* (abort), and process_writes is called; the two calls after it are made if it
\* returns NeedsGarbageCollect.
Stop ==
    /\ MayStop /\ kind = "default" /\ ~ Shutdown /\ arm # "stopped"
    /\ arm' = IF io = "idle" THEN "stop" ELSE "abort"
    /\ calls' = << "writes", "garbage", "writes" >> /\ settling' = {}
    /\ io' = "idle" /\ scan' = NoScan /\ wr' = NoWr /\ gc' = NoGc
    /\ UNCHANGED << queue, list, node, seqState, events >>
    /\ lost' = lost \cup CutScan
    /\ UNCHANGED << kind, pending, firstGc, user, asleep >>

-----------------------------------------------------------------------------
Users ==
    \/ \E k \in Keys : UserAttach(k) \/ UserPoll(k) \/ UserDefault(k) \/ UserDetach(k)
    \/ \E k \in Keys, v \in Values : UserWrite(k, v)

CallStep ==
    \/ ReadsStep \/ ReadsEnd \/ ReadsFail
    \/ GarbageStep \/ GarbageEnd
    \/ WritesStep \/ WritesGood \/ WritesBad \/ WritesReturn

WorkerNext ==
    \/ Users
    \/ \E s \in Signals : Hear(s) \/ TimerFires(s)
    \/ HearAtOnce \/ CallStep \/ CallFails \/ Stop

WorkerSpec == WorkerInit /\ [][WorkerNext]_avars

(***************************************************************************)
(* The executor polls what was woken, so a call in progress goes on and a  *)
(* timer fires unless its future is dropped or it is restarted.  Whenever  *)
(* the loop comes back to the select, the select polls all of its futures  *)
(* and they take the signals that are stored: hence strong fairness.       *)
(***************************************************************************)
WorkerFairness ==
    /\ WF_avars(CallStep \/ HearAtOnce)
    /\ \A s \in Signals : SF_avars(Hear(s))
    /\ WF_avars(\E s \in Signals : TimerFires(s))
    /\ WF_avars(\E k \in Keys : UserPoll(k)) /\ SF_avars(\E k \in Keys : UserDefault(k))

FairWorker == WorkerSpec /\ WorkerFairness

-----------------------------------------------------------------------------
(***************************************************************************)
(* What the workers guarantee.                                             *)
(***************************************************************************)

\* A worker does not store anything, or no longer.
OutOfService == kind = "noop" \/ arm = "stopped"

\* attach returns: the read it asks for is made, whatever other signals and timers
\* the select takes in between, and wakes it.  The exceptions are those the code
\* has: a signal dropped with its future (worker_task.rs:117), a read that fails.
AttachServed ==
    <>[](\E k \in Keys : user[k] = "attach") => <>[]("read" \in lost \/ arm = "stopped")

\* What a handle wrote is saved once the writes pause: the write arm is never
\* refused for a collection that is due, and none of the calls before it spends
\* the signal for nothing (worker_task.rs:140-157).  The exceptions: a signal
\* dropped with its future, a default value, which signals nothing, a write that
\* fails or finds no room or an unread node, a scan that fails; in the demos, a failed
\* collection.
WritesSaved ==
    <>[](~ NothingUnsaved /\ "write" \notin pending) =>
    <>[](\/ lost \cap { "write", "scan" } # {} \/ OutOfService
         \/ kind # "default" /\ "cache" \in lost)

\* The storage is collected whenever it is due, although select3 drops the 120 s
\* timer of the first collection each time another arm is taken, unless a
\* collection or a scan has failed (worker_task.rs:110-117, 131-137): a read arm that
\* learns nothing still spends the one collection that follows a start.
GarbageCollected ==
    seqState.gc ~> ~ seqState.gc \/ arm = "stopped" \/ lost \cap { "cache", "scan" } # {}

\* A shutdown between two calls flushes what is pending, and collects if that is
\* needed first (worker_task.rs:41-42, 176-199), unless the nodes were never read,
\* there is no room, or the scan of that collection was cut short, after which one
\* may be due again.
StopFlushes ==
    [][arm = "stop" /\ arm' = "stopped" =>
         \/ NothingUnsaved' \/ Unread' \/ Full'
         \/ calls = << "writes" >> /\ seqState.gc /\ "scan" \in lost]_avars

\* A list that keeps one record loses nothing when it is shut down, also in the middle of
\* a write: a restart finds what the nodes hold (worker_task.rs:176-199), also when the
\* last write has the number of one that was cut and is reported as failed.  A stop in
\* the middle of a collection leaves an empty cache, so that nothing is written; one in
\* the middle of a scan a partial one, which the shutdown's own collection trusts.
StopStores ==
    [][Kept = 1 /\ Shutdown /\ arm' = "stopped" /\ NoEvent =>
         \/ \A k \in Attached' : Ram'[k] = Boot(queue')[k]
         \/ Unread' \/ Full' \/ "scan" \in lost]_avars

\* The loop of the doc: read signals trigger a read (worker_task.rs:36).
EveryAttachReturns ==
    \A k \in Keys : user[k] = "attach" ~> user[k] # "attach"
=============================================================================
