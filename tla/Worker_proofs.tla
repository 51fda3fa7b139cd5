---------------------------- MODULE Worker_proofs ----------------------------
(***************************************************************************)
(* A shutdown between two calls flushes, for every worker, any number of   *)
(* keys, payloads, records and elements, and whatever an earlier life of   *)
(* the program has left in the storage.                                    *)
(***************************************************************************)
EXTENDS Worker, Refinement_proofs

(***************************************************************************)
(* What an earlier life may leave: no Start claims a number that is not    *)
(* the next one of some good record, and with no good record there is no   *)
(* Start.  A torn first record is the exception: it is never collected and *)
(* the write after it is not verified, so no shutdown can flush it, unless *)
(* the storage has no room for one anyway.                                 *)
(***************************************************************************)
LeftBehind(q) ==
    /\ \A p \in Positions(q, "start") :
          /\ q[p].seq <= MaxSeq
          /\ q[p].seq = 1 \/ \E r \in GoodRecords(q) : q[p].seq <= r.seq + 1
    /\ GoodRecords(q) = {} => Positions(q, "start") = {} \/ Len(q) >= Capacity

\* Between two calls nothing is left of the local variables of a call.
LocalsClean ==
    /\ scan # NoScan => Scanning
    /\ wr # NoWr => io \in { "push", "verify" }
    /\ gc # NoGc => io = "collect"

\* What the arms have left to call.
Plans ==
    { << >>, << "reads" >>, << "reads", "garbage" >>, << "garbage" >>, << "writes" >>,
      << "writes", "garbage" >>, << "garbage", "writes" >>, << "garbage", "writes", "garbage" >>,
      << "writes", "garbage", "writes" >> }

\* What a shutdown may have left to call.
Shutdowns == { << "writes" >>, << "garbage", "writes" >>, << "writes", "garbage", "writes" >> }

\* The call in progress is the next one of the arm.
CallIo ==
    /\ calls \in Plans
    /\ arm \in { "select", "stopped" } => calls = << >>
    /\ arm = "stop" => calls \in Shutdowns
    /\ io = "readScan" => InCall("reads")
    /\ io \in { "push", "verify" } => InCall("writes")
    /\ io \in { "collect", "gcScan" } => InCall("garbage")

\* The shutdown's second process_writes finds no collection due.
Recollected ==
    /\ io = "collect" => ~ seqState.gc
    /\ arm = "stop" /\ calls = << "writes" >> => ~ seqState.gc

\* A collection works without a cache.
Taken == io = "collect" => ~ ScanCompleted(seqState)

\* Without a good record there is no Start but that of the write in progress.
Bare ==
    \/ Good # {} \/ Starts = {} \/ Len(queue) >= Capacity
    \/ io \in { "push", "verify" }

\* So the first record there is can be read back, too.
FirstOpen ==
    ScanCompleted(seqState) /\ ~ AnySeen(seqState) =>
        /\ io = "idle" => Starts = {} \/ Len(queue) >= Capacity
        /\ io = "push" => \E lo \in DOMAIN queue : OpenAt(queue, wr.seq, wr.crc, lo)
        /\ io = "verify" => \E lo \in DOMAIN queue : Verified(lo, Len(queue))

\* A stop in mid-call ends the life that the invariant is about.
Over == arm \in { "abort", "stopped" }

StoreIsGood == StoreInv /\ CompleteInv /\ LocalsClean /\ Taken /\ Bare /\ FirstOpen

FlushInv ==
    /\ arm = "stopped" => calls = << >>
    /\ Over \/ (StoreIsGood /\ CallIo /\ Recollected)

-----------------------------------------------------------------------------
(***************************************************************************)
(* What the steps of the list keep.                                        *)
(***************************************************************************)

\* What a worker and its users do with the list: power does not fail, nobody resets
\* the cache and nothing rots.
ListStep ==
    \/ \E k \in Keys : Attach(k) \/ TakeDefault(k) \/ Detach(k)
    \/ \E k \in Keys, v \in Values : Write(k, v)
    \/ IoStep \/ Interrupt

LEMMA ListStepIsNext == [ListStep]_vars => [Next]_vars
  BY DEF ListStep, Next, UserStep, FaultStep

\* A collection that is cut short leaves the cache as it is, empty.
CollectCut == io = "collect" /\ io' = "idle" /\ UNCHANGED << queue, seqState >>

\* The steps, by what they do to the storage and the cache.
LEMMA ListSteps ==
    ASSUME WritesComplete, [ListStep]_vars
    PROVE  \/ Quiet \/ BeginGarbage \/ ScanEnds
           \/ BeginWrites \/ PushData \/ PushEnd \/ VerifyGood
           \/ CollectElement \/ BeginScan \/ EndCollect \/ (Scanning /\ ScanElement)
           \/ StorageFull \/ VerifyBad \/ CollectCut
<1>0. "scan" \notin Events /\ "push" \notin Events /\ "verify" \notin Events
  BY DEF WritesComplete
<1>1. CASE UNCHANGED vars
  BY <1>1 DEF vars, Quiet
<1>2. CASE \E k \in Keys : \/ Attach(k) \/ TakeDefault(k) \/ Detach(k)
                           \/ \E v \in Values : Write(k, v)
  BY <1>2 DEF Attach, TakeDefault, Detach, Write, Quiet
<1>3. CASE \E ok \in BOOLEAN : ProcessReads(ok)
  BY <1>3 DEF ProcessReads, Quiet
<1>4. CASE \E ok \in BOOLEAN : EndReadScan(ok)
  BY <1>4 DEF EndReadScan, ScanEnds, ScanDone
<1>5. CASE EndGcScan
  BY <1>5 DEF EndGcScan, ScanEnds, ScanDone
<1>6. CASE ScanElement
  BY <1>6 DEF ScanElement, Scanning
<1>7. CASE Interrupt
  BY <1>0, <1>7 DEF Interrupt, Event, CollectCut
<1> QED
  BY <1>1, <1>2, <1>3, <1>4, <1>5, <1>6, <1>7 DEF ListStep, IoStep

\* Every call cleans up its locals when it returns.
LEMMA NextLocalsClean ==
    ASSUME LocalsClean, [ListStep]_vars
    PROVE  LocalsClean'
<1>1. CASE UNCHANGED << scan, wr, gc, io >>
  BY <1>1 DEF LocalsClean, Scanning
<1>2. CASE UNCHANGED vars \/ \E k \in Keys : \/ Attach(k) \/ TakeDefault(k) \/ Detach(k)
                                             \/ \E v \in Values : Write(k, v)
  BY <1>1, <1>2 DEF vars, Attach, TakeDefault, Detach, Write
<1>3. CASE \E ok \in BOOLEAN : ProcessReads(ok)
  BY <1>1, <1>3 DEF ProcessReads
<1>4. CASE \E ok \in BOOLEAN : EndReadScan(ok)
  BY <1>4 DEF EndReadScan, LocalsClean, Scanning
<1>5. CASE BeginScan \/ ScanElement \/ EndGcScan \/ EndCollect
  BY <1>5 DEF BeginScan, ScanElement, EndGcScan, EndCollect, LocalsClean, Scanning
<1>6. CASE BeginWrites \/ PushData \/ PushEnd \/ StorageFull \/ VerifyGood \/ VerifyBad
  BY <1>6 DEF BeginWrites, PushData, PushEnd, StorageFull, VerifyGood, VerifyBad, LocalsClean,
     Scanning
<1>7. CASE BeginGarbage \/ CollectElement
  BY <1>7 DEF BeginGarbage, CollectElement, LocalsClean, Scanning
<1>8. CASE Interrupt
  BY <1>8 DEF Interrupt, LocalsClean
<1> QED
  BY <1>2, <1>3, <1>4, <1>5, <1>6, <1>7, <1>8 DEF ListStep, IoStep

\* The cache stays empty until the scan that follows the collection.
LEMMA NextTaken ==
    ASSUME WritesComplete, Taken, [ListStep]_vars
    PROVE  Taken'
<1>1. CASE Quiet
  BY <1>1 DEF Quiet, Taken
<1>2. CASE BeginGarbage
  BY <1>2 DEF BeginGarbage, Taken, NewSeqState, ScanCompleted
<1>3. CASE CollectElement
  BY <1>3 DEF CollectElement, Taken
<1>4. CASE \/ ScanEnds \/ BeginWrites \/ PushData \/ PushEnd \/ VerifyGood \/ BeginScan
           \/ EndCollect \/ (Scanning /\ ScanElement) \/ StorageFull \/ VerifyBad \/ CollectCut
  BY <1>4 DEF ScanEnds, BeginWrites, PushData, PushEnd, VerifyGood, BeginScan, EndCollect,
     Scanning, ScanElement, StorageFull, VerifyBad, CollectCut, Taken
<1> QED
  BY <1>1, <1>2, <1>3, <1>4, ListSteps

\* No read-back fails.
LEMMA AllVerify ==
    ASSUME StoreInv, RecordOpen, FirstOpen
    PROVE  ~ VerifyBad
<1> SUFFICES ASSUME VerifyBad PROVE FALSE
  OBVIOUS
<1>1. ScanCompleted(seqState) /\ ~ AnySeen(seqState) /\ io = "verify"
  BY CompleteVerifies DEF VerifyBad, StoreInv, SurvivalInv, WriteInv
<1>2. PICK lo \in DOMAIN queue : Verified(lo, Len(queue))
  BY <1>1 DEF FirstOpen
<1>3. Len(queue) \in DOMAIN queue
  BY <1>2 DEF Verified, VerifiedAt, IsRecord
<1> QED
  BY <1>2, <1>3 DEF VerifyBad

\* A collection keeps a good record, and a write ends with one.
LEMMA NextBare ==
    ASSUME WritesComplete, StoreInv, StoreInv', RecordOpen, FirstOpen, Bare, [ListStep]_vars
    PROVE  Bare'
<1>0. queue \in Seq(Elem) /\ queue' \in Seq(Elem)
  BY DEF StoreInv, GenuineInv, TypeInv, TypeOK
<1>1. CASE UNCHANGED queue /\ (io \in { "push", "verify" } => io' \in { "push", "verify" })
  BY <1>1 DEF Bare, Good, Starts
<1>2. CASE BeginWrites \/ PushData \/ PushEnd
  BY <1>2 DEF BeginWrites, PushData, PushEnd, Bare
<1>3. CASE VerifyGood
  <2>1. PICK lo \in DOMAIN queue, hi \in DOMAIN queue : Verified(lo, hi)
    BY <1>3 DEF VerifyGood
  <2>2. IsRecord(queue, lo, hi)
    BY <2>1 DEF Verified, VerifiedAt
  <2>3. Good # {} /\ UNCHANGED queue
    BY <1>0, <1>3, <2>2, RecordIsGood DEF Good, VerifyGood
  <2> QED BY <2>3 DEF Bare, Good
<1>4. CASE StorageFull
  BY <1>4 DEF StorageFull, Bare
<1>5. CASE CollectElement
  <2>1. io' = "collect" /\ GcInv'
    BY <1>5 DEF CollectElement, StoreInv, SurvivalInv
  <2>2. PICK e \in Int : \E a, b \in DOMAIN queue' : NewestKept(queue', gc', e, a, b)
    BY <2>1 DEF GcInv
  <2>3. PICK a \in DOMAIN queue', b \in DOMAIN queue' : NewestKept(queue', gc', e, a, b)
    BY <2>2
  <2>4. IsRecord(queue', a, b)
    BY <2>3 DEF NewestKept, HomeAt, RecordAt
  <2>5. GoodRecords(queue') # {}
    BY <1>0, <2>4, RecordIsGood
  <2> QED BY <2>5 DEF Bare, Good
<1>6. CASE Quiet \/ BeginGarbage \/ ScanEnds \/ BeginScan \/ EndCollect \/ (Scanning /\ ScanElement)
           \/ CollectCut
  BY <1>1, <1>6 DEF Quiet, BeginGarbage, ScanEnds, ScanDone, BeginScan, EndCollect, Scanning,
     ScanElement, CollectCut
<1> QED
  BY <1>2, <1>3, <1>4, <1>5, <1>6, AllVerify, ListSteps

\* And so the first record of a storage can be read back.
LEMMA NextFirstOpen ==
    ASSUME WritesComplete, StoreInv, StoreInv', RecordOpen, Bare, Taken, FirstOpen,
           [ListStep]_vars
    PROVE  FirstOpen'
<1>0. TypeInv /\ TypeOK /\ ScanCovers /\ EmptyInv' /\ queue \in Seq(Elem)
  BY DEF StoreInv, GenuineInv, SurvivalInv, TypeInv, TypeOK
<1> SUFFICES ASSUME ScanCompleted(seqState'), ~ AnySeen(seqState'),
                    io' \in { "idle", "push", "verify" }
             PROVE  FirstOpen'
  BY DEF FirstOpen
<1>1. CASE Quiet
  BY <1>1 DEF Quiet, FirstOpen, Starts, Verified
<1>2. CASE BeginGarbage \/ CollectElement \/ BeginScan \/ EndCollect \/ (Scanning /\ ScanElement)
  BY <1>2 DEF BeginGarbage, CollectElement, BeginScan, EndCollect, Scanning, ScanElement
<1>3. CASE ScanEnds
  <2>1. ~ AnySeen(seqState) /\ UNCHANGED queue /\ io' = "idle" /\ Scanning
    BY <1>0, <1>3, ScanEndsCache DEF ScanEnds, ScanDone, Scanning
  <2>2. Good = {}
    BY <1>0, <1>3, <2>1, ScanEndsLeads DEF Leads
  <2>3. Starts = {} \/ Len(queue) >= Capacity
    BY <2>1, <2>2 DEF Bare, Scanning
  <2> QED BY <2>1, <2>3 DEF FirstOpen, Starts
<1>4. CASE BeginWrites
  <2>1. /\ UNCHANGED seqState /\ io = "idle" /\ io' = "push" /\ Len(queue) < Capacity
    BY <1>4 DEF BeginWrites, Push
  <2>2. ~ Len(queue) >= Capacity
    <3>1. Len(queue) \in Nat /\ Capacity \in Nat
      BY <1>0, StorageAssumption
    <3> QED BY <2>1, <3>1
  <2>3. Starts = {}
    BY <2>1, <2>2 DEF FirstOpen
  <2> QED BY <1>0, <1>4, <2>1, <2>3, StartOpens DEF FirstOpen
<1>5. CASE PushData
  <2>1. io = "push" /\ io' = "push" /\ UNCHANGED seqState
    BY <1>5 DEF PushData
  <2>2. PICK lo \in DOMAIN queue : OpenAt(queue, wr.seq, wr.crc, lo)
    BY <2>1 DEF FirstOpen
  <2> QED BY <1>0, <1>5, <2>1, <2>2, DataKeepsOpen DEF FirstOpen
<1>6. CASE PushEnd
  <2>1. io = "push" /\ io' = "verify" /\ UNCHANGED seqState
    BY <1>6 DEF PushEnd
  <2>2. PICK lo \in DOMAIN queue : OpenAt(queue, wr.seq, wr.crc, lo)
    BY <2>1 DEF FirstOpen
  <2> QED BY <1>0, <1>6, <2>1, <2>2, EndCloses DEF FirstOpen
<1>7. CASE VerifyGood
  BY <1>0, <1>7, VerifiedLeads DEF EmptyInv, StoreInv, SurvivalInv
<1>8. CASE StorageFull
  BY <1>8 DEF StorageFull, FirstOpen
<1>9. CASE CollectCut
  BY <1>9 DEF CollectCut, Taken
<1> QED
  BY <1>1, <1>2, <1>3, <1>4, <1>5, <1>6, <1>7, <1>8, <1>9, AllVerify, ListSteps

\* The invariant of the list while no call is aborted.
LEMMA NextStoreIsGood ==
    ASSUME WritesComplete, MaxSeq < SeqLimit, StoreIsGood, [ListStep]_vars
    PROVE  StoreIsGood'
<1>0. "rot" \notin Events /\ "scan" \notin Events
  BY DEF WritesComplete
<1>1. /\ StoreInv /\ CompleteInv /\ LocalsClean /\ Taken /\ Bare /\ FirstOpen
      /\ RecordOpen /\ [Next]_vars
  BY ListStepIsNext DEF StoreIsGood, CompleteInv
<1>2. StoreInv' /\ CompleteInv'
  BY <1>0, <1>1, NextStoreInv, NextCompleteInv
<1>3. LocalsClean' /\ Taken' /\ Bare' /\ FirstOpen'
  BY <1>1, <1>2, NextLocalsClean, NextTaken, NextBare, NextFirstOpen
<1> QED
  BY <1>2, <1>3 DEF StoreIsGood

-----------------------------------------------------------------------------
(***************************************************************************)
(* What the worker keeps.                                                  *)
(***************************************************************************)

\* How an arm goes on.
LEMMA PlansGoOn ==
    /\ \A c \in Plans : c # << >> => Tail(c) \in Plans
    /\ Tail(<< "writes" >>) = << >> /\ Tail(<< "garbage", "writes" >>) = << "writes" >>
    /\ Tail(<< "writes", "garbage", "writes" >>) = << "garbage", "writes" >>
    /\ \A c \in Shutdowns : Head(c) = IF c = << "garbage", "writes" >> THEN "garbage" ELSE "writes"
    /\ << >> \in Plans /\ Shutdowns \subseteq Plans
    /\ \A s \in Signals : CallsOf(s) \in Plans
  BY DEF Plans, Shutdowns, Signals, CallsOf

\* Only a stop in mid-call does something that is no step of the list.
LEMMA WorkerSteps ==
    ASSUME LocalsClean, io \in IoStates, [WorkerNext]_avars
    PROVE  [ListStep]_vars \/ arm' = "abort"
<1>1. CASE UNCHANGED avars
  BY <1>1 DEF avars
<1>2. CASE Users
  BY <1>2 DEF Users, UserAttach, UserPoll, UserDefault, UserDetach, UserWrite, ListStep
<1>3. CASE (\E s \in Signals : Hear(s) \/ TimerFires(s)) \/ HearAtOnce
  BY <1>3 DEF Hear, TimerFires, HearAtOnce
<1>4. CASE ReadsStep \/ ReadsEnd \/ ReadsFail
  BY <1>4 DEF ReadsStep, ReadsEnd, ReadsFail, ListStep, IoStep
<1>5. CASE GarbageStep \/ GarbageEnd
  BY <1>5 DEF GarbageStep, GarbageEnd, ListStep, IoStep
<1>6. CASE WritesStep \/ WritesGood \/ WritesBad \/ WritesReturn
  BY <1>6 DEF WritesStep, WritesGood, WritesBad, WritesReturn, ListStep, IoStep
<1>7. CASE CallFails
  BY <1>7 DEF CallFails, ListStep
<1>8. CASE Stop
  <2>1. CASE io = "idle"
    <3>1. scan = NoScan /\ wr = NoWr /\ gc = NoGc
      BY <2>1 DEF LocalsClean, Scanning
    <3> QED BY <1>8, <2>1, <3>1 DEF Stop, vars
  <2>2. CASE io # "idle"
    BY <1>8, <2>2 DEF Stop
  <2> QED BY <2>1, <2>2
<1> QED
  BY <1>1, <1>2, <1>3, <1>4, <1>5, <1>6, <1>7, <1>8 DEF WorkerNext, CallStep

\* A call that returns leaves the storage to the next call of the arm.
LEMMA NextCallIo ==
    ASSUME CallIo, calls # << >>, io' = "idle", NEW rest \in Plans, NextCall(rest),
           arm = "stop" => rest \in { << >>, << "writes" >>, << "garbage", "writes" >> }
    PROVE  CallIo'
<1>1. calls' = rest /\ arm \notin { "select", "stopped" }
  BY DEF NextCall, CallIo
<1>2. CASE rest = << >>
  BY <1>1, <1>2 DEF NextCall, CallIo, Plans
<1>3. CASE rest # << >>
  <2>1. arm' = arm
    BY <1>3 DEF NextCall
  <2> QED BY <1>1, <1>3, <2>1 DEF CallIo, Shutdowns
<1> QED
  BY <1>2, <1>3

\* What is left to an arm when its first call has returned.
LEMMA TailCallIo ==
    ASSUME CallIo, calls # << >>, io' = "idle", NextCall(Tail(calls))
    PROVE  CallIo'
<1>1. Tail(calls) \in Plans
  BY PlansGoOn DEF CallIo
<1>2. arm = "stop" => Tail(calls) \in { << >>, << "writes" >>, << "garbage", "writes" >> }
  BY PlansGoOn DEF CallIo, Shutdowns
<1> QED
  BY <1>1, <1>2, NextCallIo

\* What is left to it when that call is a process_writes.
LEMMA AfterWritesIo ==
    ASSUME CallIo, calls # << >>, io' = "idle", NEW due \in BOOLEAN, NextCall(AfterWrites(due))
    PROVE  CallIo'
<1>1. CASE AfterWrites(due) = << >>
  BY <1>1, PlansGoOn, NextCallIo
<1>2. CASE AfterWrites(due) = Tail(calls)
  BY <1>2, TailCallIo
<1> QED
  BY <1>1, <1>2 DEF AfterWrites

\* The call in progress is the first of those that are left to the arm.
LEMMA NextArm ==
    ASSUME CallIo, ~ Over, io \in IoStates, [WorkerNext]_avars
    PROVE  CallIo' \/ arm' = "abort"
<1>0. arm = "select" => calls = << >> /\ io = "idle"
  BY DEF CallIo, InCall, IoStates
<1>1. CASE UNCHANGED << arm, calls, io >>
  BY <1>1 DEF CallIo, InCall
<1>2. CASE UNCHANGED avars \/ Users \/ \E s \in Signals : Hear(s)
  <2>1. UNCHANGED << arm, calls, io >>
    BY <1>2 DEF avars, vars, wvars, Users, UserAttach, UserPoll, UserDefault, UserDetach, UserWrite,
       Attach, TakeDefault, Detach, Write, Hear
  <2> QED BY <1>1, <2>1
<1>3. ASSUME NEW s \in Signals, TimerFires(s) PROVE CallIo'
  <2>1. arm' = s /\ calls' = CallsOf(s) /\ io' = "idle"
    BY <1>0, <1>3 DEF TimerFires, vars
  <2>2. arm' \notin { "select", "stopped", "stop" }
    BY <2>1 DEF Signals
  <2> QED BY <2>1, <2>2, PlansGoOn DEF CallIo
<1>4. CASE HearAtOnce
  BY <1>0, <1>4 DEF HearAtOnce, vars, CallIo, Plans
<1>5. CASE ReadsStep
  BY <1>5 DEF ReadsStep, wvars, BeginScan, ScanElement, CallIo, InCall
<1>6. CASE ReadsEnd \/ ReadsFail
  <2>1. calls # << >> /\ NextCall(Tail(calls)) /\ io' = "idle"
    BY <1>6 DEF ReadsEnd, ReadsFail, ReadsReturn, InCall, ProcessReads, EndReadScan
  <2> QED BY <2>1, TailCallIo
<1>7. CASE GarbageStep
  <2>1. UNCHANGED << arm, calls >> /\ InCall("garbage") /\ io' \in { "collect", "gcScan" }
    BY <1>7 DEF GarbageStep, wvars, BeginGarbage, CollectElement, EndCollect, ScanElement
  <2> QED BY <2>1 DEF CallIo, InCall
<1>8. CASE GarbageEnd
  <2>1. calls # << >> /\ NextCall(Tail(calls)) /\ io' = "idle"
    BY <1>8 DEF GarbageEnd, InCall, EndGcScan, vars
  <2> QED BY <2>1, TailCallIo
<1>9. CASE WritesStep
  <2>1. UNCHANGED << arm, calls >> /\ InCall("writes") /\ io' \in { "push", "verify" }
    BY <1>9 DEF WritesStep, wvars, BeginWrites, PushData, PushEnd
  <2> QED BY <2>1 DEF CallIo, InCall
<1>10. CASE WritesGood \/ WritesBad
  <2>1. calls # << >> /\ NextCall(AfterWrites(FALSE)) /\ io' = "idle"
    BY <1>10 DEF WritesGood, WritesBad, InCall, VerifyGood, VerifyBad, StorageFull
  <2> QED BY <2>1, AfterWritesIo
<1>11. CASE WritesReturn
  <2>1. calls # << >> /\ io' = "idle" /\ NextCall(AfterWrites(NeedsGarbageCollect))
    BY <1>11 DEF WritesReturn, InCall, vars
  <2>2. NextCall(AfterWrites(TRUE)) \/ NextCall(AfterWrites(FALSE))
    BY <2>1 DEF AfterWrites
  <2> QED BY <2>1, <2>2, AfterWritesIo
<1>12. CASE CallFails
  <2>1. calls # << >> /\ io' = "idle"
    BY <1>12 DEF CallFails, InCall, Interrupt
  <2>2. NextCall(Tail(calls)) \/ NextCall(AfterWrites(FALSE))
    BY <1>12 DEF CallFails, ReadsReturn
  <2> QED BY <2>1, <2>2, TailCallIo, AfterWritesIo
<1>13. CASE Stop
  BY <1>13 DEF Stop, CallIo, Plans, Shutdowns
<1> QED
  BY <1>2, <1>3, <1>4, <1>5, <1>6, <1>7, <1>8, <1>9, <1>10, <1>11, <1>12, <1>13
  DEF WorkerNext, CallStep

LEMMA GcCleared ==
    ASSUME seqState \in SeqStates
    PROVE  ~ [Populated EXCEPT !.gc = FALSE].gc
<1>1. "gc" \in DOMAIN seqState
  BY DEF SeqStates
<1> QED
  BY <1>1 DEF Populated

\* A collection gives its cache up before it starts, and clears what is due at its end.
LEMMA NextRecollected ==
    ASSUME WritesComplete, TypeOK, CallIo, Recollected, ~ Over, [WorkerNext]_avars
    PROVE  Recollected' \/ arm' = "abort"
<1>0. "scan" \notin Events /\ arm \notin { "abort", "stopped" }
  BY DEF WritesComplete, Over
<1>1. CASE UNCHANGED << arm, calls, io, seqState >>
  BY <1>1 DEF Recollected
<1>2. CASE UNCHANGED avars \/ Users \/ \E s \in Signals : Hear(s)
  <2>1. UNCHANGED << arm, calls, io, seqState >>
    BY <1>2 DEF avars, vars, wvars, Users, UserAttach, UserPoll, UserDefault, UserDetach, UserWrite,
       Attach, TakeDefault, Detach, Write, Hear
  <2> QED BY <1>1, <2>1
<1>3. CASE (\E s \in Signals : TimerFires(s)) \/ HearAtOnce
  <2>1. arm' # "stop" /\ UNCHANGED << io, seqState >>
    BY <1>3 DEF TimerFires, HearAtOnce, Signals, vars
  <2> QED BY <2>1 DEF Recollected
<1>4. ASSUME InCall("reads"), arm' # "stop" \/ UNCHANGED << arm, calls >>, io' # "collect"
      PROVE  Recollected'
  <2>1. arm # "stop"
    BY <1>4, PlansGoOn DEF CallIo, InCall
  <2> QED BY <1>4, <2>1 DEF Recollected
<1>5. CASE ReadsStep
  BY <1>4, <1>5 DEF ReadsStep, wvars, BeginScan, ScanElement
<1>6. CASE ReadsEnd \/ ReadsFail
  <2>1. InCall("reads") /\ NextCall(Tail(calls)) /\ io' = "idle"
    BY <1>6 DEF ReadsEnd, ReadsFail, ReadsReturn, ProcessReads, EndReadScan
  <2>2. arm # "stop"
    BY <2>1, PlansGoOn DEF CallIo, InCall
  <2> QED BY <1>4, <2>1, <2>2 DEF NextCall
<1>7. CASE GarbageStep
  <2>1. InCall("garbage") /\ UNCHANGED << arm, calls >> /\ Head(<< "writes" >>) = "writes"
    BY <1>7 DEF GarbageStep, wvars
  <2>2. io' = "collect" => ~ seqState'.gc
    BY <1>7 DEF GarbageStep, BeginGarbage, CollectElement, EndCollect, ScanElement, NewSeqState,
       Recollected
  <2> QED BY <2>1, <2>2 DEF Recollected, InCall
<1>8. CASE GarbageEnd
  <2>1. /\ io' = "idle"
        /\ \/ UNCHANGED seqState /\ ~ seqState.gc
           \/ seqState' = [Populated EXCEPT !.gc = FALSE]
    BY <1>8 DEF GarbageEnd, EndGcScan, vars
  <2> QED BY <2>1, GcCleared DEF Recollected, TypeOK
<1>9. CASE WritesStep
  BY <1>9 DEF WritesStep, wvars, BeginWrites, PushData, PushEnd, Recollected
<1>10. ASSUME InCall("writes"), NEW due \in BOOLEAN, NextCall(AfterWrites(due)), io' = "idle"
       PROVE  Recollected'
  <2>1. CASE arm # "stop"
    <3>1. arm' # "stop"
      BY <1>10, <2>1 DEF NextCall
    <3> QED BY <1>10, <3>1 DEF Recollected
  <2>2. CASE arm = "stop"
    <3>1. calls \in { << "writes" >>, << "writes", "garbage", "writes" >> }
      BY <1>10, <2>2, PlansGoOn DEF CallIo, InCall, Shutdowns
    <3>2. AfterWrites(due) \in { << >>, << "garbage", "writes" >> }
      BY <3>1, PlansGoOn DEF AfterWrites
    <3> QED BY <1>10, <3>2 DEF NextCall, Recollected
  <2> QED BY <2>1, <2>2
<1>11. CASE WritesGood \/ WritesBad
  BY <1>10, <1>11 DEF WritesGood, WritesBad, VerifyGood, VerifyBad, StorageFull
<1>12. CASE WritesReturn
  <2>1. InCall("writes") /\ io' = "idle" /\ NextCall(AfterWrites(NeedsGarbageCollect))
    BY <1>12 DEF WritesReturn, vars
  <2>2. NextCall(AfterWrites(TRUE)) \/ NextCall(AfterWrites(FALSE))
    BY <2>1 DEF AfterWrites
  <2> QED BY <1>10, <2>1, <2>2
<1>13. CASE CallFails
  <2>1. /\ calls # << >> /\ io' = "idle" /\ UNCHANGED seqState
        /\ io \in { "push", "verify", "collect" }
    BY <1>0, <1>13 DEF CallFails, InCall, Interrupt, Event
  <2>2. CASE io = "collect"
    BY <2>1, <2>2 DEF Recollected
  <2>3. CASE io # "collect"
    <3>1. InCall("writes")
      BY <2>1, <2>3 DEF CallIo
    <3>2. NextCall(AfterWrites(FALSE))
      BY <1>13, <3>1 DEF CallFails, InCall
    <3> QED BY <1>10, <2>1, <3>1, <3>2
  <2> QED BY <2>2, <2>3
<1>14. CASE Stop
  <2>1. calls' # << "writes" >> /\ io' = "idle"
    BY <1>14 DEF Stop
  <2> QED BY <2>1 DEF Recollected
<1> QED
  BY <1>2, <1>3, <1>5, <1>6, <1>7, <1>8, <1>9, <1>11, <1>12, <1>13, <1>14 DEF WorkerNext, CallStep

\* A worker that was stopped makes the calls of the shutdown and no others.
LEMMA StaysOver ==
    ASSUME Over, arm = "stopped" => calls = << >>, [WorkerNext]_avars
    PROVE  Over' /\ (arm' = "stopped" => calls' = << >>)
<1>1. CASE UNCHANGED << arm, calls >>
  BY <1>1 DEF Over
<1>2. CASE calls # << >> /\ \E rest : NextCall(rest)
  <2>1. arm = "abort"
    BY <1>2 DEF Over
  <2> QED BY <1>2, <2>1 DEF NextCall, Over
<1>3. CASE UNCHANGED avars \/ Users
  BY <1>1, <1>3 DEF avars, wvars, Users, UserAttach, UserPoll, UserDefault, UserDetach, UserWrite
<1>4. ~ (\E s \in Signals : Hear(s) \/ TimerFires(s)) /\ ~ HearAtOnce /\ ~ Stop
  BY DEF Over, Hear, TimerFires, HearAtOnce, Stop, Shutdown
<1>5. CASE ReadsStep \/ GarbageStep \/ WritesStep
  BY <1>1, <1>5 DEF ReadsStep, GarbageStep, WritesStep, wvars
<1>6. CASE ReadsEnd \/ ReadsFail \/ GarbageEnd \/ WritesGood \/ WritesBad \/ WritesReturn \/ CallFails
  BY <1>2, <1>6 DEF ReadsEnd, ReadsFail, ReadsReturn, GarbageEnd, WritesGood, WritesBad,
     WritesReturn, CallFails, InCall
<1> QED
  BY <1>3, <1>4, <1>5, <1>6 DEF WorkerNext, CallStep

\* Every step of a worker keeps the invariant.
LEMMA NextFlushInv ==
    ASSUME WritesComplete, MaxSeq < SeqLimit, FlushInv, [WorkerNext]_avars
    PROVE  FlushInv'
<1>1. CASE Over
  BY <1>1, StaysOver DEF FlushInv
<1>2. CASE ~ Over
  <2>1. StoreIsGood /\ CallIo /\ Recollected /\ LocalsClean /\ TypeOK /\ io \in IoStates
    BY <1>2 DEF FlushInv, StoreIsGood, StoreInv, GenuineInv, TypeInv, TypeOK
  <2>2. CASE arm' = "abort"
    BY <2>2 DEF FlushInv, Over
  <2>3. CASE arm' # "abort"
    <3>1. StoreIsGood' /\ CallIo' /\ Recollected'
      BY <1>2, <2>1, <2>3, WorkerSteps, NextStoreIsGood, NextArm, NextRecollected
    <3> QED BY <3>1 DEF FlushInv, CallIo
  <2> QED BY <2>2, <2>3
<1> QED
  BY <1>1, <1>2

-----------------------------------------------------------------------------
(***************************************************************************)
(* The start, and the end.                                                 *)
(***************************************************************************)

\* The program starts with what an earlier life of it has left.
LEMMA WorkerInitQueue ==
    ASSUME WorkerInit, \A q \in Found : LeftBehind(q)
    PROVE  queue \in Seq(Elem) /\ LeftBehind(queue)
<1>1. CASE kind = "noop"
  <2>1. queue = << >> /\ Positions(queue, "start") = {}
    BY <1>1 DEF WorkerInit, Positions
  <2> QED BY <2>1 DEF LeftBehind
<1>2. CASE kind # "noop"
  BY <1>2, WorkerAssumption DEF WorkerInit
<1> QED
  BY <1>1, <1>2

LEMMA InitFlushInv ==
    ASSUME WorkerInit, \A q \in Found : LeftBehind(q)
    PROVE  FlushInv
<1>0. queue \in Seq(Elem) /\ LeftBehind(queue)
  BY WorkerInitQueue
<1>1. /\ list = << >> /\ node = [k \in Keys |-> Fresh] /\ seqState = NewSeqState
      /\ io = "idle" /\ scan = NoScan /\ wr = NoWr /\ gc = NoGc /\ events = 0
      /\ arm = "select" /\ calls = << >>
  BY DEF WorkerInit
<1>2. /\ Recs = {} /\ ~ AnySeen(seqState) /\ ~ ScanCompleted(seqState) /\ ~ seqState.gc
      /\ seqState.recs = << >> /\ seqState.next = 0 /\ ~ Scanning
  BY <1>1 DEF Recs, AnySeen, ScanCompleted, NewSeqState, Scanning
<1>3. TypeInv
  <2>1. Fresh \in Nodes
    BY DEF Fresh, Nodes
  <2>2. 1 \in SeqNo
    BY Constants DEF SeqNo
  <2> QED BY <1>0, <1>1, <2>1, <2>2, NewSeqStateType, Constants
      DEF TypeInv, TypeOK, CacheOrdered, IoStates, NoScan, NoWr, NoGc
<1>4. ScanInv /\ CollectInv /\ CacheGenuine
  BY <1>1, <1>2 DEF ScanInv, CollectInv, CacheGenuine
<1>5. ScanningInv
  BY <1>0, <1>2 DEF ScanningInv, NumberInv, ScanOpen, ScanCollects, Starts, LeftBehind
<1>6. SurvivalInv
  BY <1>0, <1>1, <1>2 DEF SurvivalInv, EmptyInv, StartsFollow, ScanCovers, CacheCovers, WriteInv,
     ExactInv, GcInv, Starts, Good, LeftBehind
<1>7. CompleteInv
  BY <1>1, <1>2 DEF CompleteInv, BootCached, FoundIsDue, CollectedInv, NumberFree, RecordOpen
<1>8. LocalsClean /\ Taken /\ Bare /\ FirstOpen /\ CallIo /\ Recollected
  BY <1>0, <1>1, <1>2 DEF LocalsClean, Taken, Bare, FirstOpen, CallIo, Recollected, Plans, LeftBehind,
     Good, Starts
<1> QED
  BY <1>1, <1>3, <1>4, <1>5, <1>6, <1>7, <1>8 DEF FlushInv, StoreIsGood, StoreInv, GenuineInv

\* The last call of a shutdown is a process_writes that has saved everything, unless
\* the nodes were never read or there is no room.
Flushes == arm = "stop" /\ arm' = "stopped" => NothingUnsaved' \/ Unread' \/ Full'

LEMMA NextFlushes ==
    ASSUME WritesComplete, FlushInv, [WorkerNext]_avars
    PROVE  Flushes
<1> SUFFICES ASSUME arm = "stop", arm' = "stopped" PROVE NothingUnsaved' \/ Unread' \/ Full'
  BY DEF Flushes
<1>0. /\ StoreInv /\ RecordOpen /\ FirstOpen /\ CallIo /\ TypeOK
      /\ calls \in Shutdowns /\ Recollected /\ io \in IoStates
  BY DEF FlushInv, Over, StoreIsGood, CompleteInv, CallIo, StoreInv, GenuineInv, TypeInv, TypeOK
<1>1. ASSUME NextCall(Tail(calls)) PROVE calls = << "writes" >> /\ InCall("writes")
  <2>1. Tail(calls) = << >>
    BY <1>1 DEF NextCall
  <2>2. calls = << "writes" >>
    BY <1>0, <2>1, PlansGoOn DEF Shutdowns
  <2> QED BY <2>2 DEF InCall
<1>2. CASE WritesGood
  <2>1. /\ list \in Seq(Keys) /\ node \in [Keys -> Nodes]
        /\ UNCHANGED list /\ node' = Cleaned(node)
    BY <1>0, <1>2 DEF TypeOK, WritesGood, VerifyGood
  <2>2. ASSUME NEW k \in Attached PROVE node'[k].state # "NeedsWrite"
    <3>1. k \in Keys /\ node[k] \in Nodes
      BY <2>1 DEF Attached
    <3>2. CASE node[k].state # "NeedsWrite"
      BY <2>1, <3>1, <3>2 DEF Cleaned
    <3>3. CASE node[k].state = "NeedsWrite"
      <4>1. node[k] = [state |-> "NeedsWrite", val |-> node[k].val]
        BY <3>1, <3>3 DEF Nodes
      <4>2. node'[k] = [node[k] EXCEPT !.state = "ValidNoWriteNeeded"]
        BY <2>1, <3>1, <3>3 DEF Cleaned
      <4> QED BY <4>1, <4>2
    <3> QED BY <3>2, <3>3
  <2> QED BY <2>1, <2>2 DEF NothingUnsaved, Attached
<1>3. CASE WritesBad
  <2>1. StorageFull
    BY <1>0, <1>3, AllVerify DEF WritesBad
  <2> QED BY <2>1 DEF StorageFull, Full
<1>4. CASE WritesReturn
  <2>1. ~ NeedsGarbageCollect
    <3> SUFFICES ASSUME NeedsGarbageCollect PROVE FALSE
      OBVIOUS
    <3>1. NextCall(Tail(calls))
      BY <1>4 DEF WritesReturn, AfterWrites
    <3>2. calls = << "writes" >>
      BY <1>1, <3>1
    <3> QED BY <1>0, <3>2 DEF Recollected, NeedsGarbageCollect
  <2>2. Unread \/ NothingUnsaved \/ Full
    BY <1>4, <2>1 DEF WritesReturn, NothingBegins, NeedsGarbageCollect, Unread, NeedsWriting,
       NothingUnsaved
  <2> QED BY <1>4, <2>2 DEF WritesReturn, vars, Unread, NothingUnsaved, Full, Attached
<1>5. CASE CallFails
  <2>1. calls # << >> /\ io = "collect"
    BY <1>5 DEF CallFails, InCall, Interrupt, Event, WritesComplete
  <2>2. Head(calls) = "garbage" /\ NextCall(Tail(calls))
    BY <1>0, <1>5, <2>1 DEF CallFails, CallIo, InCall
  <2> QED BY <1>1, <2>2 DEF InCall
<1>6. CASE ReadsEnd \/ ReadsFail \/ GarbageEnd
  <2>1. NextCall(Tail(calls)) /\ (InCall("reads") \/ InCall("garbage"))
    BY <1>6 DEF ReadsEnd, ReadsFail, ReadsReturn, GarbageEnd
  <2> QED BY <1>1, <2>1 DEF InCall
<1>7. CASE UNCHANGED arm
  BY <1>7
<1>8. CASE \/ UNCHANGED avars \/ Users \/ \E s \in Signals : Hear(s) \/ TimerFires(s)
           \/ HearAtOnce \/ ReadsStep \/ GarbageStep \/ WritesStep \/ Stop
  BY <1>8 DEF avars, wvars, Users, UserAttach, UserPoll, UserDefault, UserDetach, UserWrite,
     Hear, TimerFires, HearAtOnce, ReadsStep, GarbageStep, WritesStep, Stop, Shutdown
<1> QED
  BY <1>2, <1>3, <1>4, <1>5, <1>6, <1>8 DEF WorkerNext, CallStep

\* Whenever the stopper of default_worker_task completes between two calls, the calls
\* of the shutdown (worker_task.rs:176-199) save what is attached: what is due is
\* collected first, the write that follows has a number nobody else has claimed, and
\* its read-back succeeds.  It needs that no write fails half way and no scan is cut
\* short, and that the program did not find the remains of a first record that was torn.
THEOREM ShutdownFlushes ==
    ASSUME WritesComplete, MaxSeq < SeqLimit, \A q \in Found : LeftBehind(q)
    PROVE  WorkerSpec => StopFlushes
<1>1. WorkerInit => FlushInv
  BY InitFlushInv
<1>2. FlushInv /\ [WorkerNext]_avars => FlushInv'
  BY NextFlushInv
<1>3. FlushInv /\ [WorkerNext]_avars => [Flushes]_avars
  BY NextFlushes
<1> QED
  BY <1>1, <1>2, <1>3, PTL DEF WorkerSpec, StopFlushes, Flushes

=============================================================================
