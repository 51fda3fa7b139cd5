------------------------ MODULE NodeLifecycle_proofs ------------------------
(***************************************************************************)
(* The safety of the node life cycle for any number of nodes, lists and    *)
(* tasks.  The invariant says, for each place a task can be at, what the   *)
(* word, the list and the state of its node are (TaskInv), and what the    *)
(* word of a node says when nobody works on it (NodeInv).  A step of a     *)
(* task touches its own node only, and exclusion makes that enough.  A     *)
(* node with a payload and no state yet is in the hands of the worker of   *)
(* its list, which has one of them at most (FillInv).                      *)
(***************************************************************************)
EXTENDS NodeLifecycle, TLAPS

Busy(t) == pc[t] # "idle"

PlaceInv(t) ==
    IF Busy(t) THEN at[t].node \in Nodes /\ at[t].list \in Lists ELSE at[t] = Nowhere

TaskInv(t) ==
    LET n == at[t].node  l == at[t].list IN
    /\ pc[t] \in { "link", "first", "again", "default", "stored", "handle" } => taken[n] = Taken(l)
    /\ pc[t] \in { "remove", "drop", "reset", "release" } => taken[n] = Detaching
    /\ pc[t] \in { "link", "drop", "reset", "release" } => \A m \in Lists : n \notin members[m]
    /\ pc[t] \in { "link", "release" } => state[n] = "Initial"
    /\ pc[t] \in { "first", "again", "default", "stored", "handle", "remove" } => n \in members[l]
    /\ pc[t] = "first" => state[n] # "NeedsWrite"
    /\ pc[t] \in { "default", "stored" } => state[n] = "NonResident"
    /\ pc[t] \in { "again", "handle", "remove", "drop", "reset" } => state[n] \in Valid
    /\ pc[t] = "stored" => n \in init
    /\ pc[t] = "reset" => n \notin init

\* Task t is at a place, with node n.
Is(t, place, n) == pc[t] = place /\ at[t].node = n

PayloadInv(n) ==
    /\ state[n] \in Valid /\ n \notin init => \E t \in Tasks : Is(t, "reset", n)
    /\ n \in init /\ state[n] = "NonResident" => \E t \in Tasks : Is(t, "stored", n)
    /\ n \in init /\ state[n] = "Initial" => \E l \in Lists : n \in members[l]

WordInv(n) ==
    /\ taken[n] = Null => state[n] = "Initial" /\ \A l \in Lists : n \notin members[l]
    /\ \A l \in Lists : taken[n] = Free(l) => n \in members[l] /\ state[n] \in Valid
    /\ \A l \in Lists : n \in members[l] =>
         \/ taken[n].list = l
         \/ taken[n] = Detaching /\ \E t \in Tasks : Is(t, "remove", n) /\ at[t].list = l

NodeInv(n) == PayloadInv(n) /\ WordInv(n)

\* The payload of n is in place and its state is not.
Half(n) == n \in init /\ state[n] = "Initial"

FillInv ==
    \A l \in Lists : \A n \in members[l] :
        Half(n) => worker[l] = "filled" /\ \A m \in members[l] : Half(m) => m = n

Inv ==
    /\ TypeOK
    /\ \A t \in Tasks : PlaceInv(t) /\ TaskInv(t)
    /\ \A n \in Nodes : NodeInv(n)
    /\ FillInv
    /\ Exclusive
    /\ KeysUnique

\* The invariant holds before any node exists.
LEMMA InitInv == Init => Inv
  BY LifecycleAssumption
  DEF Init, Inv, TypeOK, PlaceInv, TaskInv, NodeInv, PayloadInv, WordInv, FillInv, Half, Busy,
      Exclusive, KeysUnique, States, Valid, PCs, Polls, Phases, Null, Word, Free, Nowhere

-----------------------------------------------------------------------------
(***************************************************************************)
(* What a step of task t on node n owes.                                   *)
(***************************************************************************)

\* Nothing but node n and task t changes.
Local(t, n) ==
    /\ \A m \in Nodes : m # n =>
         /\ taken'[m] = taken[m] /\ state'[m] = state[m]
         /\ m \in init' <=> m \in init
         /\ \A l \in Lists : m \in members'[l] <=> m \in members[l]
    /\ \A u \in Tasks : u # t => pc'[u] = pc[u] /\ at'[u] = at[u]
    /\ worker' = worker

\* Task t may work on node n: it does so already, or nobody does.
MayWork(t, n) ==
    \/ Busy(t) /\ at[t].node = n
    \/ ~ Busy(t) /\ \A u \in Tasks : Busy(u) => at[u].node # n

\* A word without the bit, or null, says that nobody works on the node.
LEMMA UntakenIsFree ==
    ASSUME Inv, NEW n \in Nodes, ~ taken[n].bit, NEW t \in Tasks, Busy(t)
    PROVE  at[t].node # n
<1>1. pc[t] \in PCs /\ TaskInv(t)
  BY DEF Inv, TypeOK
<1>2. taken[at[t].node] \in { Taken(at[t].list), Detaching }
  BY <1>1 DEF PCs, Busy, TaskInv
<1> QED BY <1>2 DEF Taken, Detaching, Word

\* A local step preserves the invariant of all other tasks and nodes.
LEMMA LocalStep ==
    ASSUME Inv, NEW t \in Tasks, NEW n \in Nodes, MayWork(t, n), Local(t, n),
           PlaceInv(t)', at'[t].node \in { n, None }, TaskInv(t)', NodeInv(n)', TypeOK', KeysUnique',
           Half(n)' => Half(n) /\ UNCHANGED members
    PROVE  Inv'
<1>1. ASSUME NEW u \in Tasks, u # t, Busy(u) PROVE at[u].node \in Nodes /\ at[u].node # n
  BY <1>1 DEF MayWork, Inv, PlaceInv, Exclusive, Busy
<1>2. ASSUME NEW u \in Tasks, u # t PROVE (PlaceInv(u) /\ TaskInv(u))'
  <2>1. PlaceInv(u) /\ TaskInv(u) /\ pc'[u] = pc[u] /\ at'[u] = at[u]
    BY <1>2 DEF Inv, Local
  <2>2. CASE ~ Busy(u)
    BY <2>1, <2>2 DEF Busy, PlaceInv, TaskInv
  <2>3. CASE Busy(u)
    <3>1. LET m == at[u].node IN
            /\ taken'[m] = taken[m] /\ state'[m] = state[m] /\ (m \in init' <=> m \in init)
            /\ \A l \in Lists : m \in members'[l] <=> m \in members[l]
      BY <1>1, <1>2, <2>3 DEF Local
    <3> QED BY <2>1, <2>3, <3>1 DEF Busy, PlaceInv, TaskInv
  <2> QED BY <2>2, <2>3
<1>3. ASSUME NEW m \in Nodes, m # n PROVE NodeInv(m)'
  <2>1. /\ taken'[m] = taken[m] /\ state'[m] = state[m]
        /\ m \in init' <=> m \in init
        /\ \A l \in Lists : m \in members'[l] <=> m \in members[l]
    BY <1>3 DEF Local
  <2>2. ASSUME NEW u \in Tasks, at[u].node = m, Busy(u)
        PROVE  pc'[u] = pc[u] /\ at'[u] = at[u]
    BY <1>3, <2>2 DEF Local, MayWork, Busy
  <2>3. ASSUME NEW u \in Tasks, NEW place \in PCs \ {"idle"}, Is(u, place, m)
        PROVE  Is(u, place, m)' /\ at'[u].list = at[u].list
    BY <2>2, <2>3 DEF Is, Busy
  <2>4. NodeInv(m)
    BY DEF Inv
  <2>5. (state[m] \in Valid /\ m \notin init => \E u \in Tasks : Is(u, "reset", m))'
    BY <2>1, <2>3, <2>4 DEF NodeInv, PayloadInv, WordInv, PCs
  <2>6. (m \in init /\ state[m] = "NonResident" => \E u \in Tasks : Is(u, "stored", m))'
    BY <2>1, <2>3, <2>4 DEF NodeInv, PayloadInv, WordInv, PCs
  <2>7. ASSUME NEW l \in Lists, m \in members'[l]
        PROVE  (\/ taken[m].list = l
                \/ taken[m] = Detaching /\ \E u \in Tasks : Is(u, "remove", m) /\ at[u].list = l)'
    BY <2>1, <2>3, <2>4, <2>7 DEF NodeInv, PayloadInv, WordInv, PCs
  <2> QED BY <2>1, <2>4, <2>5, <2>6, <2>7 DEF NodeInv, PayloadInv, WordInv
<1>4. Exclusive'
  <2>1. ASSUME NEW u \in Tasks, u # t, pc'[u] # "idle", pc'[t] # "idle" PROVE at'[u].node # at'[t].node
    <3>1. Busy(u) /\ at'[u].node # n
      BY <1>1, <2>1 DEF Local, Busy
    <3>2. at'[t].node = n
      BY <2>1, LifecycleAssumption DEF PlaceInv, Busy
    <3> QED BY <3>1, <3>2
  <2> QED BY <2>1 DEF Exclusive, Inv, Local
<1>5. FillInv'
  <2>1. ASSUME NEW l \in Lists, NEW m \in members'[l], Half(m)'
        PROVE  Half(m) /\ m \in members[l]
    <3>1. m \in Nodes
      BY DEF TypeOK
    <3> QED BY <2>1, <3>1 DEF Local, Half
  <2> QED BY <2>1 DEF FillInv, Inv, Local
<1> QED BY <1>2, <1>3, <1>4, <1>5 DEF Inv

-----------------------------------------------------------------------------
(***************************************************************************)
(* The steps of attach.                                                    *)
(***************************************************************************)

\* Of a task that works on a node.
LEMMA AtWork ==
    ASSUME Inv, NEW t \in Tasks, Busy(t)
    PROVE  /\ at[t].node \in Nodes /\ at[t].list \in Lists
           /\ MayWork(t, at[t].node) /\ TaskInv(t) /\ NodeInv(at[t].node)
  BY DEF Inv, PlaceInv, MayWork

\* A node that a task may work on, and that it has not half done, has a payload if and
\* only if its state says so, or is being hydrated.
LEMMA WholePayload ==
    ASSUME Inv, NEW t \in Tasks, NEW n \in Nodes, MayWork(t, n), pc[t] \notin { "stored", "reset" }
    PROVE  /\ state[n] \in Valid => n \in init
           /\ n \in init => state[n] # "NonResident"
           /\ n \in init /\ state[n] = "Initial" => \E l \in Lists : n \in members[l]
<1>1. ASSUME NEW u \in Tasks PROVE ~ Is(u, "stored", n) /\ ~ Is(u, "reset", n)
  BY DEF Inv, Exclusive, MayWork, Busy, Is
<1> QED BY <1>1 DEF Inv, NodeInv, PayloadInv


\* attach takes the taken flag of its node.
LEMMA AttachTakeInv ==
    ASSUME Inv, NEW t \in Tasks, NEW n \in Nodes, NEW l \in Lists, AttachTake(t, n, l)
    PROVE  Inv'
<1>1. /\ pc[t] = "idle"
      /\ taken[n] = Null \/ taken[n] = Free(l)
      /\ taken' = [taken EXCEPT ![n] = Taken(l)]
      /\ pc' = [pc EXCEPT ![t] = IF taken[n] = Null THEN "link" ELSE "again"]
      /\ at' = [at EXCEPT ![t] = [node |-> n, list |-> l]]
      /\ wanted' \in { wanted, wanted \cup {l} }
      /\ UNCHANGED << members, state, init, poll, worker >>
  BY DEF AttachTake, Goto, WorkOn
<1>2. MayWork(t, n)
  <2>1. ~ taken[n].bit
    BY <1>1 DEF Null, Free, Word
  <2> QED BY <1>1, <2>1, UntakenIsFree DEF MayWork, Busy
<1>3. TypeOK'
  BY <1>1 DEF Inv, TypeOK, PCs, Taken, Word
<1>4. Local(t, n)
  BY <1>1 DEF Local, Inv, TypeOK
<1>5. PlaceInv(t)' /\ at'[t].node = n
  BY <1>1 DEF Inv, TypeOK, PlaceInv, Busy
<1>6. TaskInv(t)'
  BY <1>1, LifecycleAssumption DEF Inv, TypeOK, NodeInv, PayloadInv, WordInv, TaskInv, Valid, Null, Free, Taken, Word
<1>7. NodeInv(n)'
  <2>1. WordInv(n)'
    BY <1>1, LifecycleAssumption
    DEF Inv, TypeOK, NodeInv, WordInv, Valid, Null, Free, Taken, Detaching, Word
  <2>2. PayloadInv(n)'
    BY <1>1, <1>2, WholePayload DEF PayloadInv
  <2> QED BY <2>1, <2>2 DEF NodeInv
<1>8. KeysUnique'
  BY <1>1 DEF Inv, KeysUnique
<1>9. Half(n)' => Half(n) /\ UNCHANGED members
  BY <1>1 DEF Half
<1> QED BY <1>2, <1>3, <1>4, <1>5, <1>6, <1>7, <1>8, <1>9, LocalStep

\* attach gives up because the list has its key.
LEMMA AttachRefusedInv ==
    ASSUME Inv, NEW t \in Tasks, AttachRefused(t)
    PROVE  Inv'
<1>0. PICK n \in Nodes : n = at[t].node
  BY AtWork DEF AttachRefused, Busy
<1>1. /\ pc[t] = "link"
      /\ taken' = [taken EXCEPT ![n] = Null]
      /\ pc' = [pc EXCEPT ![t] = "idle"] /\ at' = [at EXCEPT ![t] = Nowhere]
      /\ UNCHANGED << members, state, init, poll, wanted, worker >>
  BY <1>0 DEF AttachRefused, Return, Goto
<1>2. /\ MayWork(t, n)
      /\ state[n] = "Initial" /\ NodeInv(n) /\ \A l \in Lists : n \notin members[l]
  BY <1>0, <1>1, AtWork DEF Busy, TaskInv
<1>3. TypeOK'
  BY <1>1 DEF Inv, TypeOK, PCs, Null, Word, Nowhere
<1>4. Local(t, n)
  BY <1>0, <1>1 DEF Local, Inv, TypeOK
<1>5. PlaceInv(t)' /\ TaskInv(t)' /\ at'[t].node \in { n, None }
  BY <1>1 DEF Inv, TypeOK, PlaceInv, TaskInv, Busy, Nowhere
<1>6. NodeInv(n)'
  <2>1. taken'[n] = Null /\ \A l \in Lists : taken'[n] # Free(l)
    BY <1>1, <1>2, LifecycleAssumption DEF Inv, TypeOK, Null, Free, Word
  <2>2. WordInv(n)'
    BY <1>1, <1>2, <2>1 DEF NodeInv, WordInv
  <2>3. PayloadInv(n)'
    BY <1>1, <1>2, WholePayload DEF PayloadInv
  <2> QED BY <2>2, <2>3 DEF NodeInv
<1>7. KeysUnique'
  BY <1>1 DEF Inv, KeysUnique
<1>8. Half(n)' => Half(n) /\ UNCHANGED members
  BY <1>1 DEF Half
<1> QED BY <1>2, <1>3, <1>4, <1>5, <1>6, <1>7, <1>8, LocalStep

\* attach links its node into the list.
LEMMA AttachLinkInv ==
    ASSUME Inv, NEW t \in Tasks, AttachLink(t)
    PROVE  Inv'
<1> DEFINE n == at[t].node  l == at[t].list
<1>1. /\ pc[t] = "link" /\ ~ KeyInUse(n, l)
      /\ members' = [members EXCEPT ![l] = @ \cup {n}]
      /\ pc' = [pc EXCEPT ![t] = "first"]
      /\ wanted' = wanted \cup {l}
      /\ UNCHANGED << taken, state, init, at, poll, worker >>
  BY DEF AttachLink, Goto
<1>2. /\ n \in Nodes /\ l \in Lists /\ MayWork(t, n)
      /\ state[n] = "Initial" /\ taken[n] = Taken(l)
      /\ \A m \in Lists : n \notin members[m]
  BY <1>1, AtWork DEF Busy, TaskInv
<1>3. TypeOK'
  BY <1>1, <1>2 DEF Inv, TypeOK, PCs
<1>4. Local(t, n)
  BY <1>1, <1>2 DEF Local, Inv, TypeOK
<1>5. PlaceInv(t)' /\ at'[t].node = n
  BY <1>1, <1>2 DEF Inv, TypeOK, PlaceInv, Busy
<1>6. TaskInv(t)'
  BY <1>1, <1>2 DEF Inv, TypeOK, TaskInv, Valid
<1>7. NodeInv(n)'
  <2>1. WordInv(n)'
    BY <1>1, <1>2, LifecycleAssumption DEF Inv, TypeOK, NodeInv, WordInv, Valid, Null, Free, Taken, Word
  <2>2. PayloadInv(n)'
    BY <1>1, <1>2, WholePayload DEF PayloadInv, Valid
  <2> QED BY <2>1, <2>2 DEF NodeInv
<1>8. KeysUnique'
  BY <1>1, <1>2 DEF Inv, TypeOK, KeysUnique, KeyInUse
<1>9. Half(n)' => Half(n) /\ UNCHANGED members
  BY <1>1, <1>2, WholePayload DEF Half
<1> QED BY <1>2, <1>3, <1>4, <1>5, <1>6, <1>7, <1>8, <1>9, LocalStep

\* attach is polled, and finds its node hydrated or not.
LEMMA AttachPollInv ==
    ASSUME Inv, NEW t \in Tasks, AttachPoll(t)
    PROVE  Inv'
<1> DEFINE n == at[t].node  s == state[n]
<1>1. /\ pc[t] \in { "first", "again" }
      /\ poll' \in [Tasks -> Polls]
      /\ \/ pc' = pc
         \/ s = "NonResident" /\ pc' = [pc EXCEPT ![t] = "default"]
         \/ s \in Valid /\ pc' = [pc EXCEPT ![t] = "handle"]
      /\ UNCHANGED << taken, members, state, init, at, wanted, worker >>
  BY DEF AttachPoll, Subscribe, Look, Polled, Polls, Goto, Inv, TypeOK
<1>2. /\ n \in Nodes /\ MayWork(t, n) /\ TaskInv(t) /\ NodeInv(n)
      /\ taken[n] = Taken(at[t].list) /\ at[t].list \in Lists
  BY <1>1, AtWork DEF Busy, TaskInv
<1>3. TypeOK'
  BY <1>1 DEF Inv, TypeOK, PCs
<1>4. Local(t, n)
  BY <1>1 DEF Local, Inv, TypeOK
<1>5. PlaceInv(t)' /\ at'[t].node = n
  BY <1>1 DEF Inv, TypeOK, PlaceInv, Busy
<1>6. TaskInv(t)'
  BY <1>1, <1>2 DEF Inv, TypeOK, TaskInv, Valid
<1>7. NodeInv(n)'
  <2>1. WordInv(n)'
    BY <1>1, <1>2, LifecycleAssumption DEF NodeInv, WordInv, Taken, Detaching, Word
  <2>2. PayloadInv(n)'
    BY <1>1, <1>2, WholePayload DEF PayloadInv
  <2> QED BY <2>1, <2>2 DEF NodeInv
<1>8. KeysUnique'
  BY <1>1 DEF Inv, KeysUnique
<1>9. Half(n)' => Half(n) /\ UNCHANGED members
  BY <1>1 DEF Half
<1> QED BY <1>2, <1>3, <1>4, <1>5, <1>6, <1>7, <1>8, <1>9, LocalStep

\* attach gives its node the default and returns the handle.
LEMMA TakeDefaultInv ==
    ASSUME Inv, NEW t \in Tasks, TakeDefault(t)
    PROVE  Inv'
<1> DEFINE n == at[t].node
<1>1. /\ \/ /\ pc[t] = "default" /\ pc' = [pc EXCEPT ![t] = "stored"]
            /\ init' = init \cup {n} /\ state' = state
         \/ /\ pc[t] = "stored" /\ pc' = [pc EXCEPT ![t] = "handle"]
            /\ state' = [state EXCEPT ![n] = "NeedsWrite"] /\ init' = init
      /\ UNCHANGED << taken, members, at, poll, wanted, worker >>
  BY DEF TakeDefault, Goto
<1>2. /\ n \in Nodes /\ at[t].list \in Lists /\ MayWork(t, n) /\ NodeInv(n)
      /\ taken[n] = Taken(at[t].list) /\ n \in members[at[t].list]
      /\ state[n] = "NonResident" /\ (pc[t] = "stored" => n \in init)
  BY <1>1, AtWork DEF Busy, TaskInv
<1>3. TypeOK'
  <2>1. pc' \in [Tasks -> PCs]
    BY <1>1 DEF Inv, TypeOK, PCs
  <2>2. state' \in [Nodes -> States] /\ init' \in SUBSET Nodes
    BY <1>1, <1>2 DEF Inv, TypeOK, States
  <2> QED BY <1>1, <2>1, <2>2 DEF Inv, TypeOK
<1>4. Local(t, n)
  BY <1>1, <1>2 DEF Local, Inv, TypeOK
<1>5. PlaceInv(t)' /\ at'[t].node = n
  BY <1>1, <1>2 DEF Inv, TypeOK, PlaceInv, Busy
<1>6. TaskInv(t)'
  BY <1>1, <1>2 DEF Inv, TypeOK, TaskInv, Valid
<1>7. NodeInv(n)'
  <2>1. n \in init' /\ state'[n] \in { "NonResident", "NeedsWrite" }
    BY <1>1, <1>2 DEF Inv, TypeOK
  <2>2. state'[n] = "NonResident" => Is(t, "stored", n)'
    BY <1>1, <1>2 DEF Inv, TypeOK, Is
  <2>3. \A l \in Lists : taken[n] # Free(l) /\ taken[n] # Null /\ taken[n] # Detaching
    BY <1>2, LifecycleAssumption DEF Null, Free, Taken, Detaching, Word
  <2>4. WordInv(n)'
    BY <1>1, <1>2, <2>1, <2>2, <2>3 DEF NodeInv, WordInv, Valid
  <2>5. PayloadInv(n)'
    BY <1>1, <1>2, <2>1, <2>2 DEF PayloadInv, Valid
  <2> QED BY <2>4, <2>5 DEF NodeInv
<1>8. KeysUnique'
  BY <1>1 DEF Inv, KeysUnique
<1>9. Half(n)' => Half(n) /\ UNCHANGED members
  BY <1>1, <1>2 DEF Inv, TypeOK, Half
<1> QED BY <1>2, <1>3, <1>4, <1>5, <1>6, <1>7, <1>8, <1>9, LocalStep

\* The future of attach is dropped.
LEMMA DropAttachInv ==
    ASSUME Inv, NEW t \in Tasks, DropAttach(t)
    PROVE  Inv'
<1>0. PICK n \in Nodes : n = at[t].node
  BY AtWork DEF DropAttach, Busy
<1>1. /\ pc[t] \in { "first", "again", "default" }
      /\ poll' \in [Tasks -> Polls]
      /\ pc' = [pc EXCEPT ![t] = "idle"] /\ at' = [at EXCEPT ![t] = Nowhere]
      /\ UNCHANGED << taken, members, state, init, wanted, worker >>
  BY <1>0 DEF DropAttach, Return, Goto, Polled, Polls, Inv, TypeOK
<1>2. MayWork(t, n) /\ NodeInv(n) /\ taken[n] = Taken(at[t].list) /\ at[t].list \in Lists
  BY <1>0, <1>1, AtWork DEF Busy, TaskInv
<1>3. TypeOK'
  BY <1>1 DEF Inv, TypeOK, PCs, Nowhere
<1>4. Local(t, n)
  BY <1>0, <1>1 DEF Local, Inv, TypeOK
<1>5. PlaceInv(t)' /\ TaskInv(t)' /\ at'[t].node \in { n, None }
  BY <1>1 DEF Inv, TypeOK, PlaceInv, TaskInv, Busy, Nowhere
<1>6. NodeInv(n)'
  <2>1. taken[n] # Detaching
    BY <1>2, LifecycleAssumption DEF Taken, Detaching, Word
  <2>2. WordInv(n)'
    BY <1>1, <1>2, <2>1 DEF NodeInv, WordInv
  <2>3. PayloadInv(n)'
    BY <1>1, <1>2, WholePayload DEF PayloadInv
  <2> QED BY <2>2, <2>3 DEF NodeInv
<1>7. KeysUnique'
  BY <1>1 DEF Inv, KeysUnique
<1>8. Half(n)' => Half(n) /\ UNCHANGED members
  BY <1>1 DEF Half
<1> QED BY <1>2, <1>3, <1>4, <1>5, <1>6, <1>7, <1>8, LocalStep

-----------------------------------------------------------------------------
(***************************************************************************)
(* The steps of a handle, and of detach.                                   *)
(***************************************************************************)
LEMMA HandleWriteInv ==
    ASSUME Inv, NEW t \in Tasks, HandleWrite(t)
    PROVE  Inv'
<1> DEFINE n == at[t].node
<1>1. /\ pc[t] = "handle"
      /\ state' = [state EXCEPT ![n] = "NeedsWrite"]
      /\ UNCHANGED << taken, members, init, pc, at, poll, wanted, worker >>
  BY DEF HandleWrite
<1>2. /\ n \in Nodes /\ MayWork(t, n) /\ TaskInv(t) /\ NodeInv(n)
      /\ taken[n] = Taken(at[t].list) /\ at[t].list \in Lists
  BY <1>1, AtWork DEF Busy, TaskInv
<1>3. TypeOK'
  BY <1>1 DEF Inv, TypeOK, States
<1>4. Local(t, n)
  BY <1>1, <1>2 DEF Local, Inv, TypeOK
<1>5. PlaceInv(t)' /\ at'[t].node = n
  BY <1>1 DEF Inv, PlaceInv, Busy
<1>6. TaskInv(t)'
  BY <1>1, <1>2 DEF Inv, TypeOK, TaskInv, Valid
<1>7. NodeInv(n)'
  <2>1. state[n] \in Valid /\ state'[n] \in Valid /\ taken[n] # Null
    BY <1>1, <1>2, LifecycleAssumption DEF Inv, TypeOK, TaskInv, Valid, Taken, Null, Word
  <2>2. WordInv(n)'
    BY <1>1, <1>2, <2>1, LifecycleAssumption DEF NodeInv, WordInv, Taken, Detaching, Word
  <2>3. PayloadInv(n)'
    BY <1>1, <1>2, <2>1, WholePayload DEF PayloadInv, Valid
  <2> QED BY <2>2, <2>3 DEF NodeInv
<1>8. KeysUnique'
  BY <1>1 DEF Inv, KeysUnique
<1>9. Half(n)' => Half(n) /\ UNCHANGED members
  BY <1>1, <1>2 DEF Inv, TypeOK, Half
<1> QED BY <1>2, <1>3, <1>4, <1>5, <1>6, <1>7, <1>8, <1>9, LocalStep

\* A handle is dropped.
LEMMA HandleDropInv ==
    ASSUME Inv, NEW t \in Tasks, HandleDrop(t)
    PROVE  Inv'
<1>0. PICK n \in Nodes, l \in Lists : n = at[t].node /\ l = at[t].list
  BY AtWork DEF HandleDrop, Busy
<1>1. /\ pc[t] = "handle"
      /\ taken' = [taken EXCEPT ![n] = Word(taken[n].list, FALSE)]
      /\ pc' = [pc EXCEPT ![t] = "idle"] /\ at' = [at EXCEPT ![t] = Nowhere]
      /\ UNCHANGED << members, state, init, poll, wanted, worker >>
  BY <1>0 DEF HandleDrop, Return, Goto
<1>2. /\ MayWork(t, n) /\ NodeInv(n)
      /\ taken[n] = Taken(l) /\ n \in members[l] /\ state[n] \in Valid
  BY <1>0, <1>1, AtWork DEF Busy, TaskInv
<1>3. TypeOK'
  BY <1>1 DEF Inv, TypeOK, PCs, Word, Nowhere
<1>4. Local(t, n)
  BY <1>0, <1>1 DEF Local, Inv, TypeOK
<1>5. PlaceInv(t)' /\ TaskInv(t)' /\ at'[t].node \in { n, None }
  BY <1>1 DEF Inv, TypeOK, PlaceInv, TaskInv, Busy, Nowhere
<1>6. NodeInv(n)'
  <2>1. taken'[n] = Free(l)
    BY <1>1, <1>2 DEF Inv, TypeOK, Taken, Free, Word
  <2>2. \A m \in Lists : n \in members[m] => m = l
    BY <1>2, LifecycleAssumption DEF NodeInv, PayloadInv, WordInv, Taken, Detaching, Word
  <2>3. WordInv(n)'
    BY <1>1, <1>2, <2>1, <2>2, LifecycleAssumption DEF NodeInv, WordInv, Free, Null, Word
  <2>4. PayloadInv(n)'
    BY <1>1, <1>2, WholePayload DEF PayloadInv
  <2> QED BY <2>3, <2>4 DEF NodeInv
<1>7. KeysUnique'
  BY <1>1 DEF Inv, KeysUnique
<1>8. Half(n)' => Half(n) /\ UNCHANGED members
  BY <1>1 DEF Half
<1> QED BY <1>2, <1>3, <1>4, <1>5, <1>6, <1>7, <1>8, LocalStep

\* detach takes the flag of its node.
LEMMA DetachTakeInv ==
    ASSUME Inv, NEW t \in Tasks, NEW n \in Nodes, NEW l \in Lists, DetachTake(t, n, l)
    PROVE  Inv'
<1>1. /\ pc[t] = "idle" /\ taken[n] = Free(l)
      /\ taken' = [taken EXCEPT ![n] = Detaching]
      /\ pc' = [pc EXCEPT ![t] = "remove"]
      /\ at' = [at EXCEPT ![t] = [node |-> n, list |-> l]]
      /\ UNCHANGED << members, state, init, poll, wanted, worker >>
  BY DEF DetachTake, Goto, WorkOn
<1>2. MayWork(t, n)
  <2>1. ~ taken[n].bit
    BY <1>1 DEF Free, Word
  <2> QED BY <1>1, <2>1, UntakenIsFree DEF MayWork, Busy
<1>3. NodeInv(n) /\ n \in members[l] /\ state[n] \in Valid
  BY <1>1 DEF Inv, NodeInv, PayloadInv, WordInv
<1>4. TypeOK'
  BY <1>1 DEF Inv, TypeOK, PCs, Detaching, Word
<1>5. Local(t, n)
  BY <1>1 DEF Local, Inv, TypeOK
<1>6. PlaceInv(t)' /\ at'[t].node = n /\ at'[t].list = l /\ pc'[t] = "remove"
  BY <1>1 DEF Inv, TypeOK, PlaceInv, Busy
<1>7. TaskInv(t)'
  BY <1>1, <1>3, <1>6 DEF Inv, TypeOK, TaskInv
<1>8. NodeInv(n)'
  <2>1. taken'[n] = Detaching /\ Detaching # Null /\ \A m \in Lists : Detaching # Free(m)
    BY <1>1 DEF Inv, TypeOK, Detaching, Null, Free, Word
  <2>2. \A m \in Lists : n \in members[m] => m = l
    BY <1>1, <1>3, LifecycleAssumption DEF NodeInv, PayloadInv, WordInv, Free, Detaching, Word
  <2>3. WordInv(n)'
    BY <1>1, <1>3, <1>6, <2>1, <2>2 DEF WordInv, Is
  <2>4. PayloadInv(n)'
    BY <1>1, <1>2, <1>3, WholePayload DEF PayloadInv
  <2> QED BY <2>3, <2>4 DEF NodeInv
<1>9. KeysUnique'
  BY <1>1 DEF Inv, KeysUnique
<1>10. Half(n)' => Half(n) /\ UNCHANGED members
  BY <1>1 DEF Half
<1> QED BY <1>2, <1>4, <1>5, <1>6, <1>7, <1>8, <1>9, <1>10, LocalStep

\* While a task removes a node no list but its own has that node.
LEMMA RemovedFromOne ==
    ASSUME Inv, NEW t \in Tasks, pc[t] = "remove", NEW m \in Lists, at[t].node \in members[m]
    PROVE  m = at[t].list
<1>1. TaskInv(t) /\ NodeInv(at[t].node)
  BY AtWork DEF Busy
<1>2. taken[at[t].node].list = None
  BY <1>1 DEF TaskInv, Detaching, Word
<1>3. PICK u \in Tasks : pc[u] = "remove" /\ at[u].node = at[t].node /\ at[u].list = m
  BY <1>1, <1>2, LifecycleAssumption DEF NodeInv, WordInv, Is
<1> QED BY <1>3 DEF Inv, Exclusive

\* detach removes its node from the list.
LEMMA DetachRemoveInv ==
    ASSUME Inv, NEW t \in Tasks, DetachRemove(t)
    PROVE  Inv'
<1> DEFINE n == at[t].node  l == at[t].list
<1>1. /\ pc[t] = "remove"
      /\ members' = [members EXCEPT ![l] = @ \ {n}]
      /\ pc' = [pc EXCEPT ![t] = "drop"]
      /\ UNCHANGED << taken, state, init, at, poll, wanted, worker >>
  BY DEF DetachRemove, Goto
<1>2. /\ n \in Nodes /\ l \in Lists /\ MayWork(t, n) /\ TaskInv(t) /\ NodeInv(n)
      /\ taken[n] = Detaching /\ state[n] \in Valid
  BY <1>1, AtWork DEF Busy, TaskInv
<1>3. \A m \in Lists : n \notin members'[m]
  BY <1>1, RemovedFromOne DEF Inv, TypeOK
<1>4. TypeOK'
  BY <1>1, <1>2 DEF Inv, TypeOK, PCs, States
<1>5. Local(t, n)
  BY <1>1, <1>2 DEF Local, Inv, TypeOK
<1>6. PlaceInv(t)' /\ at'[t].node = n
  BY <1>1, <1>2 DEF Inv, TypeOK, PlaceInv, Busy
<1>7. TaskInv(t)'
  BY <1>1, <1>2, <1>3 DEF Inv, TypeOK, TaskInv
<1>8. NodeInv(n)'
  <2>1. n \in init
    BY <1>1, <1>2, WholePayload
  <2>2. (\A m \in Lists : taken'[n] # Free(m)) /\ taken'[n] # Null
    BY <1>1, <1>2 DEF Detaching, Null, Free, Word
  <2>3. WordInv(n)'
    BY <1>1, <1>2, <1>3, <2>1, <2>2 DEF NodeInv, WordInv, Valid
  <2>4. PayloadInv(n)'
    BY <1>1, <1>2, <2>1 DEF PayloadInv, Valid
  <2> QED BY <2>3, <2>4 DEF NodeInv
<1>9. KeysUnique'
  BY <1>1 DEF Inv, TypeOK, KeysUnique
<1>10. Half(n)' => Half(n) /\ UNCHANGED members
  BY <1>1, <1>2 DEF Valid, Half
<1> QED BY <1>2, <1>4, <1>5, <1>6, <1>7, <1>8, <1>9, <1>10, LocalStep

\* detach drops the payload, then resets the state.
LEMMA DetachResetInv ==
    ASSUME Inv, NEW t \in Tasks, DetachReset(t)
    PROVE  Inv'
<1> DEFINE n == at[t].node
<1>1. /\ \/ /\ pc[t] = "drop" /\ pc' = [pc EXCEPT ![t] = "reset"]
            /\ init' = (IF state[n] \in Valid THEN init \ {n} ELSE init) /\ state' = state
         \/ /\ pc[t] = "reset" /\ pc' = [pc EXCEPT ![t] = "release"]
            /\ state' = [state EXCEPT ![n] = "Initial"] /\ init' = init
      /\ UNCHANGED << taken, members, at, poll, wanted, worker >>
  BY DEF DetachReset, Goto
<1>2. /\ n \in Nodes /\ MayWork(t, n) /\ TaskInv(t) /\ NodeInv(n)
      /\ taken[n] = Detaching /\ state[n] \in Valid /\ \A m \in Lists : n \notin members[m]
  BY <1>1, AtWork DEF Busy, TaskInv
<1>3. n \notin init'
  BY <1>1, <1>2 DEF TaskInv
<1>4. TypeOK'
  <2>1. pc' \in [Tasks -> PCs]
    BY <1>1 DEF Inv, TypeOK, PCs
  <2>2. state' \in [Nodes -> States] /\ init' \in SUBSET Nodes
    BY <1>1, <1>2 DEF Inv, TypeOK, States
  <2> QED BY <1>1, <2>1, <2>2 DEF Inv, TypeOK
<1>5. Local(t, n)
  BY <1>1, <1>2 DEF Local, Inv, TypeOK
<1>6. PlaceInv(t)' /\ at'[t].node = n
  BY <1>1, <1>2 DEF Inv, TypeOK, PlaceInv, Busy
<1>7. TaskInv(t)'
  BY <1>1, <1>2, <1>3 DEF Inv, TypeOK, TaskInv
<1>8. NodeInv(n)'
  <2>1. state'[n] \in Valid => Is(t, "reset", n)'
    BY <1>1, <1>2 DEF Inv, TypeOK, Is, Valid
  <2>2. (\A m \in Lists : taken'[n] # Free(m)) /\ taken'[n] # Null
    BY <1>1, <1>2 DEF Detaching, Null, Free, Word
  <2>3. WordInv(n)'
    BY <1>1, <1>2, <2>2 DEF WordInv
  <2>4. PayloadInv(n)'
    BY <1>1, <1>2, <1>3, <2>1 DEF PayloadInv
  <2> QED BY <2>3, <2>4 DEF NodeInv
<1>9. KeysUnique'
  BY <1>1 DEF Inv, KeysUnique
<1>10. Half(n)' => Half(n) /\ UNCHANGED members
  BY <1>1, <1>3 DEF Half
<1>11. n \in Nodes /\ MayWork(t, n)
  BY <1>2
<1> QED BY <1>4, <1>5, <1>6, <1>7, <1>8, <1>9, <1>10, <1>11, LocalStep

\* detach gives the flag back.
LEMMA DetachReleaseInv ==
    ASSUME Inv, NEW t \in Tasks, DetachRelease(t)
    PROVE  Inv'
<1>0. PICK n \in Nodes : n = at[t].node
  BY AtWork DEF DetachRelease, Busy
<1>1. /\ pc[t] = "release"
      /\ taken' = [taken EXCEPT ![n] = Null]
      /\ pc' = [pc EXCEPT ![t] = "idle"] /\ at' = [at EXCEPT ![t] = Nowhere]
      /\ UNCHANGED << members, state, init, poll, wanted, worker >>
  BY <1>0 DEF DetachRelease, Return, Goto
<1>2. /\ MayWork(t, n)
      /\ state[n] = "Initial" /\ NodeInv(n) /\ \A l \in Lists : n \notin members[l]
  BY <1>0, <1>1, AtWork DEF Busy, TaskInv
<1>3. TypeOK'
  BY <1>1 DEF Inv, TypeOK, PCs, Null, Word, Nowhere
<1>4. Local(t, n)
  BY <1>0, <1>1 DEF Local, Inv, TypeOK
<1>5. PlaceInv(t)' /\ TaskInv(t)' /\ at'[t].node \in { n, None }
  BY <1>1 DEF Inv, TypeOK, PlaceInv, TaskInv, Busy, Nowhere
<1>6. NodeInv(n)'
  <2>1. taken'[n] = Null /\ \A l \in Lists : taken'[n] # Free(l)
    BY <1>1, <1>2, LifecycleAssumption DEF Inv, TypeOK, Null, Free, Word
  <2>2. WordInv(n)'
    BY <1>1, <1>2, <2>1 DEF NodeInv, WordInv
  <2>3. PayloadInv(n)'
    BY <1>1, <1>2, WholePayload DEF PayloadInv, Valid
  <2> QED BY <2>2, <2>3 DEF NodeInv
<1>7. KeysUnique'
  BY <1>1 DEF Inv, KeysUnique
<1>8. Half(n)' => Half(n) /\ UNCHANGED members
  BY <1>1 DEF Half
<1> QED BY <1>2, <1>3, <1>4, <1>5, <1>6, <1>7, <1>8, LocalStep

-----------------------------------------------------------------------------
(***************************************************************************)
(* The steps of a worker.  They change the payload and the state of nodes  *)
(* in its list, in the ways Hydrates allows, and no word and no list.      *)
(***************************************************************************)
Hydrates(n) ==
    /\ n \in init => n \in init'
    /\ n \in init' /\ n \notin init =>
          state[n] = "Initial" /\ state'[n] = "Initial" /\ \E l \in Lists : n \in members[l]
    /\ state[n] \in Valid => state'[n] \in Valid
    /\ state'[n] \in Valid /\ state[n] \notin Valid => n \in init
    /\ state[n] = "NonResident" => state'[n] = "NonResident"
    /\ state[n] = "Initial" /\ n \in init => state'[n] # "NonResident"
    /\ state[n] # "NeedsWrite" => state'[n] # "NeedsWrite"
    /\ (\A l \in Lists : n \notin members[l]) => state'[n] = state[n]

\* A change of the payloads and the states of the nodes in the list.
LEMMA HydratesInv ==
    ASSUME Inv, TypeOK', FillInv', UNCHANGED << taken, members, pc, at >>,
           \A n \in Nodes : Hydrates(n)
    PROVE  Inv'
<1>1. ASSUME NEW t \in Tasks PROVE (PlaceInv(t) /\ TaskInv(t))'
  <2>1. PlaceInv(t) /\ TaskInv(t)
    BY DEF Inv
  <2>2. CASE Busy(t)
    <3>1. at[t].node \in Nodes /\ Hydrates(at[t].node)
      BY <2>2, AtWork
    <3> QED BY <2>1, <2>2, <3>1 DEF PlaceInv, TaskInv, Busy, Hydrates
  <2>3. CASE ~ Busy(t)
    BY <2>1, <2>3 DEF PlaceInv, TaskInv, Busy
  <2> QED BY <2>2, <2>3
<1>2. ASSUME NEW n \in Nodes PROVE NodeInv(n)'
  <2>1. NodeInv(n) /\ Hydrates(n)
    BY DEF Inv
  <2>2. \A t \in Tasks, place \in PCs : Is(t, place, n)' <=> Is(t, place, n)
    BY DEF Is
  <2>3. (state[n] \in Valid /\ n \notin init => \E t \in Tasks : Is(t, "reset", n))'
    BY <2>1, <2>2 DEF NodeInv, PayloadInv, WordInv, Hydrates, PCs
  <2>4. (n \in init /\ state[n] = "NonResident" => \E t \in Tasks : Is(t, "stored", n))'
    <3> SUFFICES ASSUME n \in init', state'[n] = "NonResident"
                 PROVE  \E t \in Tasks : Is(t, "stored", n)'
      OBVIOUS
    <3>1. n \in init /\ state[n] = "NonResident"
      BY <2>1 DEF Hydrates, Inv, TypeOK, States, Valid
    <3> QED BY <2>1, <2>2, <3>1 DEF NodeInv, PayloadInv, WordInv, PCs
  <2>5. (n \in init /\ state[n] = "Initial" => \E l \in Lists : n \in members[l])'
    <3> SUFFICES ASSUME n \in init', state'[n] = "Initial"
                 PROVE  \E l \in Lists : n \in members[l]
      OBVIOUS
    <3>1. state[n] = "Initial"
      BY <2>1 DEF Hydrates, Inv, TypeOK, States, Valid
    <3> QED BY <2>1, <3>1 DEF NodeInv, PayloadInv, WordInv, Hydrates
  <2>6. (taken[n] = Null => state[n] = "Initial" /\ \A l \in Lists : n \notin members[l])'
    BY <2>1 DEF NodeInv, PayloadInv, WordInv, Hydrates
  <2>7. (\A l \in Lists : taken[n] = Free(l) => n \in members[l] /\ state[n] \in Valid)'
    BY <2>1 DEF NodeInv, PayloadInv, WordInv, Hydrates
  <2>8. ASSUME NEW l \in Lists, n \in members'[l]
        PROVE  (\/ taken[n].list = l
                \/ taken[n] = Detaching /\ \E t \in Tasks : Is(t, "remove", n) /\ at[t].list = l)'
    BY <2>1, <2>2, <2>8 DEF NodeInv, PayloadInv, WordInv, PCs
  <2> QED BY <2>3, <2>4, <2>5, <2>6, <2>7, <2>8 DEF NodeInv, PayloadInv, WordInv
<1>3. Exclusive' /\ KeysUnique'
  BY DEF Inv, Exclusive, KeysUnique
<1> QED BY <1>1, <1>2, <1>3 DEF Inv

\* A node is in one list.
LEMMA InOneList ==
    ASSUME Inv, NEW l \in Lists, NEW m \in Lists, NEW n \in members[l], n \in members[m]
    PROVE  l = m
<1>1. n \in Nodes /\ NodeInv(n)
  BY DEF Inv, TypeOK
<1>2. CASE taken[n] = Detaching
  <2>1. taken[n].list = None
    BY <1>2 DEF Detaching, Word
  <2>2. PICK t \in Tasks : pc[t] = "remove" /\ at[t].node = n
    BY <1>1, <2>1, LifecycleAssumption DEF NodeInv, PayloadInv, WordInv, Is
  <2> QED BY <2>2, RemovedFromOne
<1>3. CASE taken[n] # Detaching
  BY <1>1, <1>3 DEF NodeInv, PayloadInv, WordInv
<1> QED BY <1>2, <1>3

\* extract_all stores the payload of a node, then its state, or finds it does not deserialize.
LEMMA ReadNodeInv ==
    ASSUME Inv, NEW l \in Lists, NEW n \in Nodes, ReadNode(l, n)
    PROVE  Inv'
<1>1. /\ n \in members[l] /\ state[n] = "Initial"
      /\ UNCHANGED << taken, members, pc, at, poll, wanted >>
  BY DEF ReadNode
<1>2. CASE worker[l] = "read" /\ init' = init \cup {n} /\ state' = state
           /\ worker' = [worker EXCEPT ![l] = "filled"]
  <2>1. n \notin init /\ \A m \in members[l] : ~ Half(m)
    BY <1>1, <1>2 DEF Inv, FillInv, Half
  <2>2. TypeOK'
    BY <1>1, <1>2 DEF Inv, TypeOK, Phases
  <2>3. ASSUME NEW m \in Nodes PROVE Hydrates(m)
    BY <1>1, <1>2 DEF Hydrates, Valid
  <2>4. FillInv'
    <3> SUFFICES ASSUME NEW k \in Lists, NEW m \in members[k], Half(m)'
                 PROVE  worker'[k] = "filled" /\ \A u \in members[k] : Half(u)' => u = m
      BY <1>1 DEF FillInv
    <3>1. CASE k = l
      BY <1>1, <1>2, <2>1, <3>1 DEF Inv, TypeOK, Half
    <3>2. CASE k # l
      <4>1. n \notin members[k]
        BY <1>1, <3>2, InOneList
      <4> QED BY <1>2, <3>2, <4>1 DEF Inv, TypeOK, FillInv, Half
    <3> QED BY <3>1, <3>2
  <2> QED BY <1>1, <2>2, <2>3, <2>4, HydratesInv
<1>3. CASE worker[l] = "filled" /\ n \in init /\ init' = init
           /\ state' = [state EXCEPT ![n] = "ValidNoWriteNeeded"]
           /\ worker' = [worker EXCEPT ![l] = "read"]
  <2>1. \A m \in members[l] : Half(m) => m = n
    BY <1>1, <1>3 DEF Inv, FillInv, Half
  <2>2. TypeOK'
    BY <1>1, <1>3 DEF Inv, TypeOK, Phases, States
  <2>3. ASSUME NEW m \in Nodes PROVE Hydrates(m)
    BY <1>1, <1>3 DEF Hydrates, Valid, Inv, TypeOK
  <2>4. FillInv'
    <3> SUFFICES ASSUME NEW k \in Lists, NEW m \in members[k], Half(m)'
                 PROVE  worker'[k] = "filled" /\ \A u \in members[k] : Half(u)' => u = m
      BY <1>1 DEF FillInv
    <3>1. /\ m # n /\ Half(m)
          /\ \A u \in members[k] : Half(u)' => Half(u)
      BY <1>3 DEF Half, Inv, TypeOK
    <3>2. k # l
      BY <2>1, <3>1
    <3> QED BY <1>3, <3>1, <3>2 DEF Inv, TypeOK, FillInv
  <2> QED BY <1>1, <2>2, <2>3, <2>4, HydratesInv
<1>4. CASE worker[l] = "read" /\ state' = [state EXCEPT ![n] = "NonResident"]
           /\ UNCHANGED << init, worker >>
  <2>1. n \notin init
    BY <1>1, <1>4 DEF Inv, FillInv, Half
  <2>2. TypeOK'
    BY <1>1, <1>4 DEF Inv, TypeOK, States
  <2>3. ASSUME NEW m \in Nodes PROVE Hydrates(m)
    BY <1>1, <1>4, <2>1 DEF Hydrates, Valid, Inv, TypeOK
  <2>4. \A m \in Nodes : Half(m)' => Half(m)
    BY <1>4, <2>1 DEF Half, Inv, TypeOK
  <2>5. FillInv'
    BY <1>1, <1>4, <2>4 DEF FillInv, Inv, TypeOK
  <2> QED BY <1>1, <2>2, <2>3, <2>5, HydratesInv
<1> QED BY <1>2, <1>3, <1>4 DEF ReadNode, Become

\* The nodes the storage does not have are marked.
LEMMA MarkNodeInv ==
    ASSUME Inv, NEW l \in Lists, NEW n \in Nodes, MarkNode(l, n)
    PROVE  Inv'
<1>1. /\ worker[l] = "mark" /\ n \in members[l] /\ state[n] = "Initial"
      /\ state' = [state EXCEPT ![n] = "NonResident"]
      /\ UNCHANGED << taken, members, init, pc, at, poll, wanted, worker >>
  BY DEF MarkNode
<1>2. n \notin init
  BY <1>1 DEF Inv, FillInv, Half
<1>3. TypeOK'
  BY <1>1 DEF Inv, TypeOK, States
<1>4. ASSUME NEW m \in Nodes PROVE Hydrates(m)
  BY <1>1, <1>2 DEF Hydrates, Valid, Inv, TypeOK
<1>5. \A m \in Nodes : Half(m)' => Half(m)
  BY <1>1, <1>2 DEF Half, Inv, TypeOK
<1>6. FillInv'
  BY <1>1, <1>5 DEF FillInv, Inv, TypeOK
<1> QED BY <1>1, <1>3, <1>4, <1>6, HydratesInv

\* The steps of the task that owns the storage.
LEMMA WorkerInv ==
    ASSUME Inv, NEW l \in Lists, WorkerStep(l)
    PROVE  Inv'
<1>1. CASE ReadBegin(l) \/ ReadDone(l) \/ ReadEnd(l) \/ ReadFails(l) \/ WriteBegin(l)
  <2>1. /\ UNCHANGED << taken, members, state, init, pc, at >>
        /\ worker[l] # "filled"
        /\ \E phase \in Phases : worker' = [worker EXCEPT ![l] = phase]
        /\ wanted' \in SUBSET Lists
    BY <1>1 DEF ReadBegin, ReadDone, ReadEnd, ReadFails, WriteBegin, Become, Unlocked, Phases,
                Inv, TypeOK
  <2>2. poll' \in [Tasks -> Polls]
    <3>1. CASE ReadEnd(l)
      BY <3>1 DEF ReadEnd, Polls, Inv, TypeOK
    <3>2. CASE ReadBegin(l) \/ ReadDone(l) \/ ReadFails(l) \/ WriteBegin(l)
      BY <3>2 DEF ReadBegin, ReadDone, ReadFails, WriteBegin, Inv, TypeOK
    <3> QED BY <1>1, <3>1, <3>2
  <2>3. TypeOK'
    BY <2>1, <2>2 DEF Inv, TypeOK
  <2>4. \A n \in Nodes : Hydrates(n)
    BY <2>1 DEF Hydrates
  <2>5. FillInv'
    BY <2>1 DEF Inv, TypeOK, FillInv, Half
  <2> QED BY <2>1, <2>3, <2>4, <2>5, HydratesInv
<1>2. CASE WriteEnd(l)
  <2>1. /\ UNCHANGED << taken, members, init, pc, at, poll, wanted >>
        /\ worker[l] = "write" /\ worker' = [worker EXCEPT ![l] = "idle"]
        /\ \A n \in Nodes : \/ state'[n] = state[n]
                            \/ /\ n \in members[l] /\ state[n] = "NeedsWrite"
                               /\ state'[n] = "ValidNoWriteNeeded"
        /\ state' \in [Nodes -> States]
    BY <1>2 DEF WriteEnd, Become, Inv, TypeOK, States
  <2>2. TypeOK'
    BY <2>1 DEF Inv, TypeOK, Phases
  <2>3. ASSUME NEW n \in Nodes PROVE Hydrates(n)
    BY <2>1 DEF Hydrates, Valid
  <2>4. FillInv'
    BY <2>1 DEF Inv, TypeOK, FillInv, Half
  <2> QED BY <2>1, <2>2, <2>3, <2>4, HydratesInv
<1> QED BY <1>1, <1>2, ReadNodeInv, MarkNodeInv DEF WorkerStep, CallStep

-----------------------------------------------------------------------------
\* Every step keeps the invariant.
LEMMA NextInv == Inv /\ [Next]_vars => Inv'
<1> SUFFICES ASSUME Inv, [Next]_vars PROVE Inv'
  OBVIOUS
<1>1. CASE UNCHANGED vars
  BY <1>1 DEF vars, Inv, TypeOK, PlaceInv, TaskInv, NodeInv, PayloadInv, WordInv, Is, FillInv, Half, Busy, Exclusive,
              KeysUnique
<1>2. ASSUME NEW t \in Tasks, AttachStep(t) PROVE Inv'
  BY <1>2, AttachTakeInv, AttachRefusedInv, AttachLinkInv, AttachPollInv, TakeDefaultInv,
     DropAttachInv DEF AttachStep
<1>3. ASSUME NEW t \in Tasks, HandleStep(t) PROVE Inv'
  BY <1>3, HandleWriteInv, HandleDropInv DEF HandleStep
<1>4. ASSUME NEW t \in Tasks, DetachStep(t) PROVE Inv'
  BY <1>4, DetachTakeInv, DetachRemoveInv, DetachResetInv, DetachReleaseInv DEF DetachStep
<1> QED BY <1>1, <1>2, <1>3, <1>4, WorkerInv DEF Next

\* The invariant says what OneList says.
LEMMA InvOneList ==
    ASSUME Inv
    PROVE  OneList
<1> SUFFICES ASSUME NEW l \in Lists, NEW n \in members[l]
             PROVE  /\ \A m \in Lists : n \in members[m] => m = l
                    /\ \/ taken[n].list = l
                       \/ /\ taken[n] = Detaching
                          /\ \E t \in Tasks : pc[t] = "remove" /\ at[t].node = n
  BY DEF OneList
<1>1. n \in Nodes /\ NodeInv(n)
  BY DEF Inv, TypeOK
<1>2. \A m \in Lists : n \in members[m] => m = l
  BY InOneList
<1> QED BY <1>1, <1>2 DEF NodeInv, PayloadInv, WordInv, Is

\* The inductive invariant of NodeLifecycle holds in every state.
THEOREM InvAlways == Spec => []Inv
  BY InitInv, NextInv, PTL DEF Spec

\* Every variable of the node life cycle keeps its type.
THEOREM TypeCorrect == Spec => []TypeOK
<1>1. Inv => TypeOK
  BY DEF Inv
<1> QED BY <1>1, InvAlways, PTL

\* No two tasks ever work on one node: the tagged word is a lock, whichever lists
\* and mutexes the tasks go through (storage_node.rs:378-413, 562-591).
THEOREM AlwaysExclusive == Spec => []Exclusive
<1>1. Inv => Exclusive
  BY DEF Inv
<1> QED BY <1>1, InvAlways, PTL

\* A node is in one list at most, the one its word names (storage_node.rs:378-413).
THEOREM AlwaysOneList == Spec => []OneList
<1>1. Inv => OneList
  BY InvOneList
<1> QED BY <1>1, InvAlways, PTL

\* A list never holds two nodes with one key (storage_node.rs:417-430).
THEOREM AlwaysKeysUnique == Spec => []KeysUnique
<1>1. Inv => KeysUnique
  BY DEF Inv
<1> QED BY <1>1, InvAlways, PTL

\* No assertion of attach, load, list(), drop or detach fails, although load and
\* attach look at the state of the node without the mutex.
THEOREM NoAssertionFails == Spec => []AssertionsHold
<1>1. Inv => AssertionsHold
  BY DEF Inv, TaskInv, AssertionsHold
<1> QED BY <1>1, InvAlways, PTL

\* Payload and state are stored in an order in which only who holds the mutex finds one
\* without the other: no load reads a payload that is not there, none is forgotten
\* (storage_list.rs:837-850, storage_node.rs:487-489, 600-619).
THEOREM AlwaysPayloadMatchesState == Spec => []PayloadMatchesState
<1>1. Inv => PayloadMatchesState
  <2> SUFFICES ASSUME Inv, NEW n \in Nodes
               PROVE  /\ state[n] \in Valid /\ n \notin init =>
                            \E t \in Tasks : pc[t] = "reset" /\ at[t].node = n
                      /\ n \in init /\ state[n] \notin Valid =>
                            \/ /\ state[n] = "NonResident"
                               /\ \E t \in Tasks : pc[t] = "stored" /\ at[t].node = n
                            \/ /\ state[n] = "Initial"
                               /\ \E l \in Lists : worker[l] = "filled" /\ n \in members[l]
    BY DEF PayloadMatchesState
  <2>1. NodeInv(n) /\ state[n] \in States
    BY DEF Inv, TypeOK
  <2>2. ASSUME n \in init, state[n] = "Initial"
        PROVE  \E l \in Lists : worker[l] = "filled" /\ n \in members[l]
    <3>1. PICK l \in Lists : n \in members[l]
      BY <2>1, <2>2 DEF NodeInv, PayloadInv, WordInv
    <3> QED BY <2>2, <3>1 DEF Inv, FillInv, Half
  <2> QED BY <2>1, <2>2 DEF NodeInv, PayloadInv, WordInv, Is, States, Valid
<1> QED BY <1>1, InvAlways, PTL

-----------------------------------------------------------------------------
(***************************************************************************)
(* The refinement.  Views says what the mapping of a state is, with no     *)
(* CHOOSE in it.                                                           *)
(***************************************************************************)
Views ==
    /\ \A t \in Tasks : Busy(t) => OwnerOf(at[t].node) = t
    /\ \A n \in Nodes : (\A t \in Tasks : Busy(t) => at[t].node # n) =>
                       OwnerOf(n) = IF taken[n].bit THEN Gone ELSE None
    /\ \A n \in Nodes, l \in Lists : n \in members[l] <=> HomeOf(n) = l
    /\ \A n \in Nodes : (\A l \in Lists : n \notin members[l]) <=> HomeOf(n) = None

\* The home and the owner of a node, in terms of the flags and the list.
LEMMA InvViews == Inv => Views
<1> SUFFICES ASSUME Inv PROVE Views
  OBVIOUS
<1>1. ASSUME NEW t \in Tasks, Busy(t) PROVE OwnerOf(at[t].node) = t
  <2>1. { u \in Tasks : pc[u] # "idle" /\ at[u].node = at[t].node } = {t}
    BY <1>1 DEF Inv, Exclusive, Busy
  <2> QED BY <2>1 DEF OwnerOf
<1>2. ASSUME NEW n \in Nodes, \A t \in Tasks : Busy(t) => at[t].node # n
      PROVE  OwnerOf(n) = IF taken[n].bit THEN Gone ELSE None
  <2>1. { u \in Tasks : pc[u] # "idle" /\ at[u].node = n } = {}
    BY <1>2 DEF Busy
  <2> QED BY <2>1 DEF OwnerOf
<1>3. ASSUME NEW n \in Nodes, NEW l \in Lists, n \in members[l] PROVE HomeOf(n) = l
  <2>1. { m \in Lists : n \in members[m] } = {l}
    BY <1>3, InvOneList DEF OneList
  <2> QED BY <2>1 DEF HomeOf
<1>4. ASSUME NEW n \in Nodes, \A l \in Lists : n \notin members[l] PROVE HomeOf(n) = None
  <2>1. { m \in Lists : n \in members[m] } = {}
    BY <1>4
  <2> QED BY <2>1 DEF HomeOf
<1> QED BY <1>1, <1>2, <1>3, <1>4, LifecycleAssumption DEF Views

\* The same after a step.
LEMMA InvViewsNext == Inv' => Views'
  BY InvViews, PTL

\* A local step changes the view of its own node only.
LEMMA LocalViews ==
    ASSUME Inv, Inv', NEW t \in Tasks, NEW n \in Nodes, MayWork(t, n), Local(t, n),
           at'[t].node \in { n, None }
    PROVE  \A m \in Nodes \ {n} : HomeOf(m)' = HomeOf(m) /\ OwnerOf(m)' = OwnerOf(m)
<1>0. Views /\ Views'
  BY InvViews, InvViewsNext
<1> TAKE m \in Nodes \ {n}
<1>1. HomeOf(m)' = HomeOf(m)
  <2>1. \A l \in Lists : m \in members'[l] <=> m \in members[l]
    BY DEF Local
  <2>2. CASE \E l \in Lists : m \in members[l]
    BY <1>0, <2>1, <2>2 DEF Views
  <2>3. CASE \A l \in Lists : m \notin members[l]
    BY <1>0, <2>1, <2>3 DEF Views
  <2> QED BY <2>2, <2>3
<1>2. OwnerOf(m)' = OwnerOf(m)
  <2>1. ASSUME NEW u \in Tasks PROVE (Busy(u) /\ at[u].node = m)' <=> (Busy(u) /\ at[u].node = m)
    BY LifecycleAssumption DEF Local, MayWork, Busy
  <2>2. CASE \E u \in Tasks : Busy(u) /\ at[u].node = m
    BY <1>0, <2>1, <2>2 DEF Views
  <2>3. CASE \A u \in Tasks : Busy(u) => at[u].node # m
    <3>1. OwnerOf(m) = IF taken[m].bit THEN Gone ELSE None
      BY <1>0, <2>3 DEF Views
    <3>2. OwnerOf(m)' = IF taken'[m].bit THEN Gone ELSE None
      BY <1>0, <2>1, <2>3 DEF Views
    <3> QED BY <3>1, <3>2 DEF Local
  <2> QED BY <2>2, <2>3
<1> QED BY <1>1, <1>2

-----------------------------------------------------------------------------
\* The variables of NodeOwnership, as the mapping gives them.
Homes  == [n \in Nodes |-> HomeOf(n)]
Owners == [n \in Nodes |-> OwnerOf(n)]
Full   == { n \in init : HomeOf(n) # None }

AbstractStep == [Ownership!Next]_<< Homes, Owners, Full >>

\* What a step of task t on node n does to them.
LEMMA LocalMap ==
    ASSUME Inv, Inv', NEW t \in Tasks, NEW n \in Nodes, MayWork(t, n), Local(t, n),
           at'[t].node \in { n, None }
    PROVE  /\ Homes' = [Homes EXCEPT ![n] = HomeOf(n)']
           /\ Owners' = [Owners EXCEPT ![n] = OwnerOf(n)']
  BY LocalViews DEF Homes, Owners

\* A list that does not change holds the same nodes.
LEMMA SameHomes ==
    ASSUME UNCHANGED members PROVE Homes' = Homes /\ Full' = { n \in init' : HomeOf(n) # None }
  BY DEF Homes, HomeOf, Full

\* A step inside a call, or with the handle, does not change the owner.
LEMMA SameOwners ==
    ASSUME Inv, Inv', NEW t \in Tasks, Busy(t), Busy(t)', UNCHANGED at, Local(t, at[t].node)
    PROVE  Owners' = Owners
<1>1. PICK n \in Nodes : n = at[t].node
  BY AtWork
<1>2. OwnerOf(n) = t /\ OwnerOf(n)' = t
  BY <1>1, InvViews, InvViewsNext DEF Views
<1>3. MayWork(t, n) /\ Local(t, n) /\ at'[t].node = n
  BY <1>1 DEF MayWork
<1> QED BY <1>2, <1>3, LocalMap DEF Owners

\* Taking the word of a node is Acquire.
LEMMA TakeAcquires ==
    ASSUME Inv, Inv', NEW t \in Tasks, NEW n \in Nodes, ~ Busy(t), ~ taken[n].bit,
           Busy(t)', at'[t].node = n, Local(t, n), UNCHANGED << members, init >>
    PROVE  Ownership!Acquire(t, n)
<1>1. \A u \in Tasks : Busy(u) => at[u].node # n
  BY UntakenIsFree
<1>2. OwnerOf(n) = None /\ OwnerOf(n)' = t
  BY <1>1, InvViews, InvViewsNext DEF Views
<1>3. Owners' = [Owners EXCEPT ![n] = t] /\ Homes' = Homes /\ Full' = Full
  BY <1>1, <1>2, LocalMap, SameHomes DEF MayWork, Full
<1> QED BY <1>2, <1>3 DEF Ownership!Acquire, Homes, Owners, Full

\* Going idle is Release when the word loses its bit, and Abandon when it does not.
LEMMA ReturnReleases ==
    ASSUME Inv, Inv', NEW t \in Tasks, NEW n \in Nodes, Busy(t), at[t].node = n,
           ~ Busy(t)', at'[t].node = None, Local(t, n), UNCHANGED << members, init >>
    PROVE  /\ ~ taken'[n].bit => Ownership!Release(t, n)
           /\ taken'[n].bit => Ownership!Abandon(t, n)
<1>1. \A u \in Tasks : Busy(u)' => at'[u].node # n
  BY DEF Inv, Exclusive, Local, Busy
<1>2. OwnerOf(n) = t /\ OwnerOf(n)' = IF taken'[n].bit THEN Gone ELSE None
  BY <1>1, InvViews, InvViewsNext DEF Views
<1>3. Owners' = [Owners EXCEPT ![n] = OwnerOf(n)'] /\ Homes' = Homes /\ Full' = Full
  BY LocalMap, SameHomes DEF MayWork, Full
<1> QED BY <1>2, <1>3 DEF Ownership!Release, Ownership!Abandon, Homes, Owners, Full

-----------------------------------------------------------------------------
(***************************************************************************)
(* Every step is a step of NodeOwnership, or one it does not see.          *)
(***************************************************************************)
LEMMA TakeSteps ==
    ASSUME Inv, Inv', NEW t \in Tasks, NEW n \in Nodes, NEW l \in Lists,
           AttachTake(t, n, l) \/ DetachTake(t, n, l)
    PROVE  AbstractStep
<1>1. ~ taken[n].bit /\ ~ Busy(t)
  BY DEF AttachTake, DetachTake, Null, Free, Word, Busy
<1>2. Busy(t)' /\ at'[t].node = n /\ UNCHANGED << members, init >>
  BY DEF AttachTake, DetachTake, Goto, WorkOn, Inv, TypeOK, Busy
<1>3. Local(t, n)
  BY DEF AttachTake, DetachTake, Goto, WorkOn, Local, Inv, TypeOK
<1>4. Ownership!Acquire(t, n)
  BY <1>1, <1>2, <1>3, TakeAcquires
<1> QED BY <1>4 DEF AbstractStep, Ownership!Next

\* The steps by which a task is done with its node.
LEMMA ReturnSteps ==
    ASSUME Inv, Inv', NEW t \in Tasks,
           AttachRefused(t) \/ DropAttach(t) \/ HandleDrop(t) \/ DetachRelease(t)
    PROVE  AbstractStep
<1>1. /\ Busy(t) /\ UNCHANGED << members, state, init, worker >>
      /\ pc' = [pc EXCEPT ![t] = "idle"] /\ at' = [at EXCEPT ![t] = Nowhere]
  BY DEF AttachRefused, DropAttach, HandleDrop, DetachRelease, Return, Goto, Busy
<1>2. PICK n \in Nodes : n = at[t].node
  BY <1>1, AtWork
<1>3. Local(t, n) /\ ~ Busy(t)' /\ at'[t].node = None
  <2>1. \A m \in Nodes : m # n => taken'[m] = taken[m]
    BY <1>2 DEF AttachRefused, DropAttach, HandleDrop, DetachRelease, Inv, TypeOK
  <2> QED BY <1>1, <2>1 DEF Local, Inv, TypeOK, Busy, Nowhere
<1>4. Ownership!Release(t, n) \/ Ownership!Abandon(t, n)
  <2>1. taken'[n] \in [list : Lists \cup {None}, bit : BOOLEAN]
    BY DEF Inv, TypeOK
  <2> QED BY <1>1, <1>2, <1>3, <2>1, ReturnReleases
<1> QED BY <1>4 DEF AbstractStep, Ownership!Next

\* The step that links a node.
LEMMA LinkSteps ==
    ASSUME Inv, Inv', NEW t \in Tasks, AttachLink(t)
    PROVE  AbstractStep
<1>1. PICK n \in Nodes, l \in Lists : n = at[t].node /\ l = at[t].list
  BY AtWork DEF AttachLink, Busy
<1>2. /\ Busy(t) /\ Busy(t)' /\ UNCHANGED << at, init >> /\ ~ KeyInUse(n, l)
      /\ members' = [members EXCEPT ![l] = @ \cup {n}]
  BY <1>1 DEF AttachLink, Goto, Inv, TypeOK, Busy
<1>3. Local(t, n) /\ MayWork(t, n)
  BY <1>1, <1>2 DEF AttachLink, Goto, Local, MayWork, Inv, TypeOK
<1>4. HomeOf(n) = None /\ HomeOf(n)' = l /\ OwnerOf(n) = t
  <2>1. \A m \in Lists : n \notin members[m]
    BY <1>1, <1>2, AtWork DEF AttachLink, TaskInv
  <2>2. n \in members'[l]
    BY <1>2 DEF Inv, TypeOK
  <2> QED BY <1>1, <1>2, <2>1, <2>2, InvViews, InvViewsNext DEF Views
<1>5. \A m \in Nodes : HomeOf(m) = l => KeyOf[m] # KeyOf[n]
  BY <1>2, InvViews DEF Views, KeyInUse
<1>6. Homes' = [Homes EXCEPT ![n] = l] /\ Owners' = Owners
  BY <1>1, <1>2, <1>3, <1>4, LocalMap, SameOwners
<1>7. Full' = Full
  <2>1. n \notin init
    BY <1>1, <1>2, AtWork DEF AttachLink, TaskInv, NodeInv, PayloadInv
  <2>2. \A m \in Nodes \ {n} : HomeOf(m)' = HomeOf(m)
    BY <1>1, <1>2, <1>3, LocalViews
  <2> QED BY <1>2, <2>1, <2>2 DEF Full, Inv, TypeOK
<1>8. Ownership!Enter(t, n, l)
  BY <1>2, <1>4, <1>5, <1>6, <1>7 DEF Ownership!Enter, Homes, Owners, Full
<1> QED BY <1>8 DEF AbstractStep, Ownership!Next

\* The step that removes one.
LEMMA RemoveSteps ==
    ASSUME Inv, Inv', NEW t \in Tasks, DetachRemove(t)
    PROVE  AbstractStep
<1>1. PICK n \in Nodes, l \in Lists : n = at[t].node /\ l = at[t].list
  BY AtWork DEF DetachRemove, Busy
<1>2. /\ Busy(t) /\ Busy(t)' /\ UNCHANGED << at, init >> /\ n \in members[l]
      /\ pc[t] = "remove" /\ pc'[t] = "drop"
  BY <1>1, AtWork DEF DetachRemove, TaskInv, Goto, Inv, TypeOK, Busy
<1>3. Local(t, n) /\ MayWork(t, n)
  BY <1>1, <1>2 DEF DetachRemove, Goto, Local, MayWork, Inv, TypeOK
<1>4. HomeOf(n) = l /\ HomeOf(n)' = None /\ OwnerOf(n) = t
  <2>1. \A m \in Lists : n \notin members'[m]
    BY <1>1, <1>2 DEF Inv, TaskInv
  <2> QED BY <1>1, <1>2, <2>1, InvViews, InvViewsNext DEF Views
<1>5. Homes' = [Homes EXCEPT ![n] = None] /\ Owners' = Owners
  BY <1>1, <1>2, <1>3, <1>4, LocalMap, SameOwners
<1>6. Full' = Full \ {n}
  <2>1. \A m \in Nodes \ {n} : HomeOf(m)' = HomeOf(m)
    BY <1>1, <1>2, <1>3, LocalViews
  <2> QED BY <1>2, <1>4, <2>1 DEF Full, Inv, TypeOK
<1>7. Ownership!Leave(t, n)
  BY <1>4, <1>5, <1>6, LifecycleAssumption DEF Ownership!Leave, Homes, Owners, Full
<1> QED BY <1>7 DEF AbstractStep, Ownership!Next

\* The step by which attach gives its node the default.
LEMMA DefaultSteps ==
    ASSUME Inv, Inv', NEW t \in Tasks, TakeDefault(t)
    PROVE  AbstractStep
<1>1. PICK n \in Nodes, l \in Lists : n = at[t].node /\ l = at[t].list
  BY AtWork DEF TakeDefault, Busy
<1>2. /\ Busy(t) /\ Busy(t)' /\ UNCHANGED << at, members >> /\ n \in members[l]
      /\ state[n] = "NonResident"
      /\ (init' = init) \/ (pc[t] = "default" /\ init' = init \cup {n})
  BY <1>1, AtWork DEF TakeDefault, TaskInv, Goto, Inv, TypeOK, Busy
<1>3. Local(t, n) /\ MayWork(t, n)
  BY <1>1, <1>2 DEF TakeDefault, Goto, Local, MayWork, Inv, TypeOK
<1>4. Homes' = Homes /\ Owners' = Owners /\ HomeOf(n) = l
  BY <1>1, <1>2, <1>3, SameHomes, SameOwners, InvViews DEF Views
<1>5. CASE init' = init
  BY <1>2, <1>4, <1>5, SameHomes DEF AbstractStep, Full
<1>6. CASE pc[t] = "default" /\ init' = init \cup {n}
  <2>1. n \notin init
    BY <1>2, <1>3, <1>6, WholePayload
  <2>2. n \notin Full /\ Full' = Full \cup {n}
    BY <1>2, <1>4, <1>6, <2>1, SameHomes, LifecycleAssumption DEF Full
  <2>3. Ownership!Fill(n)
    BY <1>4, <2>2, LifecycleAssumption DEF Ownership!Fill, Homes, Owners, Full
  <2> QED BY <2>3 DEF AbstractStep, Ownership!Next
<1> QED BY <1>2, <1>5, <1>6

\* The payload of a node that has left its list is dropped.
LEMMA ResetSteps ==
    ASSUME Inv, Inv', NEW t \in Tasks, DetachReset(t)
    PROVE  AbstractStep
<1>1. PICK n \in Nodes, l \in Lists : n = at[t].node /\ l = at[t].list
  BY AtWork DEF DetachReset, Busy
<1>2. /\ Busy(t) /\ Busy(t)' /\ UNCHANGED << at, members >>
      /\ init' = init \/ init' = init \ {n}
      /\ \A m \in Lists : n \notin members[m]
  BY <1>1, AtWork DEF DetachReset, TaskInv, Goto, Inv, TypeOK, Busy
<1>3. Local(t, n)
  BY <1>1, <1>2 DEF DetachReset, Goto, Local, Inv, TypeOK
<1>4. Homes' = Homes /\ Owners' = Owners /\ HomeOf(n) = None
  BY <1>1, <1>2, <1>3, SameHomes, SameOwners, InvViews DEF Views
<1>5. Full' = Full
  BY <1>2, <1>4, SameHomes DEF Full
<1> QED BY <1>4, <1>5 DEF AbstractStep

\* The steps that change neither homes nor owners.
LEMMA QuietSteps ==
    ASSUME Inv, Inv', NEW t \in Tasks, AttachPoll(t) \/ HandleWrite(t)
    PROVE  AbstractStep
<1>1. Busy(t) /\ Busy(t)' /\ UNCHANGED << at, members, init >> /\ at[t].node \in Nodes
  BY AtWork DEF AttachPoll, Subscribe, Look, HandleWrite, Goto, Inv, TypeOK, Busy
<1>2. Local(t, at[t].node)
  BY <1>1 DEF AttachPoll, Subscribe, Look, HandleWrite, Goto, Local, Inv, TypeOK
<1>3. Homes' = Homes /\ Owners' = Owners
  BY <1>1, <1>2, SameHomes, SameOwners
<1>4. Full' = Full
  BY <1>1, SameHomes DEF Full
<1> QED BY <1>3, <1>4 DEF AbstractStep

\* The worker changes neither homes nor owners.
LEMMA WorkerSteps ==
    ASSUME Inv, Inv', NEW l \in Lists, WorkerStep(l)
    PROVE  AbstractStep
<1>1. UNCHANGED << taken, members, pc, at >>
  BY DEF WorkerStep, CallStep, ReadBegin, ReadNode, ReadDone, MarkNode, ReadEnd, ReadFails,
         WriteBegin, WriteEnd
<1>2. Homes' = Homes /\ Owners' = Owners
  BY <1>1 DEF Homes, HomeOf, Owners, OwnerOf
<1>3. CASE UNCHANGED init
  BY <1>1, <1>2, <1>3, SameHomes DEF AbstractStep, Full
<1>4. CASE init' # init
  <2>1. PICK n \in Nodes : /\ n \in members[l] /\ state[n] = "Initial" /\ worker[l] = "read"
                          /\ init' = init \cup {n}
    BY <1>4 DEF WorkerStep, CallStep, ReadBegin, ReadNode, ReadDone, MarkNode, ReadEnd, ReadFails,
                WriteBegin, WriteEnd
  <2>2. n \notin init /\ HomeOf(n) = l
    BY <2>1, InvViews DEF Inv, FillInv, Half, Views
  <2>3. n \notin Full /\ Full' = Full \cup {n}
    BY <1>1, <2>1, <2>2, SameHomes, LifecycleAssumption DEF Full
  <2>4. Ownership!Fill(n)
    BY <1>2, <2>2, <2>3, LifecycleAssumption DEF Ownership!Fill, Homes, Owners, Full
  <2> QED BY <2>4 DEF AbstractStep, Ownership!Next
<1> QED BY <1>3, <1>4

\* Every step of the nodes is one of NodeOwnership, or a stutter.
LEMMA NextSteps == Inv /\ Inv' /\ [Next]_vars => AbstractStep
<1> SUFFICES ASSUME Inv, Inv', [Next]_vars PROVE AbstractStep
  OBVIOUS
<1>1. CASE UNCHANGED vars
  BY <1>1 DEF vars, AbstractStep, Homes, HomeOf, Owners, OwnerOf, Full
<1>2. ASSUME NEW t \in Tasks, AttachStep(t) \/ HandleStep(t) \/ DetachStep(t)
      PROVE  AbstractStep
  BY <1>2, TakeSteps, ReturnSteps, LinkSteps, RemoveSteps, ResetSteps, DefaultSteps,
     QuietSteps
  DEF AttachStep, HandleStep, DetachStep
<1> QED BY <1>1, <1>2, WorkerSteps DEF Next

\* The tagged word and the mutexes of the lists implement a lock per node, held from
\* attach to the drop of the handle and during detach (storage_node.rs:335-626).
THEOREM RefinesOwnership == Spec => ImplementsOwnership
<1>1. Init => Ownership!Init
  <2> SUFFICES ASSUME Init PROVE Ownership!Init
    OBVIOUS
  <2>1. Inv /\ Views
    BY InitInv, InvViews
  <2>2. \A n \in Nodes : HomeOf(n) = None /\ OwnerOf(n) = None
    BY <2>1 DEF Init, Views, Busy, Null, Word
  <2> QED BY <2>2 DEF Init, Ownership!Init, HomeOf
<1>2. AbstractStep => [Ownership!Next]_(Ownership!vars)
  BY DEF AbstractStep, Homes, Owners, Full, Ownership!vars
<1> QED BY <1>1, <1>2, NextSteps, InvAlways, PTL DEF Spec, ImplementsOwnership, Ownership!Spec
=============================================================================
