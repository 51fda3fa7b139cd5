---------------------------- MODULE NodeOwnership ----------------------------
(***************************************************************************)
(* What a StorageListNode promises to those who use it, with no atomics    *)
(* and no list mutex: as if every node had a lock of its own.  Whoever     *)
(* attaches a node, holds its handle or detaches it holds that lock, and   *)
(* only its holder lets the node enter a list or leave it.  A node that is *)
(* in a list may be given a payload; it loses the payload as it leaves.    *)
(* A lock whose holder went away without releasing it stays taken.         *)
(***************************************************************************)
CONSTANTS
    Nodes, Lists, Tasks,
    KeyOf,     \* the key of each node
    None,      \* no list, or no owner
    Gone       \* the owner that went away

VARIABLES
    home,      \* per node, the list it is in, or None
    owner,     \* per node, who holds its lock
    full       \* the nodes that hold a payload

vars == << home, owner, full >>

Init ==
    /\ home = [n \in Nodes |-> None]
    /\ owner = [n \in Nodes |-> None]
    /\ full = {}

Acquire(t, n) ==
    /\ owner[n] = None
    /\ owner' = [owner EXCEPT ![n] = t]
    /\ UNCHANGED << home, full >>

Release(t, n) ==
    /\ owner[n] = t
    /\ owner' = [owner EXCEPT ![n] = None]
    /\ UNCHANGED << home, full >>

\* A list never has two nodes with one key.
Enter(t, n, l) ==
    /\ owner[n] = t /\ home[n] = None
    /\ \A m \in Nodes : home[m] = l => KeyOf[m] # KeyOf[n]
    /\ home' = [home EXCEPT ![n] = l]
    /\ UNCHANGED << owner, full >>

Leave(t, n) ==
    /\ owner[n] = t /\ home[n] # None
    /\ home' = [home EXCEPT ![n] = None]
    /\ full' = full \ {n}
    /\ UNCHANGED owner

\* By the worker of the list, or by the owner (with the default).
Fill(n) ==
    /\ home[n] # None /\ n \notin full
    /\ full' = full \cup {n}
    /\ UNCHANGED << home, owner >>

Abandon(t, n) ==
    /\ owner[n] = t
    /\ owner' = [owner EXCEPT ![n] = Gone]
    /\ UNCHANGED << home, full >>

Next ==
    \E n \in Nodes :
        \/ \E t \in Tasks : Acquire(t, n) \/ Release(t, n) \/ Leave(t, n) \/ Abandon(t, n)
        \/ \E t \in Tasks, l \in Lists : Enter(t, n, l)
        \/ Fill(n)

Spec == Init /\ [][Next]_vars
=============================================================================
