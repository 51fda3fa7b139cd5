----------------------------- MODULE ConfigStore -----------------------------
(***************************************************************************)
(* What cfg-noodle promises about configuration data, with no flash, no    *)
(* records and no garbage collection: nodes hold payloads in memory, and   *)
(* one image of all of them is in storage.                                 *)
(*                                                                         *)
(* The image is replaced as a whole, by the payloads of memory at that     *)
(* moment, and by nothing else.  A payload is clean when it is the one of  *)
(* the image: memory learns payloads from the image, and everything is     *)
(* confirmed clean only while memory and image agree.  Losing power costs  *)
(* memory and leaves the image alone.                                      *)
(***************************************************************************)
EXTENDS TLAPS

CONSTANTS Keys, Values, NoVal

VARIABLES
    ram,      \* the payload each node holds in memory, or NoVal
    clean,    \* the keys whose payload is known to be stored
    stored    \* the payload of each key that a restart would find

vars == << ram, clean, stored >>

Images == [Keys -> Values \cup {NoVal}]

TypeOK == ram \in Images /\ clean \in SUBSET Keys /\ stored \in Images

\* The keys that hold a payload in memory.
Held == { k \in Keys : ram[k] # NoVal }

Init ==
    /\ ram = [k \in Keys |-> NoVal]
    /\ clean = {}
    /\ stored = [k \in Keys |-> NoVal]

\* A user stores a payload, or a node takes its default.
Set(k, v) ==
    /\ ram' = [ram EXCEPT ![k] = v]
    /\ clean' = clean \ {k}
    /\ UNCHANGED stored

\* Nodes without payload take those of the image.
Recall(S) ==
    /\ S \cap Held = {}
    /\ \A k \in S : stored[k] # NoVal
    /\ ram' = [k \in Keys |-> IF k \in S THEN stored[k] ELSE ram[k]]
    /\ clean' = clean \cup S
    /\ UNCHANGED stored

\* The image becomes the payloads of memory, all at once.
Commit ==
    /\ stored' = ram
    /\ UNCHANGED << ram, clean >>

\* What memory holds is confirmed to be stored.
Confirm ==
    /\ stored = ram
    /\ clean' = Held
    /\ UNCHANGED << ram, stored >>

\* Nodes are detached, or all memory is lost.
Drop(S) ==
    /\ ram' = [k \in Keys |-> IF k \in S THEN NoVal ELSE ram[k]]
    /\ clean' = clean \ S
    /\ UNCHANGED stored

Next ==
    \/ \E S \in SUBSET Keys : Drop(S)
    \/ \E k \in Keys, v \in Values : Set(k, v)
    \/ \E S \in SUBSET Keys : Recall(S)
    \/ Commit
    \/ Confirm

Spec == Init /\ [][Next]_vars

\* What is clean is stored: the losses of a power failure are the payloads
\* that were never confirmed.
CleanIsStored == \A k \in clean : stored[k] = ram[k]

-----------------------------------------------------------------------------
Inv == TypeOK /\ CleanIsStored

\* The steps that touch memory touch `clean` accordingly.
LEMMA NextInv == Inv /\ [Next]_vars => Inv'
<1> SUFFICES ASSUME Inv, [Next]_vars PROVE Inv'
  OBVIOUS
<1>0. /\ ram \in [Keys -> Values \cup {NoVal}] /\ stored \in [Keys -> Values \cup {NoVal}]
      /\ clean \in SUBSET Keys
      /\ \A k \in clean : stored[k] = ram[k]
  BY DEF Inv, TypeOK, Images, CleanIsStored
<1>1. CASE UNCHANGED vars
  BY <1>0, <1>1 DEF vars, Inv, TypeOK, Images, CleanIsStored
<1>2. ASSUME NEW S \in SUBSET Keys, Drop(S) PROVE Inv'
  BY <1>0, <1>2 DEF Drop, Inv, TypeOK, Images, CleanIsStored
<1>3. ASSUME NEW k \in Keys, NEW v \in Values, Set(k, v) PROVE Inv'
  BY <1>0, <1>3 DEF Set, Inv, TypeOK, Images, CleanIsStored
<1>4. ASSUME NEW S \in SUBSET Keys, Recall(S) PROVE Inv'
  BY <1>0, <1>4 DEF Recall, Inv, TypeOK, Images, CleanIsStored
<1>5. CASE Commit
  \* Nothing that was clean changes: memory and image agreed on it already.
  BY <1>0, <1>5 DEF Commit, Inv, TypeOK, Images, CleanIsStored
<1>6. CASE Confirm
  BY <1>0, <1>6 DEF Confirm, Held, Inv, TypeOK, Images, CleanIsStored
<1> QED
  BY <1>1, <1>2, <1>3, <1>4, <1>5, <1>6 DEF Next

\* A payload that was confirmed clean is the one a restart finds: whatever
\* implements ConfigStore loses, when power fails, only what was never confirmed
\* ("only unsynced changes at power loss are lost", REQUIREMENTS.md:58-60).
THEOREM CleanAlwaysStored == Spec => []CleanIsStored
<1>1. Init => Inv
  BY DEF Init, Inv, TypeOK, Images, CleanIsStored
<1>2. Inv => CleanIsStored
  BY DEF Inv
<1> QED
  BY <1>1, <1>2, NextInv, PTL DEF Spec
=============================================================================
