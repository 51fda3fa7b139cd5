----------------------------- MODULE FlashQueue -----------------------------
(***************************************************************************)
(* The elements that cfg-noodle pushes to its storage backend, and what a  *)
(* queue of them says.  The backend is a FIFO queue of elements (trait     *)
(* NdlDataStorage); an element is a Start, a Data or an End, or it does    *)
(* not decode (NdlElemIterNode::data returns None).                        *)
(*                                                                         *)
(* A CRC is modelled as the sequence of the data elements it was computed  *)
(* over: equal CRCs mean equal data.  Positions are those of TLA+          *)
(* sequences, from 1; the iterator indexes of the code are one less.       *)
(***************************************************************************)
EXTENDS Integers, Sequences, FiniteSets, SequencesExt

CONSTANTS
    Keys,      \* the keys of the nodes
    Values,    \* the payloads a node may hold
    SeqLimit   \* the largest sequence number: u32::MAX in the code

ASSUME SeqLimitAssumption == SeqLimit \in Nat \ {0}

SeqNo == 1 .. SeqLimit                        \* NonZeroU32

StartElem == [kind : {"start"}, seq : SeqNo]
DataElem  == [kind : {"data"}, key : Keys, val : Values]
EndElem   == [kind : {"end"}, seq : SeqNo, crc : Seq(DataElem)]
BadElem   == [kind : {"bad"}]
Elem      == StartElem \cup DataElem \cup EndElem \cup BadElem

Start(s)   == [kind |-> "start", seq |-> s]
Data(k, v) == [kind |-> "data", key |-> k, val |-> v]
End(s, c)  == [kind |-> "end", seq |-> s, crc |-> c]
Bad        == [kind |-> "bad"]

-----------------------------------------------------------------------------
(***************************************************************************)
(* Positions lo..hi of q hold a well formed Write Record: a Start, data    *)
(* elements only, and an End with the same sequence number whose CRC is    *)
(* the CRC of that data.                                                   *)
(***************************************************************************)
IsRecord(q, lo, hi) ==
    /\ lo \in DOMAIN q /\ hi \in DOMAIN q /\ lo < hi
    /\ q[lo].kind = "start" /\ q[hi].kind = "end"
    /\ q[lo].seq = q[hi].seq
    /\ \A i \in lo + 1 .. hi - 1 : q[i].kind = "data"
    /\ q[hi].crc = SubSeq(q, lo + 1, hi - 1)

(***************************************************************************)
(* verify_list_in_flash(rpt): from the FIRST Start that carries rpt.seq,   *)
(* the data up to the next End, and that End, are those of the report.     *)
(* The code's count of data elements is subsumed by the equality of CRCs.  *)
(***************************************************************************)
FirstStart(q, s, lo) ==
    /\ lo \in DOMAIN q /\ q[lo] = Start(s)
    /\ \A i \in 1 .. lo - 1 : q[i] # Start(s)

VerifiedAt(q, s, crc, lo, hi) ==
    /\ FirstStart(q, s, lo)
    /\ IsRecord(q, lo, hi)
    /\ q[hi] = End(s, crc)

(***************************************************************************)
(* extract_all: the data elements that follow the Start at lo, up to and   *)
(* excluding position stop, the first element of another kind (or the end  *)
(* of the queue), and what they say of key k.  A list never has two nodes  *)
(* with one key, so a record has at most one payload per key.              *)
(***************************************************************************)
DataStop(q, lo) ==
    CHOOSE j \in lo + 1 .. Len(q) + 1 :
        /\ \A i \in lo + 1 .. j - 1 : q[i].kind = "data"
        /\ j \in DOMAIN q => q[j].kind # "data"

Holds(q, lo, stop, k) ==
    \E i \in lo + 1 .. stop - 1 : q[i].kind = "data" /\ q[i].key = k

PayloadOf(q, lo, stop, k) ==
    q[CHOOSE i \in lo + 1 .. stop - 1 : q[i].kind = "data" /\ q[i].key = k].val

-----------------------------------------------------------------------------
(***************************************************************************)
(* The reference definitions the properties use: every well formed record  *)
(* of a queue, and what a record says of each key.                         *)
(***************************************************************************)
Positions(q, kind) == { i \in DOMAIN q : q[i].kind = kind }

GoodRecords(q) ==
    { [seq |-> q[p[1]].seq, lo |-> p[1], hi |-> p[2]] :
        p \in { p \in Positions(q, "start") \X Positions(q, "end") :
                   IsRecord(q, p[1], p[2]) } }

Newer(r, s) == r.seq > s.seq

NewestSeq(records) ==
    IF records = {} THEN 0 ELSE CHOOSE n \in { r.seq : r \in records } :
                                    \A r \in records : r.seq <= n

=============================================================================
