------------------------------ MODULE ElemCodec ------------------------------
(***************************************************************************)
(* The bytes of an element in the storage: what Flash::push writes, what   *)
(* HalfElem::from_bytes and FlashNode::data make of the bytes they find,   *)
(* and the proofs that each undoes the other.  A header byte is followed   *)
(* by numbers in little-endian order (Start, End) or by the key and the    *)
(* value of a node, which are opaque here (Data).                          *)
(***************************************************************************)
EXTENDS Integers, Sequences, TLAPS

Byte  == 0 .. 255

\* to_le_bytes and from_le_bytes
Byte1(n) == n % 256
Shift(n) == n \div 256
ToLe(n)  == << Byte1(n), Byte1(Shift(n)), Byte1(Shift(Shift(n))), Byte1(Shift(Shift(Shift(n)))) >>

Join(b, n) == b + 256 * n
FromLe(a, b, c, d) == Join(a, Join(b, Join(c, d)))

U32   == 0 .. FromLe(255, 255, 255, 255)
SeqNo == U32 \ {0}                   \* NonZeroU32

\* Version 0 in the upper four bits, the discriminant in the lower four.
V0_START == 0
V0_DATA  == 1
V0_END   == 2

\* A SerData holds header, key and value; the element of a node has a key.
SerData == { b \in Seq(Byte) : Len(b) > 1 /\ b[1] = V0_DATA }

StartElem(s)  == [kind |-> "start", seq |-> s]
DataElem(b)   == [kind |-> "data", bytes |-> b]
EndElem(s, c) == [kind |-> "end", seq |-> s, crc |-> c]

Elem ==
    { StartElem(s) : s \in SeqNo } \cup { DataElem(b) : b \in SerData }
      \cup { EndElem(s, c) : s \in SeqNo, c \in U32 }

\* None of Option<Elem>.
None == [kind |-> "none"]

\* Flash::push
StartBytes(s)  == << V0_START, ToLe(s)[1], ToLe(s)[2], ToLe(s)[3], ToLe(s)[4] >>
EndBytes(s, c) == << V0_END, ToLe(s)[1], ToLe(s)[2], ToLe(s)[3], ToLe(s)[4],
                             ToLe(c)[1], ToLe(c)[2], ToLe(c)[3], ToLe(c)[4] >>

Encode(e) ==
    CASE e.kind = "start" -> StartBytes(e.seq)
      [] e.kind = "data"  -> e.bytes
      [] e.kind = "end"   -> EndBytes(e.seq, e.crc)

\* HalfElem::from_bytes and FlashNode::data, which agree on the header: what has
\* an unknown header, a wrong length or the number zero is no element.
SeqIn(b) == FromLe(b[2], b[3], b[4], b[5])
CrcIn(b) == FromLe(b[6], b[7], b[8], b[9])

IsStart(b) == Len(b) = 5 /\ b[1] = V0_START /\ SeqIn(b) # 0
IsData(b)  == Len(b) > 1 /\ b[1] = V0_DATA
IsEnd(b)   == Len(b) = 9 /\ b[1] = V0_END /\ SeqIn(b) # 0

Decode(b) ==
    CASE IsStart(b) -> StartElem(SeqIn(b))
      [] IsData(b)  -> DataElem(b)
      [] IsEnd(b)   -> EndElem(SeqIn(b), CrcIn(b))
      [] OTHER      -> None

-----------------------------------------------------------------------------
(***************************************************************************)
(* Little-endian numbers.                                                  *)
(***************************************************************************)

\* The lowest byte of a number and the rest of it.
LEMMA SplitJoin ==
    ASSUME NEW n \in Nat
    PROVE  /\ Byte1(n) \in Byte /\ Shift(n) \in Nat /\ Join(Byte1(n), Shift(n)) = n
           /\ \A max \in Nat : n <= Join(255, max) => Shift(n) <= max
BY SMTT(30) DEF Byte, Byte1, Shift, Join

\* A byte and the rest of a number are found again in what they make.
LEMMA JoinSplit ==
    ASSUME NEW b \in Byte, NEW n \in Nat
    PROVE  /\ Join(b, n) \in Nat /\ Byte1(Join(b, n)) = b /\ Shift(Join(b, n)) = n
           /\ \A max \in Nat : n <= max => Join(b, n) <= Join(255, max)
BY SMTT(30) DEF Byte, Byte1, Shift, Join

\* Four bytes of a u32 (to_le_bytes).
LEMMA ToLeBytes ==
    ASSUME NEW n \in U32
    PROVE  /\ \A i \in 1 .. 4 : ToLe(n)[i] \in Byte
           /\ FromLe(ToLe(n)[1], ToLe(n)[2], ToLe(n)[3], ToLe(n)[4]) = n
<1> DEFINE M1 == Join(255, 255)  M2 == Join(255, M1)  M3 == Join(255, M2)
<1> DEFINE m == Shift(n)  o == Shift(Shift(n))  p == Shift(Shift(Shift(n)))
<1>0. M1 \in Nat /\ M2 \in Nat /\ M3 \in Nat
  BY DEF Join
<1>1. n \in Nat /\ n <= M3
  BY <1>0 DEF U32, FromLe
<1>2. Byte1(n) \in Byte /\ m \in Nat /\ Join(Byte1(n), m) = n /\ m <= M2
  BY <1>0, <1>1, SplitJoin
<1>3. Byte1(m) \in Byte /\ o \in Nat /\ Join(Byte1(m), o) = m /\ o <= M1
  BY <1>0, <1>2, SplitJoin
<1>4. Byte1(o) \in Byte /\ p \in Nat /\ Join(Byte1(o), p) = o /\ p <= 255
  BY <1>0, <1>3, SplitJoin
<1>5. p \in Byte
  BY <1>4 DEF Byte
<1>6. Byte1(p) = p
  BY <1>5 DEF Byte, Byte1
<1>7. FromLe(Byte1(n), Byte1(m), Byte1(o), Byte1(p)) = n
  BY <1>2, <1>3, <1>4, <1>6 DEF FromLe
<1>8. ToLe(n) = << Byte1(n), Byte1(m), Byte1(o), Byte1(p) >>
  BY DEF ToLe
<1> QED BY <1>2, <1>3, <1>4, <1>5, <1>6, <1>7, <1>8

\* Four bytes make a u32, and are the bytes of it (from_le_bytes).
LEMMA FromLeBytes ==
    ASSUME NEW a \in Byte, NEW b \in Byte, NEW c \in Byte, NEW d \in Byte
    PROVE  /\ FromLe(a, b, c, d) \in U32
           /\ ToLe(FromLe(a, b, c, d)) = << a, b, c, d >>
<1> DEFINE M1 == Join(255, 255)  M2 == Join(255, M1)  M3 == Join(255, M2)
<1> DEFINE C == Join(c, d)  B == Join(b, C)  A == Join(a, B)
<1>0. M1 \in Nat /\ M2 \in Nat
  BY DEF Join
<1>1. d \in Nat /\ d <= 255 /\ Byte1(d) = d
  BY DEF Byte, Byte1
<1>2. C \in Nat /\ Byte1(C) = c /\ Shift(C) = d /\ C <= M1
  BY <1>1, JoinSplit
<1>3. B \in Nat /\ Byte1(B) = b /\ Shift(B) = C /\ B <= M2
  BY <1>0, <1>2, JoinSplit
<1>4. A \in Nat /\ Byte1(A) = a /\ Shift(A) = B /\ A <= M3
  BY <1>0, <1>3, JoinSplit
<1>5. A = FromLe(a, b, c, d)
  BY DEF FromLe
<1>6. M3 \in Nat
  BY <1>0 DEF Join
<1>7. A \in U32
  BY <1>4, <1>6 DEF U32, FromLe
<1> QED BY <1>1, <1>2, <1>3, <1>4, <1>5, <1>7 DEF ToLe

-----------------------------------------------------------------------------
(***************************************************************************)
(* Elements.                                                               *)
(***************************************************************************)

\* What stands where a number is expected is bytes, if there is enough of it.
LEMMA BytesAt ==
    ASSUME NEW b \in Seq(Byte)
    PROVE  /\ 5 <= Len(b) => b[2] \in Byte /\ b[3] \in Byte /\ b[4] \in Byte /\ b[5] \in Byte
           /\ 9 <= Len(b) => b[6] \in Byte /\ b[7] \in Byte /\ b[8] \in Byte /\ b[9] \in Byte
<1>1. ASSUME NEW i \in 1 .. Len(b)  PROVE b[i] \in Byte
  OBVIOUS
<1>2. ASSUME 5 <= Len(b)
      PROVE  b[2] \in Byte /\ b[3] \in Byte /\ b[4] \in Byte /\ b[5] \in Byte
  <2>1. 2 \in 1 .. Len(b) /\ 3 \in 1 .. Len(b) /\ 4 \in 1 .. Len(b) /\ 5 \in 1 .. Len(b)
    BY <1>2
  <2> QED BY <1>1, <2>1
<1>3. ASSUME 9 <= Len(b)
      PROVE  b[6] \in Byte /\ b[7] \in Byte /\ b[8] \in Byte /\ b[9] \in Byte
  <2>1. 6 \in 1 .. Len(b) /\ 7 \in 1 .. Len(b) /\ 8 \in 1 .. Len(b) /\ 9 \in 1 .. Len(b)
    BY <1>3
  <2> QED BY <1>1, <2>1
<1> QED BY <1>2, <1>3

\* The header byte tells the three apart.
LEMMA OneKind ==
    ASSUME NEW b
    PROVE  /\ IsStart(b) => ~ IsData(b) /\ ~ IsEnd(b)
           /\ IsData(b) => ~ IsStart(b) /\ ~ IsEnd(b)
           /\ IsEnd(b) => ~ IsStart(b) /\ ~ IsData(b)
BY DEF IsStart, IsData, IsEnd, V0_START, V0_DATA, V0_END

\* What decoding does, by the first byte and the length.
LEMMA DecodeCases ==
    ASSUME NEW b
    PROVE  /\ IsStart(b) => Decode(b) = StartElem(SeqIn(b))
           /\ IsData(b) => Decode(b) = DataElem(b)
           /\ IsEnd(b) => Decode(b) = EndElem(SeqIn(b), CrcIn(b))
           /\ Decode(b) # None => IsStart(b) \/ IsData(b) \/ IsEnd(b)
BY OneKind, Zenon DEF Decode

\* What push writes, and the numbers from_bytes finds in it.
LEMMA StartRoundTrip ==
    ASSUME NEW s \in SeqNo
    PROVE  StartBytes(s) \in Seq(Byte) /\ Decode(StartBytes(s)) = StartElem(s)
<1> DEFINE b == StartBytes(s)
<1>1. s \in U32 /\ s # 0
  BY DEF SeqNo
<1>2. /\ b \in Seq(Byte) /\ Len(b) = 5 /\ b[1] = V0_START
      /\ << b[2], b[3], b[4], b[5] >> = << ToLe(s)[1], ToLe(s)[2], ToLe(s)[3], ToLe(s)[4] >>
  BY <1>1, ToLeBytes DEF StartBytes, V0_START, Byte
<1>3. SeqIn(b) = s
  BY <1>1, <1>2, ToLeBytes DEF SeqIn
<1>4. IsStart(b)
  BY <1>1, <1>2, <1>3 DEF IsStart
<1> QED BY <1>2, <1>3, <1>4, DecodeCases

\* An End, encoded and decoded, keeps its number and its CRC.
LEMMA EndRoundTrip ==
    ASSUME NEW s \in SeqNo, NEW c \in U32
    PROVE  EndBytes(s, c) \in Seq(Byte) /\ Decode(EndBytes(s, c)) = EndElem(s, c)
<1> DEFINE b == EndBytes(s, c)
<1>1. s \in U32 /\ s # 0
  BY DEF SeqNo
<1>2. /\ b \in Seq(Byte) /\ Len(b) = 9 /\ b[1] = V0_END
      /\ b[2] = ToLe(s)[1] /\ b[3] = ToLe(s)[2] /\ b[4] = ToLe(s)[3] /\ b[5] = ToLe(s)[4]
      /\ b[6] = ToLe(c)[1] /\ b[7] = ToLe(c)[2] /\ b[8] = ToLe(c)[3] /\ b[9] = ToLe(c)[4]
  BY <1>1, ToLeBytes DEF EndBytes, V0_END, Byte
<1>3. SeqIn(b) = s /\ CrcIn(b) = c
  BY <1>1, <1>2, ToLeBytes DEF SeqIn, CrcIn
<1>4. IsEnd(b)
  BY <1>1, <1>2, <1>3 DEF IsEnd
<1> QED BY <1>2, <1>3, <1>4, DecodeCases

\* A serialized node is stored as it is and found again as it is.
LEMMA DataRoundTrip ==
    ASSUME NEW b \in SerData
    PROVE  b \in Seq(Byte) /\ Decode(b) = DataElem(b)
<1>1. b \in Seq(Byte) /\ IsData(b)
  BY DEF SerData, IsData
<1> QED BY <1>1, DecodeCases

\* An element that was pushed is read back as what it was (flash.rs:129-152,
\* 206-271): the scan, the read-back and the hydration see the elements that
\* process_writes has pushed.
THEOREM RoundTrip == \A e \in Elem : Encode(e) \in Seq(Byte) /\ Decode(Encode(e)) = e
<1> SUFFICES ASSUME NEW e \in Elem
             PROVE  Encode(e) \in Seq(Byte) /\ Decode(Encode(e)) = e
  OBVIOUS
<1>1. CASE \E s \in SeqNo : e = StartElem(s)
  <2>1. PICK s \in SeqNo : e = StartElem(s)
    BY <1>1
  <2>2. Encode(e) = StartBytes(s)
    BY <2>1 DEF Encode, StartElem
  <2> QED BY <2>1, <2>2, StartRoundTrip
<1>2. CASE \E b \in SerData : e = DataElem(b)
  <2>1. PICK b \in SerData : e = DataElem(b)
    BY <1>2
  <2>2. Encode(e) = b
    BY <2>1 DEF Encode, DataElem
  <2> QED BY <2>1, <2>2, DataRoundTrip
<1>3. CASE \E s \in SeqNo, c \in U32 : e = EndElem(s, c)
  <2>1. PICK s \in SeqNo, c \in U32 : e = EndElem(s, c)
    BY <1>3
  <2>2. Encode(e) = EndBytes(s, c)
    BY <2>1 DEF Encode, EndElem
  <2> QED BY <2>1, <2>2, EndRoundTrip
<1> QED BY <1>1, <1>2, <1>3 DEF Elem

\* What from_bytes accepts is an element that push would have written with exactly
\* these bytes, whatever the storage holds: torn, foreign and rotten bytes are
\* taken for no element, or for the one whose bytes they are (flash.rs:234-271).
THEOREM DecodesOnlyEncodings ==
    \A b \in Seq(Byte) : Decode(b) # None => Decode(b) \in Elem /\ Encode(Decode(b)) = b
<1> SUFFICES ASSUME NEW b \in Seq(Byte), Decode(b) # None
             PROVE  Decode(b) \in Elem /\ Encode(Decode(b)) = b
  OBVIOUS
<1>1. CASE IsStart(b)
  <2>0. 5 <= Len(b)
    BY <1>1 DEF IsStart
  <2>1. b[2] \in Byte /\ b[3] \in Byte /\ b[4] \in Byte /\ b[5] \in Byte
    BY <2>0, BytesAt
  <2>2. SeqIn(b) \in SeqNo /\ ToLe(SeqIn(b)) = << b[2], b[3], b[4], b[5] >>
    BY <1>1, <2>1, FromLeBytes DEF IsStart, SeqIn, SeqNo
  <2>3. Decode(b) = StartElem(SeqIn(b))
    BY <1>1, DecodeCases
  <2>4. Encode(Decode(b)) = << b[1], b[2], b[3], b[4], b[5] >>
    BY <1>1, <2>2, <2>3 DEF Encode, StartElem, StartBytes, IsStart
  <2>5. b = << b[1], b[2], b[3], b[4], b[5] >>
    BY <1>1 DEF IsStart
  <2> QED BY <2>2, <2>3, <2>4, <2>5 DEF Elem
<1>2. CASE IsData(b)
  <2>1. b \in SerData
    BY <1>2 DEF IsData, SerData
  <2>2. Decode(b) = DataElem(b)
    BY <2>1, DataRoundTrip
  <2> QED BY <2>1, <2>2 DEF Elem, Encode, DataElem
<1>3. CASE IsEnd(b)
  <2>0. 9 <= Len(b)
    BY <1>3 DEF IsEnd
  <2>1. b[2] \in Byte /\ b[3] \in Byte /\ b[4] \in Byte /\ b[5] \in Byte
    BY <2>0, BytesAt
  <2>2. b[6] \in Byte /\ b[7] \in Byte /\ b[8] \in Byte /\ b[9] \in Byte
    BY <2>0, BytesAt
  <2>3. SeqIn(b) \in SeqNo /\ ToLe(SeqIn(b)) = << b[2], b[3], b[4], b[5] >>
    BY <1>3, <2>1, FromLeBytes DEF IsEnd, SeqIn, SeqNo
  <2>4. CrcIn(b) \in U32 /\ ToLe(CrcIn(b)) = << b[6], b[7], b[8], b[9] >>
    BY <2>2, FromLeBytes DEF CrcIn
  <2>5. Decode(b) = EndElem(SeqIn(b), CrcIn(b))
    BY <1>3, DecodeCases
  <2>6. Encode(Decode(b)) = << b[1], b[2], b[3], b[4], b[5], b[6], b[7], b[8], b[9] >>
    BY <1>3, <2>3, <2>4, <2>5 DEF Encode, EndElem, EndBytes, IsEnd
  <2>7. b = << b[1], b[2], b[3], b[4], b[5], b[6], b[7], b[8], b[9] >>
    BY <1>3 DEF IsEnd
  <2> QED BY <2>3, <2>4, <2>5, <2>6, <2>7 DEF Elem
<1> QED BY <1>1, <1>2, <1>3, DecodeCases
=============================================================================
