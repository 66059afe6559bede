--------------------------- MODULE MemDataProofs ----------------------------
(***************************************************************************)
(* What the methods of CMemData do to the bytes in use, for every size of  *)
(* buffer, under the conditions the callers have to see to: the sums of    *)
(* sizes stay below 2^32 and the vector is longer than what is in use.     *)
(***************************************************************************)
EXTENDS MemData, SequenceTheorems, TLAPS

Bytewise == Seq(Int)

Buffers == {md \in [m_data : Bytewise, m_offset : Nat] :
               md.m_offset <= Len(md.m_data) /\ Len(md.m_data) < MemWord}

(* Sizes below 2^32 are what they are.                                     *)
LEMMA SmallSizes == ASSUME NEW n \in Nat, n < MemWord PROVE n % MemWord = n
BY MemAssumption

(* Where the sum does not wrap, LeftSize is the room behind the bytes.     *)
LEMMA LeftSizeIsRoom ==
    ASSUME NEW md \in Buffers
    PROVE  LeftSize(md) = Len(md.m_data) - md.m_offset
<1>1. Len(md.m_data) - md.m_offset \in 0 .. MemWord - 1
  BY MemAssumption DEF Buffers, Bytewise
<1> QED BY <1>1, MemAssumption DEF LeftSize

(***************************************************************************)
(* Expand (util.h:168) makes the room that was asked for and keeps the     *)
(* bytes in use, unless size and offset add up to 2^32 or more.            *)
(***************************************************************************)
THEOREM ExpandMakesRoom ==
    ASSUME NEW md \in Buffers, NEW size \in Nat, size + md.m_offset < MemWord
    PROVE  /\ Expand(md, size) \in Buffers
           /\ Content(Expand(md, size)) = Content(md)
           /\ LeftSize(Expand(md, size)) >= size
<1> DEFINE total == size + md.m_offset
           data  == [i \in 1 .. total |->
                        IF i <= md.m_offset THEN md.m_data[i] ELSE Zero]
<1>1. /\ md.m_data \in Bytewise /\ md.m_offset \in Nat /\ Len(md.m_data) \in Nat
      /\ md.m_offset <= Len(md.m_data) /\ Len(md.m_data) < MemWord
  BY DEF Buffers, Bytewise
<1>2. (size + md.m_offset) % MemWord = total /\ total \in Nat
  BY <1>1, MemAssumption
<1>3. CASE total <= Len(md.m_data)
  <2>1. Expand(md, size) = md
    BY <1>2, <1>3 DEF Expand
  <2> QED BY <1>1, <1>3, <2>1, LeftSizeIsRoom
<1>4. CASE ~ (total <= Len(md.m_data))
  <2>1. Expand(md, size) = [md EXCEPT !.m_data = data]
    BY <1>2, <1>4 DEF Expand
  <2>2. /\ data \in Bytewise /\ Len(data) = total
        /\ \A i \in 1 .. md.m_offset : data[i] = md.m_data[i]
    BY <1>1, <1>2 DEF Bytewise, Zero
  <2> HIDE DEF data
  <2>3. /\ Expand(md, size).m_data = data
        /\ Expand(md, size).m_offset = md.m_offset
        /\ Expand(md, size) \in Buffers
    BY <1>1, <1>2, <2>1, <2>2 DEF Buffers
  <2>4. Content(Expand(md, size)) = Content(md)
    BY <1>1, <1>4, <2>2, <2>3 DEF Content, Bytewise
  <2> QED BY <1>1, <1>2, <2>2, <2>3, <2>4, LeftSizeIsRoom
<1> QED BY <1>3, <1>4

(* Write changes the bytes behind those in use and no others.              *)
LEMMA WriteEffect ==
    ASSUME NEW md \in Buffers, NEW bytes \in Bytewise,
           md.m_offset + Len(bytes) <= Len(md.m_data)
    PROVE  /\ Write(md, bytes) \in Buffers
           /\ Write(md, bytes).m_offset = md.m_offset
           /\ Len(Write(md, bytes).m_data) = Len(md.m_data)
           /\ \A i \in 1 .. md.m_offset : Write(md, bytes).m_data[i] = md.m_data[i]
           /\ \A i \in 1 .. Len(bytes) :
                 Write(md, bytes).m_data[md.m_offset + i] = bytes[i]
<1> DEFINE data == [i \in DOMAIN md.m_data |->
                       IF i - md.m_offset \in DOMAIN bytes THEN bytes[i - md.m_offset]
                       ELSE md.m_data[i]]
<1>1. /\ md.m_data \in Seq(Int) /\ md.m_offset \in Nat /\ Len(md.m_data) \in Nat
      /\ DOMAIN md.m_data = 1 .. Len(md.m_data)
      /\ bytes \in Seq(Int) /\ Len(bytes) \in Nat /\ DOMAIN bytes = 1 .. Len(bytes)
  BY DEF Buffers, Bytewise
<1>2. Write(md, bytes).m_data = data /\ Write(md, bytes).m_offset = md.m_offset
  BY DEF Write, Buffers
<1>3. data \in Seq(Int) /\ Len(data) = Len(md.m_data)
  BY <1>1
<1>4. \A i \in 1 .. md.m_offset : data[i] = md.m_data[i]
  BY <1>1 DEF Buffers
<1>5. ASSUME NEW i \in 1 .. Len(bytes)
      PROVE  data[md.m_offset + i] = bytes[i]
  <2>1. PICK o \in Nat, n \in Nat, m \in Nat :
           o = md.m_offset /\ n = Len(md.m_data) /\ m = Len(bytes)
    BY <1>1
  <2>2. i \in Nat /\ 1 <= i /\ i <= m /\ o + m <= n
    BY <1>5, <2>1
  <2>3. o + i \in 1 .. n /\ (o + i) - o = i
    BY <2>2
  <2>4. md.m_offset + i \in DOMAIN md.m_data /\ (md.m_offset + i) - md.m_offset = i
    BY <1>1, <2>1, <2>3
  <2>5. i \in DOMAIN bytes
    BY <1>1, <1>5
  <2> QED BY <2>4, <2>5
<1> HIDE DEF data
<1>6. Write(md, bytes) = [m_data |-> data, m_offset |-> md.m_offset]
  <2>1. md = [m_data |-> md.m_data, m_offset |-> md.m_offset]
    BY DEF Buffers
  <2>2. Write(md, bytes) = [md EXCEPT !.m_data = data]
    BY DEF Write, data
  <2> QED BY <2>1, <2>2
<1> QED BY <1>1, <1>2, <1>3, <1>4, <1>5, <1>6 DEF Buffers, Bytewise

(***************************************************************************)
(* recv into GetAddr and UpdateUse append what arrived to the bytes in use *)
(* (tcprecv, EventMgr.h:27 and 49), as long as it is no more than the room *)
(* recv was given.                                                         *)
(***************************************************************************)
THEOREM ReadAppends ==
    ASSUME NEW md \in Buffers, NEW bytes \in Bytewise, Len(bytes) <= LeftSize(md)
    PROVE  /\ UpdateUse(Write(md, bytes), Len(bytes)) \in Buffers
           /\ Content(UpdateUse(Write(md, bytes), Len(bytes))) = Content(md) \o bytes
<1> DEFINE w   == Write(md, bytes)
           out == UpdateUse(w, Len(bytes))
<1>1. /\ md.m_data \in Seq(Int) /\ md.m_offset \in Nat /\ Len(md.m_data) \in Nat
      /\ bytes \in Seq(Int) /\ Len(bytes) \in Nat
      /\ md.m_offset + Len(bytes) <= Len(md.m_data) /\ Len(md.m_data) < MemWord
  BY LeftSizeIsRoom DEF Buffers, Bytewise
<1>2. /\ w \in Buffers /\ w.m_offset = md.m_offset /\ Len(w.m_data) = Len(md.m_data)
      /\ \A i \in 1 .. md.m_offset : w.m_data[i] = md.m_data[i]
      /\ \A i \in 1 .. Len(bytes) : w.m_data[md.m_offset + i] = bytes[i]
  BY <1>1, WriteEffect
<1> HIDE DEF w, out
<1>3. (md.m_offset + Len(bytes)) % MemWord = md.m_offset + Len(bytes)
  <2>1. md.m_offset + Len(bytes) \in Nat /\ md.m_offset + Len(bytes) < MemWord
    BY <1>1, MemAssumption
  <2> QED BY <2>1, SmallSizes, Zenon
<1>4. out = [m_data |-> w.m_data, m_offset |-> md.m_offset + Len(bytes)]
  <2>1. w = [m_data |-> w.m_data, m_offset |-> w.m_offset]
    BY <1>2 DEF Buffers
  <2>2. out = [w EXCEPT !.m_offset = (@ + Len(bytes)) % MemWord]
    BY DEF UpdateUse, out
  <2> QED BY <1>2, <1>3, <2>1, <2>2
<1>5. out \in Buffers
  BY <1>1, <1>2, <1>4 DEF Buffers
<1>6. Content(out) = Content(md) \o bytes
  <2>1. w.m_data \in Seq(Int)
    BY <1>2 DEF Buffers, Bytewise
  <2>2. Content(out) = SubSeq(w.m_data, 1, md.m_offset + Len(bytes))
    BY <1>4 DEF Content
  <2>3. Content(md) = SubSeq(md.m_data, 1, md.m_offset)
    BY DEF Content
  <2>4. /\ Content(out) \in Seq(Int) /\ Len(Content(out)) = md.m_offset + Len(bytes)
        /\ \A i \in 1 .. md.m_offset + Len(bytes) : Content(out)[i] = w.m_data[i]
    <3> DEFINE n == md.m_offset + Len(bytes)
    <3>1. /\ n \in Nat /\ n <= Len(w.m_data)
          /\ \A i \in 1 .. n : w.m_data[i] \in Int
      BY <1>1, <1>2, <2>1
    <3>2. Content(out) = SubSeq(w.m_data, 1, n)
      BY <2>2
    <3> HIDE DEF n
    <3>3. /\ SubSeq(w.m_data, 1, n) \in Seq(Int) /\ Len(SubSeq(w.m_data, 1, n)) = n
          /\ \A i \in 1 .. n : SubSeq(w.m_data, 1, n)[i] = w.m_data[i]
      BY <2>1, <3>1
    <3> QED BY <3>2, <3>3 DEF n
  <2>5. /\ Content(md) \in Seq(Int) /\ Len(Content(md)) = md.m_offset
        /\ \A i \in 1 .. md.m_offset : Content(md)[i] = md.m_data[i]
    BY <1>1, <2>3
  <2>6. \A i \in 1 .. md.m_offset + Len(bytes) :
            Content(out)[i] = (Content(md) \o bytes)[i]
    <3> TAKE i \in 1 .. md.m_offset + Len(bytes)
    <3>1. CASE i <= md.m_offset
      <4>1. (Content(md) \o bytes)[i] = Content(md)[i] /\ i \in 1 .. md.m_offset
        BY <1>1, <2>5, <3>1, ConcatProperties
      <4> QED BY <1>2, <2>4, <2>5, <4>1
    <3>2. CASE i > md.m_offset
      <4>1. i - md.m_offset \in 1 .. Len(bytes) /\ i = md.m_offset + (i - md.m_offset)
        BY <1>1, <3>2
      <4>2. w.m_data[i] = bytes[i - md.m_offset]
        BY <1>2, <4>1
      <4>3. (Content(md) \o bytes)[i] = bytes[i - md.m_offset]
        <5> DEFINE c == Content(md)
        <5>1. /\ c \in Seq(Int) /\ Len(c) = md.m_offset
              /\ i \in 1 .. Len(c) + Len(bytes) /\ ~ (i <= Len(c))
          BY <1>1, <2>5, <3>2
        <5> HIDE DEF c
        <5>2. \A k \in 1 .. Len(c) + Len(bytes) :
                  (c \o bytes)[k] = IF k <= Len(c) THEN c[k] ELSE bytes[k - Len(c)]
          BY <1>1, <5>1, ConcatProperties, Zenon
        <5>3. (c \o bytes)[i] = bytes[i - Len(c)]
          BY <5>1, <5>2, Zenon
        <5> QED BY <5>1, <5>3 DEF c
      <4> QED BY <2>4, <4>2, <4>3
    <3>3. i <= md.m_offset \/ i > md.m_offset
      BY <1>1
    <3> QED BY <3>1, <3>2, <3>3, Zenon
  <2>7. /\ Content(md) \o bytes \in Seq(Int)
        /\ Len(Content(md) \o bytes) = md.m_offset + Len(bytes)
    BY <1>1, <2>5, ConcatProperties
  <2> QED BY <2>4, <2>6, <2>7, SeqEqual
<1> QED BY <1>5, <1>6 DEF out, w

(***************************************************************************)
(* Copy into an empty buffer (EventMgr.h:431, and 465 after a Clear) makes *)
(* it hold exactly the bytes given.                                        *)
(***************************************************************************)
THEOREM CopyIntoEmpty ==
    ASSUME NEW md \in Buffers, md.m_offset = 0,
           NEW bytes \in Bytewise, Len(bytes) < MemWord
    PROVE  Copy(md, bytes) \in Buffers /\ Content(Copy(md, bytes)) = bytes
<1> DEFINE room == IF LeftSize(md) < Len(bytes) THEN Expand(md, Len(bytes)) ELSE md
           w    == Write(room, bytes)
<1>1. bytes \in Seq(Int) /\ Len(bytes) \in Nat
  BY DEF Bytewise
<1>2. Expand(md, Len(bytes)).m_offset = md.m_offset
  BY DEF Expand, Buffers
<1>3. room \in Buffers /\ room.m_offset = 0 /\ LeftSize(room) >= Len(bytes)
  BY <1>1, <1>2, ExpandMakesRoom, LeftSizeIsRoom DEF Buffers, Bytewise
<1> HIDE DEF room
<1>4. room.m_offset + Len(bytes) <= Len(room.m_data)
  BY <1>1, <1>3, LeftSizeIsRoom DEF Buffers, Bytewise
<1>5. /\ w \in Buffers /\ Len(w.m_data) = Len(room.m_data)
      /\ \A i \in 1 .. Len(bytes) : w.m_data[0 + i] = bytes[i]
  BY <1>3, <1>4, WriteEffect
<1> HIDE DEF w
<1>6. Copy(md, bytes) = [m_data |-> w.m_data, m_offset |-> Len(bytes)]
  BY <1>5 DEF Copy, room, w, Buffers
<1>7. w.m_data \in Seq(Int) /\ Len(bytes) <= Len(w.m_data)
  BY <1>3, <1>4, <1>5 DEF Buffers, Bytewise
<1>8. Copy(md, bytes) \in Buffers
  BY <1>1, <1>5, <1>6, <1>7 DEF Buffers
<1>9. Content(Copy(md, bytes)) = SubSeq(w.m_data, 1, Len(bytes))
  BY <1>6 DEF Content
<1>10. \A i \in 1 .. Len(bytes) : w.m_data[i] = bytes[i]
  BY <1>1, <1>5
<1> QED BY <1>1, <1>7, <1>8, <1>9, <1>10

(***************************************************************************)
(* Copy into a buffer that is in use does not: with at least as much in    *)
(* use as is copied, the buffer then holds its own first bytes             *)
(* (util.h:153 writes behind m_offset, 154 counts from the start).         *)
(***************************************************************************)
THEOREM CopyIntoUsedKeepsOld ==
    ASSUME NEW md \in Buffers, NEW bytes \in Bytewise,
           Len(bytes) <= md.m_offset, md.m_offset + Len(bytes) < MemWord
    PROVE  Content(Copy(md, bytes)) = SubSeq(md.m_data, 1, Len(bytes))
<1> DEFINE room == IF LeftSize(md) < Len(bytes) THEN Expand(md, Len(bytes)) ELSE md
           w    == Write(room, bytes)
<1>1. /\ bytes \in Seq(Int) /\ Len(bytes) \in Nat
      /\ md.m_data \in Seq(Int) /\ md.m_offset \in Nat /\ Len(md.m_data) \in Nat
      /\ md.m_offset <= Len(md.m_data)
  BY DEF Bytewise, Buffers
<1>2. Expand(md, Len(bytes)).m_offset = md.m_offset
  BY DEF Expand, Buffers
<1>3. /\ room \in Buffers /\ room.m_offset = md.m_offset
      /\ LeftSize(room) >= Len(bytes) /\ Content(room) = Content(md)
  BY <1>1, <1>2, ExpandMakesRoom, LeftSizeIsRoom
<1> HIDE DEF room
<1>4. /\ room.m_data \in Seq(Int) /\ Len(room.m_data) \in Nat
      /\ room.m_offset + Len(bytes) <= Len(room.m_data)
  <2>1. LeftSize(room) = Len(room.m_data) - room.m_offset
    BY <1>3, LeftSizeIsRoom
  <2>2. room.m_data \in Seq(Int) /\ Len(room.m_data) \in Nat
    BY <1>3 DEF Buffers, Bytewise
  <2> QED BY <1>1, <1>3, <2>1, <2>2
<1>5. \A i \in 1 .. md.m_offset : room.m_data[i] = md.m_data[i]
  <2>1. /\ Content(room) = SubSeq(room.m_data, 1, md.m_offset)
        /\ Content(md) = SubSeq(md.m_data, 1, md.m_offset)
    BY <1>3 DEF Content
  <2> TAKE i \in 1 .. md.m_offset
  <2>2. SubSeq(room.m_data, 1, md.m_offset)[i] = room.m_data[i]
    BY <1>1, <1>3, <1>4
  <2>3. SubSeq(md.m_data, 1, md.m_offset)[i] = md.m_data[i]
    BY <1>1
  <2> QED BY <1>3, <2>1, <2>2, <2>3
<1>6. /\ w \in Buffers /\ Len(w.m_data) = Len(room.m_data)
      /\ \A i \in 1 .. md.m_offset : w.m_data[i] = room.m_data[i]
  BY <1>3, <1>4, WriteEffect
<1> HIDE DEF w
<1>7. Content(Copy(md, bytes)) = SubSeq(w.m_data, 1, Len(bytes))
  BY <1>6 DEF Copy, Content, room, w, Buffers
<1>8. w.m_data \in Seq(Int) /\ Len(w.m_data) \in Nat /\ Len(bytes) <= Len(w.m_data)
  BY <1>1, <1>3, <1>4, <1>6 DEF Buffers, Bytewise
<1>9. \A i \in 1 .. Len(bytes) : w.m_data[i] = md.m_data[i]
  BY <1>1, <1>5, <1>6
<1> QED BY <1>1, <1>7, <1>8, <1>9
=============================================================================
