------------------------------ MODULE MemData -------------------------------
(***************************************************************************)
(* CMemData (util.h:110), the receive buffer: a vector m_data of which the *)
(* first m_offset bytes are in use.  The methods are operators on the      *)
(* record of the two; sizes are uint32_t.                                  *)
(***************************************************************************)
EXTENDS Integers, Sequences

CONSTANT MemWord       \* 2^32

ASSUME MemAssumption == MemWord \in Nat \ {0}

Zero  == 0             \* what a new vector is filled with
Stray == -1            \* whatever lies behind the end of the vector

NewMem == [m_data |-> <<>>, m_offset |-> 0]

Size(md)     == md.m_offset
LeftSize(md) == (Len(md.m_data) - md.m_offset) % MemWord

\* The bytes in use.
Content(md) == SubSeq(md.m_data, 1, md.m_offset)

\* The n bytes from GetStart(), as a memcpy takes them.
Bytes(md, n) == [i \in 1 .. n |-> IF i <= Len(md.m_data) THEN md.m_data[i] ELSE Stray]

Clear(md) == [md EXCEPT !.m_offset = 0]

\* So much more room behind the bytes in use.
Expand(md, size) ==
    LET total == (size + md.m_offset) % MemWord IN
    IF total <= Len(md.m_data) THEN md
    ELSE [md EXCEPT !.m_data = [i \in 1 .. total |->
                                   IF i <= md.m_offset THEN md.m_data[i] ELSE Zero]]

\* memcpy to GetAddr(), where there is room for the bytes.
Write(md, bytes) ==
    [md EXCEPT !.m_data = [i \in DOMAIN md.m_data |->
        IF i - md.m_offset \in DOMAIN bytes THEN bytes[i - md.m_offset] ELSE md.m_data[i]]]

\* Mutant: all that is allocated counts as used.
UpdateUseAll(md, len) == [md EXCEPT !.m_offset = Len(md.m_data)]

UpdateUse(md, len) == [md EXCEPT !.m_offset = (@ + len) % MemWord]

\* Writes behind the bytes in use, and then has only the new ones in use.
Copy(md, bytes) ==
    LET room == IF LeftSize(md) < Len(bytes) THEN Expand(md, Len(bytes)) ELSE md
    IN  [Write(room, bytes) EXCEPT !.m_offset = Len(bytes)]

\* The first bytes go; fewer than all of them leave m_offset where it was.
Remove(md, size) ==
    [m_data   |-> SubSeq(md.m_data, size + 1, Len(md.m_data)),
     m_offset |-> IF size >= Size(md) THEN 0 ELSE md.m_offset]
=============================================================================
