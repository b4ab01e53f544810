-------------------------------- MODULE Blob --------------------------------
(***************************************************************************)
(* Blocks of bytes and their encodings (src/src/util_blob.cpp).            *)
(*                                                                         *)
(* A blob is its bytes and the capacity of its memory; a buffer has in     *)
(* addition the offset up to which it was read.  Each operator is what a   *)
(* call leaves behind.                                                     *)
(***************************************************************************)
EXTENDS Integers, Sequences

CONSTANT Slack  \* what write adds to a block that it makes; 1024 in the code

Least(a, b) == IF a < b THEN a ELSE b
Most(a, b)  == IF a < b THEN b ELSE a
From(s, n)  == SubSeq(s, n + 1, Len(s))

\* Blob and BlobBuffer after their construction.
NewBuffer(reserve) == [bytes |-> <<>>, cap |-> reserve, offset |-> 0]
Space(b)           == b.cap - Len(b.bytes)

-----------------------------------------------------------------------------
\* Blob: a block is never made smaller than what is in it; write makes one with
\* room to spare, += one that just fits, and << fills what there is before that.
Reserve(b, n)    == [b EXCEPT !.cap = Most(n, Len(b.bytes))]
Write(b, src)    == [b EXCEPT !.bytes = @ \o src,
                              !.cap = IF Space(b) < Len(src) THEN Len(b.bytes) + Len(src) + Slack ELSE @]
AddedToTail(b, src) == [b EXCEPT !.bytes = @ \o src]
PopFront(b, n)   == [b EXCEPT !.bytes = IF n >= Len(@) THEN <<>> ELSE From(@, n)]
Append2(b, blob) == Write(IF Len(b.bytes) + Len(blob) > b.cap THEN Reserve(b, Len(b.bytes) + Len(blob)) ELSE b, blob)
Stream(b, text)  == LET fits == SubSeq(text, 1, Least(Space(b), Len(text)))
                    IN Write(AddedToTail(b, fits), From(text, Len(fits)))

\* BlobBuffer: bytes that were read stay in front until something needs the room,
\* and may be read again until then.
Unread(b)        == From(b.bytes, b.offset)
Advance(b, n)    == [b EXCEPT !.offset = @ + Least(n, Len(b.bytes) - @)]
Rewind(b)        == [b EXCEPT !.offset = 0]
RewindBy(b, n)   == [b EXCEPT !.offset = IF n > @ THEN 0 ELSE @ - n]
Flush(b)         == [PopFront(b, b.offset) EXCEPT !.offset = 0]
BufferClear(b)   == [b EXCEPT !.bytes = <<>>, !.offset = 0]
BufferRelease(b) == NewBuffer(0)
ReadBytes(b, n)  == SubSeq(b.bytes, b.offset + 1, b.offset + Least(n, Len(b.bytes) - b.offset))

\* Mutant of BufferWrite: write makes room by dropping what was read, and keeps the offset.
BufferWriteStale(b, src) ==
  Write(IF b.offset > 0 /\ (Len(b.bytes) = b.offset \/ Space(b) < Len(src)) THEN PopFront(b, b.offset) ELSE b, src)

BufferWrite(b, src) ==
  Write(IF b.offset > 0 /\ (Len(b.bytes) = b.offset \/ Space(b) < Len(src)) THEN Flush(b) ELSE b, src)
BufferAppend(b, blob) == Append2(Flush(b), blob)

-----------------------------------------------------------------------------
(***************************************************************************)
(* Base64: a character is the six bits it stands for, or Pad, or any other *)
(* number.                                                                 *)
(***************************************************************************)
Pad == 64
Ok(ch) == ch \in 0 .. 63
Bits(ch) == IF Ok(ch) THEN ch ELSE 0

\* to_base64 of the three bytes at 3 * g + 1, of which those behind the end are 0.
Group(bytes, g) ==
  LET left == Len(bytes) - 3 * g
      ch1 == bytes[3 * g + 1]
      ch2 == IF left > 1 THEN bytes[3 * g + 2] ELSE 0
      ch3 == IF left > 2 THEN bytes[3 * g + 3] ELSE 0
  IN << ch1 \div 4, (ch1 % 4) * 16 + ch2 \div 16,
        IF left = 1 THEN Pad ELSE (ch2 % 16) * 4 + ch3 \div 64,
        IF left <= 2 THEN Pad ELSE ch3 % 64 >>
ToBase64(bytes) ==
  [i \in 1 .. ((Len(bytes) + 2) \div 3) * 4 |-> Group(bytes, (i - 1) \div 4)[((i - 1) % 4) + 1]]

(***************************************************************************)
(* from_base64 counts groups up to the number of bytes it expects, three   *)
(* times too many, so that only padding ends it.  Without padding it reads *)
(* on behind the end, where it fails, for the text ends with a byte that   *)
(* is no character of base64, and writes behind the block.  The result:    *)
(* the bytes, whether all characters were valid, and whether it has stayed *)
(* within the block.                                                       *)
(***************************************************************************)
Padded(text, g) == \E k \in {3, 4} : 4 * g + k <= Len(text) /\ text[4 * g + k] = Pad
Three(text, g) ==
  LET v(k) == Bits(text[4 * g + k])
  IN << (v(1) * 4 + v(2) \div 16) % 256, (v(2) * 16 + v(3) \div 4) % 256, (v(3) * 64 + v(4)) % 256 >>
FromBase64(text) ==
  LET groups == Len(text) \div 4
      ended == groups > 0 /\ \E g \in 0 .. groups : Padded(text, g)
      end == IF ended THEN CHOOSE g \in 0 .. groups : Padded(text, g) /\ \A h \in 0 .. g - 1 : ~Padded(text, h)
             ELSE groups
      more == IF ~ended THEN 0 ELSE IF text[4 * end + 3] = Pad THEN 1 ELSE 2
  IN [bytes |-> [i \in 1 .. 3 * end + more |-> Three(text, (i - 1) \div 3)[((i - 1) % 3) + 1]],
      ok |-> groups = 0 \/ (ended /\ \A i \in 1 .. 4 * end + more + 1 : Ok(text[i])),
      within |-> groups = 0 \/ (ended /\ end < groups)]

(***************************************************************************)
(* Hexadecimal digits: numbers below 16 stand for one, all others do not.  *)
(***************************************************************************)
ToHex(bytes) == [i \in 1 .. 2 * Len(bytes) |->
                   LET b == bytes[(i + 1) \div 2] IN IF i % 2 = 1 THEN b \div 16 ELSE b % 16]
Nibble(d) == IF d < 16 THEN d ELSE 0
FromHex(text) ==
  LET len == Len(text) \div 2
  IN [bytes |-> [i \in 1 .. len |-> 16 * Nibble(text[2 * i - 1]) + Nibble(text[2 * i])],
      ok |-> \A i \in 1 .. 2 * len : text[i] < 16]
=============================================================================
