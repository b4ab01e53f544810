----------------------------- MODULE BlobBuffer -----------------------------
(***************************************************************************)
(* A buffer that is written at its end and read from its front             *)
(* (src/src/util_blob.cpp, BlobBuffer), under any sequence of calls.       *)
(***************************************************************************)
EXTENDS Blob

CONSTANTS
  Bytes,     \* what is written
  MaxBytes,  \* bound: how many bytes are written at all
  MaxWrite,  \* bound: how many at once
  MaxCap     \* bound: the largest reserve

BufferAssumption == Bytes \subseteq 0 .. 255 /\ {MaxBytes, MaxWrite, MaxCap, Slack} \subseteq Nat

VARIABLES
  buffer,   \* the buffer
  written,  \* all that was ever written, but for what was cleared unread
  position, \* how much of it is consumed
  floor     \* from where on it can be read again

bufferVars == <<buffer, written, position, floor>>

Chunks == UNION {[1 .. n -> Bytes] : n \in 0 .. MaxWrite}

TypeOK ==
  /\ buffer.bytes \in Seq(Bytes) /\ buffer.cap \in Nat /\ buffer.offset \in Nat
  /\ written \in Seq(Bytes) /\ position \in 0 .. Len(written) /\ floor \in 0 .. position

Init == \E n \in 0 .. MaxCap : buffer = NewBuffer(n) /\ written = <<>> /\ position = 0 /\ floor = 0

\* Bytes come in by write, through the tail and added_to_tail, by += and by <<.
Put(src) ==
  /\ Len(written) + Len(src) <= MaxBytes
  /\ \/ buffer' = BufferWrite(buffer, src)
     \/ Len(src) <= Space(buffer) /\ buffer' = AddedToTail(buffer, src)
     \/ buffer' = BufferAppend(buffer, src)
     \/ buffer' = Stream(buffer, src)
  /\ written' = written \o src
  /\ floor' = IF buffer'.offset = buffer.offset THEN floor ELSE position
  /\ UNCHANGED position

\* read, or a look at data() followed by advance
Take(n) ==
  /\ buffer' = Advance(buffer, n)
  /\ position' = position + Len(ReadBytes(buffer, n))
  /\ UNCHANGED <<written, floor>>

\* rewind() and rewind(n), which go no further back than what is still there
GoBack ==
  /\ buffer' = Rewind(buffer) /\ position' = floor
  /\ UNCHANGED <<written, floor>>
GoBackBy(n) ==
  /\ buffer' = RewindBy(buffer, n) /\ position' = IF position - n < floor THEN floor ELSE position - n
  /\ UNCHANGED <<written, floor>>

MakeRoom(n) ==
  /\ \/ buffer' = Reserve(buffer, n) /\ floor' = floor
     \/ buffer' = Flush(buffer) /\ floor' = position
  /\ UNCHANGED <<written, position>>

Drop ==
  /\ buffer' \in {BufferClear(buffer), BufferRelease(buffer)}
  /\ written' = <<>> /\ position' = 0 /\ floor' = 0

Next ==
  \/ \E src \in Chunks : Put(src)
  \/ \E n \in 0 .. MaxWrite : Take(n) \/ GoBackBy(n)
  \/ GoBack \/ Drop \/ (\E n \in 0 .. MaxCap : MakeRoom(n))
Spec == Init /\ [][Next]_bufferVars

-----------------------------------------------------------------------------
\* What the buffer holds is what was written from the floor on, and what it gives
\* next is what was written at the position: whatever is written, read, read again,
\* flushed and moved, no byte is lost, doubled or out of turn.
HoldsTheStream ==
  /\ buffer.bytes = SubSeq(written, floor + 1, Len(written))
  /\ buffer.offset = position - floor
  /\ Len(buffer.bytes) <= buffer.cap

\* Bytes come back from their hexadecimal form.
HexReturns == FromHex(ToHex(written)) = [bytes |-> written, ok |-> TRUE]

\* They come back from base64, unless their number is a multiple of three: then there
\* is no padding, and decoding goes on behind the end and fails.
Base64Returns ==
  LET back == FromBase64(ToBase64(written)) IN
  IF Len(written) > 0 /\ Len(written) % 3 = 0 THEN ~back.ok /\ ~back.within
  ELSE back = [bytes |-> written, ok |-> TRUE, within |-> TRUE]

BytesKept == HoldsTheStream /\ HexReturns /\ Base64Returns
=============================================================================
