------------------------------ MODULE MsgBuffer ------------------------------
(***************************************************************************)
(* The byte buffer of utils/MsgBuffer.{h,cpp}: bytes are appended at       *)
(* tail_, added in front of head_ and removed at head_, in a memory that   *)
(* moves its bytes or is replaced by a larger one when room is short.      *)
(*                                                                         *)
(* The buffer is used by one thread at a time.  The variable bytes is what *)
(* a user expects to find in it: each operation is also applied to bytes,  *)
(* as an operation on sequences.                                           *)
(***************************************************************************)
EXTENDS Naturals, Sequences

CONSTANTS kBufferOffset, \* room kept before the first byte (8 in the code)
          ExtLen,        \* size of the extra buffer of readFd() (8192)
          InitLens,      \* lengths given to the constructor
          Byte,          \* the values of a byte, CR and LF among them
          CR, LF,
          Chunks,        \* what is appended or added in one call
          MaxBytes       \* bound on the bytes in the buffer

ASSUME SizesAssumption ==
  /\ kBufferOffset \in Nat \ {0} /\ ExtLen \in Nat \ {0} /\ MaxBytes \in Nat
  /\ InitLens \subseteq Nat
ASSUME BytesAssumption == {CR, LF} \subseteq Byte /\ Chunks \subseteq Seq(Byte)

VARIABLES
  buf,     \* head_, tail_, initCap_ and buffer_, the memory
  bytes,   \* what the user expects to find
  small,   \* was the buffer made with less than kBufferOffset bytes?
  broken   \* retrieveAll() has shrunk the memory to below head_

vars == <<buf, bytes, small, broken>>

readableBytes(x) == x.tail - x.head
writableBytes(x) == x.size - x.tail

\* The memory that the constructor makes; what it holds is of no interest.
New(len) ==
  [head |-> kBufferOffset, tail |-> kBufferOffset, initCap |-> len,
   size |-> len + kBufferOffset,
   mem |-> [i \in 0 .. len + kBufferOffset - 1 |-> CR]]

Init ==
  \E len \in InitLens :
    /\ buf = New(len) /\ bytes = <<>>
    /\ small = (len < kBufferOffset) /\ broken = FALSE

\* The bytes that can be read.
Readable(x) == [i \in 1 .. readableBytes(x) |-> x.mem[x.head + i - 1]]

\* memcpy of s to position p; a byte that is written beyond the end is lost.
Copy(mem, p, s) ==
  [i \in DOMAIN mem |-> IF i >= p /\ i < p + Len(s) THEN s[i - p + 1] ELSE mem[i]]

\* memcpy to tail_, and tail_ moves on.
Write(x, s) == [x EXCEPT !.mem = Copy(@, x.tail, s), !.tail = @ + Len(s)]

-----------------------------------------------------------------------------
(* Making room *)

Larger(a, c) == IF a > c THEN a ELSE c

\* Mutant of ensureWritableBytes: the bytes are moved, the room is not counted
\* from kBufferOffset.
ensureWritableBytesTight(x, len) ==
  IF writableBytes(x) > len THEN x
  ELSE IF x.head + writableBytes(x) >= len
       THEN [x EXCEPT !.mem = Copy(@, kBufferOffset, Readable(x)),
                      !.head = kBufferOffset, !.tail = kBufferOffset + readableBytes(x)]
       ELSE Write(New(Larger(2 * x.size, kBufferOffset + readableBytes(x) + len)), Readable(x))

\* Nothing to do; or the bytes move to kBufferOffset; or the bytes are appended to
\* a new buffer, which has room for them, and the two are swapped, initCap_ too.
ensureWritableBytes(x, len) ==
  IF writableBytes(x) > len THEN x
  ELSE IF x.head + writableBytes(x) >= len + kBufferOffset
       THEN [x EXCEPT !.mem = Copy(@, kBufferOffset, Readable(x)),
                      !.head = kBufferOffset, !.tail = kBufferOffset + readableBytes(x)]
       ELSE Write(New(Larger(2 * x.size, kBufferOffset + readableBytes(x) + len)), Readable(x))

\* append() and its overloads: make room, then write.
append(x, s) == Write(ensureWritableBytes(x, Len(s)), s)

\* Mutant of addInFront: when the bytes are moved up, tail_ stays.
addInFrontTail(x, s) ==
  IF x.head >= Len(s)
  THEN [x EXCEPT !.mem = Copy(@, x.head - Len(s), s), !.head = @ - Len(s)]
  ELSE IF Len(s) <= writableBytes(x)
       THEN [x EXCEPT !.mem = Copy(Copy(@, x.head + Len(s), Readable(x)), x.head, s)]
       ELSE append(append(New(Larger(x.initCap, Len(s) + readableBytes(x))), s), Readable(x))

\* In front of head_ if there is room; or the bytes move up; or a new buffer.
\* (std::copy on characters is memmove, so that the ranges may overlap.)
addInFront(x, s) ==
  IF x.head >= Len(s)
  THEN [x EXCEPT !.mem = Copy(@, x.head - Len(s), s), !.head = @ - Len(s)]
  ELSE IF Len(s) <= writableBytes(x)
       THEN [x EXCEPT !.mem = Copy(Copy(@, x.head + Len(s), Readable(x)), x.head, s),
                      !.tail = @ + Len(s)]
       ELSE append(append(New(Larger(x.initCap, Len(s) + readableBytes(x))), s), Readable(x))

retrieveAll(x) ==
  LET len == IF x.size > 2 * x.initCap THEN x.initCap ELSE x.size
  IN [x EXCEPT !.size = len, !.mem = [i \in 0 .. len - 1 |-> @[i]],
               !.head = kBufferOffset, !.tail = kBufferOffset]

retrieve(x, len) ==
  IF len >= readableBytes(x) THEN retrieveAll(x) ELSE [x EXCEPT !.head = @ + len]

-----------------------------------------------------------------------------
(* The operations.  After the memory was shrunk below head_ none is defined. *)

\* Bytes that cannot be read are of no interest: all of them count as CR.
Forget(x) ==
  [x EXCEPT !.mem = [i \in DOMAIN @ |-> IF i >= x.head /\ i < x.tail THEN @[i] ELSE CR]]

Result(x, s) ==
  /\ ~broken
  /\ buf' = Forget(x) /\ bytes' = s
  /\ broken' = (x.head > x.size)
  /\ UNCHANGED small

Room == Len(bytes) < MaxBytes
Drop(s, n) == SubSeq(s, n + 1, Len(s))

\* append() of characters, a string, another buffer; appendInt8() to appendInt64().
Append2Buffer == \E s \in Chunks :
  /\ Room /\ Result(append(buf, s), bytes \o s)

\* addInFront(), addInFrontInt8() to addInFrontInt64().
AddInFront == \E s \in Chunks :
  /\ Room /\ Result(addInFront(buf, s), s \o bytes)

\* retrieve() and read(), which both take all if there is less.
Retrieve == \E n \in 1 .. MaxBytes + 1 :
  /\ Result(retrieve(buf, n), IF n > Len(bytes) THEN <<>> ELSE Drop(bytes, n))

\* readInt8() to readInt64(), which assert that there is enough.  Only the bytes they
\* take are modelled, not the value: that of readInt16() is undefined, since
\* peekInt16() has no return statement.
ReadInt == \E n \in {1, 2} :
  /\ n <= Len(bytes)
  /\ Result(retrieve(buf, n), Drop(bytes, n))

RetrieveAll == Result(retrieveAll(buf), <<>>)

\* Where findCRLF() finds CR LF in s: how many bytes are before it.
findCRLF(s) == {i \in 0 .. Len(s) - 1 : i + 1 < Len(s) /\ s[i + 1] = CR /\ s[i + 2] = LF}

\* retrieveUntil(findCRLF()), when there is a CR LF.
RetrieveUntil ==
  LET at == findCRLF(Readable(buf))
      first == CHOOSE i \in at : \A j \in at : i <= j
  IN /\ at # {}
     /\ Result(retrieve(buf, first), Drop(bytes, first))

EnsureWritableBytes == \E n \in 1 .. MaxBytes :
  /\ Result(ensureWritableBytes(buf, n), bytes)

\* The user writes at beginWrite() what fits, and calls hasWritten().
HasWritten == \E s \in Chunks :
  /\ Room /\ Len(s) <= writableBytes(buf)
  /\ Result(Write(buf, s), bytes \o s)

Unwrite == \E n \in 1 .. Len(bytes) :
  /\ Result([buf EXCEPT !.tail = @ - n], SubSeq(bytes, 1, Len(bytes) - n))

\* readFd(): readv() fills the writable bytes, then the extra buffer, which is
\* given only if the buffer has less room than that; the overflow is appended.
ReadFd == \E s \in Chunks :
  LET w == writableBytes(buf)
  IN /\ Room
     /\ Len(s) <= IF w < ExtLen THEN w + ExtLen ELSE w
     /\ IF Len(s) <= w THEN Result(Write(buf, s), bytes \o s)
        ELSE Result(append(Write(buf, SubSeq(s, 1, w)), Drop(s, w)), bytes \o s)

Next ==
  \/ Append2Buffer \/ AddInFront \/ Retrieve \/ ReadInt \/ RetrieveAll \/ RetrieveUntil
  \/ EnsureWritableBytes \/ HasWritten \/ Unwrite \/ ReadFd

Spec == Init /\ [][Next]_vars

-----------------------------------------------------------------------------
(* Properties *)

\* head_, tail_ and the end of the memory are in this order, so that the unsigned
\* differences readableBytes() and writableBytes() never wrap; the one exception
\* is a buffer made with fewer than kBufferOffset bytes, which retrieveAll()
\* shrinks to less than kBufferOffset.
InBounds ==
  \/ broken /\ small
  \/ /\ buf.head \in Nat /\ buf.head <= buf.tail /\ buf.tail <= buf.size
     /\ DOMAIN buf.mem = 0 .. buf.size - 1

\* What can be read is what was appended, added in front, retrieved and unwritten,
\* byte for byte, however often the bytes were moved to other places or to
\* another memory (append, addInFront, retrieve, readFd, ensureWritableBytes).
Contents == ~broken => Readable(buf) = bytes
=============================================================================
