--------------------------- MODULE MsgBufferProofs ---------------------------
(***************************************************************************)
(* Proofs about MsgBuffer, for any sizes, bytes and chunks: head_ and      *)
(* tail_ stay within the memory, and what can be read is what was written. *)
(***************************************************************************)
EXTENDS MsgBuffer, SequenceTheorems, WellFoundedInduction, TLAPS

(* A buffer that can be used: head_ <= tail_ <= size, and room for         *)
(* kBufferOffset bytes.                                                    *)
Good(x) ==
  /\ x \in [head : Nat, tail : Nat, initCap : Nat, size : Nat, mem : [0 .. x.size - 1 -> Byte]]
  /\ x.head <= x.tail /\ x.tail <= x.size /\ kBufferOffset <= x.size

(* The parts of the inductive invariant: the shrinking of retrieveAll()    *)
(* needs initCap_ to be known.                                             *)
Flags == small \in BOOLEAN /\ broken \in BOOLEAN
Usable == ~broken => Good(buf)
Same == ~broken => bytes \in Seq(Byte) /\ Readable(buf) = bytes
OnlySmall == broken => small
CapKept == ~broken /\ ~small => buf.initCap >= kBufferOffset

Inv == Flags /\ Usable /\ Same /\ OnlySmall /\ CapKept

-----------------------------------------------------------------------------
(* Sequences *)

LEMMA SeqEq ==
  ASSUME NEW S, NEW s \in Seq(S), NEW t \in Seq(S), Len(s) = Len(t),
         \A i \in 1..Len(s) : s[i] = t[i]
  PROVE  s = t
OBVIOUS

LEMMA SeqOfFunction ==
  ASSUME NEW S, NEW n \in Nat, NEW f \in [1..n -> S]
  PROVE  f \in Seq(S) /\ Len(f) = n
OBVIOUS

LEMMA ConcatFacts ==
  ASSUME NEW S, NEW s \in Seq(S), NEW t \in Seq(S)
  PROVE  /\ s \o t \in Seq(S) /\ Len(s \o t) = Len(s) + Len(t)
         /\ Len(s) \in Nat /\ Len(t) \in Nat
         /\ \A i \in 1 .. Len(s) : (s \o t)[i] = s[i]
         /\ \A i \in Len(s) + 1 .. Len(s) + Len(t) : (s \o t)[i] = t[i - Len(s)]
         /\ \A i \in 1 .. Len(s) : s[i] \in S
         /\ \A i \in 1 .. Len(t) : t[i] \in S
OBVIOUS

(* The part of s from m to n; Drop() and the bytes that unwrite() leaves.  *)
LEMMA SubSeqFacts ==
  ASSUME NEW S, NEW s \in Seq(S), NEW m \in Nat \ {0}, NEW n \in Nat,
         m <= n + 1, n <= Len(s)
  PROVE  /\ SubSeq(s, m, n) \in Seq(S) /\ Len(SubSeq(s, m, n)) = n + 1 - m
         /\ \A i \in 1 .. n + 1 - m : SubSeq(s, m, n)[i] = s[m + i - 1]
OBVIOUS

(* Two sequences, end to end, are the one that has their elements. *)
LEMMA ConcatIs ==
  ASSUME NEW S, NEW s \in Seq(S), NEW t \in Seq(S), NEW u \in Seq(S),
         Len(u) = Len(s) + Len(t),
         \A i \in 1 .. Len(s) : u[i] = s[i],
         \A i \in 1 .. Len(t) : u[Len(s) + i] = t[i]
  PROVE  s \o t = u
  <1>1. s \o t \in Seq(S) /\ Len(s \o t) = Len(u) /\ Len(s) \in Nat /\ Len(t) \in Nat
    BY ConcatFacts
  <1>2. ASSUME NEW i \in 1 .. Len(u) PROVE (s \o t)[i] = u[i]
    <2>1. CASE i <= Len(s)
      <3>1. i \in 1 .. Len(s)
        BY <1>1, <2>1
      <3>. QED BY <3>1, ConcatFacts
    <2>2. CASE i > Len(s)
      <3>0. i - Len(s) \in 1 .. Len(t) /\ i = Len(s) + (i - Len(s))
        BY <1>1, <2>2
      <3>1. PICK k \in 1 .. Len(t) : i = Len(s) + k
        BY <3>0, Zenon
      <3>2. i \in Len(s) + 1 .. Len(s) + Len(t) /\ i - Len(s) = k
        BY <1>1, <3>1
      <3>3. (s \o t)[i] = t[i - Len(s)]
        BY <3>2, ConcatFacts
      <3>. QED BY <3>1, <3>2, <3>3
    <2>. QED BY <1>1, <2>1, <2>2
  <1>. QED BY <1>1, <1>2, SeqEq

(* The bytes that are left without the first n, and those without the last. *)
LEMMA DropFacts ==
  ASSUME NEW S, NEW s \in Seq(S), NEW n \in Nat, n <= Len(s)
  PROVE  /\ Drop(s, n) \in Seq(S) /\ Len(Drop(s, n)) = Len(s) - n
         /\ \A i \in 1 .. Len(s) - n : Drop(s, n)[i] = s[n + i]
         /\ SubSeq(s, 1, n) \in Seq(S) /\ Len(SubSeq(s, 1, n)) = n
         /\ \A i \in 1 .. n : SubSeq(s, 1, n)[i] = s[i]
  <1>1. Len(s) \in Nat
    OBVIOUS
  <1>2. /\ SubSeq(s, 1, n) \in Seq(S) /\ Len(SubSeq(s, 1, n)) = n + 1 - 1
        /\ \A i \in 1 .. n + 1 - 1 : SubSeq(s, 1, n)[i] = s[1 + i - 1]
    BY <1>1, SubSeqFacts
  <1>3. /\ Drop(s, n) \in Seq(S) /\ Len(Drop(s, n)) = Len(s) + 1 - (n + 1)
        /\ \A i \in 1 .. Len(s) + 1 - (n + 1) : Drop(s, n)[i] = s[n + 1 + i - 1]
    BY <1>1, SubSeqFacts DEF Drop
  <1>4. \A i \in 1 .. Len(s) - n : Drop(s, n)[i] = s[n + i]
    <2>. TAKE i \in 1 .. Len(s) - n
    <2>1. i \in 1 .. Len(s) + 1 - (n + 1) /\ n + 1 + i - 1 = n + i
      BY <1>1
    <2>. QED BY <1>3, <2>1
  <1>. QED BY <1>1, <1>2, <1>3, <1>4

(* Two parts make the whole. *)
LEMMA SplitSeq ==
  ASSUME NEW S, NEW s \in Seq(S), NEW n \in Nat, n <= Len(s)
  PROVE  SubSeq(s, 1, n) \o Drop(s, n) = s
  <1>1. Len(s) \in Nat
    OBVIOUS
  <1>2. PICK f : f = SubSeq(s, 1, n)
    OBVIOUS
  <1>3. PICK r : r = Drop(s, n)
    OBVIOUS
  <1>4. /\ r \in Seq(S) /\ Len(r) = Len(s) - n /\ \A i \in 1 .. Len(s) - n : r[i] = s[n + i]
        /\ f \in Seq(S) /\ Len(f) = n /\ \A i \in 1 .. n : f[i] = s[i]
    BY <1>2, <1>3, DropFacts
  <1>5. /\ Len(s) = Len(f) + Len(r)
        /\ \A i \in 1 .. Len(f) : s[i] = f[i]
        /\ \A i \in 1 .. Len(r) : s[Len(f) + i] = r[i]
    BY <1>1, <1>4
  <1>6. f \o r = s
    BY <1>4, <1>5, ConcatIs
  <1>. QED BY <1>2, <1>3, <1>6, Zenon

-----------------------------------------------------------------------------
(* The buffer *)

(* What Good says of the fields. *)
LEMMA GoodFields ==
  ASSUME NEW x, Good(x)
  PROVE  /\ x.head \in Nat /\ x.tail \in Nat /\ x.initCap \in Nat /\ x.size \in Nat
         /\ x.head <= x.tail /\ x.tail <= x.size /\ kBufferOffset <= x.size
         /\ x.mem \in [0 .. x.size - 1 -> Byte] /\ DOMAIN x.mem = 0 .. x.size - 1
         /\ readableBytes(x) \in Nat /\ writableBytes(x) \in Nat
         /\ readableBytes(x) = x.tail - x.head /\ writableBytes(x) = x.size - x.tail
BY DEF Good, readableBytes, writableBytes

(* Other bytes in the memory, other places of head_ and tail_. *)
Changed(x, h, t, m) ==
  [head |-> h, tail |-> t, initCap |-> x.initCap, size |-> x.size, mem |-> m]

LEMMA ChangeGood ==
  ASSUME NEW x, Good(x), NEW m \in [0 .. x.size - 1 -> Byte], NEW h \in Nat, NEW t \in Nat,
         h <= t, t <= x.size
  PROVE  Good(Changed(x, h, t, m))
BY DEF Good, Changed

LEMMA ReadableFacts ==
  ASSUME NEW x, Good(x)
  PROVE  /\ Readable(x) \in Seq(Byte) /\ Len(Readable(x)) = readableBytes(x)
         /\ \A i \in 1 .. readableBytes(x) : Readable(x)[i] = x.mem[x.head + i - 1]
  <1>1. /\ x.head \in Nat /\ x.tail \in Nat /\ x.size \in Nat /\ x.tail <= x.size
        /\ x.mem \in [0 .. x.size - 1 -> Byte]
        /\ readableBytes(x) \in Nat /\ readableBytes(x) = x.tail - x.head
    BY GoodFields
  <1>2. \A i \in 1 .. readableBytes(x) : x.mem[x.head + i - 1] \in Byte
    <2>. TAKE i \in 1 .. readableBytes(x)
    <2>1. x.head + i - 1 \in 0 .. x.size - 1
      BY <1>1
    <2>. QED BY <1>1, <2>1
  <1>3. /\ Readable(x) \in [1 .. readableBytes(x) -> Byte]
        /\ \A i \in 1 .. readableBytes(x) : Readable(x)[i] = x.mem[x.head + i - 1]
    BY <1>2 DEF Readable
  <1>4. Readable(x) \in Seq(Byte) /\ Len(Readable(x)) = readableBytes(x)
    BY <1>1, <1>3, SeqOfFunction
  <1>. QED BY <1>3, <1>4

(* Copy keeps what it does not overwrite: c is mem with s at place p. *)
IsCopy(c, n, mem, p, s) ==
  /\ c \in [0 .. n - 1 -> Byte]
  /\ \A i \in 0 .. n - 1 : i >= p /\ i < p + Len(s) => c[i] = s[i - p + 1]
  /\ \A i \in 0 .. n - 1 : ~(i >= p /\ i < p + Len(s)) => c[i] = mem[i]

LEMMA CopyFacts ==
  ASSUME NEW n \in Nat, NEW mem \in [0 .. n - 1 -> Byte], NEW p \in Nat, NEW s \in Seq(Byte)
  PROVE  IsCopy(Copy(mem, p, s), n, mem, p, s)
  <1>1. Len(s) \in Nat
    OBVIOUS
  <1>2. ASSUME NEW i \in 0 .. n - 1, i >= p, i < p + Len(s) PROVE s[i - p + 1] \in Byte
    <2>1. i - p + 1 \in 1 .. Len(s)
      BY <1>1, <1>2
    <2>. QED BY <2>1
  <1>. QED BY <1>1, <1>2 DEF Copy, IsCopy

(* A buffer is known by its fields and by the bytes from head_ to tail_.   *)
LEMMA ReadableIs ==
  ASSUME NEW x, Good(x), NEW s \in Seq(Byte), Len(s) = readableBytes(x),
         \A i \in 1 .. Len(s) : x.mem[x.head + i - 1] = s[i]
  PROVE  Readable(x) = s
BY ReadableFacts, SeqEq

(* A new buffer is empty. *)
LEMMA NewGood ==
  ASSUME NEW n \in Nat
  PROVE  /\ Good(New(n)) /\ Readable(New(n)) = <<>>
         /\ New(n).initCap = n /\ writableBytes(New(n)) = n /\ readableBytes(New(n)) = 0
  <1>1. CR \in Byte /\ kBufferOffset \in Nat
    BY SizesAssumption, BytesAssumption
  <1>2. Good(New(n)) /\ New(n).initCap = n
    BY <1>1 DEF Good, New
  <1>3. writableBytes(New(n)) = n /\ readableBytes(New(n)) = 0
    BY <1>1 DEF New, writableBytes, readableBytes
  <1>4. Readable(New(n)) \in Seq(Byte) /\ Len(Readable(New(n))) = 0
    BY <1>2, <1>3, ReadableFacts
  <1>. QED BY <1>2, <1>3, <1>4

(* Bytes that fit are written behind those that are there. *)
LEMMA WriteGood ==
  ASSUME NEW x, Good(x), NEW s \in Seq(Byte), Len(s) <= writableBytes(x)
  PROVE  /\ Good(Write(x, s)) /\ Readable(Write(x, s)) = Readable(x) \o s
         /\ Write(x, s).initCap = x.initCap
         /\ writableBytes(Write(x, s)) = writableBytes(x) - Len(s)
  <1>1. /\ x.head \in Nat /\ x.tail \in Nat /\ x.size \in Nat
        /\ x.head <= x.tail /\ x.tail <= x.size /\ Len(s) \in Nat
        /\ x.mem \in [0 .. x.size - 1 -> Byte] /\ DOMAIN x.mem = 0 .. x.size - 1
        /\ readableBytes(x) = x.tail - x.head /\ writableBytes(x) = x.size - x.tail
    BY GoodFields
  <1>2. PICK m : m = Copy(x.mem, x.tail, s)
    OBVIOUS
  <1>3. /\ m \in [0 .. x.size - 1 -> Byte]
        /\ \A i \in 0 .. x.size - 1 : i >= x.tail /\ i < x.tail + Len(s) => m[i] = s[i - x.tail + 1]
        /\ \A i \in 0 .. x.size - 1 : ~(i >= x.tail /\ i < x.tail + Len(s)) => m[i] = x.mem[i]
    <2>1. IsCopy(m, x.size, x.mem, x.tail, s)
      BY <1>1, <1>2, CopyFacts, Zenon
    <2>. QED BY <2>1, Zenon DEF IsCopy
  <1>0. PICK y : y = Write(x, s)
    OBVIOUS
  <1>4. /\ y.head = x.head /\ y.tail = x.tail + Len(s) /\ y.size = x.size
        /\ y.initCap = x.initCap /\ y.mem = m
    BY <1>0, <1>2 DEF Write, Good
  <1>5. Good(y)
    <2>1. y = Changed(x, x.head, x.tail + Len(s), m)
      BY <1>0, <1>2 DEF Write, Good, Changed
    <2>2. x.tail + Len(s) \in Nat /\ x.head <= x.tail + Len(s) /\ x.tail + Len(s) <= x.size
      BY <1>1
    <2>. QED BY <1>1, <1>3, <2>1, <2>2, ChangeGood
  <1>6. readableBytes(y) = readableBytes(x) + Len(s)
    BY <1>1, <1>4 DEF readableBytes
  <1>7. PICK r : r = Readable(x)
    OBVIOUS
  <1>8. /\ r \in Seq(Byte) /\ Len(r) = readableBytes(x)
        /\ \A i \in 1 .. readableBytes(x) : r[i] = x.mem[x.head + i - 1]
    BY <1>7, ReadableFacts
  <1>9. PICK q : q = Readable(y)
    OBVIOUS
  <1>10. /\ q \in Seq(Byte) /\ Len(q) = readableBytes(y)
         /\ \A i \in 1 .. readableBytes(y) : q[i] = m[x.head + i - 1]
    BY <1>4, <1>5, <1>9, ReadableFacts
  <1>11. ASSUME NEW i \in 1 .. Len(r) PROVE q[i] = r[i]
    <2>1. i \in 1 .. readableBytes(x) /\ i \in 1 .. readableBytes(y)
          /\ x.head + i - 1 \in 0 .. x.size - 1 /\ x.head + i - 1 < x.tail
      BY <1>1, <1>6, <1>8
    <2>2. q[i] = m[x.head + i - 1]
      BY <1>10, <2>1, Zenon
    <2>3. r[i] = x.mem[x.head + i - 1]
      BY <1>8, <2>1, Zenon
    <2>4. ~(x.head + i - 1 >= x.tail /\ x.head + i - 1 < x.tail + Len(s))
      BY <1>1, <2>1
    <2>5. m[x.head + i - 1] = x.mem[x.head + i - 1]
      BY <1>3, <2>1, <2>4, Zenon
    <2>. QED BY <2>2, <2>3, <2>5
  <1>12. ASSUME NEW i \in 1 .. Len(s) PROVE q[Len(r) + i] = s[i]
    <2>. DEFINE j == Len(r) + i
                k == x.head + j - 1
    <2>0. j = x.tail - x.head + i /\ k = x.tail + i - 1
      BY <1>1, <1>8
    <2>. HIDE DEF j, k
    <2>1. j \in 1 .. readableBytes(y) /\ k \in 0 .. x.size - 1
          /\ k >= x.tail /\ k < x.tail + Len(s) /\ k - x.tail + 1 = i
      <3>1. /\ i \in Nat /\ 1 <= i /\ i <= Len(s) /\ x.tail + Len(s) <= x.size
            /\ readableBytes(y) = x.tail - x.head + Len(s)
            /\ x.head \in Nat /\ x.tail \in Nat /\ x.size \in Nat /\ Len(s) \in Nat
            /\ x.head <= x.tail
        BY <1>1, <1>6
      <3>2. j \in 1 .. readableBytes(y)
        BY <2>0, <3>1
      <3>3. k \in Nat /\ k >= x.tail /\ k < x.tail + Len(s) /\ k - x.tail + 1 = i
        <4>1. PICK n, l : n = x.tail /\ l = Len(s)
          OBVIOUS
        <4>2. k = n + i - 1 /\ n \in Nat /\ l \in Nat /\ i \in Nat /\ 1 <= i /\ i <= l
          BY <2>0, <3>1, <4>1
        <4>3. k \in Nat /\ k >= n /\ k < n + l /\ k - n + 1 = i
          BY <4>2
        <4>. QED BY <4>1, <4>3
      <3>. QED BY <3>1, <3>2, <3>3
    <2>2. q[j] = m[k]
      BY <1>10, <2>1 DEF k
    <2>3. m[k] = s[i]
      BY <1>3, <2>1
    <2>. QED BY <2>2, <2>3 DEF j
  <1>13. Len(q) = Len(r) + Len(s)
    BY <1>6, <1>8, <1>10
  <1>14. r \o s = q
    BY <1>8, <1>10, <1>11, <1>12, <1>13, ConcatIs
  <1>15. writableBytes(y) = writableBytes(x) - Len(s)
    BY <1>1, <1>4 DEF writableBytes
  <1>16. Readable(y) = Readable(x) \o s
    BY <1>7, <1>9, <1>14, Zenon
  <1>. QED BY <1>0, <1>4, <1>5, <1>15, <1>16

(* The bytes are moved to another place in the memory. *)
LEMMA MoveGood ==
  ASSUME NEW x, Good(x), NEW p \in Nat, p + readableBytes(x) <= x.size,
         NEW y, y = Changed(x, p, p + readableBytes(x), Copy(x.mem, p, Readable(x)))
  PROVE  /\ Good(y) /\ Readable(y) = Readable(x) /\ y.initCap = x.initCap
         /\ readableBytes(y) = readableBytes(x)
         /\ writableBytes(y) = x.size - (p + readableBytes(x))
  <1>1. /\ x.head \in Nat /\ x.tail \in Nat /\ x.size \in Nat
        /\ x.mem \in [0 .. x.size - 1 -> Byte] /\ readableBytes(x) \in Nat
    BY GoodFields
  <1>2. PICK r : r = Readable(x)
    OBVIOUS
  <1>3. r \in Seq(Byte) /\ Len(r) = readableBytes(x)
    BY <1>2, ReadableFacts
  <1>4. PICK m : m = Copy(x.mem, p, r)
    OBVIOUS
  <1>5. /\ m \in [0 .. x.size - 1 -> Byte]
        /\ \A i \in 0 .. x.size - 1 : i >= p /\ i < p + Len(r) => m[i] = r[i - p + 1]
    <2>1. IsCopy(m, x.size, x.mem, p, r)
      BY <1>1, <1>3, <1>4, CopyFacts, Zenon
    <2>. QED BY <2>1, Zenon DEF IsCopy
  <1>6. /\ y.head = p /\ y.tail = p + readableBytes(x) /\ y.size = x.size
        /\ y.initCap = x.initCap /\ y.mem = m
    BY <1>2, <1>4 DEF Changed
  <1>7. Good(y)
    <2>1. PICK t : t = p + readableBytes(x)
      OBVIOUS
    <2>2. y = Changed(x, p, t, m)
      BY <1>2, <1>4, <2>1, Zenon
    <2>3. t \in Nat /\ p <= t /\ t <= x.size
      BY <1>1, <2>1
    <2>. QED BY <1>5, <2>2, <2>3, ChangeGood, Zenon
  <1>8. readableBytes(y) = readableBytes(x) /\ writableBytes(y) = x.size - (p + readableBytes(x))
    BY <1>1, <1>6 DEF readableBytes, writableBytes
  <1>9. ASSUME NEW i \in 1 .. Len(r) PROVE y.mem[y.head + i - 1] = r[i]
    <2>. DEFINE k == p + i - 1
    <2>1. k \in 0 .. x.size - 1 /\ k >= p /\ k < p + Len(r) /\ k - p + 1 = i
      BY <1>1, <1>3
    <2>. HIDE DEF k
    <2>2. m[k] = r[i]
      BY <1>5, <2>1
    <2>. QED BY <1>6, <2>2 DEF k
  <1>10. Readable(y) = r
    BY <1>3, <1>7, <1>8, <1>9, ReadableIs
  <1>. QED BY <1>2, <1>6, <1>7, <1>8, <1>10

(* initCap_ does not become smaller, or it is large. *)
CapOK(x, y) == y.initCap >= x.initCap \/ y.initCap >= kBufferOffset

(* ensureWritableBytes keeps the bytes and makes room. *)
LEMMA RoomGood ==
  ASSUME NEW x, Good(x), NEW len \in Nat, NEW y, y = ensureWritableBytes(x, len)
  PROVE  Good(y) /\ Readable(y) = Readable(x) /\ writableBytes(y) >= len /\ CapOK(x, y)
  <1>1. /\ x.head \in Nat /\ x.tail \in Nat /\ x.size \in Nat /\ x.initCap \in Nat
        /\ x.head <= x.tail /\ x.tail <= x.size /\ kBufferOffset \in Nat
        /\ readableBytes(x) = x.tail - x.head /\ writableBytes(x) = x.size - x.tail
        /\ readableBytes(x) \in Nat /\ writableBytes(x) \in Nat
    BY GoodFields, SizesAssumption
  <1>2. CASE writableBytes(x) > len
    <2>1. y = x
      BY <1>2 DEF ensureWritableBytes
    <2>. QED BY <1>1, <1>2, <2>1 DEF CapOK
  <1>3. CASE ~(writableBytes(x) > len) /\ x.head + writableBytes(x) >= len + kBufferOffset
    <2>1. y = Changed(x, kBufferOffset, kBufferOffset + readableBytes(x),
                      Copy(x.mem, kBufferOffset, Readable(x)))
      BY <1>3 DEF ensureWritableBytes, Changed, Good
    <2>2. kBufferOffset + readableBytes(x) <= x.size
          /\ x.size - (kBufferOffset + readableBytes(x)) >= len
      BY <1>1, <1>3
    <2>3. /\ Good(y) /\ Readable(y) = Readable(x) /\ y.initCap = x.initCap
          /\ writableBytes(y) = x.size - (kBufferOffset + readableBytes(x))
      BY <1>1, <2>1, <2>2, MoveGood, Zenon
    <2>. QED BY <1>1, <2>2, <2>3 DEF CapOK
  <1>4. CASE ~(writableBytes(x) > len) /\ ~(x.head + writableBytes(x) >= len + kBufferOffset)
    <2>1. PICK n : n = Larger(2 * x.size, kBufferOffset + readableBytes(x) + len)
      OBVIOUS
    <2>2. n \in Nat /\ n >= kBufferOffset + readableBytes(x) + len
      BY <1>1, <2>1 DEF Larger
    <2>3. PICK z : z = New(n)
      OBVIOUS
    <2>4. y = Write(z, Readable(x))
      BY <1>4, <2>1, <2>3 DEF ensureWritableBytes
    <2>5. Good(z) /\ Readable(z) = <<>> /\ z.initCap = n /\ writableBytes(z) = n
      BY <2>2, <2>3, NewGood, Zenon
    <2>6. PICK r : r = Readable(x)
      OBVIOUS
    <2>7. r \in Seq(Byte) /\ Len(r) = readableBytes(x)
      BY <2>6, ReadableFacts
    <2>8. Len(r) <= writableBytes(z) /\ n - Len(r) >= len
      BY <1>1, <2>2, <2>5, <2>7
    <2>9. /\ Good(y) /\ Readable(y) = Readable(z) \o r /\ y.initCap = z.initCap
          /\ writableBytes(y) = writableBytes(z) - Len(r)
      BY <2>4, <2>5, <2>6, <2>7, <2>8, WriteGood, Zenon
    <2>10. <<>> \o r = r
      BY <2>7
    <2>11. y.initCap >= kBufferOffset
      BY <1>1, <2>2, <2>5, <2>9
    <2>. QED BY <2>5, <2>6, <2>8, <2>9, <2>10, <2>11 DEF CapOK
  <1>. QED BY <1>2, <1>3, <1>4

LEMMA AppendGood ==
  ASSUME NEW x, Good(x), NEW s \in Seq(Byte), NEW y, y = append(x, s)
  PROVE  Good(y) /\ Readable(y) = Readable(x) \o s /\ CapOK(x, y)
  <1>1. Len(s) \in Nat
    OBVIOUS
  <1>2. PICK z : z = ensureWritableBytes(x, Len(s))
    OBVIOUS
  <1>3. Good(z) /\ Readable(z) = Readable(x) /\ writableBytes(z) >= Len(s) /\ CapOK(x, z)
    BY <1>1, <1>2, RoomGood, Zenon
  <1>4. Len(s) <= writableBytes(z)
    BY <1>1, <1>3, GoodFields
  <1>5. y = Write(z, s)
    BY <1>2 DEF append
  <1>6. Good(y) /\ Readable(y) = Readable(z) \o s /\ y.initCap = z.initCap
    BY <1>3, <1>4, <1>5, WriteGood, Zenon
  <1>. QED BY <1>3, <1>6 DEF CapOK

(* Bytes in front of those that are there: before head_, or from head_ on  *)
(* with the others moved up.                                               *)
InFront(y, s, x) ==
  /\ \A i \in 1 .. Len(s) : y.mem[y.head + i - 1] = s[i]
  /\ \A i \in 1 .. readableBytes(x) : y.mem[y.head + Len(s) + i - 1] = x.mem[x.head + i - 1]

LEMMA FrontMade ==
  ASSUME NEW x, Good(x), NEW s \in Seq(Byte),
         NEW y, Good(y), readableBytes(y) = Len(s) + readableBytes(x), InFront(y, s, x)
  PROVE  Readable(y) = s \o Readable(x)
  <1>1. /\ x.head \in Nat /\ y.head \in Nat /\ Len(s) \in Nat
        /\ readableBytes(x) \in Nat /\ readableBytes(y) \in Nat
    BY GoodFields
  <1>2. PICK r : r = Readable(x)
    OBVIOUS
  <1>3. PICK q : q = Readable(y)
    OBVIOUS
  <1>4. /\ r \in Seq(Byte) /\ Len(r) = readableBytes(x)
        /\ \A i \in 1 .. readableBytes(x) : r[i] = x.mem[x.head + i - 1]
    BY <1>2, ReadableFacts
  <1>5. /\ q \in Seq(Byte) /\ Len(q) = readableBytes(y)
        /\ \A i \in 1 .. readableBytes(y) : q[i] = y.mem[y.head + i - 1]
    BY <1>3, ReadableFacts
  <1>6. ASSUME NEW i \in 1 .. Len(s) PROVE q[i] = s[i]
    <2>1. i \in 1 .. readableBytes(y)
      BY <1>1
    <2>. QED BY <1>5, <2>1 DEF InFront
  <1>7. ASSUME NEW i \in 1 .. Len(r) PROVE q[Len(s) + i] = r[i]
    <2>0. i \in 1 .. readableBytes(x) /\ i \in Nat
      BY <1>4
    <2>1. /\ Len(s) + i \in 1 .. readableBytes(y) /\ i \in 1 .. readableBytes(x)
          /\ y.head + (Len(s) + i) - 1 = y.head + Len(s) + i - 1
      <3>1. PICK l \in Nat : l = Len(s)
        BY <1>1
      <3>2. PICK w \in Nat : w = readableBytes(x)
        BY <1>1
      <3>3. readableBytes(y) = l + w /\ i \in 1 .. w
        BY <2>0, <3>1, <3>2
      <3>4. l + i \in 1 .. l + w /\ y.head + (l + i) - 1 = y.head + l + i - 1
        BY <1>1, <2>0, <3>3
      <3>. QED BY <2>0, <3>1, <3>3, <3>4
    <2>2. q[Len(s) + i] = y.mem[y.head + Len(s) + i - 1]
      BY <1>5, <2>1
    <2>. QED BY <1>4, <2>1, <2>2 DEF InFront
  <1>8. s \o r = q
    BY <1>4, <1>5, <1>6, <1>7, ConcatIs
  <1>. QED BY <1>2, <1>3, <1>8, Zenon

LEMMA FrontGood ==
  ASSUME NEW x, Good(x), NEW s \in Seq(Byte), NEW y, y = addInFront(x, s)
  PROVE  Good(y) /\ Readable(y) = s \o Readable(x) /\ CapOK(x, y)
  <1>1. PICK h, t, n, l, w : h = x.head /\ t = x.tail /\ n = x.size /\ l = Len(s) /\ w = readableBytes(x)
    OBVIOUS
  <1>2. /\ h \in Nat /\ t \in Nat /\ n \in Nat /\ l \in Nat /\ w \in Nat
        /\ h <= t /\ t <= n /\ w = t - h /\ writableBytes(x) = n - t
        /\ x.mem \in [0 .. n - 1 -> Byte] /\ x.initCap \in Nat
    BY <1>1, GoodFields
  <1>3. CASE h >= l
    <2>1. PICK m : m = Copy(x.mem, h - l, s)
      OBVIOUS
    <2>2. y = Changed(x, h - l, t, m)
      BY <1>1, <1>3, <2>1 DEF addInFront, Changed, Good
    <2>3. h - l \in Nat /\ h - l <= t
      BY <1>2, <1>3
    <2>4. IsCopy(m, n, x.mem, h - l, s)
      BY <1>2, <2>1, <2>3, CopyFacts, Zenon
    <2>5. /\ m \in [0 .. n - 1 -> Byte]
          /\ \A i \in 0 .. n - 1 : i >= h - l /\ i < (h - l) + l => m[i] = s[i - (h - l) + 1]
          /\ \A i \in 0 .. n - 1 : ~(i >= h - l /\ i < (h - l) + l) => m[i] = x.mem[i]
      BY <1>1, <2>4, Zenon DEF IsCopy
    <2>6. Good(y)
      BY <1>1, <1>2, <2>2, <2>3, <2>5, ChangeGood, Zenon
    <2>7. y.head = h - l /\ y.tail = t /\ y.mem = m /\ y.initCap = x.initCap
      BY <2>2 DEF Changed
    <2>8. readableBytes(y) = l + w
      BY <1>2, <1>3, <2>7 DEF readableBytes
    <2>9. ASSUME NEW i \in 1 .. l PROVE m[(h - l) + i - 1] = s[i]
      <3>1. PICK k : k = (h - l) + i - 1
        OBVIOUS
      <3>2. k \in 0 .. n - 1 /\ k >= h - l /\ k < (h - l) + l /\ k - (h - l) + 1 = i
        BY <1>2, <1>3, <3>1
      <3>3. m[k] = s[i]
        BY <2>5, <3>2, Zenon
      <3>. QED BY <3>1, <3>3, Zenon
    <2>10. ASSUME NEW i \in 1 .. w PROVE m[(h - l) + l + i - 1] = x.mem[h + i - 1]
      <3>1. PICK k : k = (h - l) + l + i - 1
        OBVIOUS
      <3>2. k \in 0 .. n - 1 /\ k = h + i - 1 /\ ~(k < (h - l) + l)
        BY <1>2, <1>3, <3>1
      <3>3. m[k] = x.mem[k]
        BY <2>5, <3>2, Zenon
      <3>. QED BY <3>1, <3>2, <3>3, Zenon
    <2>11. Readable(y) = s \o Readable(x)
      <3>1. InFront(y, s, x)
        BY <1>1, <2>7, <2>9, <2>10, Zenon DEF InFront
      <3>. QED BY <1>1, <2>6, <2>8, <3>1, FrontMade, Zenon
    <2>. QED BY <1>2, <2>6, <2>7, <2>11 DEF CapOK
  <1>4. CASE ~(h >= l) /\ l <= n - t
    <2>1. PICK r : r = Readable(x)
      OBVIOUS
    <2>2. /\ r \in Seq(Byte) /\ Len(r) = w
          /\ \A i \in 1 .. w : r[i] = x.mem[h + i - 1]
      BY <1>1, <2>1, ReadableFacts
    <2>3. PICK c : c = Copy(x.mem, h + l, r)
      OBVIOUS
    <2>4. PICK m : m = Copy(c, h, s)
      OBVIOUS
    <2>5. y = Changed(x, h, t + l, m)
      BY <1>1, <1>2, <1>4, <2>1, <2>3, <2>4 DEF addInFront, Changed, Good
    <2>6. h + l \in Nat /\ t + l \in Nat /\ h <= t + l /\ t + l <= n
      BY <1>2, <1>4
    <2>7. IsCopy(c, n, x.mem, h + l, r)
      BY <1>2, <2>2, <2>3, <2>6, CopyFacts, Zenon
    <2>8. /\ c \in [0 .. n - 1 -> Byte]
          /\ \A i \in 0 .. n - 1 : i >= h + l /\ i < (h + l) + w => c[i] = r[i - (h + l) + 1]
      BY <2>2, <2>7, Zenon DEF IsCopy
    <2>9. IsCopy(m, n, c, h, s)
      BY <1>2, <2>4, <2>8, CopyFacts, Zenon
    <2>10. /\ m \in [0 .. n - 1 -> Byte]
           /\ \A i \in 0 .. n - 1 : i >= h /\ i < h + l => m[i] = s[i - h + 1]
           /\ \A i \in 0 .. n - 1 : ~(i >= h /\ i < h + l) => m[i] = c[i]
      BY <1>1, <2>9, Zenon DEF IsCopy
    <2>11. Good(y)
      BY <1>1, <1>2, <2>5, <2>6, <2>10, ChangeGood, Zenon
    <2>12. y.head = h /\ y.tail = t + l /\ y.mem = m /\ y.initCap = x.initCap
      BY <2>5 DEF Changed
    <2>13. readableBytes(y) = l + w
      BY <1>2, <2>12 DEF readableBytes
    <2>14. ASSUME NEW i \in 1 .. l PROVE m[h + i - 1] = s[i]
      <3>1. PICK k : k = h + i - 1
        OBVIOUS
      <3>2. k \in 0 .. n - 1 /\ k >= h /\ k < h + l /\ k - h + 1 = i
        BY <1>2, <1>4, <3>1
      <3>3. m[k] = s[i]
        BY <2>10, <3>2, Zenon
      <3>. QED BY <3>1, <3>3, Zenon
    <2>15. ASSUME NEW i \in 1 .. w PROVE m[h + l + i - 1] = x.mem[h + i - 1]
      <3>1. PICK k : k = h + l + i - 1
        OBVIOUS
      <3>2. /\ k \in 0 .. n - 1 /\ ~(k < h + l)
            /\ k >= h + l /\ k < (h + l) + w /\ k - (h + l) + 1 = i
        BY <1>2, <1>4, <3>1
      <3>3. m[k] = c[k] /\ c[k] = r[i]
        BY <2>8, <2>10, <3>2, Zenon
      <3>. QED BY <2>2, <3>1, <3>3, Zenon
    <2>16. Readable(y) = s \o Readable(x)
      <3>1. InFront(y, s, x)
        BY <1>1, <2>12, <2>14, <2>15, Zenon DEF InFront
      <3>. QED BY <1>1, <2>11, <2>13, <3>1, FrontMade, Zenon
    <2>. QED BY <1>2, <2>11, <2>12, <2>16 DEF CapOK
  <1>5. CASE ~(h >= l) /\ ~(l <= n - t)
    <2>1. PICK k : k = Larger(x.initCap, l + w)
      OBVIOUS
    <2>2. k \in Nat /\ (k = x.initCap \/ k >= l)
      BY <1>2, <2>1 DEF Larger
    <2>3. PICK z : z = New(k)
      OBVIOUS
    <2>4. Good(z) /\ Readable(z) = <<>> /\ z.initCap = k
      BY <2>2, <2>3, NewGood, Zenon
    <2>5. PICK v : v = append(z, s)
      OBVIOUS
    <2>6. Good(v) /\ Readable(v) = <<>> \o s /\ CapOK(z, v)
      BY <2>4, <2>5, AppendGood, Zenon
    <2>7. Readable(x) \in Seq(Byte)
      BY ReadableFacts
    <2>8. y = append(v, Readable(x))
      BY <1>1, <1>2, <1>5, <2>1, <2>3, <2>5 DEF addInFront
    <2>9. Good(y) /\ Readable(y) = Readable(v) \o Readable(x) /\ CapOK(v, y)
      BY <2>6, <2>7, <2>8, AppendGood, Zenon
    <2>10. <<>> \o s = s
      OBVIOUS
    <2>11. CapOK(x, y)
      <3>1. v.initCap \in Nat /\ y.initCap \in Nat /\ kBufferOffset \in Nat /\ k >= x.initCap
        BY <1>2, <2>1, <2>6, <2>9, GoodFields, SizesAssumption DEF Larger
      <3>. QED BY <1>2, <2>2, <2>4, <2>6, <2>9, <3>1 DEF CapOK
    <2>. QED BY <2>6, <2>9, <2>10, <2>11
  <1>. QED BY <1>3, <1>4, <1>5

(* retrieveAll leaves an empty buffer, unless it shrinks the memory to     *)
(* fewer than kBufferOffset bytes, which takes a small initCap_.           *)
LEMMA AllGood ==
  ASSUME NEW x, Good(x), NEW y, y = retrieveAll(x)
  PROVE  /\ y.head \in Nat /\ y.size \in Nat /\ y.initCap = x.initCap
         /\ y.head <= y.size => Good(y) /\ Readable(y) = <<>>
         /\ x.initCap >= kBufferOffset => y.head <= y.size
  <1>1. /\ x.size \in Nat /\ x.initCap \in Nat /\ kBufferOffset \in Nat /\ kBufferOffset <= x.size
        /\ x.mem \in [0 .. x.size - 1 -> Byte]
    BY GoodFields, SizesAssumption
  <1>2. PICK n : n = IF x.size > 2 * x.initCap THEN x.initCap ELSE x.size
    OBVIOUS
  <1>3. n \in Nat /\ n <= x.size /\ (x.initCap >= kBufferOffset => kBufferOffset <= n)
    BY <1>1, <1>2
  <1>4. PICK m : m = [i \in 0 .. n - 1 |-> x.mem[i]]
    OBVIOUS
  <1>5. m \in [0 .. n - 1 -> Byte]
    BY <1>1, <1>3, <1>4
  <1>6. y = [head |-> kBufferOffset, tail |-> kBufferOffset, initCap |-> x.initCap,
             size |-> n, mem |-> m]
    BY <1>2, <1>4 DEF retrieveAll, Good
  <1>7. ASSUME kBufferOffset <= n PROVE Good(y) /\ Readable(y) = <<>>
    <2>1. Good(y)
      BY <1>1, <1>3, <1>5, <1>6, <1>7 DEF Good
    <2>2. readableBytes(y) = 0
      BY <1>1, <1>6 DEF readableBytes
    <2>3. Readable(y) \in Seq(Byte) /\ Len(Readable(y)) = 0
      BY <2>1, <2>2, ReadableFacts
    <2>. QED BY <2>1, <2>3
  <1>. QED BY <1>1, <1>3, <1>6, <1>7

(* retrieve takes the first bytes, or all when there are not more. *)
LEMMA RetrieveGood ==
  ASSUME NEW x, Good(x), NEW n \in Nat, NEW y, y = retrieve(x, n)
  PROVE  /\ y.head \in Nat /\ y.size \in Nat /\ y.initCap = x.initCap
         /\ y.head <= y.size =>
              /\ Good(y)
              /\ Readable(y) = IF n >= readableBytes(x) THEN <<>> ELSE Drop(Readable(x), n)
         /\ x.initCap >= kBufferOffset => y.head <= y.size
  <1>1. CASE n >= readableBytes(x)
    <2>1. y = retrieveAll(x)
      BY <1>1 DEF retrieve
    <2>. QED BY <1>1, <2>1, AllGood
  <1>2. CASE ~(n >= readableBytes(x))
    <2>1. PICK h, t, w : h = x.head /\ t = x.tail /\ w = readableBytes(x)
      OBVIOUS
    <2>2. /\ h \in Nat /\ t \in Nat /\ w \in Nat /\ x.size \in Nat
          /\ h <= t /\ t <= x.size /\ w = t - h /\ x.mem \in [0 .. x.size - 1 -> Byte]
      BY <2>1, GoodFields
    <2>3. y = Changed(x, h + n, t, x.mem)
      BY <1>2, <2>1 DEF retrieve, Changed, Good
    <2>4. h + n \in Nat /\ h + n <= t /\ h + n <= x.size /\ n <= w
      BY <1>2, <2>1, <2>2
    <2>5. Good(y)
      BY <2>2, <2>3, <2>4, ChangeGood, Zenon
    <2>6. /\ y.head = h + n /\ y.tail = t /\ y.mem = x.mem /\ y.initCap = x.initCap
          /\ y.size = x.size
      BY <2>3 DEF Changed
    <2>7. readableBytes(y) = w - n
      BY <2>2, <2>4, <2>6 DEF readableBytes
    <2>8. PICK r : r = Readable(x)
      OBVIOUS
    <2>9. /\ r \in Seq(Byte) /\ Len(r) = w
          /\ \A i \in 1 .. w : r[i] = x.mem[h + i - 1]
      BY <2>1, <2>8, ReadableFacts
    <2>10. PICK d : d = Drop(r, n)
      OBVIOUS
    <2>11. n <= Len(r)
      BY <2>2, <2>4, <2>9
    <2>12. /\ d \in Seq(Byte) /\ Len(d) = w - n
           /\ \A i \in 1 .. w - n : d[i] = r[n + i]
      BY <2>9, <2>10, <2>11, DropFacts
    <2>13. ASSUME NEW i \in 1 .. w - n PROVE y.mem[y.head + i - 1] = d[i]
      <3>1. n + i \in 1 .. w /\ h + (n + i) - 1 = h + n + i - 1
        BY <2>2, <2>4
      <3>2. d[i] = r[n + i]
        BY <2>12
      <3>3. r[n + i] = x.mem[h + (n + i) - 1]
        BY <2>9, <3>1
      <3>. QED BY <2>6, <3>1, <3>2, <3>3
    <2>14. Readable(y) = d
      <3>1. \A i \in 1 .. Len(d) : y.mem[y.head + i - 1] = d[i]
        BY <2>12, <2>13
      <3>. QED BY <2>5, <2>7, <2>12, <3>1, ReadableIs
    <2>15. Readable(y) = IF n >= readableBytes(x) THEN <<>> ELSE Drop(Readable(x), n)
      BY <1>2, <2>8, <2>10, <2>14
    <2>. QED BY <2>2, <2>4, <2>5, <2>6, <2>15
  <1>. QED BY <1>1, <1>2

(* unwrite() takes bytes back from the end. *)
LEMMA UnwriteGood ==
  ASSUME NEW x, Good(x), NEW n \in Nat, n <= readableBytes(x),
         NEW y, y = Changed(x, x.head, x.tail - n, x.mem)
  PROVE  /\ Good(y) /\ y.initCap = x.initCap
         /\ Readable(y) = SubSeq(Readable(x), 1, readableBytes(x) - n)
  <1>1. PICK h, t, w : h = x.head /\ t = x.tail /\ w = readableBytes(x)
    OBVIOUS
  <1>2. /\ h \in Nat /\ t \in Nat /\ w \in Nat /\ x.size \in Nat
        /\ h <= t /\ t <= x.size /\ w = t - h /\ x.mem \in [0 .. x.size - 1 -> Byte]
    BY <1>1, GoodFields
  <1>3. y = Changed(x, h, t - n, x.mem)
    BY <1>1
  <1>4. t - n \in Nat /\ h <= t - n /\ t - n <= x.size /\ w - n \in Nat /\ w - n <= w
    BY <1>1, <1>2
  <1>5. Good(y)
    <2>1. PICK e : e = t - n
      OBVIOUS
    <2>2. y = Changed(x, h, e, x.mem) /\ e \in Nat /\ h <= e /\ e <= x.size
      BY <1>3, <1>4, <2>1
    <2>. QED BY <1>2, <2>2, ChangeGood, Zenon
  <1>6. y.head = h /\ y.tail = t - n /\ y.mem = x.mem /\ y.initCap = x.initCap
    BY <1>3 DEF Changed
  <1>7. readableBytes(y) = w - n
    BY <1>2, <1>4, <1>6 DEF readableBytes
  <1>8. PICK r : r = Readable(x)
    OBVIOUS
  <1>9. /\ r \in Seq(Byte) /\ Len(r) = w
        /\ \A i \in 1 .. w : r[i] = x.mem[h + i - 1]
    BY <1>1, <1>8, ReadableFacts
  <1>10. PICK k : k = w - n
    OBVIOUS
  <1>11. PICK d : d = SubSeq(r, 1, k)
    OBVIOUS
  <1>12. /\ d \in Seq(Byte) /\ Len(d) = k
         /\ \A i \in 1 .. k : d[i] = r[i]
    <2>1. k \in Nat /\ k <= Len(r) /\ r \in Seq(Byte)
      BY <1>4, <1>9, <1>10
    <2>. QED BY <1>11, <2>1, DropFacts
  <1>13. ASSUME NEW i \in 1 .. k PROVE y.mem[y.head + i - 1] = d[i]
    <2>1. i \in 1 .. w
      BY <1>2, <1>4, <1>10
    <2>. QED BY <1>6, <1>9, <1>12, <2>1
  <1>14. Readable(y) = d
    <2>1. \A i \in 1 .. Len(d) : y.mem[y.head + i - 1] = d[i]
      BY <1>12, <1>13
    <2>. QED BY <1>5, <1>7, <1>10, <1>12, <2>1, ReadableIs
  <1>. QED BY <1>1, <1>5, <1>6, <1>8, <1>10, <1>11, <1>14

(* Nothing that can be read is forgotten. *)
LEMMA ForgetGood ==
  ASSUME NEW x, Good(x), NEW y, y = Forget(x)
  PROVE  Good(y) /\ Readable(y) = Readable(x) /\ y.initCap = x.initCap
  <1>1. /\ x.head \in Nat /\ x.tail \in Nat /\ x.size \in Nat
        /\ x.head <= x.tail /\ x.tail <= x.size /\ readableBytes(x) = x.tail - x.head
        /\ x.mem \in [0 .. x.size - 1 -> Byte] /\ DOMAIN x.mem = 0 .. x.size - 1 /\ CR \in Byte
    BY GoodFields, BytesAssumption
  <1>2. PICK m : m = [i \in 0 .. x.size - 1 |-> IF i >= x.head /\ i < x.tail THEN x.mem[i] ELSE CR]
    OBVIOUS
  <1>3. /\ m \in [0 .. x.size - 1 -> Byte]
        /\ \A i \in 0 .. x.size - 1 : i >= x.head /\ i < x.tail => m[i] = x.mem[i]
    BY <1>1, <1>2
  <1>4. y = Changed(x, x.head, x.tail, m)
    BY <1>1, <1>2 DEF Forget, Changed, Good
  <1>5. Good(y)
    BY <1>1, <1>3, <1>4, ChangeGood, Zenon
  <1>6. y.head = x.head /\ y.tail = x.tail /\ y.mem = m /\ y.initCap = x.initCap
    BY <1>4 DEF Changed
  <1>7. readableBytes(y) = readableBytes(x)
    BY <1>6 DEF readableBytes
  <1>8. PICK r : r = Readable(x)
    OBVIOUS
  <1>9. /\ r \in Seq(Byte) /\ Len(r) = readableBytes(x)
        /\ \A i \in 1 .. readableBytes(x) : r[i] = x.mem[x.head + i - 1]
    BY <1>8, ReadableFacts
  <1>10. ASSUME NEW i \in 1 .. Len(r) PROVE y.mem[y.head + i - 1] = r[i]
    <2>1. PICK k : k = x.head + i - 1
      OBVIOUS
    <2>2. i \in 1 .. readableBytes(x)
      BY <1>9
    <2>3. k \in 0 .. x.size - 1 /\ k >= x.head /\ k < x.tail
      BY <1>1, <2>1, <2>2
    <2>4. m[k] = x.mem[k]
      BY <1>3, <2>3, Zenon
    <2>. QED BY <1>6, <1>9, <2>1, <2>2, <2>4
  <1>11. Readable(y) = r
    BY <1>5, <1>7, <1>9, <1>10, ReadableIs
  <1>. QED BY <1>5, <1>6, <1>8, <1>11

-----------------------------------------------------------------------------
(* The invariant *)

(* An operation that makes the buffer x, in which s can be read. *)
LEMMA ResultInv ==
  ASSUME Inv, NEW x, NEW s, ~broken,
         buf' = Forget(x), bytes' = s, broken' = (x.head > x.size), small' = small,
         x.head \in Nat, x.size \in Nat,
         x.head <= x.size => Good(x) /\ Readable(x) = s,
         buf.initCap >= kBufferOffset => x.initCap >= kBufferOffset /\ x.head <= x.size
  PROVE  Inv'
  <1>0. /\ broken' => x.head > x.size
        /\ ~broken' => ~(x.head > x.size)
    BY Zenon
  <1>1. Flags'
    BY DEF Inv, Flags
  <1>2. ASSUME ~broken' PROVE Good(buf)' /\ (bytes \in Seq(Byte))' /\ (Readable(buf) = bytes)'
                              /\ buf'.initCap = x.initCap
    <2>1. x.head <= x.size
      BY <1>0, <1>2
    <2>2. PICK y : y = Forget(x)
      OBVIOUS
    <2>3. Good(y) /\ Readable(y) = s /\ y.initCap = x.initCap
      BY <2>1, <2>2, ForgetGood, Zenon
    <2>4. s \in Seq(Byte)
      BY <2>1, ReadableFacts, Zenon
    <2>5. Good(buf)' /\ Readable(buf)' = s
      BY <2>2, <2>3 DEF Good, Readable, readableBytes
    <2>. QED BY <2>2, <2>3, <2>4, <2>5
  <1>3. ~small => x.initCap >= kBufferOffset /\ x.head <= x.size
    BY DEF Inv, CapKept
  <1>4. OnlySmall'
    <2>1. broken' => small
      BY <1>0, <1>3
    <2>. QED BY <2>1 DEF OnlySmall
  <1>5. CapKept'
    <2>1. ~broken' /\ ~small => buf'.initCap >= kBufferOffset
      BY <1>2, <1>3
    <2>. QED BY <2>1 DEF CapKept
  <1>. QED BY <1>1, <1>2, <1>4, <1>5 DEF Inv, Usable, Same

(* The most common case: the buffer stays usable. *)
LEMMA KeptInv ==
  ASSUME Inv, NEW x, NEW s, ~broken,
         buf' = Forget(x), bytes' = s, broken' = (x.head > x.size), small' = small,
         Good(x), Readable(x) = s, CapOK(buf, x)
  PROVE  Inv'
  <1>1. x.head \in Nat /\ x.size \in Nat /\ x.initCap \in Nat /\ x.head <= x.size
    BY GoodFields
  <1>2. buf.initCap \in Nat /\ kBufferOffset \in Nat
    BY GoodFields, SizesAssumption DEF Inv, Usable
  <1>3. buf.initCap >= kBufferOffset => x.initCap >= kBufferOffset
    BY <1>1, <1>2 DEF CapOK
  <1>. QED BY <1>1, <1>3, ResultInv

(* What Inv says of a buffer that can be used. *)
LEMMA Use ==
  ASSUME Inv, ~broken
  PROVE  /\ Good(buf) /\ Readable(buf) = bytes /\ bytes \in Seq(Byte)
         /\ Len(bytes) \in Nat /\ readableBytes(buf) = Len(bytes)
         /\ writableBytes(buf) \in Nat /\ buf.initCap \in Nat
  <1>1. Good(buf) /\ Readable(buf) = bytes /\ bytes \in Seq(Byte)
    BY DEF Inv, Usable, Same
  <1>. QED BY <1>1, ReadableFacts, GoodFields

LEMMA InitInv == Init => Inv
  <1>. SUFFICES ASSUME Init PROVE Inv
    OBVIOUS
  <1>1. PICK len \in InitLens : /\ buf = New(len) /\ bytes = <<>>
                                /\ small = (len < kBufferOffset) /\ broken = FALSE
    BY DEF Init
  <1>2. len \in Nat /\ kBufferOffset \in Nat
    BY <1>1, SizesAssumption
  <1>3. Good(buf) /\ Readable(buf) = <<>> /\ buf.initCap = len
    BY <1>1, <1>2, NewGood
  <1>4. small \in BOOLEAN /\ (~small => len >= kBufferOffset)
    <2>1. ~small => ~(len < kBufferOffset)
      BY <1>1, Zenon
    <2>. QED BY <1>1, <1>2, <2>1
  <1>5. Usable /\ CapKept
    BY <1>3, <1>4 DEF Usable, CapKept
  <1>6. Same
    BY <1>1, <1>3 DEF Same
  <1>. QED BY <1>1, <1>4, <1>5, <1>6 DEF Inv, Flags, OnlySmall

LEMMA AppendInv == ASSUME Inv, Append2Buffer PROVE Inv'
  <1>1. PICK s \in Chunks : Result(append(buf, s), bytes \o s)
    BY DEF Append2Buffer
  <1>2. ~broken /\ s \in Seq(Byte)
    BY <1>1, BytesAssumption DEF Result
  <1>3. PICK x : x = append(buf, s)
    OBVIOUS
  <1>4. PICK t : t = bytes \o s
    OBVIOUS
  <1>5. buf' = Forget(x) /\ bytes' = t /\ broken' = (x.head > x.size) /\ small' = small
    BY <1>1, <1>3, <1>4 DEF Result
  <1>6. Good(x) /\ Readable(x) = t /\ CapOK(buf, x)
    BY <1>2, <1>3, <1>4, Use, AppendGood
  <1>. QED BY <1>2, <1>5, <1>6, KeptInv

LEMMA FrontInv == ASSUME Inv, AddInFront PROVE Inv'
  <1>1. PICK s \in Chunks : Result(addInFront(buf, s), s \o bytes)
    BY DEF AddInFront
  <1>2. ~broken /\ s \in Seq(Byte)
    BY <1>1, BytesAssumption DEF Result
  <1>3. PICK x : x = addInFront(buf, s)
    OBVIOUS
  <1>4. PICK t : t = s \o bytes
    OBVIOUS
  <1>5. buf' = Forget(x) /\ bytes' = t /\ broken' = (x.head > x.size) /\ small' = small
    BY <1>1, <1>3, <1>4 DEF Result
  <1>6. Good(x) /\ Readable(x) = t /\ CapOK(buf, x)
    BY <1>2, <1>3, <1>4, Use, FrontGood
  <1>. QED BY <1>2, <1>5, <1>6, KeptInv

(* retrieve(n) is n bytes from the front, or all of them. *)
LEMMA TakenInv ==
  ASSUME Inv, NEW n \in Nat, NEW s, Result(retrieve(buf, n), s),
         s = IF n >= Len(bytes) THEN <<>> ELSE Drop(bytes, n)
  PROVE  Inv'
  <1>1. ~broken
    BY DEF Result
  <1>2. PICK x : x = retrieve(buf, n)
    OBVIOUS
  <1>3. buf' = Forget(x) /\ bytes' = s /\ broken' = (x.head > x.size) /\ small' = small
    BY <1>2 DEF Result
  <1>4. /\ x.head \in Nat /\ x.size \in Nat /\ x.initCap = buf.initCap
        /\ x.head <= x.size => Good(x) /\ Readable(x) = s
        /\ buf.initCap >= kBufferOffset => x.head <= x.size
    BY <1>1, <1>2, Use, RetrieveGood
  <1>. QED BY <1>1, <1>3, <1>4, ResultInv

(* All bytes dropped are none. *)
LEMMA DropAll ==
  ASSUME NEW S, NEW s \in Seq(S)
  PROVE  Drop(s, Len(s)) = <<>>
  <1>1. Len(s) \in Nat /\ Len(s) <= Len(s)
    OBVIOUS
  <1>2. Drop(s, Len(s)) \in Seq(S) /\ Len(Drop(s, Len(s))) = Len(s) - Len(s)
    BY <1>1, DropFacts
  <1>. QED BY <1>1, <1>2

LEMMA RetrieveInv == ASSUME Inv, Retrieve PROVE Inv'
  <1>1. PICK n \in 1 .. MaxBytes + 1 :
          Result(retrieve(buf, n), IF n > Len(bytes) THEN <<>> ELSE Drop(bytes, n))
    BY DEF Retrieve
  <1>2. ~broken /\ n \in Nat
    BY <1>1, SizesAssumption DEF Result
  <1>3. PICK s : s = IF n > Len(bytes) THEN <<>> ELSE Drop(bytes, n)
    OBVIOUS
  <1>4. s = IF n >= Len(bytes) THEN <<>> ELSE Drop(bytes, n)
    <2>1. CASE n = Len(bytes)
      <3>1. Drop(bytes, Len(bytes)) = <<>>
        BY <1>2, Use, DropAll
      <3>. QED BY <1>2, <1>3, <2>1, <3>1, Use
    <2>2. CASE n # Len(bytes)
      BY <1>2, <1>3, <2>2, Use
    <2>. QED BY <2>1, <2>2
  <1>5. Result(retrieve(buf, n), s)
    BY <1>1, <1>3 DEF Result
  <1>. QED BY <1>2, <1>4, <1>5, TakenInv

(* Where n <= Len(bytes), dropping n bytes leaves what retrieve leaves. *)
LEMMA FirstInv ==
  ASSUME Inv, NEW n \in Nat, n <= Len(bytes), Result(retrieve(buf, n), Drop(bytes, n))
  PROVE  Inv'
  <1>1. ~broken
    BY DEF Result
  <1>2. PICK s : s = Drop(bytes, n)
    OBVIOUS
  <1>3. s = IF n >= Len(bytes) THEN <<>> ELSE Drop(bytes, n)
    <2>1. CASE n = Len(bytes)
      <3>1. Drop(bytes, Len(bytes)) = <<>>
        BY <1>1, Use, DropAll
      <3>. QED BY <1>1, <1>2, <2>1, <3>1, Use
    <2>2. CASE n # Len(bytes)
      BY <1>1, <1>2, <2>2, Use
    <2>. QED BY <2>1, <2>2
  <1>4. Result(retrieve(buf, n), s)
    BY <1>2 DEF Result
  <1>. QED BY <1>3, <1>4, TakenInv

LEMMA ReadIntInv == ASSUME Inv, ReadInt PROVE Inv'
  <1>1. PICK n \in {1, 2} : n <= Len(bytes) /\ Result(retrieve(buf, n), Drop(bytes, n))
    BY DEF ReadInt
  <1>2. n \in Nat
    BY <1>1
  <1>. QED BY <1>1, <1>2, FirstInv

LEMMA RetrieveAllInv == ASSUME Inv, RetrieveAll PROVE Inv'
  <1>1. ~broken
    BY DEF RetrieveAll, Result
  <1>2. PICK x : x = retrieveAll(buf)
    OBVIOUS
  <1>3. buf' = Forget(x) /\ bytes' = <<>> /\ broken' = (x.head > x.size) /\ small' = small
    BY <1>2 DEF RetrieveAll, Result
  <1>4. /\ x.head \in Nat /\ x.size \in Nat /\ x.initCap = buf.initCap
        /\ x.head <= x.size => Good(x) /\ Readable(x) = <<>>
        /\ buf.initCap >= kBufferOffset => x.head <= x.size
    BY <1>1, <1>2, Use, AllGood
  <1>. QED BY <1>1, <1>3, <1>4, ResultInv

(* A set of natural numbers that is not empty has a least element. *)
LEMMA LeastElement ==
  ASSUME NEW T, T \subseteq Nat, T # {}
  PROVE  \E x \in T : \A y \in T : x <= y
  <1>1. PICK x \in T : \A y \in T : ~(<<y, x>> \in OpToRel(<, Nat))
    BY WFMin, NatLessThanWellFounded
  <1>2. ASSUME NEW y \in T PROVE x <= y
    <2>1. ~(y < x)
      BY <1>1 DEF OpToRel
    <2>. QED BY <2>1
  <1>. QED BY <1>2

LEMMA UntilInv == ASSUME Inv, RetrieveUntil PROVE Inv'
  <1>1. PICK at : at = findCRLF(Readable(buf))
    OBVIOUS
  <1>2. PICK first : first = CHOOSE i \in at : \A j \in at : i <= j
    OBVIOUS
  <1>3. at # {} /\ Result(retrieve(buf, first), Drop(bytes, first))
    BY <1>1, <1>2 DEF RetrieveUntil
  <1>4. ~broken
    BY <1>3 DEF Result
  <1>5. \A i \in at : i \in Nat /\ i <= Len(bytes)
    BY <1>1, <1>4, Use DEF findCRLF
  <1>6. \E i \in at : \A j \in at : i <= j
    BY <1>3, <1>5, LeastElement
  <1>7. first \in at
    BY <1>2, <1>6
  <1>. QED BY <1>3, <1>5, <1>7, FirstInv

LEMMA EnsureInv == ASSUME Inv, EnsureWritableBytes PROVE Inv'
  <1>1. PICK n \in 1 .. MaxBytes : Result(ensureWritableBytes(buf, n), bytes)
    BY DEF EnsureWritableBytes
  <1>2. ~broken /\ n \in Nat
    BY <1>1, SizesAssumption DEF Result
  <1>3. PICK x : x = ensureWritableBytes(buf, n)
    OBVIOUS
  <1>4. PICK t : t = bytes
    OBVIOUS
  <1>5. buf' = Forget(x) /\ bytes' = t /\ broken' = (x.head > x.size) /\ small' = small
    BY <1>1, <1>3, <1>4 DEF Result
  <1>6. Good(x) /\ Readable(x) = t /\ CapOK(buf, x)
    BY <1>2, <1>3, <1>4, Use, RoomGood
  <1>. QED BY <1>2, <1>5, <1>6, KeptInv

(* Bytes that fit. *)
LEMMA WriteFits ==
  ASSUME Inv, ~broken, NEW s \in Seq(Byte), Len(s) <= writableBytes(buf), NEW x, x = Write(buf, s)
  PROVE  Good(x) /\ Readable(x) = bytes \o s /\ x.initCap = buf.initCap /\ CapOK(buf, x)
  <1>1. Good(buf) /\ Readable(buf) = bytes /\ buf.initCap \in Nat
    BY Use
  <1>2. Good(x) /\ Readable(x) = Readable(buf) \o s /\ x.initCap = buf.initCap
    BY <1>1, WriteGood, Zenon
  <1>3. CapOK(buf, x)
    BY <1>1, <1>2 DEF CapOK
  <1>. QED BY <1>1, <1>2, <1>3

LEMMA HasWrittenInv == ASSUME Inv, HasWritten PROVE Inv'
  <1>1. PICK s \in Chunks : Len(s) <= writableBytes(buf) /\ Result(Write(buf, s), bytes \o s)
    BY DEF HasWritten
  <1>2. ~broken /\ s \in Seq(Byte)
    BY <1>1, BytesAssumption DEF Result
  <1>3. PICK x : x = Write(buf, s)
    OBVIOUS
  <1>4. PICK t : t = bytes \o s
    OBVIOUS
  <1>5. buf' = Forget(x) /\ bytes' = t /\ broken' = (x.head > x.size) /\ small' = small
    BY <1>1, <1>3, <1>4 DEF Result
  <1>6. Good(x) /\ Readable(x) = t /\ CapOK(buf, x)
    BY <1>1, <1>2, <1>3, <1>4, WriteFits
  <1>. QED BY <1>2, <1>5, <1>6, KeptInv

LEMMA UnwriteInv == ASSUME Inv, Unwrite PROVE Inv'
  <1>1. PICK n \in 1 .. Len(bytes) :
          Result([buf EXCEPT !.tail = @ - n], SubSeq(bytes, 1, Len(bytes) - n))
    BY DEF Unwrite
  <1>2. ~broken
    BY <1>1 DEF Result
  <1>3. n \in Nat /\ n <= Len(bytes)
    BY <1>1, <1>2, Use
  <1>4. PICK x : x = [buf EXCEPT !.tail = @ - n]
    OBVIOUS
  <1>5. PICK t : t = SubSeq(bytes, 1, Len(bytes) - n)
    OBVIOUS
  <1>6. buf' = Forget(x) /\ bytes' = t /\ broken' = (x.head > x.size) /\ small' = small
    BY <1>1, <1>4, <1>5 DEF Result
  <1>7. x = Changed(buf, buf.head, buf.tail - n, buf.mem)
    BY <1>2, <1>4, Use DEF Changed, Good
  <1>8. Good(x) /\ Readable(x) = t /\ x.initCap = buf.initCap
    BY <1>2, <1>3, <1>5, <1>7, Use, UnwriteGood
  <1>9. CapOK(buf, x)
    BY <1>2, <1>8, Use DEF CapOK
  <1>. QED BY <1>2, <1>6, <1>8, <1>9, KeptInv

LEMMA ReadFdInv == ASSUME Inv, ReadFd PROVE Inv'
  <1>1. PICK s \in Chunks :
          IF Len(s) <= writableBytes(buf) THEN Result(Write(buf, s), bytes \o s)
          ELSE Result(append(Write(buf, SubSeq(s, 1, writableBytes(buf))),
                             Drop(s, writableBytes(buf))), bytes \o s)
    BY DEF ReadFd
  <1>2. ~broken
    BY <1>1 DEF Result
  <1>3. s \in Seq(Byte) /\ Len(s) \in Nat
    BY BytesAssumption
  <1>4. PICK t : t = bytes \o s
    OBVIOUS
  <1>5. CASE Len(s) <= writableBytes(buf)
    <2>1. PICK x : x = Write(buf, s)
      OBVIOUS
    <2>2. buf' = Forget(x) /\ bytes' = t /\ broken' = (x.head > x.size) /\ small' = small
      BY <1>1, <1>4, <1>5, <2>1 DEF Result
    <2>3. Good(x) /\ Readable(x) = t /\ CapOK(buf, x)
      BY <1>2, <1>3, <1>4, <1>5, <2>1, WriteFits
    <2>. QED BY <1>2, <2>2, <2>3, KeptInv
  <1>6. CASE ~(Len(s) <= writableBytes(buf))
    <2>1. PICK w : w = writableBytes(buf)
      OBVIOUS
    <2>2. w \in Nat /\ w <= Len(s)
      BY <1>2, <1>3, <1>6, <2>1, Use
    <2>3. PICK f : f = SubSeq(s, 1, w)
      OBVIOUS
    <2>4. PICK r : r = Drop(s, w)
      OBVIOUS
    <2>5. f \in Seq(Byte) /\ Len(f) = w /\ r \in Seq(Byte) /\ f \o r = s
      BY <1>3, <2>2, <2>3, <2>4, DropFacts, SplitSeq
    <2>6. PICK z : z = Write(buf, f)
      OBVIOUS
    <2>7. PICK x : x = append(z, r)
      OBVIOUS
    <2>8. buf' = Forget(x) /\ bytes' = t /\ broken' = (x.head > x.size) /\ small' = small
      BY <1>1, <1>4, <1>6, <2>1, <2>3, <2>4, <2>6, <2>7 DEF Result
    <2>9. Good(z) /\ Readable(z) = bytes \o f /\ z.initCap = buf.initCap
      <3>1. Len(f) <= writableBytes(buf)
        BY <2>1, <2>2, <2>5
      <3>. QED BY <1>2, <2>5, <2>6, <3>1, WriteFits
    <2>10. Good(x) /\ Readable(x) = (bytes \o f) \o r /\ CapOK(z, x)
      BY <2>5, <2>7, <2>9, AppendGood
    <2>11. (bytes \o f) \o r = bytes \o (f \o r)
      <3>1. bytes \in Seq(Byte) /\ f \in Seq(Byte) /\ r \in Seq(Byte)
        BY <1>2, <2>5, Use
      <3>. QED BY <3>1, ConcatAssociative
    <2>12. Readable(x) = t /\ CapOK(buf, x)
      BY <1>4, <2>5, <2>9, <2>10, <2>11 DEF CapOK
    <2>. QED BY <1>2, <2>8, <2>10, <2>12, KeptInv
  <1>. QED BY <1>5, <1>6

LEMMA NextInv == Inv /\ [Next]_vars => Inv'
  <1>. SUFFICES ASSUME Inv, [Next]_vars PROVE Inv'
    OBVIOUS
  <1>1. CASE Next
    BY <1>1, AppendInv, FrontInv, RetrieveInv, ReadIntInv, RetrieveAllInv, UntilInv, EnsureInv,
       HasWrittenInv, UnwriteInv, ReadFdInv DEF Next
  <1>2. CASE UNCHANGED vars
    BY <1>2 DEF vars, Inv, Flags, Usable, Same, OnlySmall, CapKept, Good, Readable, readableBytes
  <1>. QED BY <1>1, <1>2

THEOREM InvHolds == Spec => []Inv
BY InitInv, NextInv, PTL DEF Spec

(* head_, tail_ and the end of the memory stay in order, so that no        *)
(* difference of them wraps, in every buffer that was made with at least   *)
(* kBufferOffset bytes, and in a smaller one until retrieveAll() shrinks it *)
(* (ensureWritableBytes, addInFront, retrieve, retrieveAll, unwrite,       *)
(* readFd).                                                                *)
THEOREM BoundsKept == Spec => []InBounds
  <1>1. Inv => InBounds
    <2>. SUFFICES ASSUME Inv, ~(broken /\ small) PROVE InBounds
      BY DEF InBounds
    <2>1. ~broken
      BY DEF Inv, OnlySmall
    <2>. QED BY <2>1, Use, GoodFields DEF InBounds
  <1>. QED BY <1>1, InvHolds, PTL

(* What can be read is, byte for byte, what was written and not yet taken, *)
(* wherever the bytes have been moved to.                                  *)
THEOREM ContentsKept == Spec => []Contents
  <1>1. Inv => Contents
    BY DEF Inv, Same, Contents
  <1>. QED BY <1>1, InvHolds, PTL

=============================================================================
