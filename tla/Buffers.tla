------------------------------- MODULE Buffers -------------------------------
(***************************************************************************)
(* common/buffer.c with the readers, writers and varints below it: bytes   *)
(* with an offset, and every call that may be made of them, in any order.  *)
(* Lengths and offsets are size_t, a type of WORD values.                  *)
(***************************************************************************)
EXTENDS Integers, Sequences

CONSTANTS
    BYTE,       \* values of a byte: 256
    WORD,       \* values of size_t
    Contents,   \* the buffers there are, each a sequence of bytes
    Lengths,    \* lengths and offsets calls are made with
    Numbers     \* numbers that are written

Bytes == 0..(BYTE - 1)

ASSUME ByteAssumption == BYTE \in Nat /\ BYTE > 3
ASSUME ContentsAssumption == \A c \in Contents : c \in Seq(Bytes) /\ Len(c) < WORD
ASSUME WordAssumption == WORD \in Nat /\ WORD > 9 /\ Lengths \subseteq 0..(WORD - 1)
ASSUME NumbersAssumption == Numbers \subseteq Nat

VARIABLES
    ptr, offset,   \* of buffer_t; its size is the length of ptr
    call           \* the last call: what it was and what it returned

vars == <<ptr, offset, call>>

size == Len(ptr)

NoCall == [op |-> "none", n |-> 0, signed |-> FALSE, order |-> "LE", ret |-> FALSE,
           value |-> 0, out |-> <<>>]

Called(op, n, ret) == [NoCall EXCEPT !.op = op, !.n = n, !.ret = ret]

Init == ptr \in Contents /\ offset = 0 /\ call = NoCall

-----------------------------------------------------------------------------
(* Seeking. *)

AddWord(x, y) == IF x + y < WORD THEN x + y ELSE x + y - WORD
SubWord(x, y) == IF x >= y THEN x - y ELSE x - y + WORD

buffer_can_read(o, n) == SubWord(size, o) >= n

\* Mutant: the sum may go round.
CanSeekWithOverflow(o, n) == AddWord(o, n) <= size

CanSeekCur(o, n) == AddWord(o, n) >= o /\ AddWord(o, n) <= size

\* Mutant: the offset is moved without being checked.
SeekCurUnchecked(o, n) == AddWord(o, n)

\* Where buffer_seek_cur leaves the offset, for the callers that ignore its result.
SeekCur(o, n) == IF CanSeekCur(o, n) THEN AddWord(o, n) ELSE o

buffer_seek_set(n) ==
    /\ offset' = IF n <= size THEN n ELSE offset
    /\ call' = Called("seek_set", n, n <= size)
    /\ UNCHANGED ptr

buffer_seek_cur(n) ==
    /\ offset' = SeekCur(offset, n)
    /\ call' = Called("seek_cur", n, CanSeekCur(offset, n))
    /\ UNCHANGED ptr

buffer_seek_end(n) ==
    /\ offset' = IF n <= size THEN size - n ELSE offset
    /\ call' = Called("seek_end", n, n <= size)
    /\ UNCHANGED ptr

-----------------------------------------------------------------------------
(* Integers. *)

Widths == {1, 2, 4, 8}
Orders == {"BE", "LE"}

Word16 == BYTE * BYTE
Word32 == Word16 * Word16
Word64 == Word32 * Word32
Word(w) == CASE w = 1 -> BYTE [] w = 2 -> Word16 [] w = 4 -> Word32 [] w = 8 -> Word64

read_u16_be(p, o) == p[o + 1] * BYTE + p[o + 2]
read_u32_be(p, o) == read_u16_be(p, o) * Word16 + read_u16_be(p, o + 2)
read_u64_be(p, o) == read_u32_be(p, o) * Word32 + read_u32_be(p, o + 4)

\* Mutant: the upper half of 64 bits is put two bytes too low.
read_u64_le_overlapping(p, o) ==
    read_u16_be(p, o) + read_u16_be(p, o + 2) * Word16 + read_u32_be(p, o + 4) * Word16

read_u16_le(p, o) == p[o + 1] + p[o + 2] * BYTE
read_u32_le(p, o) == read_u16_le(p, o) + read_u16_le(p, o + 2) * Word16
read_u64_le(p, o) == read_u32_le(p, o) + read_u32_le(p, o + 4) * Word32

Unsigned(w, order, p, o) ==
    CASE w = 1 -> p[o + 1]
      [] w = 2 -> IF order = "BE" THEN read_u16_be(p, o) ELSE read_u16_le(p, o)
      [] w = 4 -> IF order = "BE" THEN read_u32_be(p, o) ELSE read_u32_le(p, o)
      [] w = 8 -> IF order = "BE" THEN read_u64_be(p, o) ELSE read_u64_le(p, o)

\* The same bits as a signed number.
Signed(v, values) == IF 2 * v < values THEN v ELSE v - values

\* buffer_read_u8, buffer_read_s8, ..., buffer_read_s64.
buffer_read(w, signed, order) ==
    LET ok == buffer_can_read(offset, w)
        v == Unsigned(w, order, ptr, offset)
    IN  /\ offset' = IF ok THEN SeekCur(offset, w) ELSE offset
        /\ call' = [Called("read", w, ok) EXCEPT
                        !.signed = signed, !.order = order,
                        !.value = CASE ~ok -> 0
                                    [] ok /\ signed -> Signed(v, Word(w))
                                    [] OTHER -> v]
        /\ UNCHANGED ptr

\* v >> 8 * k, cast to a byte.
Weight(k) ==
    CASE k = 0 -> 1 [] k = 1 -> BYTE [] k = 2 -> Word16 [] k = 3 -> BYTE * Word16
      [] k = 4 -> Word32 [] k = 5 -> BYTE * Word32 [] k = 6 -> Word16 * Word32
      [] k = 7 -> BYTE * Word16 * Word32
ByteOf(v, k) == (v \div Weight(k)) % BYTE

\* Mutant: the bytes in the other order.
write_be_reversed(v, w) == [k \in 1..w |-> ByteOf(v, k - 1)]

write_be(v, w) == [k \in 1..w |-> ByteOf(v, w - k)]
write_le(v, w) == [k \in 1..w |-> ByteOf(v, k - 1)]

\* A buffer that is made over what write_u16_be, ..., write_u64_le has written.
write(v, w, order) ==
    /\ call = NoCall
    /\ v < Word(w)
    /\ ptr' = IF order = "BE" THEN write_be(v, w) ELSE write_le(v, w)
    /\ offset' = 0
    /\ call' = [Called("write", w, TRUE) EXCEPT !.order = order, !.value = v]

-----------------------------------------------------------------------------
(* Varints. *)

\* Mutant: the first prefix is taken for a number.
VarintSizeWithPrefix(v) ==
    CASE v <= BYTE - 3 -> 1
      [] v > BYTE - 3 /\ v < Word16 -> 3
      [] v >= Word16 /\ v < Word32 -> 5
      [] OTHER -> 9

varint_size(v) ==
    CASE v <= BYTE - 4 -> 1
      [] v > BYTE - 4 /\ v < Word16 -> 3
      [] v >= Word16 /\ v < Word32 -> 5
      [] OTHER -> 9

varint_write(v) ==
    CASE varint_size(v) = 1 -> <<v>>
      [] varint_size(v) = 3 -> <<BYTE - 3>> \o write_le(v, 2)
      [] varint_size(v) = 5 -> <<BYTE - 2>> \o write_le(v, 4)
      [] OTHER -> <<BYTE - 1>> \o write_le(v, 8)

write_varint(v) ==
    /\ call = NoCall
    /\ v < Word64
    /\ ptr' = varint_write(v)
    /\ offset' = 0
    /\ call' = [Called("write_varint", varint_size(v), TRUE) EXCEPT !.value = v]

\* The bytes of the number behind the prefix.
Following(prefix) ==
    CASE prefix = BYTE - 3 -> 2
      [] prefix = BYTE - 2 -> 4
      [] prefix = BYTE - 1 -> 8
      [] OTHER -> 0

buffer_read_varint ==
    LET left == SubWord(size, offset)
        w == Following(ptr[offset + 1])
        ok == left >= 1 /\ left >= 1 + w
    IN  /\ offset' = IF ok THEN SeekCur(offset, 1 + w) ELSE offset
        /\ call' = [Called("read_varint", IF ok THEN 1 + w ELSE 0, ok) EXCEPT
                        !.value = CASE ~ok -> 0
                                    [] ok /\ w = 0 -> ptr[offset + 1]
                                    [] OTHER -> Unsigned(w, "LE", ptr, offset + 1)]
        /\ UNCHANGED ptr

-----------------------------------------------------------------------------
(* Copying. *)

\* Mutant: an output that would just do is refused.
CanCopyIntoMore(n) == SubWord(size, offset) < n

CanCopy(n) == SubWord(size, offset) <= n

Copied(op, n) ==
    [Called(op, n, CanCopy(n)) EXCEPT
        !.out = IF CanCopy(n) THEN SubSeq(ptr, offset + 1, size) ELSE <<>>]

buffer_copy(n) ==
    /\ call' = Copied("copy", n)
    /\ UNCHANGED <<ptr, offset>>

\* The offset moves by the length of the output, if the buffer is as long as that.
buffer_move(n) ==
    /\ call' = Copied("move", n)
    /\ offset' = IF CanCopy(n) THEN SeekCur(offset, n) ELSE offset
    /\ UNCHANGED ptr

Next ==
    \/ \E n \in Lengths :
          \/ buffer_seek_set(n) \/ buffer_seek_cur(n) \/ buffer_seek_end(n)
          \/ buffer_copy(n) \/ buffer_move(n)
    \/ \E w \in Widths, signed \in BOOLEAN, order \in Orders : buffer_read(w, signed, order)
    \/ \E v \in Numbers, w \in Widths, order \in Orders : write(v, w, order)
    \/ buffer_read_varint
    \/ \E v \in Numbers : write_varint(v)

Spec == Init /\ [][Next]_vars

-----------------------------------------------------------------------------
(* Properties. *)

Operations ==
    {"none", "seek_set", "seek_cur", "seek_end", "read", "write", "read_varint",
     "write_varint", "copy", "move", "path"}

\* Type invariant: whatever is called with whatever lengths, the offset stays within the
\* bytes, which is what all the subtractions of offset from size rely on.
TypeOK ==
    /\ ptr \in Seq(Bytes) /\ Len(ptr) < WORD
    /\ offset \in 0..Len(ptr)
    /\ call.op \in Operations /\ call.ret \in BOOLEAN

\* The number with these bytes, in the range of its type.
IsMadeOf(c, bytes) ==
    LET w == Len(bytes)
        bits == IF c.value < 0 THEN c.value + Word(w) ELSE c.value
    IN  /\ IF c.signed THEN -Word(w) <= 2 * c.value /\ 2 * c.value < Word(w) ELSE c.value >= 0
        /\ bits < Word(w)
        /\ \A k \in 1..w : bytes[k] = ByteOf(bits, IF c.order = "BE" THEN w - k ELSE k - 1)

\* A read takes exactly its bytes, makes its number of them, and leaves the buffer where
\* the next one begins; one that does not find all of them takes none and returns 0.
ReadsTakeTheirBytes ==
    [][call'.op = "read" =>
        IF offset + call'.n <= size
        THEN /\ call'.ret /\ offset' = offset + call'.n
             /\ IsMadeOf(call', SubSeq(ptr, offset + 1, offset'))
        ELSE ~call'.ret /\ offset' = offset /\ call'.value = 0]_vars

\* A seek by any length of the type is made exactly when there are that many bytes, although
\* the sum may go round (which the application's own lengths, below 2^16, do not reach).
SeekIsExact ==
    [][call'.op = "seek_cur" =>
        /\ call'.ret <=> offset + call'.n <= size
        /\ offset' = IF call'.ret THEN offset + call'.n ELSE offset]_vars

\* What was written is read back by the call for its width and order, to the last byte:
\* numbers in either order, and varints, whichever prefix their size asks for.
WrittenIsReadBack ==
    [][call.op = "write" /\ call'.op = "read" /\ ~call'.signed
       /\ <<call'.n, call'.order>> = <<call.n, call.order>> =>
            call'.ret /\ call'.value = call.value /\ offset' = Len(ptr)]_vars
VarintIsReadBack ==
    [][call.op = "write_varint" /\ call'.op = "read_varint" =>
            call'.ret /\ call'.value = call.value /\ offset' = Len(ptr) /\ call'.n = call.n]_vars

\* handler_sign_tx moves a chunk, which was not read before, with its own size: all of it
\* goes to raw_tx and none is left.
ChunkIsMoved ==
    [][call'.op = "move" /\ offset = 0 /\ call'.n = size =>
            call'.ret /\ call'.out = ptr /\ offset' = Len(ptr)]_vars
=============================================================================
