---------------------------- MODULE BuffersProofs ----------------------------
(***************************************************************************)
(* What holds of the buffers and of the path reader for a byte and a       *)
(* size_t of any size: the offset never leaves the bytes, a seek cannot be *)
(* misled by a sum that goes round, a chunk is moved whole, the path whose *)
(* key is derived differs from what is documented only where the limits of *)
(* the code do, a read takes exactly its bytes and makes its number of     *)
(* them, and what was written is read back.                                *)
(***************************************************************************)
EXTENDS Bip44Path, SequenceTheorems, TLAPS

-----------------------------------------------------------------------------
(* Numbers and the bytes they are written as. *)

LEMMA WeightType == \A k \in 0..7 : Weight(k) \in Nat \ {0}
<1> TAKE k \in 0..7
<1>1. BYTE \in Nat \ {0}
  BY ByteAssumption
<1>2. Word16 \in Nat \ {0}
  BY <1>1 DEF Word16
<1>3. Word32 \in Nat \ {0}
  BY <1>2 DEF Word32
<1>4. BYTE * Word16 \in Nat \ {0} /\ BYTE * Word32 \in Nat \ {0} /\ Word16 * Word32 \in Nat \ {0}
  BY <1>1, <1>2, <1>3
<1>5. BYTE * Word16 * Word32 \in Nat \ {0}
  BY <1>3, <1>4
<1> HIDE DEF Word16, Word32
<1> QED
  BY <1>1, <1>2, <1>3, <1>4, <1>5 DEF Weight

LEMMA ByteOfType == \A v \in Int, k \in 0..7 : ByteOf(v, k) \in Bytes
<1> TAKE v \in Int, k \in 0..7
<1>1. v \div Weight(k) \in Int
  BY WeightType
<1>2. \A x \in Int : x % BYTE \in 0..(BYTE - 1)
  BY ByteAssumption
<1> QED
  BY <1>1, <1>2 DEF ByteOf, Bytes

\* What is written are bytes, as many as the width says.
LEMMA WriteType ==
    \A v \in Int, w \in Widths :
        /\ write_be(v, w) \in Seq(Bytes) /\ Len(write_be(v, w)) = w
        /\ write_le(v, w) \in Seq(Bytes) /\ Len(write_le(v, w)) = w
<1> TAKE v \in Int, w \in Widths
<1>1. w \in Nat /\ w < 9
  BY DEF Widths
<1>2. \A k \in 1..w : w - k \in 0..7 /\ k - 1 \in 0..7
  BY <1>1
<1>3. \A k \in 1..w : ByteOf(v, w - k) \in Bytes /\ ByteOf(v, k - 1) \in Bytes
  BY <1>2, ByteOfType
<1>4. write_be(v, w) \in [1..w -> Bytes] /\ write_le(v, w) \in [1..w -> Bytes]
  BY <1>3 DEF write_be, write_le
<1>5. \A s \in [1..w -> Bytes] : s \in Seq(Bytes) /\ Len(s) = w
  BY <1>1
<1> QED
  BY <1>4, <1>5

LEMMA VarintType ==
    \A v \in Nat : varint_write(v) \in Seq(Bytes) /\ Len(varint_write(v)) \in 1..9
<1> TAKE v \in Nat
<1>1. \A w \in {2, 4, 8} : write_le(v, w) \in Seq(Bytes) /\ Len(write_le(v, w)) \in 1..8
  BY WriteType DEF Widths
<1>2. \A b \in Bytes, s \in Seq(Bytes) :
          Len(s) \in 1..8 => <<b>> \o s \in Seq(Bytes) /\ Len(<<b>> \o s) \in 1..9
  <2> TAKE b \in Bytes, s \in Seq(Bytes)
  <2>1. <<b>> \in Seq(Bytes) /\ Len(<<b>>) = 1
    OBVIOUS
  <2>2. <<b>> \o s \in Seq(Bytes) /\ Len(<<b>> \o s) = Len(<<b>>) + Len(s)
    BY <2>1
  <2>3. \A m, n \in Int : m = 1 /\ n \in 1..8 => m + n \in 1..9
    OBVIOUS
  <2>4. Len(s) \in Int /\ Len(<<b>>) \in Int
    OBVIOUS
  <2> QED
    BY <2>1, <2>2, <2>3, <2>4, Zenon
<1>3. BYTE - 3 \in Bytes /\ BYTE - 2 \in Bytes /\ BYTE - 1 \in Bytes
  BY ByteAssumption DEF Bytes
<1>4. CASE varint_size(v) = 1
  <2>1. v <= BYTE - 4
    BY <1>4 DEF varint_size
  <2>2. v \in Bytes
    BY <2>1, ByteAssumption DEF Bytes
  <2>3. <<v>> \in Seq(Bytes) /\ Len(<<v>>) = 1
    BY <2>2
  <2> QED
    BY <1>4, <2>3 DEF varint_write
<1>5. CASE varint_size(v) # 1
  <2>1. CASE varint_size(v) = 3
    <3>1. varint_write(v) = <<BYTE - 3>> \o write_le(v, 2)
      BY <2>1 DEF varint_write
    <3> QED
      BY <1>1, <1>2, <1>3, <3>1, Zenon
  <2>2. CASE varint_size(v) = 5
    <3>1. varint_write(v) = <<BYTE - 2>> \o write_le(v, 4)
      BY <2>2 DEF varint_write
    <3> QED
      BY <1>1, <1>2, <1>3, <3>1, Zenon
  <2>3. CASE varint_size(v) \notin {1, 3, 5}
    <3>1. varint_write(v) = <<BYTE - 1>> \o write_le(v, 8)
      BY <2>3 DEF varint_write
    <3> QED
      BY <1>1, <1>2, <1>3, <3>1, Zenon
  <2> QED
    BY <1>5, <2>1, <2>2, <2>3
<1> QED
  BY <1>4, <1>5

-----------------------------------------------------------------------------
(* Offsets. *)

\* A seek that is made goes forward inside the bytes, whatever size_t makes of the sum.
LEMMA SeekCurIsExact ==
    ASSUME TypeOK, NEW n \in 0..(WORD - 1)
    PROVE  /\ CanSeekCur(offset, n) <=> offset + n <= size
           /\ SeekCur(offset, n) = IF offset + n <= size THEN offset + n ELSE offset
           /\ SeekCur(offset, n) \in 0..size
<1>1. offset \in 0..size /\ size \in Nat /\ size < WORD /\ WORD \in Nat
  BY WordAssumption DEF TypeOK, size
<1> HIDE DEF size
<1>2. AddWord(offset, n) = IF offset + n < WORD THEN offset + n ELSE offset + n - WORD
  BY DEF AddWord
<1>3. CanSeekCur(offset, n) <=> offset + n <= size
  BY <1>1, <1>2 DEF CanSeekCur
<1> QED
  BY <1>1, <1>2, <1>3 DEF SeekCur

LEMMA LeftIsExact == ASSUME TypeOK PROVE SubWord(size, offset) = size - offset
BY DEF TypeOK, SubWord, size

\* The inductive invariant: the handlers start at the start of the buffer.
BufferInv == TypeOK /\ (call = NoCall => offset = 0)

LEMMA CalledOp ==
    \A op, n, ret : Called(op, n, ret).op = op /\ Called(op, n, ret).ret = ret
                    /\ Called(op, n, ret).n = n
BY DEF Called, NoCall

LEMMA CalledIsNotNone == \A op, n, ret : op # "none" => Called(op, n, ret) # NoCall
BY DEF Called, NoCall

-----------------------------------------------------------------------------
(* The steps. *)

LEMMA InitBufferInv == PathInit => BufferInv
<1> SUFFICES ASSUME PathInit PROVE BufferInv
  OBVIOUS
<1>1. ptr \in Contents /\ offset = 0 /\ call = NoCall
  BY DEF PathInit, Init
<1>2. ptr \in Seq(Bytes) /\ Len(ptr) < WORD
  BY <1>1, ContentsAssumption
<1> QED
  BY <1>1, <1>2 DEF BufferInv, TypeOK, NoCall, Operations

\* What a step has to show.
LEMMA StepBufferInv ==
    ASSUME ptr' \in Seq(Bytes), Len(ptr') < WORD, offset' \in 0..Len(ptr'),
           call'.op \in Operations \ {"none"}, call'.ret \in BOOLEAN
    PROVE  BufferInv'
BY DEF BufferInv, TypeOK, NoCall

\* Calls that leave the bytes alone.
LEMMA SamePtr ==
    ASSUME BufferInv, UNCHANGED ptr, offset' \in 0..size,
           call'.op \in Operations \ {"none"}, call'.ret \in BOOLEAN
    PROVE  BufferInv'
<1>1. ptr' \in Seq(Bytes) /\ Len(ptr') < WORD /\ offset' \in 0..Len(ptr')
  BY DEF BufferInv, TypeOK, size
<1> QED
  BY <1>1, StepBufferInv

LEMMA SeekKeeps ==
    ASSUME BufferInv, NEW n \in Lengths,
           buffer_seek_set(n) \/ buffer_seek_cur(n) \/ buffer_seek_end(n)
    PROVE  BufferInv'
<1>1. n \in 0..(WORD - 1) /\ TypeOK /\ offset \in 0..size /\ size \in Nat /\ WORD \in Nat
  BY WordAssumption DEF BufferInv, TypeOK, size
<1>2. CASE buffer_seek_set(n)
  <2>1. offset' \in 0..size
    BY <1>1, <1>2 DEF buffer_seek_set
  <2>2. call'.op \in Operations \ {"none"} /\ call'.ret \in BOOLEAN
    BY <1>2 DEF buffer_seek_set, Called, NoCall, Operations
  <2> QED
    BY <1>2, <2>1, <2>2, SamePtr DEF buffer_seek_set
<1>3. CASE buffer_seek_cur(n)
  <2>1. offset' \in 0..size
    BY <1>1, <1>3, SeekCurIsExact DEF buffer_seek_cur
  <2>2. call'.op \in Operations \ {"none"} /\ call'.ret \in BOOLEAN
    BY <1>3 DEF buffer_seek_cur, Called, NoCall, Operations, CanSeekCur
  <2> QED
    BY <1>3, <2>1, <2>2, SamePtr DEF buffer_seek_cur
<1>4. CASE buffer_seek_end(n)
  <2>1. offset' \in 0..size
    BY <1>1, <1>4 DEF buffer_seek_end
  <2>2. call'.op \in Operations \ {"none"} /\ call'.ret \in BOOLEAN
    BY <1>4 DEF buffer_seek_end, Called, NoCall, Operations
  <2> QED
    BY <1>4, <2>1, <2>2, SamePtr DEF buffer_seek_end
<1> QED
  BY <1>2, <1>3, <1>4

LEMMA CopyKeeps ==
    ASSUME BufferInv, NEW n \in Lengths, buffer_copy(n) \/ buffer_move(n)
    PROVE  BufferInv'
<1>1. n \in 0..(WORD - 1) /\ TypeOK /\ offset \in 0..size
  BY WordAssumption DEF BufferInv, TypeOK, size
<1>2. offset' \in 0..size /\ UNCHANGED ptr
  BY <1>1, SeekCurIsExact DEF buffer_copy, buffer_move
<1>3. call' = Copied("copy", n) \/ call' = Copied("move", n)
  BY DEF buffer_copy, buffer_move
<1>4. CanCopy(n) \in BOOLEAN
  BY DEF CanCopy
<1>5. \A op : Copied(op, n).op = op /\ Copied(op, n).ret = CanCopy(n)
  BY DEF Copied, Called, NoCall
<1> QED
  BY <1>2, <1>3, <1>4, <1>5, SamePtr DEF Operations

LEMMA ReadKeeps ==
    ASSUME BufferInv, NEW w \in Widths, NEW signed \in BOOLEAN, NEW order \in Orders,
           buffer_read(w, signed, order)
    PROVE  BufferInv'
<1>1. w \in 0..(WORD - 1) /\ TypeOK /\ offset \in 0..size
  BY WordAssumption DEF BufferInv, TypeOK, size, Widths
<1>2. offset' \in 0..size /\ UNCHANGED ptr
  BY <1>1, SeekCurIsExact DEF buffer_read
<1>3. call'.op = "read" /\ call'.ret \in BOOLEAN
  BY DEF buffer_read, Called, NoCall, buffer_can_read
<1> QED
  BY <1>2, <1>3, SamePtr DEF Operations

LEMMA ReadVarintKeeps ==
    ASSUME BufferInv, buffer_read_varint
    PROVE  BufferInv'
<1> DEFINE w == Following(ptr[offset + 1])
<1>1. w \in {0, 2, 4, 8}
  BY DEF Following
<1> HIDE DEF w
<1>2. 1 + w \in 0..(WORD - 1) /\ TypeOK /\ offset \in 0..size
  BY <1>1, WordAssumption DEF BufferInv, TypeOK, size
<1>3. offset' \in 0..size /\ UNCHANGED ptr
  BY <1>2, SeekCurIsExact DEF buffer_read_varint, w
<1>4. call'.op = "read_varint" /\ call'.ret \in BOOLEAN
  BY DEF buffer_read_varint, Called, NoCall
<1> QED
  BY <1>3, <1>4, SamePtr DEF Operations

LEMMA WriteKeeps ==
    ASSUME BufferInv, NEW v \in Numbers, NEW w \in Widths, NEW order \in Orders,
           write(v, w, order)
    PROVE  BufferInv'
<1>1. v \in Int /\ w < WORD /\ w \in Nat
  BY NumbersAssumption, WordAssumption DEF Widths
<1>2. ptr' \in Seq(Bytes) /\ Len(ptr') = w
  BY <1>1, WriteType DEF write
<1>3. offset' = 0 /\ call'.op = "write" /\ call'.ret \in BOOLEAN
  BY DEF write, Called, NoCall
<1> QED
  BY <1>1, <1>2, <1>3, StepBufferInv DEF Operations

LEMMA WriteVarintKeeps ==
    ASSUME BufferInv, NEW v \in Numbers, write_varint(v)
    PROVE  BufferInv'
<1>1. v \in Nat
  BY NumbersAssumption
<1>2. ptr' \in Seq(Bytes) /\ Len(ptr') \in 1..9
  BY <1>1, VarintType DEF write_varint
<1>3. offset' = 0 /\ call'.op = "write_varint" /\ call'.ret \in BOOLEAN
  BY DEF write_varint, Called, NoCall
<1>4. ASSUME NEW n \in 1..9 PROVE n < WORD /\ 0 \in 0..n
  BY WordAssumption
<1>5. Len(ptr') < WORD /\ offset' \in 0..Len(ptr')
  BY <1>2, <1>3, <1>4, Zenon
<1> QED
  BY <1>2, <1>3, <1>5, StepBufferInv DEF Operations

LEMMA PathKeeps ==
    ASSUME BufferInv, buffer_read_and_validate_bip44
    PROVE  BufferInv'
<1>1. offset = 0 /\ size \in Nat
  BY DEF buffer_read_and_validate_bip44, BufferInv, TypeOK, size
<1>2. CASE PathTooShort
  BY <1>1, <1>2, SamePtr DEF PathTooShort, Called, NoCall, Operations
<1>3. CASE PathRefused
  <2>1. PICK k \in 1..BIP44_PATH_LEN : offset' = offset + 4 * k
    BY <1>3 DEF PathRefused
  <2>2. offset' \in 0..size
    BY <1>1, <1>3, <2>1 DEF PathRefused, BIP44_PATH_LEN, BIP44_BYTE_LENGTH
  <2> QED
    BY <1>3, <2>2, SamePtr DEF PathRefused, Called, NoCall, Operations
<1>4. CASE PathAccepted
  <2>1. offset' \in 0..size
    BY <1>1, <1>4 DEF PathAccepted, BIP44_BYTE_LENGTH
  <2> QED
    BY <1>4, <2>1, SamePtr DEF PathAccepted, Called, NoCall, Operations
<1> QED
  BY <1>2, <1>3, <1>4 DEF buffer_read_and_validate_bip44

LEMMA NextBufferInv == BufferInv /\ [PathNext]_pathVars => BufferInv'
<1> SUFFICES ASSUME BufferInv, [PathNext]_pathVars PROVE BufferInv'
  OBVIOUS
<1>1. CASE Next
  BY <1>1, SeekKeeps, CopyKeeps, ReadKeeps, ReadVarintKeeps, WriteKeeps, WriteVarintKeeps
     DEF Next
<1>2. CASE buffer_read_and_validate_bip44
  BY <1>2, PathKeeps
<1>3. CASE NextCommand
  <2>1. ptr' \in Contents /\ offset' = 0 /\ call' = NoCall
    BY <1>3 DEF NextCommand
  <2>2. ptr' \in Seq(Bytes) /\ Len(ptr') < WORD
    BY <2>1, ContentsAssumption
  <2> QED
    BY <2>1, <2>2 DEF BufferInv, TypeOK, NoCall, Operations
<1>4. CASE UNCHANGED pathVars
  BY <1>4 DEF pathVars, BufferInv, TypeOK
<1> QED
  BY <1>1, <1>2, <1>3, <1>4 DEF PathNext

\* For a byte and a size_t of any size, buffers of any length and calls with any length:
\* the offset stays within the bytes.
THEOREM BuffersTypeCorrect == PathSpec => []TypeOK
<1>1. BufferInv => TypeOK
  BY DEF BufferInv
<1> QED
  BY <1>1, InitBufferInv, NextBufferInv, PTL DEF PathSpec

-----------------------------------------------------------------------------
(* What the calls do. *)

\* The calls by the name they leave in call.
LEMMA NamedCalls ==
    ASSUME BufferInv, [PathNext]_pathVars, ~UNCHANGED vars
    PROVE  /\ call'.op = "seek_cur" => \E n \in Lengths : buffer_seek_cur(n)
           /\ call'.op = "move" => \E n \in Lengths : buffer_move(n)
<1>1. CASE Next
  <2>1. CASE \E n \in Lengths : buffer_seek_cur(n) \/ buffer_move(n)
    BY <2>1, Zenon DEF buffer_seek_cur, buffer_move, Copied, Called, NoCall
  <2>2. ASSUME NEW n \in Lengths, buffer_seek_set(n) \/ buffer_seek_end(n) \/ buffer_copy(n)
        PROVE  call'.op \notin {"seek_cur", "move"}
    BY <2>2 DEF buffer_seek_set, buffer_seek_end, buffer_copy, Copied, Called, NoCall
  <2>3. ASSUME NEW w \in Widths, NEW signed \in BOOLEAN, NEW order \in Orders,
               buffer_read(w, signed, order)
        PROVE  call'.op \notin {"seek_cur", "move"}
    BY <2>3 DEF buffer_read, Called, NoCall
  <2>4. ASSUME NEW v \in Numbers, NEW w \in Widths, NEW order \in Orders,
               write(v, w, order)
        PROVE  call'.op \notin {"seek_cur", "move"}
    BY <2>4 DEF write, Called, NoCall
  <2>5. ASSUME buffer_read_varint
        PROVE  call'.op \notin {"seek_cur", "move"}
    BY <2>5 DEF buffer_read_varint, Called, NoCall
  <2>6. ASSUME NEW v \in Numbers, write_varint(v)
        PROVE  call'.op \notin {"seek_cur", "move"}
    BY <2>6 DEF write_varint, Called, NoCall
  <2> QED
    BY <1>1, <2>1, <2>2, <2>3, <2>4, <2>5, <2>6, Zenon DEF Next
<1>2. CASE buffer_read_and_validate_bip44
  BY <1>2 DEF buffer_read_and_validate_bip44, PathTooShort, PathRefused, PathAccepted,
              Called, NoCall
<1>3. CASE NextCommand
  BY <1>3 DEF NextCommand, NoCall
<1>4. CASE UNCHANGED pathVars
  BY <1>4 DEF pathVars, vars
<1> QED
  BY <1>1, <1>2, <1>3, <1>4 DEF PathNext

\* For any length a host may have chosen: a seek is made exactly when there are that many
\* bytes, although the sum may go round.
THEOREM SeeksAreExact == PathSpec => SeekIsExact
<1>1. ASSUME BufferInv, [PathNext]_pathVars
      PROVE  [call'.op = "seek_cur" =>
                /\ call'.ret <=> offset + call'.n <= size
                /\ offset' = IF call'.ret THEN offset + call'.n ELSE offset]_vars
  <2> SUFFICES ASSUME ~UNCHANGED vars, call'.op = "seek_cur"
               PROVE  /\ call'.ret <=> offset + call'.n <= size
                      /\ offset' = IF call'.ret THEN offset + call'.n ELSE offset
    OBVIOUS
  <2>1. PICK n \in Lengths : buffer_seek_cur(n)
    BY <1>1, NamedCalls
  <2>2. n \in 0..(WORD - 1) /\ TypeOK
    BY <1>1, WordAssumption DEF BufferInv
  <2>3. call'.n = n /\ call'.ret = CanSeekCur(offset, n) /\ offset' = SeekCur(offset, n)
    BY <2>1 DEF buffer_seek_cur, Called, NoCall
  <2> QED
    BY <2>2, <2>3, SeekCurIsExact
<1> QED
  BY <1>1, InitBufferInv, NextBufferInv, PTL DEF PathSpec, SeekIsExact

\* A chunk of any length is moved whole, and the buffer it was in is at its end.
THEOREM ChunksAreMoved == PathSpec => ChunkIsMoved
<1>1. ASSUME BufferInv, [PathNext]_pathVars
      PROVE  [call'.op = "move" /\ offset = 0 /\ call'.n = size =>
                call'.ret /\ call'.out = ptr /\ offset' = Len(ptr)]_vars
  <2> SUFFICES ASSUME ~UNCHANGED vars, call'.op = "move", offset = 0, call'.n = size
               PROVE  call'.ret /\ call'.out = ptr /\ offset' = Len(ptr)
    OBVIOUS
  <2>1. PICK n \in Lengths : buffer_move(n)
    BY <1>1, NamedCalls
  <2>2. n \in 0..(WORD - 1) /\ TypeOK /\ size \in Nat /\ ptr \in Seq(Bytes)
    BY <1>1, WordAssumption DEF BufferInv, TypeOK, size
  <2>3. call'.n = n /\ call'.ret = CanCopy(n)
    BY <2>1 DEF buffer_move, Copied, Called, NoCall
  <2>4. CanCopy(n)
    BY <2>2, <2>3, LeftIsExact DEF CanCopy
  <2>5. call'.out = SubSeq(ptr, 1, size)
    <3>1. call'.out = SubSeq(ptr, offset + 1, size)
      BY <2>1, <2>4, Zenon DEF buffer_move, Copied, Called, NoCall
    <3> QED
      BY <3>1
  <2>6. SubSeq(ptr, 1, size) = ptr
    BY <2>2 DEF size
  <2>7. offset' = size /\ UNCHANGED ptr
    BY <2>1, <2>2, <2>3, <2>4, SeekCurIsExact DEF buffer_move
  <2> QED
    BY <2>3, <2>4, <2>5, <2>6, <2>7 DEF size
<1> QED
  BY <1>1, InitBufferInv, NextBufferInv, PTL DEF PathSpec, ChunkIsMoved

-----------------------------------------------------------------------------
(* Paths. *)

LEMMA DivMod ==
    ASSUME NEW q \in Int, NEW m \in Nat \ {0}, NEW r \in 0..(m - 1)
    PROVE  (q * m + r) \div m = q /\ (q * m + r) % m = r
<1> DEFINE x == q * m + r
<1>1. x \in Int /\ x \div m \in Int /\ x % m \in 0..(m - 1)
  OBVIOUS
<1>2. x = m * (x \div m) + (x % m)
  BY <1>1
<1>3. PICK d \in Int : d = x \div m
  BY <1>1
<1>4. PICK t \in 0..(m - 1) : t = x % m
  BY <1>1
<1>5. q * m + r = m * d + t
  BY <1>2, <1>3, <1>4
<1>6. (q - d) * m = t - r
  BY <1>5
<1>7. ~(q - d >= 1)
  <2>1. ASSUME NEW k \in Int, k >= 1 PROVE k * m >= m
    BY <2>1
  <2> QED
    BY <1>6, <2>1
<1>8. ~(d - q >= 1)
  <2>1. ASSUME NEW k \in Int, k >= 1 PROVE k * m >= m
    BY <2>1
  <2>2. (d - q) * m = r - t
    BY <1>6
  <2> QED
    BY <2>1, <2>2
<1>9. q = d
  BY <1>7, <1>8
<1>10. r = t
  BY <1>5, <1>9
<1> QED
  BY <1>3, <1>4, <1>9, <1>10

LEMMA BytesOfNumber ==
    ASSUME NEW a \in Bytes, NEW b \in Bytes, NEW c \in Bytes, NEW d \in Bytes,
           NEW v, v = (a * BYTE + b) * Word16 + (c * BYTE + d)
    PROVE  /\ v \in Nat
           /\ ByteOf(v, 3) = a /\ ByteOf(v, 2) = b /\ ByteOf(v, 1) = c /\ ByteOf(v, 0) = d
<1>1. BYTE \in Nat \ {0} /\ a \in 0..(BYTE - 1) /\ b \in 0..(BYTE - 1)
      /\ c \in 0..(BYTE - 1) /\ d \in 0..(BYTE - 1)
  BY ByteAssumption DEF Bytes
<1>2. Word16 = BYTE * BYTE /\ Word16 \in Nat \ {0}
  BY <1>1 DEF Word16
<1> HIDE DEF Word16
<1>3. v \in Nat
  BY <1>1, <1>2
<1>4. Weight(3) = BYTE * Word16 /\ Weight(2) = Word16 /\ Weight(1) = BYTE /\ Weight(0) = 1
  BY DEF Weight
<1>5. \A x, y \in Bytes : x * BYTE + y \in 0..(Word16 - 1)
  BY <1>1, <1>2 DEF Bytes
<1>0. ASSUME NEW m \in Nat \ {0}
      PROVE  \A q \in Int, r \in 0..(m - 1) : (q * m + r) \div m = q /\ (q * m + r) % m = r
  BY DivMod
<1>6. ByteOf(v, 0) = d
  <2>1. v = ((a * BYTE + b) * BYTE + c) * BYTE + d
    BY <1>1, <1>2
  <2>2. (a * BYTE + b) * BYTE + c \in Int
    BY <1>1
  <2>3. v % BYTE = d
    BY <1>0, <1>1, <2>1, <2>2, Zenon
  <2>4. v \div 1 = v
    BY <1>3
  <2> QED
    BY <1>4, <2>3, <2>4 DEF ByteOf
<1>7. ByteOf(v, 1) = c
  <2>1. v = ((a * BYTE + b) * BYTE + c) * BYTE + d
    BY <1>1, <1>2
  <2>2. (a * BYTE + b) * BYTE + c \in Int /\ a * BYTE + b \in Int
    BY <1>1
  <2>3. v \div BYTE = (a * BYTE + b) * BYTE + c
    BY <1>0, <1>1, <2>1, <2>2, Zenon
  <2>4. ((a * BYTE + b) * BYTE + c) % BYTE = c
    BY <1>0, <1>1, <2>2, Zenon
  <2> QED
    BY <1>4, <2>3, <2>4 DEF ByteOf
<1>8. ByteOf(v, 2) = b
  <2>1. v \div Word16 = a * BYTE + b
    <3>1. a * BYTE + b \in Int /\ c * BYTE + d \in 0..(Word16 - 1)
      BY <1>1, <1>5 DEF Bytes
    <3> QED
      BY <1>0, <1>2, <3>1, Zenon
  <2>2. (a * BYTE + b) % BYTE = b
    <3>1. a \in Int
      BY <1>1
    <3> QED
      BY <1>0, <1>1, <3>1, Zenon
  <2> QED
    BY <1>4, <2>1, <2>2 DEF ByteOf
<1>9. ByteOf(v, 3) = a
  <2>1. BYTE * Word16 \in Nat \ {0}
    BY <1>1, <1>2
  <2>2. v = a * (BYTE * Word16) + (b * Word16 + (c * BYTE + d))
    BY <1>1, <1>2
  <2>3. b * Word16 + (c * BYTE + d) \in 0..(BYTE * Word16 - 1)
    <3>1. c * BYTE + d \in 0..(Word16 - 1)
      BY <1>5
    <3>2. b * Word16 >= 0 /\ b * Word16 <= (BYTE - 1) * Word16
      BY <1>1, <1>2
    <3>3. (BYTE - 1) * Word16 = BYTE * Word16 - Word16
      BY <1>1, <1>2
    <3>4. b * Word16 \in Int /\ BYTE * Word16 \in Int
      BY <1>1, <1>2
    <3> QED
      BY <1>2, <3>1, <3>2, <3>3, <3>4
  <2>0. a \in Int
    BY <1>1
  <2>4. v \div (BYTE * Word16) = a
    BY <1>0, <2>0, <2>1, <2>2, <2>3, Zenon
  <2>5. a % BYTE = a
    BY <1>1
  <2> QED
    BY <1>4, <2>4, <2>5 DEF ByteOf
<1> QED
  BY <1>3, <1>6, <1>7, <1>8, <1>9

\* What is read is what would be written.
LEMMA ReadIsWritten ==
    ASSUME NEW p \in Seq(Bytes), NEW o \in Nat, o + 4 <= Len(p)
    PROVE  /\ read_u32_be(p, o) \in Nat
           /\ write_be(read_u32_be(p, o), 4) = SubSeq(p, o + 1, o + 4)
<1> DEFINE v == read_u32_be(p, o)
<1>1. p[o + 1] \in Bytes /\ p[o + 2] \in Bytes /\ p[o + 3] \in Bytes /\ p[o + 4] \in Bytes
  OBVIOUS
<1>2. v = (p[o + 1] * BYTE + p[o + 2]) * Word16 + (p[o + 3] * BYTE + p[o + 4])
  <2>1. o + 2 + 1 = o + 3 /\ o + 2 + 2 = o + 4
    OBVIOUS
  <2> QED
    BY <2>1, Zenon DEF read_u32_be, read_u16_be
<1> HIDE DEF v
<1>3. /\ v \in Nat
      /\ ByteOf(v, 3) = p[o + 1] /\ ByteOf(v, 2) = p[o + 2]
      /\ ByteOf(v, 1) = p[o + 3] /\ ByteOf(v, 0) = p[o + 4]
  <2> DEFINE a == p[o + 1]
             b == p[o + 2]
             c == p[o + 3]
             d == p[o + 4]
  <2>1. a \in Bytes /\ b \in Bytes /\ c \in Bytes /\ d \in Bytes
        /\ v = (a * BYTE + b) * Word16 + (c * BYTE + d)
    BY <1>1, <1>2
  <2> HIDE DEF a, b, c, d
  <2>2. /\ v \in Nat
        /\ ByteOf(v, 3) = a /\ ByteOf(v, 2) = b /\ ByteOf(v, 1) = c /\ ByteOf(v, 0) = d
    BY <2>1, BytesOfNumber
  <2> QED
    BY <2>2 DEF a, b, c, d
<1>4. write_be(v, 4) = [k \in 1..4 |-> p[o + k]]
  <2>1. ASSUME NEW k \in 1..4 PROVE ByteOf(v, 4 - k) = p[o + k]
    <3>1. CASE k = 1
      BY <1>3, <3>1
    <3>2. CASE k = 2
      BY <1>3, <3>2
    <3>3. CASE k = 3
      BY <1>3, <3>3
    <3>4. CASE k = 4
      BY <1>3, <3>4
    <3> QED
      BY <3>1, <3>2, <3>3, <3>4
  <2> QED
    BY <2>1 DEF write_be
<1>5. SubSeq(p, o + 1, o + 4) = [k \in 1..4 |-> p[o + k]]
  OBVIOUS
<1> QED
  BY <1>3, <1>4, <1>5 DEF v

\* A path is read at the start of the buffer, its levels from their places.
LEMMA LevelsAreRead ==
    ASSUME BufferInv, call = NoCall, size >= BIP44_BYTE_LENGTH, NEW k \in 1..BIP44_PATH_LEN
    PROVE  /\ Level(k) = read_u32_be(ptr, 4 * (k - 1))
           /\ Level(k) \in Nat
           /\ write_be(Level(k), 4) = SubSeq(ptr, 4 * (k - 1) + 1, 4 * (k - 1) + 4)
<1>1. offset = 0 /\ ptr \in Seq(Bytes) /\ size = Len(ptr) /\ size \in Nat /\ size >= 20
  BY DEF BufferInv, TypeOK, size, BIP44_BYTE_LENGTH
<1>2. PICK o \in Nat : o = 4 * (k - 1) /\ o + 4 <= size
  BY <1>1 DEF BIP44_PATH_LEN
<1>3. offset + 4 * (k - 1) = o
  BY <1>1, <1>2
<1>4. buffer_can_read(o, 4)
  BY <1>1, <1>2 DEF buffer_can_read, SubWord
<1>5. Level(k) = read_u32_be(ptr, o)
  <2>1. o <= size
    BY <1>1, <1>2
  <2> QED
    BY <1>3, <1>4, <2>1, Zenon DEF Level
<1>6. read_u32_be(ptr, o) \in Nat /\ write_be(read_u32_be(ptr, o), 4) = SubSeq(ptr, o + 1, o + 4)
  BY <1>1, <1>2, ReadIsWritten
<1> QED
  BY <1>2, <1>5, <1>6

LEMMA Joined ==
    ASSUME NEW s \in Seq(Bytes), NEW t \in Seq(Bytes)
    PROVE  /\ s \o t \in Seq(Bytes)
           /\ Len(s \o t) = Len(s) + Len(t)
           /\ \A m \in 0..Len(s) : SubSeq(s \o t, 1, m) = SubSeq(s, 1, m)
<1>1. s \o t \in Seq(Bytes) /\ Len(s \o t) = Len(s) + Len(t)
  BY ConcatProperties
<1>2. ASSUME NEW m \in 0..Len(s) PROVE SubSeq(s \o t, 1, m) = SubSeq(s, 1, m)
  <2>1. CASE m = 0
    BY <2>1, SubSeqEmpty
  <2>2. CASE m # 0
    <3>1. 1 \in 1..Len(s) /\ m \in 1..Len(s)
      BY <2>2
    <3> QED
      BY <3>1, SubSeqOfConcat1
  <2> QED
    BY <2>1, <2>2
<1> QED
  BY <1>1, <1>2

\* The first levels of a text are those of its path.
LEMMA TextBegins ==
    ASSUME NEW s \in Seq(Bytes), Len(s) = 20,
           NEW p, \A k \in 1..5 : p[k] \in Nat,
           NEW n \in 0..5,
           \A k \in 1..n : write_be(p[k], 4) = SubSeq(s, 4 * (k - 1) + 1, 4 * (k - 1) + 4)
    PROVE  /\ SubSeq(Text(p), 1, 4 * n) = SubSeq(s, 1, 4 * n)
           /\ SubSeq(Text(p), 1, 20) = Text(p)
<1> DEFINE a == write_be(p[1], 4)
           b == write_be(p[2], 4)
           c == write_be(p[3], 4)
           d == write_be(p[4], 4)
           e == write_be(p[5], 4)
<1>1. /\ a \in Seq(Bytes) /\ Len(a) = 4 /\ b \in Seq(Bytes) /\ Len(b) = 4
      /\ c \in Seq(Bytes) /\ Len(c) = 4 /\ d \in Seq(Bytes) /\ Len(d) = 4
      /\ e \in Seq(Bytes) /\ Len(e) = 4
  <2>1. /\ 4 \in Widths
        /\ p[1] \in Int /\ p[2] \in Int /\ p[3] \in Int /\ p[4] \in Int /\ p[5] \in Int
    BY DEF Widths
  <2> QED
    BY <2>1, WriteType, Zenon
<1>2. Text(p) = a \o b \o c \o d \o e
  BY DEF Text
<1>3. /\ n >= 1 => a = SubSeq(s, 1, 4)
      /\ n >= 2 => b = SubSeq(s, 5, 8)
      /\ n >= 3 => c = SubSeq(s, 9, 12)
      /\ n >= 4 => d = SubSeq(s, 13, 16)
      /\ n >= 5 => e = SubSeq(s, 17, 20)
  <2>1. ASSUME NEW k \in 1..5, n >= k
        PROVE  write_be(p[k], 4) = SubSeq(s, 4 * (k - 1) + 1, 4 * (k - 1) + 4)
    <3>1. k \in 1..n
      BY <2>1
    <3> QED
      BY <3>1, Zenon
  <2>2. n >= 1 => a = SubSeq(s, 1, 4)
    BY <2>1
  <2>3. n >= 2 => b = SubSeq(s, 5, 8)
    BY <2>1
  <2>4. n >= 3 => c = SubSeq(s, 9, 12)
    BY <2>1
  <2>5. n >= 4 => d = SubSeq(s, 13, 16)
    BY <2>1
  <2>6. n >= 5 => e = SubSeq(s, 17, 20)
    BY <2>1
  <2> QED
    BY <2>2, <2>3, <2>4, <2>5, <2>6
<1> HIDE DEF a, b, c, d, e
<1> DEFINE ab == a \o b
           abc == ab \o c
           abcd == abc \o d
           abcde == abcd \o e
<1>0. \A t, u \in Seq(Bytes) : Len(u) = 4 =>
          /\ t \o u \in Seq(Bytes) /\ Len(t \o u) = Len(t) + 4
          /\ \A m \in 0..Len(t) : SubSeq(t \o u, 1, m) = SubSeq(t, 1, m)
  <2> SUFFICES ASSUME NEW t \in Seq(Bytes), NEW u \in Seq(Bytes), Len(u) = 4
               PROVE  /\ t \o u \in Seq(Bytes) /\ Len(t \o u) = Len(t) + 4
                      /\ \A m \in 0..Len(t) : SubSeq(t \o u, 1, m) = SubSeq(t, 1, m)
    OBVIOUS
  <2>1. /\ t \o u \in Seq(Bytes) /\ Len(t \o u) = Len(t) + Len(u)
        /\ \A m \in 0..Len(t) : SubSeq(t \o u, 1, m) = SubSeq(t, 1, m)
    BY Joined
  <2> QED
    BY <2>1, Zenon
<1>4. /\ ab \in Seq(Bytes) /\ Len(ab) = 8
      /\ \A m \in 0..4 : SubSeq(ab, 1, m) = SubSeq(a, 1, m)
  <2>1. /\ ab \in Seq(Bytes) /\ Len(ab) = Len(a) + 4
        /\ \A m \in 0..Len(a) : SubSeq(ab, 1, m) = SubSeq(a, 1, m)
    BY <1>0, <1>1, Zenon
  <2>2. Len(a) = 4
    BY <1>1
  <2> HIDE DEF ab
  <2> QED
    BY <2>1, <2>2
<1> HIDE DEF ab
<1>5. /\ abc \in Seq(Bytes) /\ Len(abc) = 12
      /\ \A m \in 0..8 : SubSeq(abc, 1, m) = SubSeq(ab, 1, m)
  <2>1. /\ abc \in Seq(Bytes) /\ Len(abc) = Len(ab) + 4
        /\ \A m \in 0..Len(ab) : SubSeq(abc, 1, m) = SubSeq(ab, 1, m)
    BY <1>0, <1>1, <1>4, Zenon
  <2>2. Len(ab) = 8
    BY <1>1, <1>4
  <2> HIDE DEF abc
  <2> QED
    BY <2>1, <2>2
<1> HIDE DEF abc
<1>6. /\ abcd \in Seq(Bytes) /\ Len(abcd) = 16
      /\ \A m \in 0..12 : SubSeq(abcd, 1, m) = SubSeq(abc, 1, m)
  <2>1. /\ abcd \in Seq(Bytes) /\ Len(abcd) = Len(abc) + 4
        /\ \A m \in 0..Len(abc) : SubSeq(abcd, 1, m) = SubSeq(abc, 1, m)
    BY <1>0, <1>1, <1>5, Zenon
  <2>2. Len(abc) = 12
    BY <1>1, <1>5
  <2> HIDE DEF abcd
  <2> QED
    BY <2>1, <2>2
<1> HIDE DEF abcd
<1>7. /\ abcde \in Seq(Bytes) /\ Len(abcde) = 20
      /\ \A m \in 0..16 : SubSeq(abcde, 1, m) = SubSeq(abcd, 1, m)
  <2>1. /\ abcde \in Seq(Bytes) /\ Len(abcde) = Len(abcd) + 4
        /\ \A m \in 0..Len(abcd) : SubSeq(abcde, 1, m) = SubSeq(abcd, 1, m)
    BY <1>0, <1>1, <1>6, Zenon
  <2>2. Len(abcd) = 16
    BY <1>1, <1>6
  <2> HIDE DEF abcde
  <2> QED
    BY <2>1, <2>2
<1>8. Text(p) = abcde
  BY <1>2 DEF ab, abc, abcd
<1> HIDE DEF abcde
<1>9. \A t \in Seq(Bytes) : SubSeq(t, 1, Len(t)) = t
  OBVIOUS
<1>10. \A m \in {4, 8, 12, 16} : SubSeq(s, 1, m) \o SubSeq(s, m + 1, m + 4) = SubSeq(s, 1, m + 4)
  <2> TAKE m \in {4, 8, 12, 16}
  <2>1. 1 \in 1..(Len(s) + 1) /\ m \in (1 - 1)..Len(s) /\ m + 4 \in m..Len(s)
    OBVIOUS
  <2> QED
    BY <2>1, ConcatAdjacentSubSeq
<1>11. CASE n = 0
  BY <1>7, <1>8, <1>11
<1>12. CASE n = 1
  BY <1>1, <1>3, <1>9, <1>4, <1>5, <1>6, <1>7, <1>8, <1>12
<1>13. /\ SubSeq(s, 1, 4) \o SubSeq(s, 5, 8) = SubSeq(s, 1, 8)
       /\ SubSeq(s, 1, 8) \o SubSeq(s, 9, 12) = SubSeq(s, 1, 12)
       /\ SubSeq(s, 1, 12) \o SubSeq(s, 13, 16) = SubSeq(s, 1, 16)
       /\ SubSeq(s, 1, 16) \o SubSeq(s, 17, 20) = SubSeq(s, 1, 20)
  BY <1>10
<1>14. /\ n >= 5 => n >= 4
       /\ n >= 4 => n >= 3
       /\ n >= 3 => n >= 2
       /\ n >= 2 => n >= 1
  OBVIOUS
<1>15. n >= 2 => ab = SubSeq(s, 1, 8)
  BY <1>3, <1>13, <1>14, Zenon DEF ab
<1>16. n >= 3 => abc = SubSeq(s, 1, 12)
  BY <1>3, <1>13, <1>14, <1>15, Zenon DEF abc
<1>17. n >= 4 => abcd = SubSeq(s, 1, 16)
  BY <1>3, <1>13, <1>14, <1>16, Zenon DEF abcd
<1>18. n >= 5 => abcde = SubSeq(s, 1, 20)
  BY <1>3, <1>13, <1>14, <1>17, Zenon DEF abcde
<1>19. CASE n = 2
  BY <1>4, <1>5, <1>6, <1>7, <1>8, <1>9, <1>15, <1>19
<1>20. CASE n = 3
  BY <1>5, <1>6, <1>7, <1>8, <1>9, <1>16, <1>20
<1>21. CASE n = 4
  BY <1>6, <1>7, <1>8, <1>9, <1>17, <1>21
<1>22. CASE n = 5
  BY <1>7, <1>8, <1>9, <1>18, <1>22
<1>23. SubSeq(Text(p), 1, 20) = Text(p)
  BY <1>7, <1>8, <1>9
<1> QED
  BY <1>23, <1>11, <1>12, <1>19, <1>20, <1>21, <1>22

\* The inductive invariant: a path is the last that is read of a command, so what a
\* refusal or an acceptance left stands until the next command.
PathInv ==
    /\ BufferInv
    /\ status # "none" => call # NoCall
    /\ AcceptedPathIsRead
    /\ RefusedPathIsCut

LEMMA InitPathInv == PathInit => PathInv
BY InitBufferInv DEF PathInit, PathInv, AcceptedPathIsRead, RefusedPathIsCut

\* The documented paths, with the accounts in excess and without the last index.
IsPassingPath(p) ==
    IsWalletPath(p, DocumentedAccounts \cup ExcessAccounts, DocumentedIndices \ RefusedIndices)

\* All levels of a path pass exactly if it is one of these.
LEMMA PassingLevels ==
    ASSUME NEW p, \A k \in 1..5 : p[k] \in Nat
    PROVE  IsPassingPath(p) <=> \A k \in 1..5 : LevelStatus(k, p[k]) = "SW_OK"
<1>1. HARDENED \in Nat /\ HARDENED >= 2 /\ MAX_ACCOUNT \in Nat /\ ADDRESSES \in 2..HARDENED
  <2>1. Weight(4) \in Nat \ {0} /\ Weight(4) = Word32
    BY WeightType DEF Weight
  <2>2. HARDENED \in Nat
    BY <2>1 DEF HARDENED
  <2> QED
    BY <2>2, PathAssumption DEF HARDENED
<1> HIDE DEF HARDENED
<1>2. p[1] \in Nat /\ p[2] \in Nat /\ p[3] \in Nat /\ p[4] \in Nat /\ p[5] \in Nat
  OBVIOUS
<1>3. /\ LevelStatus(1, p[1]) = "SW_OK" <=> p[1] = BIP44_PURPOSE
      /\ LevelStatus(2, p[2]) = "SW_OK" <=> p[2] = BIP44_COIN_TYPE_NEO
      /\ LevelStatus(3, p[3]) = "SW_OK" <=> p[3] >= HARDENED /\ p[3] <= HARDENED + MAX_ACCOUNT
      /\ LevelStatus(4, p[4]) = "SW_OK" <=> p[4] \in {0, 1}
      /\ LevelStatus(5, p[5]) = "SW_OK" <=> p[5] < ADDRESSES
  BY <1>1, <1>2 DEF LevelStatus
<1>4. IsPassingPath(p) <=>
        /\ p[1] = BIP44_PURPOSE /\ p[2] = BIP44_COIN_TYPE_NEO
        /\ p[3] >= HARDENED /\ p[3] <= HARDENED + MAX_ACCOUNT
        /\ p[4] \in {0, 1}
        /\ p[5] < ADDRESSES
  <2>1. DocumentedAccounts \cup ExcessAccounts = 0..MAX_ACCOUNT
    BY <1>1, DocumentsAssumption DEF DocumentedAccounts, ExcessAccounts
  <2>2. DocumentedIndices \ RefusedIndices = 0..(ADDRESSES - 1)
    BY <1>1, DocumentsAssumption DEF DocumentedIndices, RefusedIndices
  <2>3. IsPassingPath(p) <=> IsWalletPath(p, 0..MAX_ACCOUNT, 0..(ADDRESSES - 1))
    BY <2>1, <2>2 DEF IsPassingPath
  <2> QED
    BY <1>1, <1>2, <2>3 DEF IsWalletPath, Hardened, IndexOf
<1>5. (\A k \in 1..5 : LevelStatus(k, p[k]) = "SW_OK") <=>
        /\ LevelStatus(1, p[1]) = "SW_OK" /\ LevelStatus(2, p[2]) = "SW_OK"
        /\ LevelStatus(3, p[3]) = "SW_OK" /\ LevelStatus(4, p[4]) = "SW_OK"
        /\ LevelStatus(5, p[5]) = "SW_OK"
  OBVIOUS
<1> QED
  BY <1>3, <1>4, <1>5, Zenon

\* A documented path that does not pass has the last index.
LEMMA DocumentedPaths ==
    ASSUME NEW p, IsDocumentedPath(p), ~IsPassingPath(p)
    PROVE  p[5] \in RefusedIndices
<1>1. IndexOf(p[5]) \in DocumentedIndices /\ ~Hardened(p[5])
  BY DEF IsDocumentedPath, IsWalletPath
<1>2. IndexOf(p[5]) \in RefusedIndices
  BY <1>1 DEF IsDocumentedPath, IsPassingPath, IsWalletPath
<1> QED
  BY <1>1, <1>2 DEF IndexOf

LEMMA RefusedStatus == \A k, v : LevelStatus(k, v) # "none"
BY DEF LevelStatus

LEMMA AcceptKeepsPathInv ==
    ASSUME BufferInv, call = NoCall, PathAccepted
    PROVE  AcceptedPathIsRead' /\ RefusedPathIsCut'
<1>1. /\ size >= BIP44_BYTE_LENGTH /\ UNCHANGED ptr /\ status' = "SW_OK"
      /\ offset = 0 /\ offset' = 20 /\ ptr \in Seq(Bytes) /\ size = Len(ptr)
  BY DEF PathAccepted, BufferInv, TypeOK, size, BIP44_BYTE_LENGTH
<1>2. bip44_path' = [k \in 1..5 |-> Level(k)] /\ \A k \in 1..5 : Passes(k)
  BY DEF PathAccepted, BIP44_PATH_LEN, Stored
<1>3. \A k \in 1..5 : /\ Level(k) \in Nat
                      /\ write_be(Level(k), 4) = SubSeq(ptr, 4 * (k - 1) + 1, 4 * (k - 1) + 4)
  BY <1>1, LevelsAreRead DEF BIP44_PATH_LEN
<1> DEFINE p == bip44_path'
<1>4. \A k \in 1..5 : p[k] = Level(k)
  BY <1>2
<1> HIDE DEF p
<1>5. IsPassingPath(p)
  BY <1>2, <1>3, <1>4, PassingLevels DEF Passes
<1>6. SubSeq(ptr, 1, 20) = Text(p)
  <2> DEFINE s == SubSeq(ptr, 1, 20)
  <2>1. s \in Seq(Bytes) /\ Len(s) = 20
    BY <1>1 DEF BIP44_BYTE_LENGTH
  <2>2. \A k \in 1..5 :
            SubSeq(s, 4 * (k - 1) + 1, 4 * (k - 1) + 4) = SubSeq(ptr, 4 * (k - 1) + 1, 4 * (k - 1) + 4)
    BY <1>1 DEF BIP44_BYTE_LENGTH
  <2>3. SubSeq(s, 1, 20) = s
    BY <2>1
  <2> HIDE DEF s
  <2>4. \A k \in 1..5 :
            p[k] \in Nat /\ write_be(p[k], 4) = SubSeq(s, 4 * (k - 1) + 1, 4 * (k - 1) + 4)
    BY <1>3, <1>4, <2>2, Zenon
  <2>5. PICK n \in 0..5 : n = 5
    OBVIOUS
  <2>6. \A k \in 1..n : write_be(p[k], 4) = SubSeq(s, 4 * (k - 1) + 1, 4 * (k - 1) + 4)
    BY <2>4, <2>5, Zenon
  <2>7. SubSeq(Text(p), 1, 4 * n) = SubSeq(s, 1, 4 * n) /\ SubSeq(Text(p), 1, 20) = Text(p)
    BY <2>1, <2>4, <2>6, TextBegins
  <2> QED
    BY <2>3, <2>5, <2>7 DEF s
<1> QED
  BY <1>1, <1>5, <1>6
     DEF AcceptedPathIsRead, RefusedPathIsCut, IsPassingPath, BIP44_BYTE_LENGTH, p

LEMMA RefuseKeepsPathInv ==
    ASSUME BufferInv, call = NoCall, PathRefused
    PROVE  AcceptedPathIsRead' /\ RefusedPathIsCut'
<1>1. /\ size >= 20 /\ UNCHANGED ptr
      /\ offset = 0 /\ ptr \in Seq(Bytes) /\ size = Len(ptr) /\ size \in Nat
  BY DEF PathRefused, BufferInv, TypeOK, size, BIP44_BYTE_LENGTH
<1>2. PICK n \in 1..5 : /\ ~Passes(n) /\ \A m \in 1..(n - 1) : Passes(m)
                        /\ status' = LevelStatus(n, Level(n))
                        /\ offset' = offset + 4 * n
  BY DEF PathRefused, BIP44_PATH_LEN
<1>3. \A k \in 1..5 : /\ Level(k) \in Nat
                      /\ Level(k) = read_u32_be(ptr, 4 * (k - 1))
                      /\ write_be(Level(k), 4) = SubSeq(ptr, 4 * (k - 1) + 1, 4 * (k - 1) + 4)
  BY <1>1, LevelsAreRead DEF BIP44_PATH_LEN, BIP44_BYTE_LENGTH
<1>4. bip44_path' = [k \in 1..5 |-> IF Stored(k) THEN Level(k) ELSE 0]
  BY DEF PathRefused, BIP44_PATH_LEN
<1>5. \A k \in 1..5 : Stored(k) <=> k < n
  BY <1>2 DEF Stored
<1> DEFINE p == bip44_path'
<1>6. \A k \in 1..5 : p[k] = IF k < n THEN Level(k) ELSE 0
  BY <1>4, <1>5
<1> HIDE DEF p
<1>7. offset' - 4 = 4 * (n - 1) /\ status' # "SW_OK"
  BY <1>1, <1>2 DEF Passes
<1>8. SubSeq(Text(p), 1, 4 * (n - 1)) = SubSeq(ptr, 1, 4 * (n - 1))
  <2> DEFINE s == SubSeq(ptr, 1, 20)
  <2>1. s \in Seq(Bytes) /\ Len(s) = 20
    BY <1>1
  <2>2. \A k \in 1..5 :
            SubSeq(s, 4 * (k - 1) + 1, 4 * (k - 1) + 4) = SubSeq(ptr, 4 * (k - 1) + 1, 4 * (k - 1) + 4)
    BY <1>1
  <2>3. SubSeq(s, 1, 4 * (n - 1)) = SubSeq(ptr, 1, 4 * (n - 1))
    BY <1>1
  <2> HIDE DEF s
  <2>4. \A k \in 1..5 : p[k] \in Nat
    BY <1>3, <1>6
  <2>5. n - 1 \in 0..5 /\ \A k \in 1..(n - 1) :
            write_be(p[k], 4) = SubSeq(s, 4 * (k - 1) + 1, 4 * (k - 1) + 4)
    <3> SUFFICES ASSUME NEW k \in 1..(n - 1)
                 PROVE  write_be(p[k], 4) = SubSeq(s, 4 * (k - 1) + 1, 4 * (k - 1) + 4)
      OBVIOUS
    <3>1. k \in 1..5 /\ k < n
      OBVIOUS
    <3>2. p[k] = Level(k)
      BY <1>6, <3>1
    <3> QED
      BY <1>3, <2>2, <3>1, <3>2, Zenon
  <2> QED
    BY <2>1, <2>3, <2>4, <2>5, TextBegins
<1> DEFINE Refused(q) == IsDocumentedPath(q) => q[5] \in RefusedIndices
<1>9. Refused([k \in 1..5 |-> read_u32_be(ptr, 4 * (k - 1))])
  <2> DEFINE q == [k \in 1..5 |-> read_u32_be(ptr, 4 * (k - 1))]
  <2>1. \A k \in 1..5 : q[k] = Level(k) /\ q[k] \in Nat
    BY <1>3
  <2> HIDE DEF q
  <2>2. LevelStatus(n, q[n]) # "SW_OK"
    BY <1>2, <2>1 DEF Passes
  <2>3. Refused(q)
    BY <2>1, <2>2, PassingLevels, DocumentedPaths
  <2> QED
    BY <2>3 DEF q
<1>10. \A k \in 1..5 : 4 * k > 4 * (n - 1) => p[k] = 0
  BY <1>6
<1>11. ~(size' < BIP44_BYTE_LENGTH) /\ ptr' = ptr
  BY <1>1 DEF size, BIP44_BYTE_LENGTH
<1>12. AcceptedPathIsRead'
  BY <1>7 DEF AcceptedPathIsRead
<1>13. RefusedPathIsCut'
  <2> SUFFICES /\ Refused([k \in 1..5 |-> read_u32_be(ptr', 4 * (k - 1))])
               /\ SubSeq(Text(p), 1, offset' - 4) = SubSeq(ptr', 1, offset' - 4)
               /\ \A k \in 1..5 : 4 * k > offset' - 4 => p[k] = 0
    BY <1>11 DEF RefusedPathIsCut, BIP44_PATH_LEN, p
  <2> QED
    BY <1>7, <1>8, <1>9, <1>10, <1>11
<1> QED
  BY <1>12, <1>13

LEMMA NextPathInv == PathInv /\ [PathNext]_pathVars => PathInv'
<1> SUFFICES ASSUME PathInv, [PathNext]_pathVars PROVE PathInv'
  OBVIOUS
<1>1. BufferInv'
  BY NextBufferInv DEF PathInv
<1>2. CASE status = "none" /\ Next /\ UNCHANGED <<bip44_path, status>>
  BY <1>1, <1>2 DEF PathInv, AcceptedPathIsRead, RefusedPathIsCut
<1>3. CASE buffer_read_and_validate_bip44
  <2>1. call = NoCall /\ call' # NoCall
    <3>1. call = NoCall /\ \E ret \in BOOLEAN : call' = Called("path", 0, ret)
      BY <1>3 DEF buffer_read_and_validate_bip44, PathTooShort, PathRefused, PathAccepted
    <3> QED
      BY <3>1, CalledIsNotNone
  <2>2. ASSUME PathTooShort PROVE AcceptedPathIsRead' /\ RefusedPathIsCut'
    BY <2>2 DEF PathTooShort, AcceptedPathIsRead, RefusedPathIsCut, size,
                ZeroPath
  <2>3. AcceptedPathIsRead' /\ RefusedPathIsCut'
    BY <1>3, <2>1, <2>2, AcceptKeepsPathInv, RefuseKeepsPathInv
       DEF PathInv, buffer_read_and_validate_bip44
  <2> QED
    BY <1>1, <2>1, <2>3 DEF PathInv
<1>4. CASE NextCommand
  BY <1>1, <1>4 DEF NextCommand, PathInv, AcceptedPathIsRead, RefusedPathIsCut
<1>5. CASE UNCHANGED pathVars
  BY <1>1, <1>5 DEF pathVars, PathInv, AcceptedPathIsRead, RefusedPathIsCut, size,
                    Text, IsWalletPath, IsDocumentedPath
<1> QED
  BY <1>2, <1>3, <1>4, <1>5 DEF PathNext

\* Whatever the bytes of a command are: the path whose key is derived is one the documents
\* let pass or has an account in excess, and is the one that the bytes say.
THEOREM AcceptedPath == PathSpec => []AcceptedPathIsRead
<1>1. PathInv => AcceptedPathIsRead
  BY DEF PathInv
<1> QED
  BY <1>1, InitPathInv, NextPathInv, PTL DEF PathSpec

\* No documented path but one with the last index is refused, and a refusal leaves in the
\* context only the levels before the one that is refused.
THEOREM RefusedPath == PathSpec => []RefusedPathIsCut
<1>1. PathInv => RefusedPathIsCut
  BY DEF PathInv
<1> QED
  BY <1>1, InitPathInv, NextPathInv, PTL DEF PathSpec

-----------------------------------------------------------------------------
(* Numbers of every width: each is made of two halves. *)

IsSum(v, h, m, l) == v = h * m + l

LEMMA SumParts ==
    ASSUME NEW q \in Nat, NEW m \in Nat \ {0}, NEW r \in 0..(m - 1), NEW v, IsSum(v, q, m, r)
    PROVE  v \div m = q /\ v % m = r
<1>1. (q * m + r) \div m = q /\ (q * m + r) % m = r
  BY DivMod
<1> QED
  BY <1>1 DEF IsSum

HasQuotient(x, m) == \E q \in Nat, r \in 0..(m - 1) : IsSum(x, q, m, r) /\ x \div m = q /\ x % m = r

LEMMA Quotient == ASSUME NEW x \in Nat, NEW m \in Nat \ {0} PROVE HasQuotient(x, m)
<1>1. x \in Int /\ x \div m \in Int /\ x % m \in 0..(m - 1)
  OBVIOUS
<1>2. x = m * (x \div m) + (x % m)
  BY <1>1
<1>3. PICK q \in Int : q = x \div m
  BY <1>1
<1>4. PICK r \in 0..(m - 1) : r = x % m
  BY <1>1
<1>5. x = m * q + r
  BY <1>2, <1>3, <1>4
<1>6. ~(q <= -1)
  <2>1. ASSUME q <= -1 PROVE m * q <= -m
    BY <2>1
  <2>2. m * q \in Int
    OBVIOUS
  <2> QED
    BY <1>5, <2>1, <2>2
<1>7. q \in Nat /\ x = q * m + r
  BY <1>5, <1>6
<1> QED
  BY <1>3, <1>4, <1>7 DEF HasQuotient, IsSum

\* A quotient of the upper half does not see the lower one.
LEMMA HighPart ==
    ASSUME NEW m \in Nat \ {0}, NEW w \in Nat \ {0}, NEW h \in Nat, NEW l \in 0..(m - 1),
           NEW v, IsSum(v, h, m, l), NEW d, d = m * w
    PROVE  v \div d = h \div w
<1>1. PICK q \in Nat, r \in 0..(w - 1) : h = q * w + r /\ h \div w = q
  BY Quotient DEF HasQuotient, IsSum
<1>2. d \in Nat \ {0} /\ v = h * m + l
  BY DEF IsSum
<1>3. PICK e \in Nat : e = r * m + l
  BY <1>1
<1>4. h * m + l = q * d + e
  <2>1. (q * w + r) * m = q * (m * w) + r * m
    BY <1>1
  <2> QED
    BY <1>1, <1>2, <1>3, <2>1
<1>5. e \in 0..(d - 1)
  <2>1. r * m <= (w - 1) * m
    BY <1>1
  <2>2. (w - 1) * m = d - m
    BY <1>2
  <2> QED
    BY <1>1, <1>2, <1>3, <2>1, <2>2
<1>6. (q * d + e) \div d = q
  BY <1>2, <1>5, DivMod
<1> QED
  BY <1>1, <1>2, <1>4, <1>6

IsProduct(m, w, b, c) == m = w * b * c

\* A byte of the lower half does not see the upper one.
LEMMA LowPart ==
    ASSUME NEW w \in Nat \ {0}, NEW b \in Nat \ {0}, NEW c \in Nat \ {0},
           NEW m \in Nat, IsProduct(m, w, b, c), NEW h \in Nat, NEW l \in Nat, NEW v, IsSum(v, h, m, l)
    PROVE  (v \div w) % b = (l \div w) % b
<1>1. PICK q \in Nat, r \in 0..(w - 1) : l = q * w + r /\ l \div w = q
  BY Quotient DEF HasQuotient, IsSum
<1>2. PICK s \in Nat, t \in 0..(b - 1) : q = s * b + t /\ q % b = t
  BY Quotient DEF HasQuotient, IsSum
<1>3. PICK x \in Nat : x = h * c
  OBVIOUS
<1>4. PICK y \in Nat : y = x + s
  BY <1>2, <1>3
<1>5. PICK z \in Nat : z = y * b + t
  BY <1>2, <1>4
<1>6. v = z * w + r
  <2>1. h * m = (x * b) * w
    BY <1>3 DEF IsProduct
  <2>2. z = x * b + q
    BY <1>2, <1>4, <1>5
  <2>3. z * w = (x * b) * w + q * w
    BY <2>2
  <2> QED
    BY <1>1, <2>1, <2>3 DEF IsSum
<1>7. IsSum(v, z, w, r) /\ IsSum(z, y, b, t)
  BY <1>5, <1>6 DEF IsSum
<1>8. v \div w = z /\ z % b = t
  BY <1>7, SumParts
<1> QED
  BY <1>1, <1>2, <1>8

Halving == {1, 2, 4}

LEMMA WordType == \A w \in Widths : Word(w) \in Nat \ {0}
<1>1. BYTE \in Nat \ {0}
  BY ByteAssumption
<1>2. Word16 \in Nat \ {0}
  BY <1>1 DEF Word16
<1>3. Word32 \in Nat \ {0}
  BY <1>2 DEF Word32
<1>4. Word64 \in Nat \ {0}
  BY <1>3 DEF Word64
<1> QED
  BY <1>1, <1>2, <1>3, <1>4 DEF Word, Widths

\* The weights of the bytes of two halves.
LEMMA HalfWeights ==
    ASSUME NEW w \in Halving, NEW k \in 0..(w - 1)
    PROVE  /\ Word(w) \in Nat \ {0} /\ Word(2 * w) = Word(w) * Word(w)
           /\ Weight(w + k) = Word(w) * Weight(k)
           /\ \E c \in Nat \ {0} : Word(w) = Weight(k) * BYTE * c
<1>1. BYTE \in Nat \ {0}
  BY ByteAssumption
<1>2. Word16 \in Nat \ {0} /\ Word16 = BYTE * BYTE
  BY <1>1 DEF Word16
<1>3. Word32 \in Nat \ {0} /\ Word32 = Word16 * Word16
  BY <1>2 DEF Word32
<1>4. Word64 = Word32 * Word32
  BY DEF Word64
<1>5. CASE w = 1
  <2>1. k = 0 /\ Word(w) = BYTE /\ Word(2 * w) = Word16
    BY <1>5 DEF Word
  <2>2. Weight(k) = 1 /\ Weight(w + k) = BYTE
    BY <1>5, <2>1 DEF Weight
  <2>3. BYTE = 1 * BYTE * 1 /\ BYTE = BYTE * 1
    BY <1>1
  <2> HIDE DEF Word16
  <2>4. 1 \in Nat \ {0}
    OBVIOUS
  <2> QED
    BY <1>1, <1>2, <2>1, <2>2, <2>3, <2>4, Zenon
<1>6. CASE w = 2
  <2>1. Word(w) = Word16 /\ Word(2 * w) = Word32
    BY <1>6 DEF Word
  <2>2. k = 0 \/ k = 1
    BY <1>6
  <2>3. Weight(0) = 1 /\ Weight(1) = BYTE /\ Weight(2) = Word16 /\ Weight(3) = BYTE * Word16
    BY DEF Weight
  <2> HIDE DEF Word16
  <2>4. CASE k = 0
    <3>1. Word16 = 1 * BYTE * BYTE /\ Word16 = Word16 * 1
      BY <1>1, <1>2
    <3>2. w + k = 2
      BY <1>6, <2>4
    <3> QED
      BY <1>1, <1>2, <1>3, <2>1, <2>3, <2>4, <3>1, <3>2
  <2>5. CASE k = 1
    <3>1. Word16 = BYTE * BYTE * 1 /\ BYTE * Word16 = Word16 * BYTE
      BY <1>1, <1>2
    <3>2. w + k = 3
      BY <1>6, <2>5
    <3> QED
      BY <1>1, <1>2, <1>3, <2>1, <2>3, <2>5, <3>1, <3>2
  <2> QED
    BY <2>2, <2>4, <2>5
<1>7. CASE w = 4
  <2>1. Word(w) = Word32 /\ Word(2 * w) = Word64
    BY <1>7 DEF Word
  <2>2. k = 0 \/ k = 1 \/ k = 2 \/ k = 3
    BY <1>7
  <2>3. /\ Weight(0) = 1 /\ Weight(1) = BYTE /\ Weight(2) = Word16 /\ Weight(3) = BYTE * Word16
        /\ Weight(4) = Word32 /\ Weight(5) = BYTE * Word32 /\ Weight(6) = Word16 * Word32
        /\ Weight(7) = BYTE * Word16 * Word32
    BY DEF Weight
  <2>4. BYTE * Word16 \in Nat \ {0}
    BY <1>1, <1>2
  <2> HIDE DEF Word16, Word32, Word64
  <2>5. CASE k = 0
    <3>1. Word32 = 1 * BYTE * (BYTE * Word16) /\ Word32 = Word32 * 1
      BY <1>1, <1>2, <1>3
    <3>2. w + k = 4
      BY <1>7, <2>5
    <3> QED
      BY <1>3, <1>4, <2>1, <2>3, <2>4, <2>5, <3>1, <3>2
  <2>6. CASE k = 1
    <3>1. Word32 = BYTE * BYTE * Word16 /\ BYTE * Word32 = Word32 * BYTE
      BY <1>1, <1>2, <1>3
    <3>2. w + k = 5
      BY <1>7, <2>6
    <3> QED
      BY <1>2, <1>3, <1>4, <2>1, <2>3, <2>6, <3>1, <3>2
  <2>7. CASE k = 2
    <3>1. Word32 = Word16 * BYTE * BYTE /\ Word16 * Word32 = Word32 * Word16
      BY <1>1, <1>2, <1>3
    <3>2. w + k = 6
      BY <1>7, <2>7
    <3> QED
      BY <1>1, <1>3, <1>4, <2>1, <2>3, <2>7, <3>1, <3>2
  <2>8. CASE k = 3
    <3>1. Word32 = (BYTE * Word16) * BYTE * 1 /\ BYTE * Word16 * Word32 = Word32 * (BYTE * Word16)
      BY <1>1, <1>2, <1>3
    <3>2. w + k = 7
      BY <1>7, <2>8
    <3> QED
      BY <1>3, <1>4, <2>1, <2>3, <2>8, <3>1, <3>2
  <2> QED
    BY <2>2, <2>5, <2>6, <2>7, <2>8
<1> QED
  BY <1>5, <1>6, <1>7 DEF Halving

\* The number of two halves, and its bytes.
LEMMA Halves ==
    ASSUME NEW w \in Halving, NEW m, m = Word(w), NEW h \in 0..(m - 1), NEW l \in 0..(m - 1),
           NEW v, IsSum(v, h, m, l)
    PROVE  /\ v \in 0..(Word(2 * w) - 1)
           /\ \A k \in 0..(w - 1) : ByteOf(v, k) = ByteOf(l, k) /\ ByteOf(v, w + k) = ByteOf(h, k)
<1>1. 0 \in 0..(w - 1)
  BY DEF Halving
<1>2. m \in Nat \ {0} /\ Word(2 * w) = m * m
  BY <1>1, HalfWeights
<1>3. h \in Nat /\ l \in Nat /\ BYTE \in Nat \ {0}
  BY <1>2, ByteAssumption
<1>4. v \in 0..(Word(2 * w) - 1)
  <2>1. h * m <= (m - 1) * m /\ (m - 1) * m = m * m - m /\ h * m >= 0
    BY <1>2, <1>3
  <2>2. h * m \in Int /\ m * m \in Int
    BY <1>2, <1>3
  <2> QED
    BY <1>2, <1>3, <2>1, <2>2 DEF IsSum
<1>5. ASSUME NEW k \in 0..(w - 1)
      PROVE  ByteOf(v, k) = ByteOf(l, k) /\ ByteOf(v, w + k) = ByteOf(h, k)
  <2>1. k \in 0..7
    BY DEF Halving
  <2>2. PICK e \in Nat \ {0} : e = Weight(k)
    BY <2>1, WeightType
  <2>3. PICK c \in Nat \ {0} : m = e * BYTE * c
    BY <2>2, HalfWeights
  <2>4. Weight(w + k) = m * e
    BY <2>2, HalfWeights
  <2>5. (v \div e) % BYTE = (l \div e) % BYTE
    <3>1. IsProduct(m, e, BYTE, c)
      BY <2>3 DEF IsProduct
    <3>2. m \in Nat
      BY <1>2
    <3> QED
      BY <1>3, <3>1, <3>2, LowPart
  <2>6. v \div (m * e) = h \div e
    BY <1>2, <1>3, HighPart
  <2> QED
    BY <2>2, <2>4, <2>5, <2>6 DEF ByteOf
<1> QED
  BY <1>4, <1>5

\* Every number has two halves.
LEMMA HalvesExist ==
    ASSUME NEW w \in Halving, NEW m, m = Word(w), NEW v \in 0..(Word(2 * w) - 1)
    PROVE  \E h, l \in 0..(m - 1) : IsSum(v, h, m, l)
<1>1. 0 \in 0..(w - 1)
  BY DEF Halving
<1>2. m \in Nat \ {0} /\ Word(2 * w) = m * m
  BY <1>1, HalfWeights
<1>3. v \in Nat /\ v < m * m
  BY <1>2
<1>4. PICK h \in Nat, l \in 0..(m - 1) : v = h * m + l
  <2>1. HasQuotient(v, m)
    BY <1>2, <1>3, Quotient
  <2> QED
    BY <2>1 DEF HasQuotient, IsSum
<1>5. ~(h >= m)
  <2>1. ASSUME h >= m PROVE h * m >= m * m
    BY <1>2, <2>1
  <2>2. h * m \in Int /\ m * m \in Int
    BY <1>2
  <2> QED
    BY <1>3, <1>4, <2>1, <2>2
<1> QED
  BY <1>2, <1>4, <1>5 DEF IsSum

\* Two numbers of a width with the same bytes are the same.
LEMMA OneByte == \A v \in Bytes : ByteOf(v, 0) = v /\ v \in 0..(Word(1) - 1)
<1> TAKE v \in Bytes
<1>1. v \in Nat /\ v < BYTE /\ BYTE \in Nat
  BY ByteAssumption DEF Bytes
<1>2. v \div 1 = v /\ v % BYTE = v
  BY <1>1
<1> QED
  BY <1>1, <1>2 DEF ByteOf, Weight, Word

SameBytes(u, v, w) == \A k \in 0..(w - 1) : ByteOf(u, k) = ByteOf(v, k)
IsUnique(w) == \A u, v \in 0..(Word(w) - 1) : SameBytes(u, v, w) => u = v

LEMMA DoubleIsUnique ==
    ASSUME NEW w \in Halving, IsUnique(w)
    PROVE  IsUnique(2 * w)
<1>1. PICK m : m = Word(w)
  OBVIOUS
<1> SUFFICES ASSUME NEW u \in 0..(Word(2 * w) - 1), NEW v \in 0..(Word(2 * w) - 1),
                    SameBytes(u, v, 2 * w)
             PROVE  u = v
  BY DEF IsUnique
<1>2. PICK h, l \in 0..(m - 1) : IsSum(u, h, m, l)
  BY <1>1, HalvesExist
<1>3. PICK g, j \in 0..(m - 1) : IsSum(v, g, m, j)
  BY <1>1, HalvesExist
<1>4. \A k \in 0..(w - 1) : ByteOf(u, k) = ByteOf(l, k) /\ ByteOf(u, w + k) = ByteOf(h, k)
  BY <1>1, <1>2, Halves
<1>5. \A k \in 0..(w - 1) : ByteOf(v, k) = ByteOf(j, k) /\ ByteOf(v, w + k) = ByteOf(g, k)
  BY <1>1, <1>3, Halves
<1>6. \A k \in 0..(w - 1) : ByteOf(u, k) = ByteOf(v, k) /\ ByteOf(u, w + k) = ByteOf(v, w + k)
  BY DEF SameBytes, Halving
<1>7. SameBytes(l, j, w) /\ SameBytes(h, g, w)
  BY <1>4, <1>5, <1>6 DEF SameBytes
<1>8. l = j /\ h = g
  BY <1>1, <1>7 DEF IsUnique
<1> QED
  BY <1>2, <1>3, <1>8 DEF IsSum

LEMMA BytesAreUnique == \A w \in Widths : IsUnique(w)
<1>1. IsUnique(1)
  <2> SUFFICES ASSUME NEW u \in 0..(Word(1) - 1), NEW v \in 0..(Word(1) - 1), SameBytes(u, v, 1)
               PROVE  u = v
    BY DEF IsUnique
  <2>1. u \in Bytes /\ v \in Bytes
    BY DEF Word, Bytes
  <2>2. ByteOf(u, 0) = ByteOf(v, 0)
    BY DEF SameBytes
  <2> QED
    BY <2>1, <2>2, OneByte
<1>2. IsUnique(2)
  <2>1. IsUnique(2 * 1)
    BY <1>1, DoubleIsUnique DEF Halving
  <2> QED
    BY <2>1
<1>3. IsUnique(4)
  <2>1. IsUnique(2 * 2)
    BY <1>2, DoubleIsUnique DEF Halving
  <2> QED
    BY <2>1
<1>4. IsUnique(8)
  <2>1. IsUnique(2 * 4)
    BY <1>3, DoubleIsUnique DEF Halving
  <2> QED
    BY <2>1
<1> QED
  BY <1>1, <1>2, <1>3, <1>4 DEF Widths

-----------------------------------------------------------------------------
(* Reading. *)

\* The number v is written behind o, in w bytes.
MadeOf(v, w, order, p, o) ==
    /\ v \in 0..(Word(w) - 1)
    /\ \A k \in 0..(w - 1) : p[o + 1 + k] = ByteOf(v, IF order = "BE" THEN w - 1 - k ELSE k)

\* What is read behind o in w bytes is the number that is written there.
IsReading(w) ==
    \A p \in Seq(Bytes), o \in Nat, order \in Orders :
        o + w <= Len(p) => MadeOf(Unsigned(w, order, p, o), w, order, p, o)

LEMMA HalvesMakeBE ==
    ASSUME NEW w \in Halving, NEW p, NEW o \in Nat, NEW h, NEW l,
           MadeOf(h, w, "BE", p, o), MadeOf(l, w, "BE", p, o + w),
           NEW v, IsSum(v, h, Word(w), l)
    PROVE  MadeOf(v, 2 * w, "BE", p, o)
<1>1. PICK m : m = Word(w)
  OBVIOUS
<1>2. h \in 0..(m - 1) /\ l \in 0..(m - 1) /\ IsSum(v, h, m, l)
  BY <1>1 DEF MadeOf
<1>3. /\ v \in 0..(Word(2 * w) - 1)
      /\ \A k \in 0..(w - 1) : ByteOf(v, k) = ByteOf(l, k) /\ ByteOf(v, w + k) = ByteOf(h, k)
  BY <1>1, <1>2, Halves
<1>4. \A k \in 0..(w - 1) : p[o + 1 + k] = ByteOf(h, w - 1 - k)
  BY DEF MadeOf
<1>5. \A k \in 0..(w - 1) : p[o + w + 1 + k] = ByteOf(l, w - 1 - k)
  BY DEF MadeOf
<1>6. w \in Nat
  BY DEF Halving
<1>7. ASSUME NEW k \in 0..(2 * w - 1) PROVE p[o + 1 + k] = ByteOf(v, 2 * w - 1 - k)
  <2>1. CASE k < w
    <3>1. PICK j \in 0..(w - 1) : j = w - 1 - k
      BY <1>6, <2>1
    <3>2. 2 * w - 1 - k = w + j /\ k \in 0..(w - 1)
      BY <1>6, <2>1, <3>1
    <3> QED
      BY <1>3, <1>4, <3>1, <3>2
  <2>2. CASE k >= w
    <3>1. PICK j \in 0..(w - 1) : k = w + j
      <4>1. k - w \in 0..(w - 1) /\ k = w + (k - w)
        BY <1>6, <2>2
      <4> QED
        BY <4>1
    <3>2. PICK i \in 0..(w - 1) : i = w - 1 - j
      BY <1>6, <3>1
    <3>3. 2 * w - 1 - k = i /\ o + 1 + k = o + w + 1 + j
      BY <1>6, <3>1, <3>2
    <3> QED
      BY <1>3, <1>5, <3>2, <3>3
  <2> QED
    BY <1>6, <2>1, <2>2
<1> QED
  BY <1>3, <1>7 DEF MadeOf

LEMMA HalvesMakeLE ==
    ASSUME NEW w \in Halving, NEW p, NEW o \in Nat, NEW h, NEW l,
           MadeOf(l, w, "LE", p, o), MadeOf(h, w, "LE", p, o + w),
           NEW v, IsSum(v, h, Word(w), l)
    PROVE  MadeOf(v, 2 * w, "LE", p, o)
<1>1. PICK m : m = Word(w)
  OBVIOUS
<1>2. h \in 0..(m - 1) /\ l \in 0..(m - 1) /\ IsSum(v, h, m, l)
  BY <1>1 DEF MadeOf
<1>3. /\ v \in 0..(Word(2 * w) - 1)
      /\ \A k \in 0..(w - 1) : ByteOf(v, k) = ByteOf(l, k) /\ ByteOf(v, w + k) = ByteOf(h, k)
  BY <1>1, <1>2, Halves
<1>4. \A k \in 0..(w - 1) : p[o + 1 + k] = ByteOf(l, k)
  BY DEF MadeOf
<1>5. \A k \in 0..(w - 1) : p[o + w + 1 + k] = ByteOf(h, k)
  BY DEF MadeOf
<1>6. w \in Nat
  BY DEF Halving
<1>7. ASSUME NEW k \in 0..(2 * w - 1) PROVE p[o + 1 + k] = ByteOf(v, k)
  <2>1. CASE k < w
    BY <1>3, <1>4, <1>6, <2>1
  <2>2. CASE k >= w
    <3>1. PICK j \in 0..(w - 1) : k = w + j
      <4>1. k - w \in 0..(w - 1) /\ k = w + (k - w)
        BY <1>6, <2>2
      <4> QED
        BY <4>1
    <3>2. o + 1 + k = o + w + 1 + j
      BY <1>6, <3>1
    <3> QED
      BY <1>3, <1>5, <3>1, <3>2
  <2> QED
    BY <1>6, <2>1, <2>2
<1> QED
  BY <1>3, <1>7 DEF MadeOf

\* Each read is made of two reads of half its width.
LEMMA ReadsAreHalves ==
    ASSUME NEW p, NEW o \in Nat, NEW w \in Halving
    PROVE  /\ Unsigned(2 * w, "BE", p, o)
                = Unsigned(w, "BE", p, o) * Word(w) + Unsigned(w, "BE", p, o + w)
           /\ Unsigned(2 * w, "LE", p, o)
                = Unsigned(w, "LE", p, o) + Unsigned(w, "LE", p, o + w) * Word(w)
<1>1. \A q \in Nat :
         /\ Unsigned(1, "BE", p, q) = p[q + 1] /\ Unsigned(1, "LE", p, q) = p[q + 1]
         /\ Unsigned(2, "BE", p, q) = read_u16_be(p, q) /\ Unsigned(2, "LE", p, q) = read_u16_le(p, q)
         /\ Unsigned(4, "BE", p, q) = read_u32_be(p, q) /\ Unsigned(4, "LE", p, q) = read_u32_le(p, q)
         /\ Unsigned(8, "BE", p, q) = read_u64_be(p, q) /\ Unsigned(8, "LE", p, q) = read_u64_le(p, q)
  BY DEF Unsigned
<1>2. Word(1) = BYTE /\ Word(2) = Word16 /\ Word(4) = Word32
  BY DEF Word
<1>3. CASE w = 1
  <2>1. 2 * w = 2 /\ o + w + 1 = o + 2 /\ o + w \in Nat
    BY <1>3
  <2>2. /\ read_u16_be(p, o) = p[o + 1] * BYTE + p[o + 2]
        /\ read_u16_le(p, o) = p[o + 1] + p[o + 2] * BYTE
    BY Zenon DEF read_u16_be, read_u16_le
  <2> QED
    BY <1>1, <1>2, <1>3, <2>1, <2>2, Zenon
<1>4. CASE w = 2
  <2>1. 2 * w = 4 /\ o + w \in Nat
    BY <1>4
  <2>2. /\ read_u32_be(p, o) = read_u16_be(p, o) * Word16 + read_u16_be(p, o + 2)
        /\ read_u32_le(p, o) = read_u16_le(p, o) + read_u16_le(p, o + 2) * Word16
    BY Zenon DEF read_u32_be, read_u32_le
  <2> QED
    BY <1>1, <1>2, <1>4, <2>1, <2>2, Zenon
<1>5. CASE w = 4
  <2>1. 2 * w = 8 /\ o + w \in Nat
    BY <1>5
  <2>2. /\ read_u64_be(p, o) = read_u32_be(p, o) * Word32 + read_u32_be(p, o + 4)
        /\ read_u64_le(p, o) = read_u32_le(p, o) + read_u32_le(p, o + 4) * Word32
    BY Zenon DEF read_u64_be, read_u64_le
  <2> QED
    BY <1>1, <1>2, <1>5, <2>1, <2>2, Zenon
<1> QED
  BY <1>3, <1>4, <1>5 DEF Halving

LEMMA DoubleIsReading ==
    ASSUME NEW w \in Halving, IsReading(w)
    PROVE  IsReading(2 * w)
<1> SUFFICES ASSUME NEW p \in Seq(Bytes), NEW o \in Nat, NEW order \in Orders,
                    o + 2 * w <= Len(p)
             PROVE  MadeOf(Unsigned(2 * w, order, p, o), 2 * w, order, p, o)
  BY DEF IsReading
<1>1. w \in Nat /\ o + w \in Nat /\ o + w <= Len(p) /\ o + w + w <= Len(p)
  BY DEF Halving
<1>2. PICK x, y, v : /\ x = Unsigned(w, order, p, o) /\ y = Unsigned(w, order, p, o + w)
                     /\ v = Unsigned(2 * w, order, p, o)
  OBVIOUS
<1>3. MadeOf(x, w, order, p, o) /\ MadeOf(y, w, order, p, o + w)
  BY <1>1, <1>2 DEF IsReading
<1>4. CASE order = "BE"
  <2>1. v = x * Word(w) + y
    BY <1>2, <1>4, ReadsAreHalves
  <2>2. IsSum(v, x, Word(w), y)
    BY <2>1 DEF IsSum
  <2> QED
    BY <1>2, <1>3, <1>4, <2>2, HalvesMakeBE
<1>5. CASE order = "LE"
  <2>1. v = x + y * Word(w)
    BY <1>2, <1>5, ReadsAreHalves
  <2>2. x \in Int /\ y \in Int /\ Word(w) \in Int
    <3>1. Word(w) \in Nat
      BY WordType DEF Halving, Widths
    <3> QED
      BY <1>3, <3>1 DEF MadeOf
  <2>3. x + y * Word(w) = y * Word(w) + x
    BY <2>2
  <2>4. IsSum(v, y, Word(w), x)
    BY <2>1, <2>3 DEF IsSum
  <2> QED
    BY <1>2, <1>3, <1>5, <2>4, HalvesMakeLE
<1> QED
  BY <1>4, <1>5 DEF Orders

LEMMA ReadsAreNumbers == \A w \in Widths : IsReading(w)
<1>1. IsReading(1)
  <2> SUFFICES ASSUME NEW p \in Seq(Bytes), NEW o \in Nat, NEW order \in Orders,
                      o + 1 <= Len(p)
               PROVE  MadeOf(Unsigned(1, order, p, o), 1, order, p, o)
    BY DEF IsReading
  <2>1. p[o + 1] \in Bytes
    OBVIOUS
  <2>2. PICK b \in Bytes : b = p[o + 1]
    BY <2>1
  <2>3. Unsigned(1, order, p, o) = b
    BY <2>2 DEF Unsigned
  <2>4. ByteOf(b, 0) = b /\ b \in 0..(Word(1) - 1)
    BY OneByte
  <2>5. ASSUME NEW k \in 0..(1 - 1) PROVE k = 0 /\ 1 - 1 - k = 0 /\ o + 1 + k = o + 1
    <3>1. k = 0
      OBVIOUS
    <3>2. 1 - 1 - k = 0
      BY <3>1
    <3>3. o + 1 + k = o + 1
      BY <3>1
    <3> QED
      BY <3>1, <3>2, <3>3
  <2> QED
    BY <2>2, <2>3, <2>4, <2>5 DEF MadeOf
<1>2. IsReading(2)
  <2>1. IsReading(2 * 1)
    BY <1>1, DoubleIsReading DEF Halving
  <2> QED
    BY <2>1
<1>3. IsReading(4)
  <2>1. IsReading(2 * 2)
    BY <1>2, DoubleIsReading DEF Halving
  <2> QED
    BY <2>1
<1>4. IsReading(8)
  <2>1. IsReading(2 * 4)
    BY <1>3, DoubleIsReading DEF Halving
  <2> QED
    BY <2>1
<1> QED
  BY <1>1, <1>2, <1>3, <1>4 DEF Widths

-----------------------------------------------------------------------------
(* Reads of the buffer. *)

\* The calls of reads and writes by the name they leave in call.
LEMMA NamedReads ==
    ASSUME BufferInv, [PathNext]_pathVars, ~UNCHANGED vars
    PROVE  /\ call'.op = "read" =>
                \E w \in Widths, signed \in BOOLEAN, order \in Orders : buffer_read(w, signed, order)
           /\ call'.op = "write" =>
                \E v \in Numbers, w \in Widths, order \in Orders : write(v, w, order)
           /\ call'.op = "read_varint" => buffer_read_varint
           /\ call'.op = "write_varint" => \E v \in Numbers : write_varint(v)
<1>1. CASE Next
  <2>1. ASSUME NEW n \in Lengths,
               \/ buffer_seek_set(n) \/ buffer_seek_cur(n) \/ buffer_seek_end(n)
               \/ buffer_copy(n) \/ buffer_move(n)
        PROVE  call'.op \in {"seek_set", "seek_cur", "seek_end", "copy", "move"}
    BY <2>1 DEF buffer_seek_set, buffer_seek_cur, buffer_seek_end, buffer_copy, buffer_move,
                Copied, Called, NoCall
  <2>2. ASSUME NEW w \in Widths, NEW signed \in BOOLEAN, NEW order \in Orders,
               buffer_read(w, signed, order)
        PROVE  call'.op = "read"
    BY <2>2 DEF buffer_read, Called, NoCall
  <2>3. ASSUME NEW v \in Numbers, NEW w \in Widths, NEW order \in Orders,
               write(v, w, order)
        PROVE  call'.op = "write"
    BY <2>3 DEF write, Called, NoCall
  <2>4. ASSUME buffer_read_varint PROVE call'.op = "read_varint"
    BY <2>4 DEF buffer_read_varint, Called, NoCall
  <2>5. ASSUME NEW v \in Numbers, write_varint(v) PROVE call'.op = "write_varint"
    BY <2>5 DEF write_varint, Called, NoCall
  <2> QED
    BY <1>1, <2>1, <2>2, <2>3, <2>4, <2>5, Zenon DEF Next
<1>2. CASE buffer_read_and_validate_bip44
  BY <1>2 DEF buffer_read_and_validate_bip44, PathTooShort, PathRefused, PathAccepted,
              Called, NoCall
<1>3. CASE NextCommand
  BY <1>3 DEF NextCommand, NoCall
<1>4. CASE UNCHANGED pathVars
  BY <1>4 DEF pathVars, vars
<1> QED
  BY <1>1, <1>2, <1>3, <1>4 DEF PathNext

\* What a read returns.
LEMMA ReadReturns ==
    ASSUME TypeOK, NEW w \in Widths, NEW signed \in BOOLEAN, NEW order \in Orders,
           buffer_read(w, signed, order),
           NEW v, v = Unsigned(w, order, ptr, offset)
    PROVE  /\ call'.n = w /\ call'.signed = signed /\ call'.order = order /\ UNCHANGED ptr
           /\ call'.ret <=> offset + w <= size
           /\ offset + w <= size =>
                /\ offset' = offset + w
                /\ call'.value = IF signed THEN Signed(v, Word(w)) ELSE v
           /\ ~(offset + w <= size) => offset' = offset /\ call'.value = 0
<1>1. w \in 0..(WORD - 1)
  BY WordAssumption DEF Widths
<1>2. buffer_can_read(offset, w) <=> offset + w <= size
  <2>1. offset \in Nat /\ size \in Nat /\ w \in Nat
    BY <1>1 DEF TypeOK, size
  <2> QED
    BY <2>1, LeftIsExact DEF buffer_can_read
<1>3. PICK ok \in BOOLEAN : ok <=> buffer_can_read(offset, w)
  BY Zenon
<1>4. PICK x : x = CASE ~ok -> 0
                     [] ok /\ signed -> Signed(v, Word(w))
                     [] OTHER -> v
  OBVIOUS
<1>5. /\ offset' = IF ok THEN SeekCur(offset, w) ELSE offset
      /\ call' = [Called("read", w, ok) EXCEPT !.signed = signed, !.order = order, !.value = x]
      /\ UNCHANGED ptr
  <2>1. ok = buffer_can_read(offset, w)
    BY <1>3 DEF buffer_can_read
  <2> QED
    BY <1>4, <2>1, Zenon DEF buffer_read
<1>6. /\ call'.n = w /\ call'.signed = signed /\ call'.order = order /\ call'.value = x
      /\ call'.ret = ok
  BY <1>5 DEF Called, NoCall
<1>7. SeekCur(offset, w) = IF offset + w <= size THEN offset + w ELSE offset
  BY <1>1, SeekCurIsExact
<1> QED
  BY <1>2, <1>3, <1>4, <1>5, <1>6, <1>7

\* The number of a read, signed or not, has the bytes it was read from.
IsResult(c, v, w, order) ==
    /\ c.signed \in BOOLEAN /\ c.order = order
    /\ c.value = IF c.signed THEN Signed(v, Word(w)) ELSE v
IsCopy(b, p, o, w) == b \in Seq(Bytes) /\ Len(b) = w /\ \A k \in 1..w : b[k] = p[o + k]

LEMMA ResultIsMadeOf ==
    ASSUME NEW w \in Widths, NEW order \in Orders, NEW p, NEW o \in Nat,
           NEW v, MadeOf(v, w, order, p, o),
           NEW c, IsResult(c, v, w, order), NEW b, IsCopy(b, p, o, w)
    PROVE  IsMadeOf(c, b)
<1>1. w \in Nat /\ w >= 1
  BY DEF Widths
<1>2. /\ c.signed \in BOOLEAN /\ c.order = order
      /\ c.value = IF c.signed THEN Signed(v, Word(w)) ELSE v
  BY DEF IsResult
<1>3. Len(b) = w /\ \A k \in 1..w : b[k] = p[o + k]
  BY DEF IsCopy
<1>4. PICK n \in Nat : n = Word(w)
  BY WordType
<1>5. v \in 0..(n - 1)
  BY <1>4 DEF MadeOf
<1>6. PICK x \in Int : x = c.value
  BY <1>2, <1>4, <1>5 DEF Signed
<1>7. /\ IF c.signed THEN -n <= 2 * x /\ 2 * x < n ELSE x >= 0
      /\ (IF x < 0 THEN x + n ELSE x) = v
  <2>1. CASE c.signed
    <3>1. x = IF 2 * v < n THEN v ELSE v - n
      BY <1>2, <1>4, <1>6, <2>1 DEF Signed
    <3> QED
      BY <1>5, <2>1, <3>1
  <2>2. CASE ~c.signed
    BY <1>2, <1>5, <1>6, <2>2
  <2> QED
    BY <2>1, <2>2
<1>8. ASSUME NEW k \in 1..w
      PROVE  b[k] = ByteOf(v, IF order = "BE" THEN w - k ELSE k - 1)
  <2>1. PICK j \in 0..(w - 1) : j = k - 1
    BY <1>1
  <2>2. p[o + 1 + j] = ByteOf(v, IF order = "BE" THEN w - 1 - j ELSE j)
    BY DEF MadeOf
  <2>3. o + 1 + j = o + k /\ w - 1 - j = w - k
    BY <1>1, <2>1
  <2> QED
    BY <1>3, <2>1, <2>2, <2>3
<1> QED
  BY <1>2, <1>3, <1>4, <1>5, <1>6, <1>7, <1>8 DEF IsMadeOf

\* For all buffers, widths and orders: a read takes its bytes exactly when they are there,
\* and its result has these bytes, in the range of its type.
THEOREM ReadsAreExact == PathSpec => ReadsTakeTheirBytes
<1>1. ASSUME BufferInv, [PathNext]_pathVars
      PROVE  [call'.op = "read" =>
                IF offset + call'.n <= size
                THEN /\ call'.ret /\ offset' = offset + call'.n
                     /\ IsMadeOf(call', SubSeq(ptr, offset + 1, offset'))
                ELSE ~call'.ret /\ offset' = offset /\ call'.value = 0]_vars
  <2> SUFFICES ASSUME ~UNCHANGED vars, call'.op = "read"
               PROVE  IF offset + call'.n <= size
                      THEN /\ call'.ret /\ offset' = offset + call'.n
                           /\ IsMadeOf(call', SubSeq(ptr, offset + 1, offset'))
                      ELSE ~call'.ret /\ offset' = offset /\ call'.value = 0
    OBVIOUS
  <2>1. PICK w \in Widths, signed \in BOOLEAN, order \in Orders : buffer_read(w, signed, order)
    BY <1>1, NamedReads
  <2>2. TypeOK /\ ptr \in Seq(Bytes) /\ offset \in Nat
    BY <1>1 DEF BufferInv, TypeOK
  <2>3. PICK v : v = Unsigned(w, order, ptr, offset)
    OBVIOUS
  <2>4. PICK c : c = call'
    OBVIOUS
  <2>5. /\ c.n = w /\ c.signed = signed /\ c.order = order
        /\ c.ret <=> offset + w <= size
        /\ offset + w <= size =>
             /\ offset' = offset + w
             /\ c.value = IF signed THEN Signed(v, Word(w)) ELSE v
        /\ ~(offset + w <= size) => offset' = offset /\ c.value = 0
    BY <2>1, <2>2, <2>3, <2>4, ReadReturns
  <2>6. CASE offset + w <= size
    <3>1. MadeOf(v, w, order, ptr, offset)
      BY <2>2, <2>3, <2>6, ReadsAreNumbers DEF IsReading, size
    <3>2. IsMadeOf(c, SubSeq(ptr, offset + 1, offset + w))
      <4>1. IsResult(c, v, w, order)
        BY <2>5, <2>6 DEF IsResult
      <4>2. PICK b : b = SubSeq(ptr, offset + 1, offset + w)
        OBVIOUS
      <4>3. IsCopy(b, ptr, offset, w)
        <5>1. w \in Nat /\ w >= 1 /\ offset + w <= Len(ptr)
          BY <2>6 DEF Widths, size
        <5>2. /\ b \in Seq(Bytes) /\ Len(b) = offset + w - (offset + 1) + 1
              /\ \A k \in 1..(offset + w - (offset + 1) + 1) : b[k] = ptr[offset + 1 + k - 1]
          BY <2>2, <4>2, <5>1, SubSeqProperties
        <5> QED
          BY <2>2, <5>1, <5>2 DEF IsCopy
      <4> QED
        BY <2>2, <3>1, <4>1, <4>2, <4>3, ResultIsMadeOf
    <3> QED
      BY <2>4, <2>5, <2>6, <3>2
  <2>7. CASE ~(offset + w <= size)
    BY <2>4, <2>5, <2>7
  <2> QED
    BY <2>6, <2>7
<1> QED
  BY <1>1, InitBufferInv, NextBufferInv, PTL DEF PathSpec, ReadsTakeTheirBytes

-----------------------------------------------------------------------------
(* What was written, read back. *)

\* One number is written at a place.
LEMMA OneNumber ==
    ASSUME NEW w \in Widths, NEW order \in Orders, NEW p, NEW o \in Nat,
           NEW u, MadeOf(u, w, order, p, o), NEW v, MadeOf(v, w, order, p, o)
    PROVE  u = v
<1>1. w \in Nat /\ w >= 1
  BY DEF Widths
<1>2. SameBytes(u, v, w)
  <2>1. ASSUME NEW k \in 0..(w - 1) PROVE ByteOf(u, k) = ByteOf(v, k)
    <3>1. CASE order = "BE"
      <4>1. PICK j \in 0..(w - 1) : j = w - 1 - k /\ w - 1 - j = k
        <5>1. w - 1 - k \in 0..(w - 1) /\ w - 1 - (w - 1 - k) = k
          BY <1>1
        <5> QED
          BY <5>1
      <4> QED
        BY <3>1, <4>1 DEF MadeOf
    <3>2. CASE order # "BE"
      BY <3>2 DEF MadeOf
    <3> QED
      BY <3>1, <3>2
  <2> QED
    BY <2>1 DEF SameBytes
<1>3. u \in 0..(Word(w) - 1) /\ v \in 0..(Word(w) - 1) /\ IsUnique(w)
  BY BytesAreUnique DEF MadeOf
<1> QED
  BY <1>2, <1>3 DEF IsUnique

\* The bytes of a number behind o are those that a write makes.
IsWritten(p, o, v, w, order) ==
    \A k \in 1..w : p[o + k] = (IF order = "BE" THEN write_be(v, w) ELSE write_le(v, w))[k]

LEMMA WrittenIsMadeOf ==
    ASSUME NEW w \in Widths, NEW order \in Orders, NEW p, NEW o \in Nat,
           NEW v \in 0..(Word(w) - 1), IsWritten(p, o, v, w, order)
    PROVE  MadeOf(v, w, order, p, o)
<1>1. w \in Nat /\ w >= 1
  BY DEF Widths
<1>2. ASSUME NEW k \in 0..(w - 1)
      PROVE  p[o + 1 + k] = ByteOf(v, IF order = "BE" THEN w - 1 - k ELSE k)
  <2>1. PICK j \in 1..w : j = k + 1
    BY <1>1
  <2>2. p[o + j] = (IF order = "BE" THEN write_be(v, w) ELSE write_le(v, w))[j]
    BY DEF IsWritten
  <2>3. o + 1 + k = o + j /\ w - 1 - k = w - j /\ k = j - 1
    BY <1>1, <2>1
  <2>4. write_be(v, w)[j] = ByteOf(v, w - j) /\ write_le(v, w)[j] = ByteOf(v, j - 1)
    BY DEF write_be, write_le
  <2> QED
    BY <2>2, <2>3, <2>4
<1> QED
  BY <1>2 DEF MadeOf

LEMMA WrittenIsRead ==
    ASSUME NEW w \in Widths, NEW order \in Orders, NEW p \in Seq(Bytes), NEW o \in Nat,
           o + w <= Len(p), NEW v \in 0..(Word(w) - 1), IsWritten(p, o, v, w, order)
    PROVE  Unsigned(w, order, p, o) = v
<1>1. MadeOf(v, w, order, p, o)
  BY WrittenIsMadeOf
<1>2. PICK u : u = Unsigned(w, order, p, o)
  OBVIOUS
<1>3. MadeOf(u, w, order, p, o)
  BY <1>2, ReadsAreNumbers DEF IsReading
<1> QED
  BY <1>1, <1>2, <1>3, OneNumber

\* A prefix and the bytes of a number behind it.
IsPrefixed(p, b, v, n) == p = <<b>> \o write_le(v, n)

IsBehind(p, b, s) ==
    /\ p \in Seq(Bytes) /\ Len(p) = 1 + Len(s)
    /\ p[1] = b /\ \A k \in 1..Len(s) : p[1 + k] = s[k]

LEMMA Prefixed ==
    ASSUME NEW b \in Bytes, NEW s \in Seq(Bytes)
    PROVE  IsBehind(<<b>> \o s, b, s)
<1>1. PICK q : q = <<b>>
  OBVIOUS
<1>2. q \in Seq(Bytes) /\ Len(q) = 1 /\ q[1] = b
  BY <1>1
<1>3. PICK n \in Nat : n = Len(s)
  OBVIOUS
<1>4. /\ q \o s \in Seq(Bytes) /\ Len(q \o s) = 1 + n
      /\ \A i \in 1..(1 + n) : (q \o s)[i] = IF i <= 1 THEN q[i] ELSE s[i - 1]
  <2>1. /\ q \o s \in Seq(Bytes) /\ Len(q \o s) = Len(q) + Len(s)
        /\ \A i \in 1..(Len(q) + Len(s)) :
              (q \o s)[i] = IF i <= Len(q) THEN q[i] ELSE s[i - Len(q)]
    BY <1>2, ConcatProperties, Zenon
  <2> QED
    BY <1>2, <1>3, <2>1, Zenon
<1>5. (q \o s)[1] = b
  BY <1>2, <1>4
<1>6. ASSUME NEW k \in 1..n PROVE (q \o s)[1 + k] = s[k]
  <2>1. 1 + k \in 1..(1 + n) /\ ~(1 + k <= 1) /\ (1 + k) - 1 = k
    OBVIOUS
  <2> QED
    BY <1>4, <2>1
<1> QED
  BY <1>1, <1>3, <1>4, <1>5, <1>6 DEF IsBehind

LEMMA PrefixedIsWritten ==
    ASSUME NEW n \in {2, 4, 8}, NEW b \in Bytes, NEW v \in Nat, NEW p, IsPrefixed(p, b, v, n)
    PROVE  /\ p \in Seq(Bytes) /\ Len(p) = 1 + n /\ p[1] = b
           /\ IsWritten(p, 1, v, n, "LE")
<1>1. PICK s : s = write_le(v, n)
  OBVIOUS
<1>2. s \in Seq(Bytes) /\ Len(s) = n
  <2>1. n \in Widths /\ v \in Int
    BY DEF Widths
  <2>2. write_le(v, n) \in Seq(Bytes) /\ Len(write_le(v, n)) = n
    BY <2>1, WriteType
  <2> QED
    BY <1>1, <2>2
<1>3. p = <<b>> \o s
  BY <1>1 DEF IsPrefixed
<1>4. /\ p \in Seq(Bytes) /\ Len(p) = 1 + n /\ p[1] = b
      /\ \A k \in 1..n : p[1 + k] = s[k]
  <2>1. IsBehind(p, b, s)
    BY <1>2, <1>3, Prefixed
  <2> QED
    BY <1>2, <2>1 DEF IsBehind
<1>5. IsWritten(p, 1, v, n, "LE")
  BY <1>1, <1>4 DEF IsWritten
<1> QED
  BY <1>4, <1>5

LEMMA VarintSizes ==
    ASSUME NEW v \in Nat
    PROVE  /\ v <= BYTE - 4 => varint_size(v) = 1
           /\ v > BYTE - 4 /\ v < Word16 => varint_size(v) = 3
           /\ v > BYTE - 4 /\ v >= Word16 /\ v < Word32 => varint_size(v) = 5
           /\ v > BYTE - 4 /\ v >= Word16 /\ v >= Word32 => varint_size(v) = 9
<1>1. Word16 \in Nat /\ Word32 \in Nat /\ BYTE \in Nat /\ BYTE > 3 /\ Word16 > BYTE
  <2>1. Word(2) \in Nat /\ Word(4) \in Nat
    BY WordType DEF Widths
  <2>2. BYTE * BYTE > BYTE
    BY ByteAssumption
  <2> QED
    BY <2>1, <2>2, ByteAssumption DEF Word, Word16
<1> HIDE DEF Word16, Word32
<1>2. CASE v <= BYTE - 4
  BY <1>1, <1>2 DEF varint_size
<1>3. CASE v > BYTE - 4 /\ v < Word16
  BY <1>1, <1>3 DEF varint_size
<1>4. CASE v > BYTE - 4 /\ v >= Word16 /\ v < Word32
  BY <1>1, <1>4 DEF varint_size
<1>5. CASE v > BYTE - 4 /\ v >= Word16 /\ v >= Word32
  BY <1>1, <1>5 DEF varint_size
<1> QED
  BY <1>1, <1>2, <1>3, <1>4, <1>5

LEMMA Followings ==
    /\ \A b \in 0..(BYTE - 4) : b \in Bytes /\ Following(b) = 0
    /\ BYTE - 3 \in Bytes /\ Following(BYTE - 3) = 2
    /\ BYTE - 2 \in Bytes /\ Following(BYTE - 2) = 4
    /\ BYTE - 1 \in Bytes /\ Following(BYTE - 1) = 8
  BY ByteAssumption DEF Bytes, Following

\* A varint is its number alone, or a prefix and the number in little-endian order.
IsVarint(p, v, w) ==
    /\ p \in Seq(Bytes) /\ Len(p) = 1 + w /\ Following(p[1]) = w
    /\ IF w = 0 THEN p[1] = v
       ELSE w \in Widths /\ v \in 0..(Word(w) - 1) /\ IsWritten(p, 1, v, w, "LE")

LEMMA PrefixedIsVarint ==
    ASSUME NEW n \in {2, 4, 8}, NEW b \in Bytes, Following(b) = n,
           NEW v \in 0..(Word(n) - 1), NEW p, IsPrefixed(p, b, v, n)
    PROVE  IsVarint(p, v, n)
<1>1. v \in Nat
  BY WordType DEF Widths
<1>2. /\ p \in Seq(Bytes) /\ Len(p) = 1 + n /\ p[1] = b
      /\ IsWritten(p, 1, v, n, "LE")
  BY <1>1, PrefixedIsWritten
<1>3. n \in Widths /\ n # 0
  BY DEF Widths
<1> QED
  BY <1>2, <1>3 DEF IsVarint

LEMMA VarintIs ==
    ASSUME NEW v \in 0..(Word64 - 1)
    PROVE  \E w \in {0, 2, 4, 8} :
              varint_size(v) = 1 + w /\ IsVarint(varint_write(v), v, w)
<1>1. v \in Nat /\ v < Word64 /\ Word16 \in Nat /\ Word32 \in Nat /\ BYTE \in Nat
  <2>1. Word(2) \in Nat /\ Word(4) \in Nat /\ Word(8) \in Nat
    BY WordType DEF Widths
  <2> QED
    BY <2>1, ByteAssumption DEF Word
<1> HIDE DEF Word16, Word32, Word64
<1>2. CASE v <= BYTE - 4
  <2>1. varint_size(v) = 1
    BY <1>1, <1>2, VarintSizes
  <2>2. varint_write(v) = <<v>>
    BY <2>1 DEF varint_write
  <2>3. v \in Bytes /\ Following(v) = 0
    BY <1>1, <1>2, Followings
  <2>4. <<v>> \in Seq(Bytes) /\ Len(<<v>>) = 1 + 0 /\ <<v>>[1] = v
    BY <2>3
  <2>5. IsVarint(<<v>>, v, 0)
    BY <2>3, <2>4 DEF IsVarint
  <2> QED
    BY <2>1, <2>2, <2>5
<1>3. CASE v > BYTE - 4 /\ v < Word16
  <2>1. varint_size(v) = 3
    BY <1>1, <1>3, VarintSizes
  <2>2. IsPrefixed(varint_write(v), BYTE - 3, v, 2)
    BY <2>1 DEF varint_write, IsPrefixed
  <2>3. v \in 0..(Word(2) - 1)
    BY <1>1, <1>3 DEF Word
  <2>4. IsVarint(varint_write(v), v, 2)
    BY <2>2, <2>3, Followings, PrefixedIsVarint
  <2> QED
    BY <2>1, <2>4
<1>4. CASE v > BYTE - 4 /\ v >= Word16 /\ v < Word32
  <2>1. varint_size(v) = 5
    BY <1>1, <1>4, VarintSizes
  <2>2. IsPrefixed(varint_write(v), BYTE - 2, v, 4)
    BY <2>1 DEF varint_write, IsPrefixed
  <2>3. v \in 0..(Word(4) - 1)
    BY <1>1, <1>4 DEF Word
  <2>4. IsVarint(varint_write(v), v, 4)
    BY <2>2, <2>3, Followings, PrefixedIsVarint
  <2> QED
    BY <2>1, <2>4
<1>5. CASE v > BYTE - 4 /\ v >= Word16 /\ v >= Word32
  <2>1. varint_size(v) = 9
    BY <1>1, <1>5, VarintSizes
  <2>2. IsPrefixed(varint_write(v), BYTE - 1, v, 8)
    BY <2>1 DEF varint_write, IsPrefixed
  <2>3. v \in 0..(Word(8) - 1)
    BY <1>1 DEF Word
  <2>4. IsVarint(varint_write(v), v, 8)
    BY <2>2, <2>3, Followings, PrefixedIsVarint
  <2> QED
    BY <2>1, <2>4
<1> QED
  BY <1>1, <1>2, <1>3, <1>4, <1>5

\* The inductive invariant of what was written: until something else is called, the buffer
\* is its bytes and nothing of them has been read.
NumberIsWritten(c) ==
    c.op = "write" =>
        /\ offset = 0 /\ c.n \in Widths /\ c.order \in Orders
        /\ c.value \in 0..(Word(c.n) - 1)
        /\ Len(ptr) = c.n /\ IsWritten(ptr, 0, c.value, c.n, c.order)
VarintIsWritten(c) ==
    c.op = "write_varint" =>
        offset = 0 /\ \E w \in {0, 2, 4, 8} : c.n = 1 + w /\ IsVarint(ptr, c.value, w)
WrittenInv == BufferInv /\ NumberIsWritten(call) /\ VarintIsWritten(call)

LEMMA InitWrittenInv == PathInit => WrittenInv
<1> SUFFICES ASSUME PathInit PROVE WrittenInv
  OBVIOUS
<1>1. call.op = "none"
  BY DEF PathInit, Init, NoCall
<1> QED
  BY <1>1, InitBufferInv DEF WrittenInv, NumberIsWritten, VarintIsWritten

LEMMA WriteMakes ==
    ASSUME NEW v \in Numbers, NEW w \in Widths, NEW order \in Orders, write(v, w, order)
    PROVE  NumberIsWritten(call)'
<1>1. v \in Nat /\ Word(w) \in Nat /\ v < Word(w) /\ w \in Nat
  BY NumbersAssumption, WordType DEF write, Widths
<1>2. PICK c : c = call'
  OBVIOUS
<1>3. c.n = w /\ c.order = order /\ c.value = v /\ offset' = 0
  BY <1>2 DEF write, Called, NoCall
<1>4. PICK p : p = ptr'
  OBVIOUS
<1>5. p = IF order = "BE" THEN write_be(v, w) ELSE write_le(v, w)
  BY <1>4 DEF write
<1>6. Len(p) = w
  BY <1>1, <1>5, WriteType
<1>7. IsWritten(p, 0, v, w, order)
  <2>1. ASSUME NEW k \in 1..w
        PROVE  p[0 + k] = (IF order = "BE" THEN write_be(v, w) ELSE write_le(v, w))[k]
    BY <1>1, <1>5
  <2> QED
    BY <2>1 DEF IsWritten
<1>8. v \in 0..(Word(w) - 1)
  BY <1>1
<1>9. IsWritten(p, 0, c.value, c.n, c.order)
  BY <1>3, <1>7
<1> QED
  BY <1>2, <1>3, <1>4, <1>6, <1>8, <1>9 DEF NumberIsWritten, IsWritten

LEMMA VarintMakes ==
    ASSUME NEW v \in Numbers, write_varint(v)
    PROVE  VarintIsWritten(call)'
<1>1. v \in 0..(Word64 - 1)
  <2>1. Word(8) \in Nat /\ v \in Nat /\ v < Word64
    BY NumbersAssumption, WordType DEF write_varint, Widths
  <2>2. Word64 \in Nat
    BY <2>1 DEF Word
  <2> HIDE DEF Word64
  <2> QED
    BY <2>1, <2>2
<1>2. PICK w \in {0, 2, 4, 8} : varint_size(v) = 1 + w /\ IsVarint(varint_write(v), v, w)
  BY <1>1, VarintIs
<1>3. PICK c : c = call'
  OBVIOUS
<1>4. PICK p : p = ptr'
  OBVIOUS
<1>5. PICK n : n = varint_size(v)
  OBVIOUS
<1>6. c.n = n /\ c.value = v /\ offset' = 0 /\ p = varint_write(v)
  BY <1>3, <1>4, <1>5 DEF write_varint, Called, NoCall
<1>7. c.n = 1 + w /\ IsVarint(p, c.value, w)
  BY <1>2, <1>5, <1>6
<1> QED
  BY <1>3, <1>4, <1>6, <1>7 DEF VarintIsWritten, IsVarint, IsWritten

LEMMA NextWrittenInv == WrittenInv /\ [PathNext]_pathVars => WrittenInv'
<1> SUFFICES ASSUME WrittenInv, [PathNext]_pathVars PROVE WrittenInv'
  OBVIOUS
<1>1. BufferInv /\ BufferInv'
  BY NextBufferInv DEF WrittenInv
<1>2. CASE UNCHANGED vars
  <2>1. ptr' = ptr /\ offset' = offset /\ call' = call
    BY <1>2 DEF vars
  <2>2. NumberIsWritten(call) /\ VarintIsWritten(call)
    BY DEF WrittenInv
  <2>3. NumberIsWritten(call)' /\ VarintIsWritten(call)'
    BY <2>1, <2>2 DEF NumberIsWritten, VarintIsWritten, IsVarint, IsWritten
  <2> QED
    BY <1>1, <2>3 DEF WrittenInv
<1>3. CASE ~UNCHANGED vars
  <2>1. NumberIsWritten(call)'
    <3>1. CASE call'.op = "write"
      BY <1>1, <1>3, <3>1, NamedReads, WriteMakes
    <3>2. CASE call'.op # "write"
      BY <3>2 DEF NumberIsWritten
    <3> QED
      BY <3>1, <3>2
  <2>2. VarintIsWritten(call)'
    <3>1. CASE call'.op = "write_varint"
      BY <1>1, <1>3, <3>1, NamedReads, VarintMakes
    <3>2. CASE call'.op # "write_varint"
      BY <3>2 DEF VarintIsWritten
    <3> QED
      BY <3>1, <3>2
  <2> QED
    BY <1>1, <2>1, <2>2 DEF WrittenInv
<1> QED
  BY <1>2, <1>3

\* What a varint returns that is all there is to read.
LEMMA VarintReturns ==
    ASSUME TypeOK, offset = 0, NEW w \in {0, 2, 4, 8}, NEW v, IsVarint(ptr, v, w),
           buffer_read_varint
    PROVE  /\ call'.ret /\ call'.value = v /\ call'.n = 1 + w
           /\ offset' = Len(ptr)
<1>1. ptr \in Seq(Bytes) /\ Len(ptr) = 1 + w /\ Following(ptr[1]) = w /\ Len(ptr) < WORD
  BY DEF IsVarint, TypeOK
<1>2. SubWord(size, offset) = 1 + w
  BY <1>1, LeftIsExact DEF size
<1>3. SeekCur(offset, 1 + w) = 1 + w
  <2>1. 1 + w \in 0..(WORD - 1) /\ size = 1 + w /\ offset + (1 + w) = 1 + w
    BY <1>1, WordAssumption DEF size
  <2> QED
    BY <2>1, SeekCurIsExact
<1>4. PICK x : x = CASE FALSE -> 0
                     [] TRUE /\ w = 0 -> ptr[1]
                     [] OTHER -> Unsigned(w, "LE", ptr, 1)
  OBVIOUS
<1>5. /\ offset' = SeekCur(offset, 1 + w)
      /\ call' = [Called("read_varint", 1 + w, TRUE) EXCEPT !.value = x]
  <2>1. (SubWord(size, offset) >= 1 /\ SubWord(size, offset) >= 1 + w) = TRUE
    BY <1>2
  <2>2. offset + 1 = 1 /\ Following(ptr[offset + 1]) = w
    BY <1>1
  <2> QED
    BY <1>4, <2>1, <2>2 DEF buffer_read_varint
<1>6. call'.ret /\ call'.value = x /\ call'.n = 1 + w
  BY <1>5 DEF Called, NoCall
<1>7. x = v
  <2>1. CASE w = 0
    BY <1>4, <2>1 DEF IsVarint
  <2>2. CASE w # 0
    <3>1. w \in Widths /\ v \in 0..(Word(w) - 1) /\ IsWritten(ptr, 1, v, w, "LE")
      BY <2>2 DEF IsVarint
    <3>2. "LE" \in Orders /\ 1 \in Nat /\ 1 + w <= Len(ptr)
      BY <1>1 DEF Orders
    <3>3. Unsigned(w, "LE", ptr, 1) = v
      BY <1>1, <3>1, <3>2, WrittenIsRead
    <3> QED
      BY <1>4, <2>2, <3>3
  <2> QED
    BY <2>1, <2>2
<1> QED
  BY <1>1, <1>3, <1>5, <1>6, <1>7

\* For all numbers, widths and orders: the read that fits what was written returns it, and
\* nothing is left behind it.
THEOREM NumbersAreReadBack == PathSpec => WrittenIsReadBack
<1>1. ASSUME WrittenInv, [PathNext]_pathVars
      PROVE  [call.op = "write" /\ call'.op = "read" /\ ~call'.signed
              /\ <<call'.n, call'.order>> = <<call.n, call.order>> =>
                   call'.ret /\ call'.value = call.value /\ offset' = Len(ptr)]_vars
  <2> SUFFICES ASSUME ~UNCHANGED vars, call.op = "write", call'.op = "read", ~call'.signed,
                      <<call'.n, call'.order>> = <<call.n, call.order>>
               PROVE  call'.ret /\ call'.value = call.value /\ offset' = Len(ptr)
    OBVIOUS
  <2>1. BufferInv /\ TypeOK /\ ptr \in Seq(Bytes) /\ offset = 0
    BY <1>1 DEF WrittenInv, BufferInv, TypeOK, NumberIsWritten
  <2>2. PICK w \in Widths, signed \in BOOLEAN, order \in Orders : buffer_read(w, signed, order)
    BY <1>1, <2>1, NamedReads
  <2>3. PICK v : v = Unsigned(w, order, ptr, offset)
    OBVIOUS
  <2>4. PICK c : c = call'
    OBVIOUS
  <2>5. /\ c.n = w /\ c.signed = signed /\ c.order = order
        /\ c.ret <=> offset + w <= size
        /\ offset + w <= size =>
             offset' = offset + w /\ c.value = IF signed THEN Signed(v, Word(w)) ELSE v
    BY <2>1, <2>2, <2>3, <2>4, ReadReturns
  <2>6. call.n = w /\ call.order = order /\ ~signed
    BY <2>4, <2>5
  <2>7. /\ call.value \in 0..(Word(w) - 1) /\ Len(ptr) = w
        /\ IsWritten(ptr, 0, call.value, w, order)
    BY <1>1, <2>6 DEF WrittenInv, NumberIsWritten
  <2>8. 0 \in Nat /\ 0 + w = w /\ w <= Len(ptr) /\ w \in Nat
    BY <2>7 DEF Widths
  <2>9. Unsigned(w, order, ptr, 0) = call.value
    BY <2>1, <2>7, <2>8, WrittenIsRead
  <2>10. offset + w <= size /\ offset + w = Len(ptr)
    BY <2>1, <2>7, <2>8 DEF size
  <2>11. c.ret /\ c.value = v /\ offset' = Len(ptr)
    BY <2>5, <2>6, <2>10
  <2> QED
    BY <2>1, <2>3, <2>4, <2>9, <2>11
<1> QED
  BY <1>1, InitWrittenInv, NextWrittenInv, PTL DEF PathSpec, WrittenIsReadBack

\* For all numbers of 64 bits: a varint is read back whole, whichever prefix it has.
THEOREM VarintsAreReadBack == PathSpec => VarintIsReadBack
<1>1. ASSUME WrittenInv, [PathNext]_pathVars
      PROVE  [call.op = "write_varint" /\ call'.op = "read_varint" =>
                call'.ret /\ call'.value = call.value /\ offset' = Len(ptr)
                /\ call'.n = call.n]_vars
  <2> SUFFICES ASSUME ~UNCHANGED vars, call.op = "write_varint", call'.op = "read_varint"
               PROVE  call'.ret /\ call'.value = call.value /\ offset' = Len(ptr)
                      /\ call'.n = call.n
    OBVIOUS
  <2>1. BufferInv /\ TypeOK /\ offset = 0
    BY <1>1 DEF WrittenInv, BufferInv, VarintIsWritten
  <2>2. buffer_read_varint
    BY <1>1, <2>1, NamedReads
  <2>3. PICK w \in {0, 2, 4, 8} : call.n = 1 + w /\ IsVarint(ptr, call.value, w)
    BY <1>1 DEF WrittenInv, VarintIsWritten
  <2> QED
    BY <2>1, <2>2, <2>3, VarintReturns
<1> QED
  BY <1>1, InitWrittenInv, NextWrittenInv, PTL DEF PathSpec, VarintIsReadBack
=============================================================================
