------------------------------- MODULE Base58 -------------------------------
(***************************************************************************)
(* base58_encode (common/base58.c).  A character is its index in           *)
(* BASE58_ALPHABET.                                                        *)
(***************************************************************************)
EXTENDS Integers, Sequences, FiniteSets

Zeros(n) == [k \in 1..n |-> 0]

\* Leading zero bytes, one character each.
ZeroCount(in) == Cardinality({k \in 1..Len(in) : \A m \in 1..k : in[m] = 0})

OutputSize(n) == (n * 138) \div 100 + 1

\* Mutant: a byte is added as soon as nothing is carried.
Anywhere(j, stop_at) == TRUE

\* j <= stop_at - 1 for size_t numbers; -1 stands for the one j ends at when the loop
\* does, the largest there is.
Beyond(j, stop_at) == stop_at \in {0, -1} \/ j <= stop_at - 1

\* The inner loop at j, unless it has ended.
AddToDigit(loop, j, stop_at) ==
    IF loop.ended THEN loop
    ELSE LET sum == loop.carry + 256 * loop.digits[j + 1]
             ends == Beyond(j, stop_at) /\ sum \div 58 = 0
         IN  [digits |-> [loop.digits EXCEPT ![j + 1] = sum % 58],
              carry |-> sum \div 58,
              stop_at |-> IF ends THEN j ELSE -1,
              ended |-> ends]

\* One byte: the digits times 256 and the byte, from the last digit on, until nothing is
\* carried into digits that no byte has reached yet.
AddByte(state, byte) ==
    LET n == Len(state.digits)
        loop[k \in 0..n] ==
            IF k = 0
            THEN [digits |-> state.digits, carry |-> byte, stop_at |-> -1, ended |-> FALSE]
            ELSE AddToDigit(loop[k - 1], n - k, state.stop_at)
    IN  [digits |-> loop[n].digits, stop_at |-> loop[n].stop_at]

\* All bytes, from the first on, into n digits.
AddBytes(in, n) ==
    LET state[k \in 0..Len(in)] ==
            IF k = 0 THEN [digits |-> Zeros(n - 1) \o <<0>>, stop_at |-> n - 1]
            ELSE AddByte(state[k - 1], in[k])
    IN  state[Len(in)]

WithoutZeros(l) == SubSeq(l, 1 + Cardinality({k \in 1..Len(l) : \A m \in 1..k : l[m] = 0}), Len(l))

\* The text, and whether it fits.
base58_encode(in, out_len) ==
    LET zeros == ZeroCount(in)
        n == OutputSize(Len(in) - zeros)
        buffer == AddBytes(SubSeq(in, zeros + 1, Len(in)), n)
        text == Zeros(zeros) \o WithoutZeros(buffer.digits)
    IN  [ok |-> Len(text) <= out_len, text |-> text]

-----------------------------------------------------------------------------
(* The reference: texts and bytes are numbers, in base 58 and in base 256. *)

\* Primes whose product exceeds 256^25: two numbers of up to 25 bytes are the same when
\* they are the same modulo each of them.
Primes == {8388593, 8388587, 8388581, 8388571, 8388547, 8388539, 8388473, 8388461, 8388451}

ValueModulo(p, base, digits) ==
    LET v[k \in 0..Len(digits)] == IF k = 0 THEN 0 ELSE (base * v[k - 1] + digits[k]) % p
    IN  v[Len(digits)]

SameNumber(text, bytes) ==
    \A p \in Primes : ValueModulo(p, 58, text) = ValueModulo(p, 256, bytes)
=============================================================================
