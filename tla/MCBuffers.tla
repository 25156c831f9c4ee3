------------------------------ MODULE MCBuffers ------------------------------
(* Buffers with a byte of 8 values: varints from 5 to 7 have a prefix. *)
EXTENDS Bip44Path

Constant(x, n) == [k \in 1..n |-> x]
Counting(n) == [k \in 1..n |-> k % BYTE]

\* All short buffers, and longer ones with every first byte.
Plain ==
    UNION {[1..n -> Bytes] : n \in 0..2}
    \cup {<<b>> \o tail : b \in Bytes, tail \in
            {Constant(0, n) : n \in {3, 4, 7, 8}} \cup {Constant(BYTE - 1, n) : n \in {3, 4, 8}}
            \cup {Counting(n) : n \in {3, 4, 7, 8, 9}}}

Path(account, change, address) ==
    Text(<<BIP44_PURPOSE, BIP44_COIN_TYPE_NEO, account, change, address>>)

\* Paths with every level at its limits, those of the code and those of the documents.
Paths ==
    {Path(account, change, address) :
        account \in {0, HARDENED - 1, HARDENED}
            \cup {HARDENED + n + d : n \in {DOCUMENTED_ACCOUNT, MAX_ACCOUNT}, d \in {0, 1}},
        change \in {0, 1, 2, HARDENED}, address \in {0, ADDRESSES - 1, ADDRESSES, HARDENED}}
    \cup {Text(<<purpose, coin, HARDENED, 0, 0>>) :
        purpose \in {BIP44_PURPOSE - HARDENED, BIP44_PURPOSE}, coin \in {0, BIP44_COIN_TYPE_NEO}}
    \cup {SubSeq(Path(HARDENED, 0, 0), 1, n) : n \in {4, 12, 19}}
    \cup {Path(HARDENED, 1, 1) \o Constant(0, n) : n \in {1, 4}}

MCContents == Plain \cup Paths

\* The lengths near 0, near the sizes and near the end of the type.
MCLengths == {0, 1, 3, 20, WORD - 20, WORD - 3, WORD - 1}

\* The numbers at the limits of each width and of each varint.
MCNumbers ==
    {0, 1, BYTE - 4, BYTE - 3, BYTE - 2, BYTE - 1, BYTE, Word16 - 1, Word16, Word32 \div 2,
     Word32 - 1, Word32, Word64 - 1} \cup {BYTE + 1, Word32 + Word16 + 3}
=============================================================================
