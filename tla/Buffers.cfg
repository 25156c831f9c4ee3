SPECIFICATION PathSpec
CONSTANTS
    BYTE = 8
    WORD = 32
    Contents <- MCContents
    Lengths <- MCLengths
    Numbers <- MCNumbers
    BIP44_PURPOSE = 2092
    BIP44_COIN_TYPE_NEO = 2936
    MAX_ACCOUNT = 16
    ADDRESSES = 500
    DOCUMENTED_ACCOUNT = 10
    DOCUMENTED_ADDRESS = 500
INVARIANTS
    TypeOK
    AcceptedPathIsRead
    RefusedPathIsCut
PROPERTIES
    ReadsTakeTheirBytes
    SeekIsExact
    WrittenIsReadBack
    VarintIsReadBack
    ChunkIsMoved
