SPECIFICATION Spec
CONSTANTS
    UINT64 = 1048576
    DIGITS64 = 7
    UINT32 = 64
    DIGITS32 = 2
    DECIMALS = 4
    NETWORK_MAINNET = 33
    NETWORK_TESTNET = 12
    HASH_LEN = 20
    ADDRESS_LEN = 34
    Checksum <- MCChecksum
    Transactions <- MCTransactions
    MaxReviews = 2
INVARIANTS
    NetworkIsNumber
