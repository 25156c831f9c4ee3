SPECIFICATION Spec
CONSTANTS
    a = a
    b = b
    neo = neo
    gas = gas
    key = key
    nothing = nothing
    BYTE = 4
    Hash160 <- MCHashes
    NEO <- neo
    GAS <- gas
    Keys <- MCKeys
    Unset <- nothing
    MIN_TX_SIGNERS = 1
    MAX_TX_SIGNERS = 2
    MAX_SIGNER_SUB_ITEMS = 2
    MAX_ATTRIBUTES = 2
    MaxAttempts = 2
    Streams <- MCStreams
    Transactions <- MCTransactions
INVARIANTS
    TypeOK
    AcceptedIsValid
    AcceptedIsWritten
    TransferIsScript
    
    AcceptedIsSupported
    SupportedIsAccepted
