SPECIFICATION Spec
CONSTANTS
    MAX_TX_SIGNERS = 2
    MAX_SIGNER_SUB_ITEMS = 2
    Reviews <- MCReviews
INVARIANTS
    AmountStepShowsAmount
