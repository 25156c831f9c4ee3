SPECIFICATION Spec
CONSTANTS
    d1 = d1
    d2 = d2
    d3 = d3
    noData = noData
    zeroP = zeroP
    goodP = goodP
    partP = partP
    zeroM = zeroM
    mainM = mainM
    Payload <- MCPayload
    NoData <- noData
    Paths <- MCPaths
    ZeroPath <- zeroP
    PathReading <- MCPathReading
    Magics <- MCMagics
    ZeroMagic <- zeroM
    MagicReading <- MCMagicReading
    Size <- MCSize
    MAX_TRANSACTION_LEN = 2
    Commands <- MCFewCommands
    MaxPending = 1
    CryptoOutcomes = {"ok", "error", "throws"}
    FormatOutcomes = {"SW_OK", "SW_DISPLAY_SYSTEM_FEE_FAIL"}
INVARIANTS
    SigningFailureIsReported
