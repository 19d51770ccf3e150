SPECIFICATION PlaintextSpec
CONSTANTS
    Batch <- MCBatch
    Nonce = {1, 2}
    MacBytes = 2
    RunLimit = 3
INVARIANTS
    RunFound
    ExitTells
    OkOverFailure
CHECK_DEADLOCK FALSE
