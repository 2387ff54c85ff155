CONSTANTS
    Threads = {t1, t2}
    Requests <- MCRequests
    ProofsThatVerify <- MCProofsThatVerify
    SignaturesThatVerify <- MCSignaturesThatVerify
    HINTS_VERIFICATION_KEY_LENGTH = 2
    HINTS_SIGNATURE_LENGTH = 1
    COMPRESSED_WRAPS_PROOF_LENGTH = 1
    LEDGER_ID_LENGTH = 1
    Packagings <- MCPackagings
    CacheSize = 2
    MaxFaults = 1
SPECIFICATION FairSpec
INVARIANTS
    AcceptedVerifies
    RefusalsAreExplained
    SupportMatchesTheCells
    HoldsTheMostRecent
PROPERTIES
    EveryCallReturns
CHECK_DEADLOCK FALSE
