SPECIFICATION WrapsSpec
CONSTANTS
    BRIDGE_MAX_AB_SIZE = 63
    MAX_AB_SIZE = 64
    TSS_VERIFICATION_KEY_LENGTH_BYTES = 1096
    BookSizes = {2, 3, 63, 64}
    Lengths <- MCLengths
    MaxMistakes = 2
INVARIANTS
    ProperCallsPass
    OnlyContentsAreRefusedLater
CHECK_DEADLOCK FALSE
