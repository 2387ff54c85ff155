SPECIFICATION Spec
CONSTANTS
    MAXIMUM_OID_SIZE = 28
    INITIAL_LENGTHS_STACK_SIZE = 2
    SignatureSize = 103
    Infos <- WideInfos
INVARIANT
    PatternRepeats
CHECK_DEADLOCK FALSE
