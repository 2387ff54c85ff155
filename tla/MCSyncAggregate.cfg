SPECIFICATION SyncSpec
CONSTANTS
    Q = 5
    Committees <- MCCommittees
    Messages = {m1, m2}
INVARIANTS
    VerdictIsFastAggregateVerify
    ValidatedKeysAreTaken
CHECK_DEADLOCK FALSE
