CONSTANTS
    MAX_AB_SIZE = 4
    MaxWeight = 7
    Order = 11
    Book <- MCBook
    Sessions <- MCSessions
    Instances <- MCInstances
    Crowds <- MCCrowds
SPECIFICATION FairSpec
INVARIANTS
    AggregateVerifies
    NonceAnswersOneChallenge
    SharesAnswerCommittedNonces
PROPERTIES
    ImplementsEndorsement
    SessionsComplete
CHECK_DEADLOCK FALSE
