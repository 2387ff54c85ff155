CONSTANTS
    m1 = m1
    m2 = m2
    Prime = 101
    n = 4
    Omega = 10
    Taus <- MCTaus
    CrsPowers = 6
    Messages = {m1, m2}
    Rosters <- MCRosters
    Signings <- MCSignings
    Fractions <- MCFractions
    MaxSum = 12
    MaxSigners = 7
    MaxFiled = 3
    MaxKeys = 2
    MaxCalls = 1

SPECIFICATION Spec

INVARIANT VerifiedPartialsAggregate
INVARIANT AcceptedWeightSigned
INVARIANT MismatchedKeysDoNotVerify

CHECK_DEADLOCK FALSE
