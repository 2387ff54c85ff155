CONSTANTS
    MAX_AB_SIZE = 3
    MaxWeight = 3
    Order = 11
    A = A
    B = B
    Books <- MCBooks
    Contents <- MCContents
    HintsKeys = {h1, h2}
    MaxSteps = 3
    MaxProofs = 3
    MaxConsents = 6
SPECIFICATION Spec
INVARIANTS
    AcceptedStatementsAreAttested
    ForksAreAccountable
    HeadsCanRotate
PROPERTIES
    ImplementsAttestedChain
CHECK_DEADLOCK FALSE
SYMMETRY Symmetry
