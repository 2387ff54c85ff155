CONSTANTS
    Prime = 11
    MAX_SIGNERS_NUM = 2
    SignersNums = {0, 2, 3, 4}
    Contributors = {a1, a2}
    Seeds <- MCSeeds
    MaxContributions = 3
SPECIFICATION Spec
INVARIANTS
    TauIsTheProductOfSecrets
    FreshContributionsVerify
    PruningCommutes
SYMMETRY Symmetry
CHECK_DEADLOCK FALSE
