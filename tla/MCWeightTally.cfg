CONSTANTS
    MAX_AB_SIZE = 3
    MaxWeight = 3
    Order = 5
    FieldPrime = 23
    EntryChoices <- MCEntryChoices
SPECIFICATION TallySpec
INVARIANTS
    TypeOK
    NativeMatchesCircuit
    MajoritiesOverlap
    VerdictIsOrderFree
    ValidBooksHaveATotal
CHECK_DEADLOCK FALSE
