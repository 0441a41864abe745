CONSTANTS
    Task = {1, 2}
    Evidence = {v1, v2}
    NoReceipt = NoReceipt
    MaxEpoch = 3
    MaxAttempts = 2
SYMMETRY EvidenceSymmetry
SPECIFICATION Spec
CHECK_DEADLOCK FALSE
INVARIANTS
    TypeOK
    OwnershipConsistent
    AttemptHistory
    ReceiptMatchesAttempt
    DependenciesAcyclic
PROPERTIES
    SupersededAttemptFrozen
    EvidenceImmutable
