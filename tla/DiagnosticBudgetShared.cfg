SPECIFICATION Spec
CONSTANTS
    a1 = a1
    a2 = a2
    a3 = a3
    c1 = c1
    c2 = c2
    chat = chat
    embedding = embedding
    NoAttempt = NoAttempt
    AttemptIds <- ThreeAttempts
    Clients <- TwoClients
    Operations <- BothOperations
    Profile <- LeanProfile
    Limits <- TwoLeanQuotes
    MaxRetries = 1
    Allowances <- LowAllowance
    JsonOperations <- ChatOnly
SYMMETRY Interchangeable
INVARIANTS WithinLimits ChargedExactly SpendIsCharged AttemptsBounded
CHECK_DEADLOCK FALSE
