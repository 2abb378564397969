SPECIFICATION Spec
CONSTANTS
    t1 = t1
    t2 = t2
    w1 = w1
    w2 = w2
    NoTurn = NoTurn
    TurnIds = {t1}
    Workers <- MCWorkers
    FreshChecks <- Advanced
    Checkpoint = 1
    MaxChapter = 2
    MaxTurn = 1
    MaxAttempt = 3
SYMMETRY Interchangeable
INVARIANTS ClaimIsCurrent AdjudicatedOnce
PROPERTIES ChecksAreFrozen
