SPECIFICATION Spec
CONSTANTS
    t1 = t1
    t2 = t2
    w1 = w1
    w2 = w2
    NoTurn = NoTurn
    TurnIds <- MCTurnIds
    Workers <- MCWorkers
    FreshChecks <- Narrative
    Checkpoint = 1
    MaxChapter = 1
    MaxTurn = 2
    MaxAttempt = 2
SYMMETRY Symmetric
INVARIANTS ReplyIsDurable
PROPERTIES TerminalRowsAreFinal OnlyTheHolderEndsAClaim ImplementsTimeline
