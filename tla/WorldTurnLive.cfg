SPECIFICATION LiveSpec
CONSTANTS
    t1 = t1
    t2 = t2
    w1 = w1
    w2 = w2
    NoTurn = NoTurn
    TurnIds = {t1}
    Workers <- MCWorkers
    FreshChecks <- Narrative
    Checkpoint = 1
    MaxChapter = 1
    MaxTurn = 1
    MaxAttempt = 2
PROPERTIES ProjectionSettles
