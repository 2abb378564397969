SPECIFICATION LiveSpec
CONSTANTS
    w1 = w1
    w2 = w2
    Workers <- MCWorkers
    WindowTurns = 2
    MaxRetries = 1
    MaxWindow = 2
    MaxAttempt = 2
INVARIANTS CalledOnce PublishedByItsCall
PROPERTIES DispatchSettles
