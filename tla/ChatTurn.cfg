\* Two processes race over two keys, or two messages, or a reader and a world that
\* move, one of these at a time.
SPECIFICATION Spec
CONSTANTS
    t1 = t1
    t2 = t2
    w1 = w1
    w2 = w2
    hello = hello
    bye = bye
    NoTurn = NoTurn
    TurnIds <- MCTurnIds
    Workers <- MCWorkers
    Messages = {hello, bye}
    MaxChapter = 2
    MaxRevision = 1
    MaxAttempt = 2
    MaxTries = 2
SYMMETRY Symmetric
CONSTRAINT OneVariation
INVARIANTS HistoryIsLinear SequenceExact AnswerOfItsClaim AnswersTheRequest
PROPERTIES ImplementsConversation
