\* A batch of two uploads that is slow, crashes, fails or goes unacknowledged anywhere, against the
\* cleanup worker, under fairness of the worker.
SPECIFICATION LiveSpec
CONSTANTS
    k1 = k1  k2 = k2  w1 = w1  r1 = r1
    Key = {k1, k2}
    Request = {r1}
    Batch <- OneBatch
    Worker = {w1}
    NoKey = NoKey
    Nobody = Nobody
    MaxFaults = 2
INVARIANTS KeptHasItsSource NothingIsOrphaned
PROPERTIES UnownedIsDeleted
CHECK_DEADLOCK FALSE
