\* One process, as the service is deployed: its admission, its scan, the reader's
\* retries and a crash, through all three attempts, under fairness.
SPECIFICATION LiveSpec
CONSTANTS
    p1 = p1  p2 = p2  n1 = n1  u1 = u1
    Novel = {n1}
    User = {u1}
    Proc = {p1}
    Owner <- Uploader
    NoNovel = NoNovel
    MAX_IMPORT_ATTEMPTS = 3
    IMPORT_PERMITS = 2
    MAX_BATCH_IMPORTS = 1
    REPAIR_ROUNDS = 1
    MaxCrashes = 1
PROPERTIES LastAttemptSurvives Settles
CHECK_DEADLOCK FALSE
