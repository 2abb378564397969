\* Two processes work on one novel: tasks outlive their leases, are cancelled,
\* crash, and meet the attempts that replaced them.
SPECIFICATION Spec
CONSTANTS
    p1 = p1  p2 = p2  n1 = n1  u1 = u1
    Novel = {n1}
    User = {u1}
    Proc = {p1, p2}
    Owner <- Uploader
    NoNovel = NoNovel
    MAX_IMPORT_ATTEMPTS = 2
    IMPORT_PERMITS = 1
    MAX_BATCH_IMPORTS = 1
    REPAIR_ROUNDS = 1
    MaxCrashes = 1
SYMMETRY Replicas
INVARIANTS ReadyIsCoherent
PROPERTIES SettledIsFinal ImplementsCatalogue
CHECK_DEADLOCK FALSE
