\* Two accounts, two requests at once, and a call that fails, is late or goes
\* unacknowledged.
SPECIFICATION Spec
CONSTANTS
    u1 = u1  u2 = u2  r1 = r1  r2 = r2
    Users <- MCUsers
    Requests <- MCRequests
    Nobody = Nobody
    MaxFaults = 1
SYMMETRY Symmetric
INVARIANTS OneAdministrator ErasedStaysErased KeptIsProjected
CHECK_DEADLOCK FALSE
