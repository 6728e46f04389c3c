SPECIFICATION MCSpec
CONSTANTS
    c1 = c1
    f1 = f1
    f2 = f2
    b1 = b1
    b2 = b2
    Callers = {c1}
    Binaries = {b1, b2}
    Ours = b1
    Versions = {{b2}, {b1, b2}}
    Inodes = 1
    MaxLives = 2
    MaxBinds = 3
    MaxIds = 3
    Requests <- MCRequests
    Finders = {f1, f2}
    MaxFinds = 3
INVARIANT UnsentMadeNothing
INVARIANT CreatedIsOurs
INVARIANT StaysWithItsDaemon
INVARIANT MissesOnlyRefused
INVARIANT VouchedFor
CHECK_DEADLOCK FALSE
