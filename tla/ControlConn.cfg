SPECIFICATION Spec
CONSTANTS
    c1 = c1
    c2 = c2
    c3 = c3
    Hello = Hello
    NoOne = NoOne
    Callers = {c1, c2, c3}
    Closers = {}
    QueueDepth = 1
    QueuedBytes = 2
    Bytes <- MixedSize
    Workers = {}
    MaxForeign = 0
    Faults = {"build"}
INVARIANT ReplyIsOwn
INVARIANT CapacityConserved
INVARIANT NobodyStranded
PROPERTY KeepsPromise
CHECK_DEADLOCK FALSE
