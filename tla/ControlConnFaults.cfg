SPECIFICATION Spec
CONSTANTS
    c1 = c1
    c2 = c2
    c3 = c3
    Hello = Hello
    NoOne = NoOne
    Callers = {c1}
    Closers = {k1}
    QueueDepth = 1
    QueuedBytes = 2
    Bytes <- MixedSize
    Workers = {"stderr"}
    MaxForeign = 1
    Faults = {"exit", "crash", "write", "startup", "stderr"}
INVARIANT EffectHonest
PROPERTY FirstCauseStands
CHECK_DEADLOCK FALSE
