SPECIFICATION FairSpec
CONSTANTS
    c1 = c1
    c2 = c2
    c3 = c3
    Hello = Hello
    NoOne = NoOne
    Callers = {c1}
    Closers = {}
    QueueDepth = 1
    QueuedBytes = 2
    Bytes <- MixedSize
    Workers = {"cmdWait", "ctxWatch"}
    MaxForeign = 0
    Faults = {"parent"}
PROPERTY CallsReturn
PROPERTY StopEnds
CHECK_DEADLOCK FALSE
