SPECIFICATION MCSpec
CONSTANTS
    o1 = o1
    o2 = o2
    Ops = {o1, o2}
    Steps = 2
    Concurrent = 1
    OutputBytes = 1
    MaxOutput = 1
INVARIANT LimitsHold
INVARIANT SuccessIsWhole
PROPERTY ProcessesKeepPromise
INVARIANT AttachLeavesNothing
PROPERTY EveryCallReturns
CHECK_DEADLOCK FALSE
