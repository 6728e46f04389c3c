SPECIFICATION Spec
CONSTANTS
    s1 = s1
    s2 = s2
    r1 = r1
    r2 = r2
    Streams = {s1, s2}
    Readers = {r1}
    StreamOf <- AllReadFirst
    MaxStreams = 2
    EventBytes = 5
    MaxBytes <- TwoBytes
    MaxCount = 2
    Sizes = {1, 2}
    Cancels = {s2}
    Closes = {s1}
    MaxPublished = 2
INVARIANT NoSilentLoss
INVARIANT StopLeavesNone
INVARIANT QuotaExact
PROPERTY StreamsKeepPromise
CHECK_DEADLOCK FALSE
