SPECIFICATION FairSpec
CONSTANTS
    s1 = s1
    s2 = s2
    r1 = r1
    r2 = r2
    Streams = {s1}
    Readers = {r1, r2}
    StreamOf <- AllReadFirst
    MaxStreams = 1
    EventBytes = 2
    MaxBytes <- TwoBytes
    MaxCount = 2
    Sizes = {1, 2}
    Cancels = {s1}
    Closes = {s1}
    MaxPublished = 2
PROPERTY ReaderWakes
PROPERTY StreamsEnd
CHECK_DEADLOCK FALSE
