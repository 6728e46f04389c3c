SPECIFICATION MCSpec
CONSTANTS
    x = x
    y = y
    w1 = w1
    w2 = w2
    p1 = p1
    p2 = p2
    None = None
    Slots <- MCSlots
    Windows = {w1, w2}
    Panes = {p1, p2}
    MaxLives = 2
    Scripts <- MCScripts
    MaxRoom = 3
    BufSize = 4
    FrameBytes = 20
    Misnamed <- MCMisnamed
INVARIANT OneMoment
INVARIANT ContextHolds
INVARIANT ErrorsAreTrue
 
INVARIANT ReadsWhatWasWritten
CHECK_DEADLOCK FALSE
