SPECIFICATION Spec
CONSTANTS
    x = x
    y = y
    w1 = w1
    w2 = w2
    None = None
    Sessions = {x, y}
    Windows = {w1, w2}
    MaxIndex = 1
    MaxLives = 2
INVARIANT OnlyItsOwn
INVARIANT RefusedMeansUndone
PROPERTY NothingOverwritten
CHECK_DEADLOCK FALSE
