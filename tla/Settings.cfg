SPECIFICATION MCSpec
CONSTANTS
    Values = {u, v}
    Tables = {t1, t2}
    Commands = {c1, c2}
    Readable = {c1}
    MaxUpdates = 3
    MaxLives = 2
    None = None
INVARIANT ReportIsTrue
INVARIANT OriginHeldIt
INVARIANT BindingsAreTheirs
INVARIANT CommandsArrive
INVARIANT ScansAgree
INVARIANT CommandLinesReadBack
CHECK_DEADLOCK FALSE
