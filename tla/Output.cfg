SPECIFICATION PolicySpec
CONSTANTS
    Panes = {p, q}
    Calls = {a, b, c}
    MaxActions = 1
    MaxOutput = 2
    None = None
SYMMETRY Symmetry
INVARIANT FilterIsLastWord
INVARIANT EnabledIsHeard
CHECK_DEADLOCK FALSE
