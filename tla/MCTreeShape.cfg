CONSTANTS
    None = None
    v = v  w = w
    Key = {1, 2, 3, 4}
    Value = {v}
    Ranks <- MCRanks
    MaxEdits = 2
SPECIFICATION Spec
INVARIANT CanonicalRoot
