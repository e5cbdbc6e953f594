CONSTANTS
    None = None
    v = v  w = w
    Key = {1, 2, 3, 4}
    Value = {v, w}
    Ranks <- MCRanks
    MaxEdits = 3
SYMMETRY Symmetry
SPECIFICATION Spec
INVARIANTS TypeOK ReadsContent StreamsContent CanonicalBelowRoot
    DifferenceExact NovelNodesComplete
PROPERTY DeltaComplete
