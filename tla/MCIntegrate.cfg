\* All triples of trees over three ordered keys and two values.
CONSTANTS
    None = None
    a = a  b = b
    Key = {1, 2, 3}
    Value = {a, b}
    Identity <- MCIdentity
    Order <- MCOrder
SPECIFICATION Spec
INVARIANTS TypeOK IntegratesToMerge PrefixIntegrated Convergence
