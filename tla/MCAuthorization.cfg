CONSTANTS
    None = None
    s = s
    p = p
    o = o
    q = q
    w = w
    x = x
    Did <- MCDid
    Profile <- MCDid
    Home <- MCHome
    Segment = {w}
    Param = {x}
    Imports <- MCImports
    Claims <- MCClaims
    MaxDepth = 2
    MaxCerts = 2
    MaxGrants = 1
    MaxErrors = 1
SPECIFICATION Spec
INVARIANTS TypeOK ProofsVerify SearchComplete GrantsBacked
PROPERTY SearchEnds
