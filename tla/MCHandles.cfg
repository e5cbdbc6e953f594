\* Two handles to a branch that tracks a local branch that tracks one of two remotes.
CONSTANTS
    None = None
    a = a  b = b  origin = origin  backup = backup
    ra = ra  rb = rb  ro = ro  rk = rk
    h1 = h1  h2 = h2  h3 = h3
    t1 = t1  t2 = t2  t3 = t3
    fact = fact  tombstone = tombstone
    Key = {1, 2}
    Value = {fact, tombstone}
    Identity <- MCIdentity
    Added = fact
    Removed = tombstone
    AttributeOf <- OneAttribute
    Instruction <- Asserts
    Branch = {a, b}
    Remote = {origin, backup}
    Repo = {ra, ro, rk}
    RepoOf <- ChainRepo
    Handle = {h1, h2, h3}
    BranchOf <- TwoHandles
    Task = {t1, t2, t3}
    HandleOf <- ThreeTasks
    Issuer = {ra, ro, rk}
    IssuerOf <- MCIssuerOf
    Tracks <- ChainTracks
    Operations <- ChainOperations
    MaxCommits = 2
    MaxDisruptions = 1
SPECIFICATION Spec
INVARIANTS RemoteHydratable MarkerBehindHead
PROPERTIES NothingLost MarkerAdvances
