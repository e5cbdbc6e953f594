\* A handle refreshed while another one pushes.
CONSTANTS
    None = None
    a = a  b = b  origin = origin  backup = backup
    ra = ra  rb = rb  ro = ro  rk = rk
    h1 = h1  h2 = h2  h3 = h3
    t1 = t1  t2 = t2  t3 = t3
    fact = fact  tombstone = tombstone
    Key = {1, 2}
    Value = {fact, tombstone}
    Identity <- MCIdentity
    Added = fact
    Removed = tombstone
    AttributeOf <- OneAttribute
    Instruction <- Asserts
    Branch = {a, b}
    Remote = {origin}
    Repo = {ra, rb, ro}
    RepoOf <- ReplicaRepo
    Handle = {h1, h2, h3}
    BranchOf <- TwoHandles
    Task = {t1, t2, t3}
    HandleOf <- ThreeTasks
    Issuer = {ra, rb, ro}
    IssuerOf <- MCIssuerOf
    Tracks <- ReplicaTracks
    Operations <- TornOperations
    MaxCommits = 2
    MaxDisruptions = 0
SPECIFICATION Spec
PROPERTY NothingLost
