\* Two replicas and a remote whose tree returns to an earlier one.
CONSTANTS
    None = None
    a = a  b = b  origin = origin  backup = backup
    ra = ra  rb = rb  ro = ro  rk = rk
    h1 = h1  h2 = h2  h3 = h3
    t1 = t1  t2 = t2  t3 = t3
    fact = fact  tombstone = tombstone
    Key = {1, 2}
    Value = {fact, tombstone}
    Identity <- MCIdentity
    Added = fact
    Removed = tombstone
    AttributeOf <- OneAttribute
    Instruction <- Replacements
    Branch = {a, b}
    Remote = {origin}
    Repo = {ra, rb, ro}
    RepoOf <- ReplicaRepo
    Handle = {h1, h2}
    BranchOf <- ReplicaBranch
    Task = {t1, t2}
    HandleOf <- ReplicaHandle
    Issuer = {ra, rb, ro}
    IssuerOf <- MCIssuerOf
    Tracks <- ReplicaTracks
    Operations <- FollowOperations
    MaxCommits = 3
    MaxDisruptions = 1
SPECIFICATION FairSpec
PROPERTY ReplicasAgree
