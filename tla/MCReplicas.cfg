\* Two replicas and a remote: replacements, a retraction, a crash or failed upload.
CONSTANTS
    None = None
    a = a  b = b  origin = origin  backup = backup
    ra = ra  rb = rb  ro = ro  rk = rk
    h1 = h1  h2 = h2  h3 = h3
    t1 = t1  t2 = t2  t3 = t3
    fact = fact  tombstone = tombstone
    Key = {1, 2}
    Value = {fact, tombstone}
    Identity <- MCIdentity
    Added = fact
    Removed = tombstone
    AttributeOf <- OneAttribute
    Instruction <- Edits
    Branch = {a, b}
    Remote = {origin}
    Repo = {ra, rb, ro}
    RepoOf <- ReplicaRepo
    Handle = {h1, h2}
    BranchOf <- ReplicaBranch
    Task = {t1, t2}
    HandleOf <- ReplicaHandle
    Issuer = {ra, rb, ro}
    IssuerOf <- MCIssuerOf
    Tracks <- ReplicaTracks
    Operations <- SyncOperations
    MaxCommits = 2
    MaxDisruptions = 1
SPECIFICATION FairSpec
INVARIANTS TypeOK RemoteHydratable HeadReadable PushFindsBlocks
PROPERTY Converges
