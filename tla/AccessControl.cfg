SPECIFICATION FairSpec
CONSTANTS
    c = c
    tenant = tenant
    Keys = {k0, k1}
    Bootstrap = {k0}
    Namespaces = {n}
    Users = {root, ann}
    Root = root
    Grants <- MCGrants
    Collections = {c}
    Requests = {r1, r2}
    Missing = Missing
    Env = FALSE
    Workloads <- MCWorkloads
    ChannelCapacity = 1
    BatchSize = 2
    MaxAnswer = 2
    Junk = Junk
    Never = Never
    LastDay = 1
    MaxFailures = 1
INVARIANTS
    KeysHonoured
    GrantedAsStored
    AsPermitted
    Audited
PROPERTIES
    Started
CHECK_DEADLOCK FALSE
