SPECIFICATION FairSpec
CONSTANTS
    w1 = w1
    p1 = p1
    p2 = p2
    app = app
    sidecar = sidecar
    Workloads = {w1}
    Kind <- KindDeployment
    Containers = {app, sidecar}
    Template = {app, sidecar}
    NoLimit = NoLimit
    MemoryIncreasePercent = 20
    MaxMemory = NoLimit
    DefaultMemory = 11
    OOMPatchCooldown = 1
    Enabled = TRUE
    Pods = {p1}
    Owner <- OwnerW1
    NoOwner = NoOwner
    StatusOrder <- AppFirst
    InjectedLimit = 10
    Need <- Need12
    UserWorkloads = {}
    UserLimits = {10, NoLimit}
    UserRequests = {NoLimit}
    MaxLag = 2
PROPERTIES
    LimitsSettle
