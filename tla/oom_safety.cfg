SPECIFICATION Spec
CONSTANTS
    w1 = w1
    p1 = p1
    p2 = p2
    app = app
    sidecar = sidecar
    Workloads = {w1}
    Kind <- KindDeployment
    Containers = {app}
    Template = {app}
    NoLimit = NoLimit
    MemoryIncreasePercent = 20
    MaxMemory = NoLimit
    DefaultMemory = 11
    OOMPatchCooldown = 2
    Enabled = TRUE
    Pods = {p1, p2}
    Owner <- OwnerW1
    NoOwner = NoOwner
    StatusOrder <- AppFirst
    InjectedLimit = 10
    Need <- Need12
    UserWorkloads = {w1}
    UserLimits = {10, 20}
    UserRequests = {NoLimit, 20}
    MaxLag = 2
INVARIANTS
    TypeOK
    OOMKilledPodStaysScheduled
    NoCompounding
    UpdateStaysValid
    CooldownGate
PROPERTIES
    FloorKept
    ImplementsAtomicPatch
SYMMETRY PodSymmetry
