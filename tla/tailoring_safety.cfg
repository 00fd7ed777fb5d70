SPECIFICATION Spec
CONSTANTS
    app = app
    sidecar = sidecar
    mesh = mesh
    Containers = {app}
    Measured = {app, sidecar}
    Excluded = {sidecar}
    Resources = {"memory"}
    NoQuantity = NoQuantity
    Rails <- Rails20_80
    Quota <- Quota75
    MinChangePercent = 20
    Profile <- Percentile
    CoolingDown = FALSE
    Targets <- Requests40
    Usages <- Usage60or55
    NoTarget = NoTarget
    NoAnalysis = NoAnalysis
    Changing = {"tailoring", "atelier", "fitProfile", "usage"}
    MaxLag = 2
INVARIANTS
    TypeOK
    TailoringStaysScheduled
    RailsRespected
    GradualFromPublished
PROPERTIES
    PauseWins
