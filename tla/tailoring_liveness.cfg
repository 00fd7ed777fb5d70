SPECIFICATION FairSpec
CONSTANTS
    app = app
    sidecar = sidecar
    mesh = mesh
    Containers = {app, sidecar}
    Measured = {app, sidecar, mesh}
    Excluded = {mesh}
    Resources = {"memory"}
    NoQuantity = NoQuantity
    Rails <- Rails20_80
    Quota <- NoQuotas
    MinChangePercent = 20
    Profile <- Percentile
    CoolingDown = FALSE
    Targets <- Shapes
    Usages <- Usage60
    NoTarget = NoTarget
    NoAnalysis = NoAnalysis
    Changing = {"target", "prometheus"}
    MaxLag = 2
PROPERTIES
    StatusSettles
    RecommendationsConverge
