SPECIFICATION FairSpec
CONSTANTS
    t1 = t1
    Tailorings = {t1}
    Changing = {"PrometheusConnected", "ArgoCDConnected"}
    Specs = {"withArgoCD", "withoutArgoCD", "valid", "invalidParameters", "unknownStrategy"}
    MaxLag = 2
INVARIANTS
    TypeOK
    AtelierStaysScheduled
    QuietFitProfileIsJudged
PROPERTIES
    StatusSettles
