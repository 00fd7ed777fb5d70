SPECIFICATION Spec
CONSTANTS
    Inputs <- MCInputs
    WindowSize = 1
    MinDistance = 3
    MinProminence = 1
    MarginPercent = 20
    LowAmplitudeThreshold = 1
    HighFrequencyThreshold = 2500
    MinNumOfSpectrumItems = 2
    MaxNumOfSpectrumItems = 3
    Resources = {memory}
    NoQuantity = NoQuantity
INVARIANTS
    OutliersGoAway
    PeaksThinned
    ForecastCovers
    RecommenderAgrees
CHECK_DEADLOCK FALSE
