SPECIFICATION FairSpec
CONSTANTS
    c1 = c1
    c2 = c2
    Null = Null
    Clients = {c1, c2}
    Asks <- MCAsks
    Ateliers <- MCAteliers
    Windows <- MCWindows
    SampleSets <- MCSampleSets
    Matrices <- MCMatrices
    Texts <- MCTexts
    DataSets <- MCDataSets
    apiKeys = {"key"}
    enableCORS = TRUE
    TopN = 2
INVARIANTS
    MetricsMerged
    BreakdownsAddUp
    OperationsAsked
    TimeoutsNest
PROPERTIES
    HandlersEnd
CHECK_DEADLOCK FALSE
