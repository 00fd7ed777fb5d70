SPECIFICATION Spec
CONSTANTS
    Quantities <- MCQuantities
    Numbers <- MCNumbers
    Updates <- MCUpdates
    Starts <- MCStarts
    ValuePaths <- MCValuePaths
    PathMaps <- MCPathMaps
    PatchPaths <- MCPatchPaths
    Leaves <- MCLeaves
INVARIANTS
    TypeOK
    AskedIsRead
PROPERTIES
    OthersKept
