SPECIFICATION GitOpsSpec
SYMMETRY Alike
CONSTANTS
    Calls = {c1}
    Main = main
    Branches = {main, cut}
    f = f
    g = g
    new = new
    Files = {f, g}
    Contents = {new}
    NoFile = NoFile
    Changes <- MCChanges
    MaxCommits = 3
    Requests = {r1}
    Specs = {s1, s2}
INVARIANTS
    TypeOK
    AcknowledgedCommitsStay
    HardRefreshShows
PROPERTIES
    ChangesOnTop
    OthersKept
