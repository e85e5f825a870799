\* Children that outlive the loop; no symmetry, for liveness.
CONSTANTS
    j1 = j1
    j2 = j2
    h1 = h1
    h2 = h2
    u1 = u1
    NoJob = NoJob
    Job = {j1, j2}
    Handler = {h1}
    User = {u1}
    Priority = {1}
    ListLimit = 2
    MaxQueued = 1
    MaxConcurrent = 1
    OrphansSurvive = TRUE
    MaxFaults = 1
SPECIFICATION FairSpec
PROPERTIES
    Settles
