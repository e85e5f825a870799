\* A loop that is PID 1 of its container: its children die with it.
CONSTANTS
    j1 = j1
    j2 = j2
    h1 = h1
    h2 = h2
    u1 = u1
    NoJob = NoJob
    Job = {j1, j2}
    Handler = {h1, h2}
    User = {u1}
    Priority = {1}
    ListLimit = 2
    MaxQueued = 1
    MaxConcurrent = 1
    OrphansSurvive = FALSE
    MaxFaults = 1
SYMMETRY Interchangeable
SPECIFICATION Spec
INVARIANTS
    SpawnedAtMostOnce
    VerdictAfterDeath
    QueuedCapOverrun
PROPERTIES
    RestIsFinal
    ImplementsLifecycle
