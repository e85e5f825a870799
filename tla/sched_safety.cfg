\* A client and two sweeps that may overlap, every request, every call may fail or
\* die.
SPECIFICATION Spec
CONSTANTS
    Deployments = {d1}
    Interval = {daily}
    NoInterval = NoInterval
    Period <- OnePeriod
    Offset <- OneOffset
    Qtys = {1}
    Day = 4
    MarketClose = NoClose
    NoClose = NoClose
    NoTs = NoTs
    NoRow = NoRow
    NoSchedule = NoSchedule
    NoReq = NoReq
    NoDue = NoDue
    Omitted = Omitted
    MaxNow = 3
    InitialRows = {}
    CreatedRows <- AnyCreated
    Faults = {"write_fails", "readback_fails", "advance_fails", "read_fails", "crash"}
    Users = {u1}
    Patches <- AllPatches
    Sweeps = {tick1, tick2}
    TickAttempts = 2
    Poller = poll
    MaxDrainPasses = 1
INVARIANTS
    CursorOnSlot
PROPERTIES
    SweepNeverRevives
    StopUndoneOnlyByStaleRead
SYMMETRY Symmetry
