\* A quantity edit that read the deployment before a stop.
SPECIFICATION Spec
CONSTANTS
    Deployments = {d1}
    Interval = {daily}
    NoInterval = NoInterval
    Period <- OnePeriod
    Offset <- OneOffset
    Qtys = {1}
    Day = 4
    MarketClose = NoClose
    NoClose = NoClose
    NoTs = NoTs
    NoRow = NoRow
    NoSchedule = NoSchedule
    NoReq = NoReq
    NoDue = NoDue
    Omitted = Omitted
    MaxNow = 5
    InitialRows <- Fresh
    CreatedRows = {}
    Faults = {}
    Users = {u1, u2}
    Patches <- QtyPatches
    Sweeps = {}
    TickAttempts = 1
    Poller = poll
    MaxDrainPasses = 1
PROPERTIES
    StopHolds
CHECK_DEADLOCK FALSE
