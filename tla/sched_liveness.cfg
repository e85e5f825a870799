\* Two deployments, a client that switches them and a tick every hour; no call
\* fails for ever.
SPECIFICATION FairSpec
CONSTANTS
    Deployments = {d1, d2}
    Interval = {daily}
    NoInterval = NoInterval
    Period <- OnePeriod
    Offset <- OneOffset
    Qtys = {1}
    Day = 4
    MarketClose = NoClose
    NoClose = NoClose
    NoTs = NoTs
    NoRow = NoRow
    NoSchedule = NoSchedule
    NoReq = NoReq
    NoDue = NoDue
    Omitted = Omitted
    MaxNow = 3
    InitialRows <- Fresh
    CreatedRows = {}
    Faults = {}
    Users = {u1}
    Patches <- SwitchPatches
    Sweeps = {tick1}
    TickAttempts = 2
    Poller = poll
    MaxDrainPasses = 2
PROPERTIES
    DueIsClosed
