\* Two deployments behind a poller, one of them on the close of a listed session
\* and one on shorter bars; nobody edits them, and versions may lose their row.  The run
\* ends when the poller is stopped and the clock is at its bound.
SPECIFICATION Spec
CONSTANTS
    Deployments = {d1, d2}
    Interval = {daily, weekly}
    NoInterval = NoInterval
    Period <- TwoPeriods
    Offset <- OneOffset
    Qtys = {1}
    Day = 3
    MarketClose = 2
    NoClose = NoClose
    NoTs = NoTs
    NoRow = NoRow
    NoSchedule = NoSchedule
    NoReq = NoReq
    NoDue = NoDue
    Omitted = Omitted
    MaxNow = 6
    InitialRows <- Fresh
    CreatedRows = {}
    Faults = {"schedule_lost", "write_fails", "readback_fails", "advance_fails", "crash"}
    Users = {}
    Patches = {}
    Sweeps = {poll}
    TickAttempts = 2
    Poller = poll
    MaxDrainPasses = 5
PROPERTIES
    DrainComplete
CHECK_DEADLOCK FALSE
