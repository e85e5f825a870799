\* Three weeks of days of two units, periods up to five units; five bars with
\* closes up to three.
SPECIFICATION Spec
CONSTANTS
    MaxTs = 42
    MaxPeriod = 5
    Day = 2
    MaxBars = 5
    MaxClose = 3
    MinObs = 2
INVARIANTS
    SlotsAndBars
    LiveAgrees
    EquityHonest
    BestIsReportedBest
    HoldOutUnseen
PROPERTY NoLookAhead
