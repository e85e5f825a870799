\* The scheduler alone drives the deployment and no answer of the venue hides
\* an order.
SPECIFICATION Spec
CONSTANTS
    Qty = 3
    FlatEps = 1
    OrderId = {o1, o2}
    PositionLimit = 6
    MaxAttempts = 2
    Polls = 1
    TickAttempts = 2
    Faults = {}
    Drivers = {"tick"}
INVARIANTS
    ExposureBounded
    ReportedPositionTrue
PROPERTIES
    ImplementsTarget
