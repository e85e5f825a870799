\* An order whose submission was not answered may be on the book.
SPECIFICATION Spec
CONSTANTS
    Qty = 2
    FlatEps = 0
    OrderId = {o1, o2}
    PositionLimit = 6
    MaxAttempts = 2
    Polls = 1
    TickAttempts = 2
    Faults = {"lost_ack"}
    Drivers = {"tick"}
INVARIANT
    ExposureBounded
