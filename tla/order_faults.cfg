\* Manual applies, orders that reach the book unanswered, refused polls and
\* pauses that cannot be written.
SPECIFICATION FairSpec
CONSTANTS
    Qty = 1
    FlatEps = 0
    OrderId = {o1}
    PositionLimit = 2
    MaxAttempts = 2
    Polls = 1
    TickAttempts = 2
    Faults = {"lost_ack", "poll_denied", "pause_fails"}
    Drivers = {"tick", "manual"}
PROPERTY
    CycleEnds
