SPECIFICATION MCFairSpec
CONSTANTS
    MaxEvents = 2
    MaxLoops = 1
    MaxCrashes = 1
    Outages = TRUE
    CreateFailures = TRUE
INVARIANTS NoEventLost DeliveredInOrder
PROPERTIES SetModeReturns EventsDelivered
CHECK_DEADLOCK FALSE
