\* A sell whose answer is lost.
SPECIFICATION Spec
CONSTANTS
    Cases <- Unanswered
    Qty = 3
    MinShares = 1
    MaxOrders = 2
    MaxTries = 2
INVARIANTS
    OneOrderOnBook
CHECK_DEADLOCK FALSE
