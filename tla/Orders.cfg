\* Sells and buys under the kinds of trouble the properties distinguish.
SPECIFICATION FairSpec
CONSTANTS
    Cases <- AllCases
    Qty = 4
    MinShares = 2
    MaxOrders = 2
    MaxTries = 2
INVARIANTS
    NothingInvented
    KnownOrderAlone
    NoSilentShortfall
PROPERTIES
    ForgottenOffBook
    CallEnds
\* The orders run out.
CHECK_DEADLOCK FALSE
