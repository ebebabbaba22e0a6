\* Live, the exit monitor and a manual close against both monitors.
SPECIFICATION Spec
CONSTANTS
    MaxRows = 2
    Token = {t1}
    Routes = {r1}
    BulkRoutes = {}
    MinSellable = 2
    Share = 4
    BuyQty <- OddBuy
    MaxFaults = 0
    Live = TRUE
INVARIANTS
    OneSeller
    ClaimedRowStaysOpen
    BuyIsBookable
    Backed
PROPERTIES
    ImplementsCustody
\* The rows run out: with both closed nothing is left to do.
CHECK_DEADLOCK FALSE
