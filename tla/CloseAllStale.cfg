\* Live, with POST /positions/close-all.
SPECIFICATION Spec
CONSTANTS
    MaxRows = 2
    Token = {t1, t2}
    Routes = {}
    BulkRoutes = {b1}
    MinSellable = 2
    Share = 4
    BuyQty <- OddBuy
    MaxFaults = 0
    Live = TRUE
INVARIANTS
    ClaimedRowStaysOpen
CHECK_DEADLOCK FALSE
