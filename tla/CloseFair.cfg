\* Live, with one fault, under fairness.
SPECIFICATION FairSpec
CONSTANTS
    MaxRows = 1
    Token = {t1}
    Routes = {}
    BulkRoutes = {}
    MinSellable = 2
    Share = 4
    BuyQty <- OddBuy
    MaxFaults = 1
    Live = TRUE
PROPERTIES
    ClosedIsFinal
    UnsellableRowCloses
    ReconcilesOnlyFlat
\* With its row closed nothing is left to do.
CHECK_DEADLOCK FALSE
