\* The ledger on two rows and two calling threads; three rows for the writer, of which
\* two fit into its queue and one into a batch; two values per canvas node, and three
\* saves, starts or stops; two wallets, two requests at a time; two news configurations,
\* each with either of two windows; two items, one of which fits into the queue.
SPECIFICATION ServicesSpec
CONSTANTS
    RowId <- Rows
    Key = {k1}
    Caller = {c1, c2}
    Quantity <- Qtys
    Price <- Prices
    FeeRate <- Rates
    Fee <- Fees
    MinSellable = 2
    NoKey = NoKey
    NoPid = NoPid
    DbRow = {1, 2, 3}
    DbQueueMax = 2
    BatchSize = 1
    PruneBatch = 1
    Value = {1, 2}
    MaxTasks = 3
    Wallet = {w1, w2}
    Req = {r1, r2}
    NewsKey = {1, 2}
    NewsWindow = {1, 2}
    RingSize = 2
    MaxBackoff = 2
    Item = {1, 2}
    ItemQueueMax = 1
    ItemWindow = {0}
    MaxAge = 1
SYMMETRY Alike
INVARIANTS
    TypesHold
    SharesConserved
    PnlMatchesFills
    StoppedIsComplete
    SectionsFollowCanvas
    LiveIsEarned
    FilterIsConfigured
    StaleSideNeverTraded
PROPERTIES
    NoFillAfterClose
\* Rows run out, and a writer that has stopped stays stopped.
CHECK_DEADLOCK FALSE
