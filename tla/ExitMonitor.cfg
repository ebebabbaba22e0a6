\* A position that runs up and back, and one that collapses.
SPECIFICATION CaseSpec
CONSTANTS
    V1 = TRUE
    StopPct = 15
    HardPct = 30
    TakeOn = FALSE
    TakePct = 20
    PeakPct = 12
    ArmPct = 30
    ArmCents = 12
    MinTrail = 2
    SweepPct = 10
    Confirm = 3
    MinSize = 5
    MarkLevels = 3
    MarkGap = 5
    Entry = 20
    Qty = 3
    Share = 2
    Books <- AllBooks
    Base = 1
    MaxBackoff = 2
    Manual = TRUE
INVARIANTS
    PeakIsReal
PROPERTIES
    FrozenBookNeverFires
    NeverSellsDead
    LoggedOnce
