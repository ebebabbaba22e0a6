\* The default configuration of threshold_v1, and a spread gate wider than the default 10%.
SPECIFICATION Spec
CONSTANTS
    V1 = TRUE
    StopPct = 15
    HardPct = 30
    TakeOn = FALSE
    TakePct = 20
    PeakPct = 12
    ArmPct = 30
    ArmCents = 20
    MinTrail = 2
    SweepPct = 10
    Confirm = 3
    MinSize = 5
    MarkLevels = 3
    MarkGap = 5
    Entry = 20
    Shares = 5
    Price <- Prices
    GatePct = 25
INVARIANTS
    SpreadNeverStops
    BackstopHolds
    LockHolds
\* A closed position is watched no more.
CHECK_DEADLOCK FALSE
