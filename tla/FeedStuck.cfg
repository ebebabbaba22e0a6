\* Two configurations, each with either of two freshness windows.
SPECIFICATION Spec
CONSTANTS
    Key = {k1, k2}
    Window = {1, 2}
    RingSize = 2
    MaxBackoff = 2
INVARIANTS
    ReportsAlive
