\* The sampler, the held-token loop and one deciding caller on one store; and both
\* versions of the entry rules.
SPECIFICATION MarketSpec
CONSTANTS
    yes = yes
    m1 = m1
    Token = {yes}
    Market = {m1}
    TokensOf <- OneMarket
    Caller = {decision}
    HeldLoop = heldLoop
    KeptMaxAge = 2
    FreshAge = 1
    GoneRecheck = 2
    PersistInterval = 3
    MaxNow = 8
    \* Brakes on two losses in a row and on the drawdown, and room for one order and a half
    \* of the base size under the cap.
    Version = {0, 1}
    Markets = {1}
    Quotes <- Shown
    Fairs = {60, 40}
    Rate = 20
    Share = 2
    SideLock = FALSE
    RequireNews = FALSE
    MinEdge = 5
    MaxSpread = 5
    SpreadPct = 10
    Base = 100
    Scale = 3
    HeatCap = 150
    KillStreak = 2
    KillDaily = 1000
    KillDrawdown = 60
    Day = 2
    Lockout = FALSE
    Cooldown = 2
    MinNotional = 60
    \* Of a share cut in two, half a share is dust, three shares can be sold again.
    Lefts = {1, 6}
    MaxRows = 3
    MaxTicks = 2
INVARIANTS
    NeverBothSides
    CooldownHeld
PROPERTIES
    ObserverInOrder
    GoneUntilNewer
    NeededBookStays
    RowsKeepInterval
    HeatHeld
    BrakesHold
\* The clock readings run out, and the table of the entry rules fills up.
CHECK_DEADLOCK FALSE
