SPECIFICATION Spec
CONSTANTS
    Interval = 2
    nearby = nearby
    distant = distant
    odd = odd
    Conn <- WithOdd
    Distance <- FourTwelveNine
    InitTtl <- MixedAndOdd
    AutoTtl = TRUE
    AutoTtl1 = 1
    AutoTtl2 = 4
    MinHops = 3
    MaxTtl = 10
    SetTtl = 0
    SelectApps = FALSE
    MaxThink = 1
INVARIANTS TypeOK RecordsAreYoung FakeDiesOnTheWay
PROPERTIES OwnMeasurementUsed FarRequestsFaked
