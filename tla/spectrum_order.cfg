SPECIFICATION Spec
CONSTANTS
    t1 = t1
    t2 = t2
    NBidders = 2
    Territories = {t1, t2}
    Supply <- SupplyDef
    MinPrice <- MinPriceDef
    HighDemand = {t1}
    Eligibilities <- OutOfOrder
    UIntSize = 16
    ActivityPercentage = 70
    IncrementPercentage = 100
    Unit = 1
    Offers = {1, 2}
    MaxRound = 3
INVARIANT CapWithinEligibility
CHECK_DEADLOCK FALSE
