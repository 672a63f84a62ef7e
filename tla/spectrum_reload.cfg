SPECIFICATION Spec
CONSTANTS
    t1 = t1
    t2 = t2
    NBidders = 2
    Territories = {t1, t2}
    Supply <- SupplyDef
    MinPrice <- MinPriceDef
    HighDemand = {t1}
    Eligibilities <- InOrder
    UIntSize = 16
    ActivityPercentage = 70
    IncrementPercentage = 50
    Unit = 4
    Offers = {1, 2}
    MaxRound = 3
INVARIANT StateReadable
CHECK_DEADLOCK FALSE
