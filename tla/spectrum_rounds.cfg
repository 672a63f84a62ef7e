SPECIFICATION FairSpec
CONSTANTS
    t1 = t1
    t2 = t2
    NBidders = 2
    Territories = {t1, t2}
    Supply <- SupplyDef
    MinPrice <- MinPriceDef
    HighDemand = {t1}
    Eligibilities <- OutOfOrder
    UIntSize = 16
    ActivityPercentage = 70
    IncrementPercentage = 100
    Unit = 1
    Offers <- AnyOffers
    MaxRound = 3
INVARIANTS
    TypeOK
    EligibilityKept
    ExcessAgrees
    PricesInRange
    FinalStageDecidedFirst
    ChannelsMatchLicenses
PROPERTIES
    EligibilityNeverGrows
    EvaluationEnds
CHECK_DEADLOCK FALSE
