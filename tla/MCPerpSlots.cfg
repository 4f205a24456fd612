SPECIFICATION SpecUpgraded
CONSTANTS
    Accounts = {a, b}
    NoAccount = NoAccount
    PerpOoCount = 2
    MaxEvents = 3
    MaxLeaves = 3
    DropLimit = 1
    MakerFee = 1
    TakerFee = 2
    FeePenalty = 3
    MaintLiab10 = 20
    MaintAsset10 = 5
    EnabledIx = {"PerpPlaceOrder", "PerpConsumeEvents", "PerpCancelOrder", "PerpCancelAllOrders", "OtherMarket"}
    OrderInputs <- SlotOrders
    CancelLimits = {1}
    OraclePrices = {1}
    MaxSeqNum = 3
    MaxTs = 0
SYMMETRY AccountSymmetry
PROPERTIES
    OtherMarketsKeepTheirSlots
    OldEventsSpareNewOrders
