SPECIFICATION Spec
CONSTANTS
    Accounts = {a, b, c}
    NoAccount = NoAccount
    PerpOoCount = 2
    MaxEvents = 3
    MaxLeaves = 3
    DropLimit = 1
    MakerFee = 0
    TakerFee = 0
    FeePenalty = 3
    MaintLiab10 = 20
    MaintAsset10 = 5
    EnabledIx = {"PerpPlaceOrder", "PerpConsumeEvents", "PerpDeactivatePosition", "PerpForceClosePosition", "PerpEditMarket", "PerpLiqForceCancelOrders"}
    OrderInputs <- ModeOrders
    CancelLimits = {1, 2}
    OraclePrices = {1}
    MaxSeqNum = 4
    MaxTs = 0
SYMMETRY AccountSymmetry
PROPERTIES
    ReduceOnlyOrdersReduce
    ForceClosingReduces
