SPECIFICATION Spec
CONSTANTS
    Accounts = {a, b}
    NoAccount = NoAccount
    PerpOoCount = 2
    MaxEvents = 3
    MaxLeaves = 3
    DropLimit = 1
    MakerFee = 1
    TakerFee = 2
    FeePenalty = 3
    MaintLiab10 = 30
    MaintAsset10 = 0
    EnabledIx = {"PerpPlaceOrder", "PerpConsumeEvents"}
    OrderInputs <- FallingPegOrders
    CancelLimits = {1, 2}
    OraclePrices = {2, 3}
    MaxSeqNum = 4
    MaxTs = 0
SYMMETRY AccountSymmetry
PROPERTIES
    PostedOrderMissedNoMatch
