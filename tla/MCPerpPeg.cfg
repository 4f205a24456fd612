SPECIFICATION Spec
CONSTANTS
    Accounts = {a, b}
    NoAccount = NoAccount
    PerpOoCount = 2
    MaxEvents = 3
    MaxLeaves = 2
    DropLimit = 1
    MakerFee = 1
    TakerFee = 2
    FeePenalty = 3
    MaintLiab10 = 20
    MaintAsset10 = 5
    EnabledIx = {"PerpPlaceOrder", "PerpConsumeEvents"}
    OrderInputs <- PegOrders
    CancelLimits = {1, 2}
    OraclePrices = {2, 3, 4}
    MaxSeqNum = 4
    MaxTs = 0
SYMMETRY AccountSymmetry
INVARIANTS
    FillsAreBestFirst
PROPERTIES
    PostedOrderMissedNoMatch
