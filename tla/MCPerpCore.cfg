SPECIFICATION Spec
CONSTANTS
    Accounts = {a, b}
    NoAccount = NoAccount
    PerpOoCount = 2
    MaxEvents = 3
    MaxLeaves = 2
    DropLimit = 1
    MakerFee = 1
    TakerFee = 2
    FeePenalty = 3
    MaintLiab10 = 20
    MaintAsset10 = 5
    EnabledIx = {"PerpPlaceOrder", "PerpCancelOrder", "PerpCancelAllOrders", "PerpConsumeEvents", "PerpDeactivatePosition"}
    OrderInputs <- CoreOrders
    CancelLimits = {2}
    OraclePrices = {1}
    MaxSeqNum = 4
    MaxTs = 2
SYMMETRY AccountSymmetry
INVARIANTS
    BookOrdersHaveSlots
    TakenSlotsAreFreed
    FinishedOrdersAreGone
    PerpLedgerBalances
