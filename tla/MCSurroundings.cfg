SPECIFICATION SurroundingsSpec
CONSTANTS
    TxAccounts = {"a","b"}
    TxTokens = {"t","u"}
    TxDelegates = {"b"}
    TxReduceOnly <- MCTxReduceOnly
    TxFee = 2
    TxAmount = 2
    TxMenu <- MCTxMenu
    SequenceRange = 2
    TxSeeds <- MCTxSeeds
    TxLength = 4
    MaxTxs = 1
    ONE = 16
    LoanOriginationFeeRate = 4
    LoanFeeRate = 2
    Util0 = 8
    Util1 = 12
    ZeroUtilRate = 0
    Rate0 = 4
    Rate1 = 8
    MaxRate = 16
    InterestTargetUtilization = 8
    AdjustmentFactor = 8
    Year = 1
    NetBorrowWindow = 2
    NetBorrowLimit = 9
    S3Accounts = {"a1", "a2"}
    S3Opened = {"a1"}
    S3Modes = {1}
    S3SeedDeposits <- MCS3Seeds
    S3OtherDeposits <- MCS3Other
    S3DepositLimit = 18
    S3LimitPrices = {1, 2, 3}
    S3Quantities = {2}
    S3OraclePrice = 2
    S3PriceBand = 20
    S3MinVaultRatio = 4
    S3V1Enabled = TRUE
    S3MaxOrders = 2
    S3MaxSteps = 3
    OpKindChoices <- MCOpKindChoices
    OpPublications <- MCOpPublications
    OpStubPrice = 12
    ConfFilter = 1
    ConfOne = 8
    MaxStaleness = 2
    DelayIntervals = 3
    DelayIntervalSeconds = {1, 2}
    MinDt = 1
    MaxDt = 1
    GrowthOne = 16
    DelayGrowthLimit = 4
    StableGrowthLimit = 4
    OpSteps = {1, 3}
    OpMaxTime = 5
    OpMaxEvents = 2
    Data <- MCData
    BufLen = 3
    ZeroEvent <- MCZeroEvent
    MaxSeqNum = 7
    QueueLen = 3
    FfMaxSeq = 4
    FfMaxSlot = 2
    FfMaxWrites = 3
    FfStartSeq = 2
    FfPeerNames = {"p"}
    FfAccounts = {"a", "b"}
    FfTrades <- MCFfTrades
    FfCommands <- MCFfCommands
    FfMaxClientSteps = 2
    PgBatchSize = 1
    PgRetries = 1
    ObKinds = {"perp", "serum"}
    ObOrders <- MCObOrders
    ObOraclePrices = {0, 1, 2}
    ObPrices = {1, 2, 3}
    ObPeerNames = {"p"}
    ObMaxVersion = 2
    ObMaxWrites = 5
    ObForking = {"bids", "asks", "oracle"}
    ObMaxChannel = 3
    ObMaxClientSteps = 2
    LbAccounts = {"a", "b"}
    SkipThreshold = 1
    SkipDuration = 2
    KeepDuration = 2
    LogInterval = 1
    TakeTcs = TRUE
    QcRequests <- MCQcRequests
    QcPrices = {1, 2, 9}
    MaxPrice = 8
    TtAccounts = {"a", "b"}
    TtSwaps <- MCTtSwaps
    TtSituations <- MCTtSituations
    TtModes = {"borrow", "collateral", "sell"}
    MaxTrigger = 6
    MaxPrepared = 2
    ExecutionThreshold = 2
    LiqorTokens = {"x"}
    LiqorFree = 1
    TtSkipThreshold = 1
    TtMaxRounds = 2
INVARIANTS
    TransactionsEndClean
    SpotBooksAgree
    FillsFollowTheQueue
    LevelsFollowTheBook
    JobsAreSound
    QuotesAreSound
    RoundsFit
PROPERTIES
    TransactionsKeepAccountsSafe
    PricesAreSound
    ImplementsFifo
CHECK_DEADLOCK FALSE
