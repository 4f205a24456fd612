SPECIFICATION ProgramSpec
CONSTANTS
    ONE = 16
    LoanOriginationFeeRate = 4
    LoanFeeRate = 2
    Util0 = 8
    Util1 = 12
    ZeroUtilRate = 0
    Rate0 = 4
    Rate1 = 8
    MaxRate = 16
    InterestTargetUtilization = 8
    AdjustmentFactor = 8
    Year = 1
    NetBorrowWindow = 2
    NetBorrowLimit = 9
    TlDepositLimit = 9
    TlAccounts = {"a1","a2"}
    SeedDeposits <- MCSeedDeposits
    TlMaxSteps = 4
    StartIndex = 24
    Deposits = {2, 7}
    Withdrawals = {1, 4}
    MinDeposit = 1
    MaxWithdraw = 999
    DelegateWithdrawMax = 2
    MinVaultRatio = 4
    TlPrice = 2
    MaxInterestTimestep = 2
    Hour = 1
    Day = 2
    CollateralFeeInterval = 1
    CollateralFeePerDay = 4
    Usages = {0, 16}
    MaxInUse = 1
    MaxBanks = 2
    TlMaxTime = 3
    HaTokens = {"q","b","c"}
    TokenParams <- MCTokenParams
    BankTotals <- MCBankTotals
    SpotMarkets <- MCSpotMarkets
    PerpParams <- MCPerpParams
    SpotBalances <- MCSpotBalances
    Reservations <- MCReservations
    PerpPositions <- MCPerpPositions
    TokenPrices <- MCTokenPrices
    PerpPrices <- MCPerpPrices
    Changes <- MCChanges
    LhTokenOrder <- MCLhTokenOrder
    LhConfigs <- MCLhConfigs
    PreferredValue = 100
    CancelsPerTx = 1
    LqDepositLimit = 9
    LqAccounts = {"e","l"}
    LqTokens = {"q","b","c"}
    InsuranceToken = "q"
    LqParams <- MCLqParams
    LqPrices <- MCLqPrices
    LqSeeds <- MCLqSeeds
    LqInUse = {"e"}
    MaxTransfers <- MCMaxTransfers
    LqNumBanks <- MCLqNumBanks
    LqMaxMoves = 2
    PmAccounts = {"a", "b", "c"}
    PmToken <- MCPmToken
    PmParams <- MCPmParams
    PmPrices <- MCPmPrices
    FundingRates <- MCFundingRates
    FundingDay = 2
    MaxFundingStep = 1
    PmLots = {1}
    PmFees <- MCPmFees
    PmMaxBase = {1, 1000000}
    PmMaxTransfers <- MCPmTransfers
    PmSeeds <- MCPmSeeds
    PmMaxTime = 2
    PmMaxSteps = 3
    CsDepositLimit = 40
    CsMenu <- MCCsMenu
    CsSlots = {1, 2}
    CsPrices = {9, 16, 27}
    CsSeeds <- MCCsSeeds
    CsCollateral <- MCCsCollateral
    CsWeights <- MCCsWeights
    CsRequests <- MCCsRequests
    StartIncentive = 8
    HealthThreshold = 16
    HealthGrace = 64
    TakerFeeRate = 3
    MakerFeeRate = 4
    CsMaxTime = 4
    CsMaxSteps = 4
    Mints = {"m0","m1"}
    InsuranceMint = "m0"
    TokenIndexes = {0, 1}
    MarketIndexes = {0}
    GroupAdmin = "adm"
    FastListingAdmin = "fla"
    SecurityAdmin = "sec"
    Testing = TRUE
    AllowedFastListings = 1
    FastListingWeek = 2
    FullWeight = 4
    ShiftDuration = 2
    Oracles = {"o1", "o2"}
    RegisteredOracles <- MCRegisteredOracles
    LsMaxBanks = 2
    LsMaxTime = 5
    LsMaxSteps = 4
    NoKey = "nokey"
    Keys = {"adm","sec","own","del"}
    AdminInputs = {"sec"}
    DelegateInputs = {"del"}
    ExpiryInputs = {2,3,5}
    AcAccounts = {"a1","a2"}
    AcOpen = {"a1","a2"}
    OwnerOf <- MCOwnerOf
    Creator = "adm"
    GateInputs <- MCGates
    Week = 2
    AcMaxTime = 4
    AcMaxSteps = 4
    AsTokens = {0, 1, 2}
    AsMarkets <- MCAsMarkets
    AsPerps = {4}
    AsSwaps <- MCAsSwaps
    AsFirstCounts <- MCAsFirstCounts
    AsCounts <- MCAsCounts
    AsOrders = {101, 102}
    AsKeep <- MCAsKeep
    MaxHealthAccounts = 9
    MaxOrders = 3
    MaxSwaps = 2
    AsMaxSteps = 6
INVARIANTS
    TokenBooksAgree
    HealthIsConsistent
    LiquidatableAccountsAreHandled
    PerpBooksAgree
    SwapsAreSound
    ListingsAreSafe
    AccountsAreProtected
    StoredReferencesHold
PROPERTIES
    TokenStepsAreBacked
    ExecutionNeverLowersHealth
    LiquidationIsFair
    PerpStepsAreFair
    SwapStepsAreFair
    ListingPowersAreLimited
    PowerComesFromItsHolder
    StorageIsLists
CHECK_DEADLOCK FALSE
