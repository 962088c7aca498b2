\* The load shedder and the contracts of the chains.
SPECIFICATION RequestsSpec
CONSTANTS
    h1 = h1
    h2 = h2
    h3 = h3
    h4 = h4
    k1 = k1
    k2 = k2
    k3 = k3
    a1 = a1
    a2 = a2
    a3 = a3
    i1 = i1
    i2 = i2
    i3 = i3
    Minute = 1
    Window = 2
    CpuWindow = 2
    CpuThreshold <- Thresholds
    IoThreshold <- Thresholds
    IoFullThreshold <- Thresholds
    IoEnable = TRUE
    RetryNum = 1
    RetryDen = 2
    MaxRetries = 1
    MaxTime = 3
    MaxQueued = 1
    MaxRequests = 2
    Makers = {m}
    Takers = {m, t}
    Ticks <- MCTicks
    Scale = 2
    OrderSizes = {2}
    SwapSizes = {3}
    MaxOrderId = 3
    MaxHeld = 6
    MaxCalls = 4
    Delegators = {a, d}
    Auth = a
    Stakes = {1, 2}
    RewardSizes = {1}
    WithdrawalIds = {0}
    Dust = 1
    MinAuth = 2
    ActiveStake = 2
    Bias = 2
    MaxEpoch = 4
    MaxBalance = 4
    MaxAcc = 2
    Sentinel = Sentinel
    Empty = Empty
    NoRequest = NoRequest
    Holders = {a, b}
    Nobody = Nobody
    Token = Token
    Guard = Guard
    Amounts = {1, 2}
    Caps = {2}
    Precision = 2
    MaxRpt = 3
    MaxReceipts = 1
    Providers = {p, q}
    M = 5
    N = 6
    SCALE = 8
    MinLiquidity = 1
    Deposits = {3, 6}
    Shares = {1, 2}
    Outs = {1, 2}
    Fees = {2, 3, 8}
    MaxReserve = 9
    Payers = {p}
    Sums = {1}
    MaxTx = 3
    MaxDeposit = 2
    Grace = 1
    MaxNow = 2
    AccessKeys = {k}
    Root = root
    Limits = {1, 2}
    Periods = {0, 2}
    Expiries = {5}
    Targets = {t1}
    Selectors = {s1}
    Recipients = {r1, r2}
    MaxTimestamp = 4
    Coins = {c1, c2, c3}
    Reserved = {c3}
    PathUSD = pusd
    ZeroAddress = zero
    MaxBooks = 2
    Hashes = {h1, h2, h3, h4}
    ValidBefore <- MCValidBefore
    SmallRing = 2
    LargeRing = 3
    ShortWindow = 2
    LongWindow = 3
    NoHash = NoHash
    MaxBlockTime = 4
    PublicKeys = {k1, k2, k3}
    ValidatorAddresses = {a1, a2, a3}
    Ingresses = {i1, i2, i3}
    V1Lists <- MCV1Lists
    MaxRecords = 4
    Tickets = {t1, t2}
    Sender = sender
    RefundTo = refundto
    Heir = heir
    Callee = callee
    Network = network
    Donor = donor
    CallValue = 2
    SubmissionFee = 1
    DepositSizes = {0, 6}
    MaxFees = {2}
    GasLimits = {1}
    FeeCaps = {2}
    MinGas = 1
    Lifetime = 1
    Savings = 5
    DonorSavings = 1
    Unlimited = 9
    MaxScheduled = 2
    MaxWindows = 1
    MaxSeconds = 3
CHECK_DEADLOCK FALSE
INVARIANTS
    ShedsExactly
    BookSound
    TradesFair
    StakingSound
    
    PoolSound
    
    GrantsExact
    RoutesSound
    NoReplay
    RegistryExact
    
PROPERTIES
    ShareValueKept
