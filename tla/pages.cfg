SPECIFICATION AroundSpec
CONSTANTS
    org = org
    pool = pool
    alice = alice
    Contract = Contract
    None = None
    Address = {org, pool, alice}
    Signers = {org, alice}
    Pool = pool
    InitialBalance <- AroundBalance
    TransferAmounts = {}
    Terms <- OneSeat
    MaxEvents = 1
    MaxTime = 2
    MaxI128 = 100000
    Viewer = {org, alice}
    PageSize = 2
    Entered <- TypedTimes
    FallBack = 30
    Bonds = {None, 0, 5, 100001}
    Capacities = {0, 20, 51}
    MaxU32 = 50
    Shares = {80, 101}
    Wasm = {w1, w2}
    Matched = {"env", "readme"}
    MaxDeploys = 5
    DepositId = {1}
    Amount = {100, 150}
    Malformed = {0}
    Default = 150
    Second = 2
    Margin = 1
    Early = 1
    Lifetimes = {None, 1, 2}
    MaxNow = 7
    Ledgered <- SmallAccounts
    BaseReserves = {1, 2}
    Fee = 1
    MaxForgotten = 1
INVARIANTS
    FreshAfterSuccess
    PredictionsRight
    ListCompleteOrSaid
    FormAndContractAgree
    RecordsAgree
    RatesAgree
    LapseNoticed
    OfferIsTheNetworks
\* The clock is bounded, and nobody need act.
CHECK_DEADLOCK FALSE
