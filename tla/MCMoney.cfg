SPECIFICATION MCSpec
CONSTANTS
    A = A
    B = B
    keyA = keyA
    keyB = keyB
    keyC = keyC
    NoKey = NoKey
    NoDid = NoDid
    KeySet = {keyA, keyB, keyC}
    Dids = {A, B}
    GenesisKey <- MCGenesisKey
    CddProviders = {A}
    Offers <- MCOffers
    MaxAuths = 3
    Consents = {}
    VolatileCdd = {B}
    Freezers = {A}
    RotationRules = {}
    Users = {keyB, keyC}
    Payers = {keyA, keyC}
    MaxLimit = 1
    Fees = {1}
    Txs = {1, 2}
    MintAmounts = {1, 2}
    BridgeConfs <- MCBridgeConfs
    Workloads <- MCWorkloads
    Interval = 3
    MaxBridgeBlock = 3
    MaxBridgeTasks = 2
    Accounts <- MCAccounts
    CddAccounts = {"alice", "bob", "carol", "treasury"}
    Extrinsics <- MCExtrinsics
    RootCalls <- MCRootCalls
    PalletOps <- MCPalletOps
    Ledgers <- MCLedgers
    Derivative <- MCDerivative
    Grant = 3
    BaseFee = 0
    MaxWeight = 2
    MaxSteps = 4
INVARIANTS
    SubsidyBooksExact
PROPERTIES
    SubsidyBinds
    MintsOnce
    
    PolyxExact
CHECK_DEADLOCK FALSE
