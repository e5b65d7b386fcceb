SPECIFICATION Spec
CONSTANTS
    Users = {"u"}
    Addresses = {"c1", "c2"}
    Extrinsics = {"call", "instantiate", "instantiatePerms", "instantiateChild", "leave"}
    Apis = {"P"}
    Hashes = {1, 2}
    MaxLen = 1
    MaxFrames = 5
    MaxVersion = 2
    MaxRootCalls = 3
    Owners = {"a", "b"}
    Contract = "k"
    Tickers = {"T1", "T2"}
    Ticker1 = "T1"
    Ticker2 = "T2"
    Amounts = {1, 2}
    Uploaded = {"h1"}
    NeverUploaded = {"h0"}
    MaxPortfolio = 1
    MaxInstructions = 1
    InitFee = 1
    Issue = 6
    Gift = 1
    RuleSet <- MCRuleSet
    Prices = {1, 4}
    MaxOwnerSteps = 3
    MaxTrades = 7
    Holders = {"x", "y"}
    Values = {0, 1, 2}
    Supply = 3
    Starts = {1, 2}
    Durations = {0, 1, 3}
    MaxTime = 5
    Codes = {"m1", "m2"}
    Admin = "x"
    Steps = {1, 2}
    Limit = 4
INVARIANT ContextExact
INVARIANT ApiNeverGoesBack
 
CHECK_DEADLOCK FALSE
