SPECIFICATION MSFairSpec
CONSTANTS
    A = A
    a = a
    b = b
    c = c
    ms = ms
    NoKey = NoKey
    NoDid = NoDid
    KeySet = {a, b, c, ms}
    Dids = {A}
    GenesisKey <- MCGenesisKey
    CddProviders = {A}
    Offers = {}
    MaxAuths = 2
    Consents = {}
    VolatileCdd = {A}
    Freezers = {}
    RotationRules = {TRUE}
    MultiSigs = {ms}
    Invitees = {b, c}
    MaxProposals = 1
    Calls <- MCCalls
    SigsRequired = {1, 2}
    RemovalLists <- MCRemovalLists
    Expiries = {TRUE}

    
PROPERTIES
    MultisigChangesSafely
    ApprovedRuns
