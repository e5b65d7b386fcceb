SPECIFICATION MCSpec
CONSTANTS
    A = A
    B = B
    D = D
    a = a
    b = b
    c = c
    NoKey = NoKey
    NoDid = NoDid
    KeySet = {a, b, c}
    Dids = {A, B, D}
    GenesisKey <- MCGenesisKey
    CddProviders = {A}
    Offers <- MCOffers
    MaxAuths = 2
    Consents <- MCConsents
    VolatileCdd = {}
    Freezers = {A}
    RotationRules = {TRUE}
    n1 = n1
    n2 = n2
    Holders = {B, D}
    Names = {n1, n2}
    MaxNumber = 1
    MaxCustodyAuths = 1
    PalletNames = {pallet}
    FunctionNames = {function}
    PortfolioIds = {p1, p2}
    Other = other
    MaxPallets = 1
    MaxPortfolios = 2
    MaxDepth = 2
SYMMETRY Alike
INVARIANTS
    KeyMapsAgree
    PermissionChecksExact
PROPERTIES
    KeysNeedConsent
    ActsWithinPermissions
    CustodySound
