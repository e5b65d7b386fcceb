SPECIFICATION Spec
CONSTANTS
    A = A
    B = B
    a0 = a0
    b0 = b0
    b1 = b1
    ACME = ACME
    ART = ART
    venue = venue
    r1 = r1
    r2 = r2
    NoPortfolio = NoPortfolio
    NoVenue = NoVenue
    Identities = {A, B}
    Portfolios = {a0, b0, b1}
    Fungible = {ACME}
    Collections = {ART}
    NftIds = {1}
    MaxSupply = 3
    MaxAmount = 1
    PortfolioDid <- MCPortfolioDid
    DefaultOf <- MCDefaultOf
    Agent <- MCAgent
    Endowment <- MCEndowment
    NftEndowment <- MCNftEndowment
    Venues = {venue}
    VenueCreator <- MCVenueCreator
    Receipts = {}
    SignerOf <- MCSignerOf
    MaxInstructions = 2
    MaxLegs = 2
    LegLists <- TradeLegs
    Kinds = {"SettleOnAffirmation"}
    PreApprovals = {}
    MediatorSets = {{}}
    FilteredTickers = {}
    MaxBlock = 3
INVARIANTS
    InstructionsBacked
PROPERTIES
    SettlesAllLegsWithConsent
CHECK_DEADLOCK FALSE
