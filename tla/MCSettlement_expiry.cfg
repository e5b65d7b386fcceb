SPECIFICATION Spec
CONSTANTS
    A = A
    B = B
    a0 = a0
    b0 = b0
    b1 = b1
    ACME = ACME
    ART = ART
    venue = venue
    r1 = r1
    r2 = r2
    NoPortfolio = NoPortfolio
    NoVenue = NoVenue
    Identities = {A, B}
    Portfolios = {a0, b0, b1}
    Fungible = {ACME}
    Collections = {ART}
    NftIds = {}
    MaxSupply = 3
    MaxAmount = 0
    PortfolioDid <- MCPortfolioDid
    DefaultOf <- MCDefaultOf
    Agent <- MCAgent
    Endowment <- MCEndowment
    NftEndowment <- NoNfts
    Venues = {venue}
    VenueCreator <- MCVenueCreator
    Receipts = {}
    SignerOf <- MCSignerOf
    MaxInstructions = 1
    MaxLegs = 2
    LegLists <- OneTokenLegs
    Kinds = {"SettleOnAffirmation"}
    PreApprovals = {}
    MediatorSets = {{B}}
    FilteredTickers = {}
    MaxBlock = 5
PROPERTIES
    NoExecutionAfterExpiry
CHECK_DEADLOCK FALSE
