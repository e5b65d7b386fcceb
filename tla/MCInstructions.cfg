SPECIFICATION MCSpec
CONSTANTS
    A = A
    B = B
    a0 = a0
    b0 = b0
    b1 = b1
    ACME = ACME
    ART = ART
    venue = venue
    r1 = r1
    r2 = r2
    NoPortfolio = NoPortfolio
    NoVenue = NoVenue
    Identities = {A, B}
    Portfolios = {a0, b0, b1}
    CASH = CASH
    Fungible = {ACME, CASH}
    Collections = {ART}
    NftIds = {1, 2}
    MaxSupply = 2
    MaxAmount = 1
    PortfolioDid <- MCPortfolioDid
    DefaultOf <- MCDefaultOf
    Agent <- LedgerAgent
    Endowment <- LedgerEndowment
    NftEndowment <- LedgerNfts
    Venues = {venue}
    VenueCreator <- MCVenueCreator
    Receipts = {r1, r2}
    SignerOf <- MCSignerOf
    MaxInstructions = 2
    MaxLegs = 3
    LegLists <- PaidLegs
    Kinds = {"SettleOnAffirmation", "SettleOnBlock", "SettleManual"}
    PreApprovals <- ReceiverPreApproves
    MediatorSets = {{}, {B}}
    FilteredTickers = {ACME}
    MaxBlock = 4
INVARIANTS
    LedgerSafe
    TotalsAgree
    InstructionBooksExact

    
CHECK_DEADLOCK FALSE
