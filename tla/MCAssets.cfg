SPECIFICATION MCSpec
CONSTANTS
  Dids = {d1, d2}
  Reserve = fiat
  Tickers <- MCTickers
  Reserved <- MCReserved
  MaxTickerLength = 1
  RegistrationLength = 1
  CustomPerms <- MCPerms
  MaxGroups = 1
  MaxPending = 1
  MaxAssetTime = 2
  MetaNames = {n1, n2}
  MetaValues = {v1}
  MaxLocalKeys = 2
  MaxGlobalKeys = 1
  MaxMetaTime = 2
  MaxCollectionKeys = 1
  Docs = {c1}
  MaxDocs = 3
  TypeNames = {y1}
  Mediators = {m1, m2}
  MaxAssetMediators = 1
  Receivers = {h1}
  Securities = {"acme", "usd"}
  Wallets = {"a1", "a2", "b1"}
  WalletDid <- MCWalletDid
  AgentDid = "alice"
  Unit = 2
  SupplyCap = 3
  MaxIssued = 5
  Rounds = {"r1", "r2"}
  Amounts = {1, 2}
  Offers <- MCOffers
  PriceUnit = 2
  MaxPrices = {2, 99}
  NoLimit = 99
  MAX_TIERS = 10
  MaxFundraisers = 1
  MaxStoTime = 2
  Samples <- MCSamples
  MaxTypos = 2
  Persons = {"p", "q", "r"}
  Providers = {"p", "q"}
  CustomKinds = {"k"}
  MaxMoment = 1
  Leeways = {0, 1}
  ClaimValues <- MCValues
  Expiries <- MCExpiries
  StatTypes <- MCTypes
  StatSets <- MCSets
  ConditionSets <- MCConds
  MaxStats = 2
  Whole = 10
  IssueLimit = 2
  Figures = {0, 1, 2}
  RuleForms <- MCRules
  TrustForms <- MCTrust
  RuleIds = {1, 2}
  MaxConditionComplexity = 4
  MaxRules = 2
INVARIANTS AdminExact 
PROPERTIES RecordsExact TyposDetected  InvestorLimitsHold 
CHECK_DEADLOCK FALSE
