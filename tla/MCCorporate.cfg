SPECIFICATION MCSpec
CONSTANTS
  Holders = {"h1", "h2"}
  Issuer = "h1"
  FirstBalance <- MCFirst
  ScheduleForms = {{1, 2}}
  Complexities = {2}
  MaxSchedules = 2
  MaxCheckpoints = 3
  MaxCpTime = 2
  MaxMoves = 2
  TargetForms <- MCTargets
  Taxes = {1}
  TaxUnit = 4
  MaxDidWhts = 1
  BallotForms <- MCBallots
  VoteForms <- MCVotes
  DistForms <- MCDists
  ShareUnit = 2
  CurrencyUnit = 1
  MaxCAs = 2
  Cash = 4
INVARIANTS SchedulesExact RecordDateKept BallotExact DistributionExact
CHECK_DEADLOCK FALSE
