SPECIFICATION Spec
CONSTANTS
    MinimumBalance = 0
    Parts = 100
    Stashes <- AllStashes
    Controllers <- AllControllers
    Dids = {"d", "e"}
    DidOf <- StashDids
    BondingDuration = 3
    MaxUnlockingChunks = 2
    MinimumBond = 1
    MaxNominations = 2
    BondValues = {1, 2}
    Commissions = {0, 10}
    Thresholds = {0, 2}
    StartFree = 3
    SessionsPerEra = 2
    SlashDeferDuration = 1
    MinimumValidatorCount = 1
    MaxNominatorRewarded = 1
    RewardProportion = 10
    Invulnerables = {"w"}
    EraPayouts <- Payouts
    Fractions = {50, 100}
    MaxSession = 6
    MaxPoints = 1
    MaxCalls <- CallsOf
INVARIANT StakersExact
INVARIANT SettledOnce
PROPERTY WithdrawalKeepsSlashable
INVARIANT WindowCloses
CHECK_DEADLOCK FALSE
